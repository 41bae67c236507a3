--------------------------- MODULE Storage_proofs ---------------------------
(* Buffer, RunLength and BitView, and the types of all parts of Storage.     *)
EXTENDS StorageArrays_proofs, SequenceTheorems

---------------------------------------------------------------------------
(* Buffer                                                                    *)

\* Blocks are sequences with a length from 1 to MaxSize, and the other way round.
LEMMA Blocks ==
    /\ \A c \in Buf!Block : /\ c \in Seq(Cell) /\ Len(c) \in 1 .. MaxSize
                            /\ c \in [1 .. Len(c) -> Cell]
    /\ \A m \in 1 .. MaxSize : \A c \in [1 .. m -> Cell] : c \in Buf!Block /\ Len(c) = m
<1>1. MaxSize \in Nat
  BY BufferAssumption DEF Buf!BufferConstants
<1>2. ASSUME NEW m \in 1 .. MaxSize, NEW c \in [1 .. m -> Cell]
      PROVE  c \in Buf!Block /\ c \in Seq(Cell) /\ Len(c) = m
  <2>1. c \in Buf!Block
    BY DEF Buf!Block
  <2>2. m \in Nat /\ c \in Seq(Cell) /\ DOMAIN c = 1 .. m
    BY <1>1
  <2> QED
    BY <2>1, <2>2
<1>3. ASSUME NEW c \in Buf!Block
      PROVE  /\ c \in Seq(Cell) /\ Len(c) \in 1 .. MaxSize
             /\ c \in [1 .. Len(c) -> Cell]
  <2>1. PICK m \in 1 .. MaxSize : c \in [1 .. m -> Cell]
    BY DEF Buf!Block
  <2> QED
    BY <2>1, <1>2
<1> QED
  BY <1>2, <1>3

BufferInv == Buf!TypeOK /\ Buf!PointersFit

\* The heap without the buffer's own block.
LEMMA FreedHeap ==
    ASSUME Buf!TypeOK
    PROVE  /\ DOMAIN Buf!Freed = DOMAIN heap \ {ptr}
           /\ \A a \in DOMAIN Buf!Freed : Buf!Freed[a] = heap[a]
           /\ ptr = Null => DOMAIN Buf!Freed = DOMAIN heap
BY BufferAssumption DEF Buf!Freed, Buf!Restrict, Buf!TypeOK, Buf!BufferConstants

\* A new block takes the place of the buffer's own one.
LEMMA ReplacedHeap ==
    ASSUME Buf!TypeOK, NEW a \in Addr, NEW c \in Buf!Block
    PROVE  /\ DOMAIN Buf!Replaced(a, c) = (DOMAIN heap \ {ptr}) \cup {a}
           /\ Buf!Replaced(a, c)[a] = c
           /\ \A b \in DOMAIN Buf!Replaced(a, c) : Buf!Replaced(a, c)[b] \in Buf!Block
<1>1. DOMAIN Buf!Freed = DOMAIN heap \ {ptr}
  BY FreedHeap
<1>2. \A b \in DOMAIN heap : heap[b] \in Buf!Block
  BY DEF Buf!TypeOK
<1> QED
  BY <1>1, <1>2 DEF Buf!Replaced

\* A block of the length asked for becomes the buffer's, and the client's
\* pointer shows it, or is left in the heap or at null.
LEMMA BufferNewBlock ==
    ASSUME BufferInv, NEW a \in Addr, NEW c \in Buf!Block,
           heap' = Buf!Replaced(a, c), ptr' = a, size' = Len(c),
           managed' = managed, alive, alive' = alive, view' \in Addr \cup {Null},
           managed => \/ view' \in {a, Null}
                      \/ view' = view /\ ptr = Null
    PROVE  BufferInv'
<1>1. Null \notin Addr /\ MaxSize \in Nat
  BY BufferAssumption DEF Buf!BufferConstants
<1>2. Len(c) \in 1 .. MaxSize
  BY Blocks
<1>3. Len(c) \in 0 .. MaxSize /\ Len(c) # 0
  BY <1>1, <1>2
<1>4. /\ DOMAIN heap' = (DOMAIN heap \ {ptr}) \cup {a}
      /\ heap'[a] = c
      /\ \A b \in DOMAIN heap' : heap'[b] \in Buf!Block
  BY ReplacedHeap DEF BufferInv
<1>5. Buf!TypeOK'
  BY <1>3, <1>4 DEF BufferInv, Buf!TypeOK
<1>9. alive' \/ ptr' = Null
  OBVIOUS
<1>6. (size' = 0) = (ptr' = Null)
  BY <1>1, <1>3
<1>7. ptr' \in DOMAIN heap' /\ Len(heap'[ptr']) = size'
  BY <1>4
<1>8. managed' /\ view' # Null => view' \in DOMAIN heap'
  BY <1>1, <1>4 DEF BufferInv, Buf!TypeOK, Buf!PointersFit
<1> QED
  BY <1>5, <1>6, <1>7, <1>8, <1>9 DEF BufferInv, Buf!PointersFit

\* The buffer has given its block up.
LEMMA BufferNoBlock ==
    ASSUME BufferInv, ptr' = Null, size' = 0, managed' = managed,
           heap' = Buf!Freed, alive' \in BOOLEAN,
           view' \in Addr \cup {Null},
           managed => view' = Null \/ (view' = view /\ ptr = Null)
    PROVE  BufferInv'
<1>1. Null \notin Addr /\ MaxSize \in Nat
  BY BufferAssumption DEF Buf!BufferConstants
<1>2. /\ DOMAIN heap' = DOMAIN heap \ {ptr}
      /\ \A a \in DOMAIN heap' : heap'[a] = heap[a]
  BY FreedHeap DEF BufferInv
<1>3. Buf!TypeOK'
  BY <1>1, <1>2 DEF BufferInv, Buf!TypeOK
<1>4. managed' /\ view' # Null => view' \in DOMAIN heap'
  BY <1>1, <1>2 DEF BufferInv, Buf!TypeOK, Buf!PointersFit
<1> QED
  BY <1>3, <1>4 DEF BufferInv, Buf!PointersFit

\* The block stays where it is and gets another content of its length.
LEMMA BufferSameBlock ==
    ASSUME BufferInv, ptr # Null, NEW c \in Buf!Block, Len(c) = size,
           heap' = [heap EXCEPT ![ptr] = c],
           UNCHANGED <<ptr, size, managed, view, alive>>
    PROVE  BufferInv'
BY DEF BufferInv, Buf!TypeOK, Buf!PointersFit

LEMMA BufferDealloc == BufferInv /\ Buf!dealloc => BufferInv'
<1> SUFFICES ASSUME BufferInv, Buf!dealloc PROVE BufferInv'
  OBVIOUS
<1>1. ptr' = Null /\ size' = 0 /\ managed' = managed /\ heap' = Buf!Freed
  BY DEF Buf!dealloc
<1>4. alive' \in BOOLEAN
  BY DEF Buf!dealloc, BufferInv, Buf!TypeOK
<1>2. CASE ptr = Null /\ view' = view
  <2>1. view' \in Addr \cup {Null}
    BY <1>2 DEF BufferInv, Buf!TypeOK
  <2> QED
    BY <1>1, <1>2, <1>4, <2>1, BufferNoBlock
<1>3. CASE view' = IF managed THEN Null ELSE view
  <2>1. view' \in Addr \cup {Null} /\ (managed => view' = Null)
    BY <1>3 DEF BufferInv, Buf!TypeOK
  <2>2. managed => view' = Null \/ (view' = view /\ ptr = Null)
    BY <2>1
  <2> QED
    BY <1>1, <1>4, <2>1, <2>2, BufferNoBlock
<1> QED
  BY <1>2, <1>3 DEF Buf!dealloc, Buf!Show

\* A block is moved, or it is forgotten: then the program may have ended.
LEMMA BufferMoved ==
    ASSUME BufferInv, alive, NEW c \in Buf!Block, Buf!Moved(c)
    PROVE  BufferInv'
<1>0. view \in Addr \cup {Null} /\ managed' = managed /\ alive' = alive
  BY DEF BufferInv, Buf!TypeOK, Buf!Moved
<1>1. PICK a \in Addr \ DOMAIN heap :
         /\ heap' = Buf!Replaced(a, c) /\ ptr' = a /\ size' = Len(c)
         /\ IF ptr = Null THEN UNCHANGED view ELSE Buf!Show(Null)
  BY DEF Buf!Moved
<1>2. /\ view' \in Addr \cup {Null}
      /\ managed => \/ view' \in {a, Null}
                    \/ view' = view /\ ptr = Null
  BY <1>0, <1>1 DEF Buf!Show
<1> QED
  BY <1>0, <1>1, <1>2, BufferNewBlock

LEMMA BufferMoveFailed ==
    ASSUME BufferInv, NEW c, Buf!MoveFailed(c), alive' \in BOOLEAN
    PROVE  BufferInv'
<1>1. /\ ptr' = Null /\ size' = 0 /\ UNCHANGED <<heap, managed, view>>
      /\ MaxSize \in Nat
  BY BufferAssumption DEF Buf!BufferConstants, Buf!MoveFailed
<1>2. Buf!TypeOK'
  BY <1>1 DEF BufferInv, Buf!TypeOK
<1> QED
  BY <1>1, <1>2 DEF BufferInv, Buf!PointersFit

LEMMA BufferReallocate ==
    ASSUME BufferInv, alive, NEW c \in Buf!Block, Buf!Reallocate(c)
    PROVE  BufferInv'
<1>1. UNCHANGED alive => alive' \in BOOLEAN
  BY DEF BufferInv, Buf!TypeOK
<1> QED
  BY <1>1, BufferMoved, BufferMoveFailed DEF Buf!Reallocate

LEMMA BufferAllocated ==
    ASSUME BufferInv, alive, NEW c \in Buf!Block \cup {<< >>}, Buf!Allocated(c)
    PROVE  BufferInv'
<1>0. /\ view \in Addr \cup {Null}
      /\ size \in Nat /\ (size = 0) = (ptr = Null)
      /\ DOMAIN heap \subseteq Addr
  BY BufferAssumption DEF Buf!BufferConstants, BufferInv, Buf!TypeOK, Buf!PointersFit
<1>1. Len(c) # 0 => c \in Buf!Block
  OBVIOUS
<1>2. CASE /\ Len(c) = size
           /\ heap' = IF size = 0 THEN heap ELSE [heap EXCEPT ![ptr] = c]
           /\ UNCHANGED <<ptr, size, managed, view, alive>>
  <2>1. CASE size = 0
    BY <1>2, <2>1 DEF BufferInv, Buf!TypeOK, Buf!PointersFit
  <2>2. CASE size # 0
    BY <1>0, <1>1, <1>2, <2>2, BufferSameBlock
  <2> QED
    BY <2>1, <2>2
<1>3. CASE Buf!dealloc
  BY <1>3, BufferDealloc
<1>4. ASSUME Len(c) \notin {0, size}, managed' = managed, alive' = alive,
             NEW a \in Addr \ DOMAIN Buf!Freed,
             heap' = Buf!Replaced(a, c), ptr' = a, size' = Len(c), Buf!Show(a)
      PROVE  BufferInv'
  <2>1. /\ view' \in Addr \cup {Null}
        /\ managed => view' \in {a, Null}
    BY <1>0, <1>4 DEF Buf!Show
  <2> QED
    BY <1>1, <1>4, <2>1, BufferNewBlock
<1> QED
  BY <1>2, <1>3, <1>4 DEF Buf!Allocated

LEMMA BufferAllocFailed ==
    ASSUME BufferInv, NEW c, Buf!AllocFailed(c), alive' \in BOOLEAN
    PROVE  BufferInv'
<1>1. /\ managed' = managed /\ heap' = Buf!Freed /\ ptr' = Null /\ size' = 0
      /\ Buf!Show(Null)
      /\ view \in Addr \cup {Null}
  BY DEF Buf!AllocFailed, BufferInv, Buf!TypeOK
<1>2. /\ view' \in Addr \cup {Null}
      /\ managed => view' = Null
  BY <1>1 DEF Buf!Show
<1>3. managed => view' = Null \/ (view' = view /\ ptr = Null)
  BY <1>2
<1> QED
  BY <1>1, <1>2, <1>3, BufferNoBlock

\* Whether the failure of alloc() is noticed or not.
LEMMA BufferInit ==
    ASSUME BufferInv, alive, NEW c \in Buf!Block \cup {<< >>},
           Buf!init(c) \/ Buf!initVector(c)
    PROVE  BufferInv'
<1>1. UNCHANGED alive => alive' \in BOOLEAN
  BY DEF BufferInv, Buf!TypeOK
<1>2. CASE Buf!Allocated(c)
  BY <1>2, BufferAllocated
<1>3. CASE Buf!AllocFailed(c) /\ UNCHANGED alive
  BY <1>1, <1>3, BufferAllocFailed
<1>4. CASE Buf!AllocFailed(c) /\ alive' = FALSE
  <2>1. alive' \in BOOLEAN
    BY <1>4
  <2> QED
    BY <1>4, <2>1, BufferAllocFailed
<1> QED
  BY <1>2, <1>3, <1>4 DEF Buf!init, Buf!initVector

LEMMA BufferResizePad ==
    ASSUME BufferInv, alive, NEW m \in 0 .. MaxSize, NEW pad \in Cell,
           Buf!resizePad(m, pad)
    PROVE  BufferInv'
<1> DEFINE c == Buf!Padded(m, pad)
<1>1. CASE UNCHANGED Buf!vars
  BY <1>1 DEF Buf!vars, BufferInv, Buf!TypeOK, Buf!PointersFit
<1>2. CASE Buf!dealloc
  BY <1>2, BufferDealloc
<1>3. CASE Buf!Moved(c)
  <2>0. /\ MaxSize \in Nat /\ m \in Nat /\ size \in 0 .. MaxSize
        /\ (size = 0) = (ptr = Null)
        /\ ptr # Null => /\ ptr \in DOMAIN heap /\ heap[ptr] \in Buf!Block
                         /\ Len(heap[ptr]) = size
    BY BufferAssumption DEF Buf!BufferConstants, BufferInv, Buf!TypeOK, Buf!PointersFit
  <2>1. ASSUME NEW i \in 1 .. m, i <= size PROVE Buf!Content[i] \in Cell
    <3>1. ptr # Null /\ Buf!Content = heap[ptr] /\ i \in 1 .. Len(heap[ptr])
      BY <2>0, <2>1 DEF Buf!Content
    <3> QED
      BY <2>0, <3>1, Blocks
  <2>2. c \in [1 .. m -> Cell]
    BY <2>1 DEF Buf!Padded
  <2>3. m # 0
    <3> SUFFICES ASSUME m = 0 PROVE FALSE
      OBVIOUS
    <3>1. Len(c) = 0
      BY DEF Buf!Padded
    <3> QED
      BY <1>3, <3>1 DEF Buf!Moved
  <2>4. c \in Buf!Block
    BY <2>0, <2>2, <2>3, Blocks
  <2> QED
    BY <1>3, <2>4, BufferMoved
<1>4. CASE Buf!MoveFailed(c) /\ alive' \in BOOLEAN
  BY <1>4, BufferMoveFailed
<1> QED
  BY <1>1, <1>2, <1>3, <1>4 DEF Buf!resizePad

LEMMA BufferStrip ==
    ASSUME BufferInv, alive, NEW m \in 0 .. MaxSize, Buf!strip(m)
    PROVE  BufferInv'
<1> DEFINE rest == SubSeq(Buf!Content, m + 1, size)
<1>0. /\ MaxSize \in Nat /\ m \in Nat
      /\ size \in 0 .. MaxSize /\ (size = 0) = (ptr = Null)
      /\ ptr # Null => ptr \in DOMAIN heap /\ heap[ptr] \in Buf!Block /\ Len(heap[ptr]) = size
  BY BufferAssumption DEF Buf!BufferConstants, BufferInv, Buf!TypeOK, Buf!PointersFit
<1>1. CASE m = 0 /\ UNCHANGED <<heap, ptr, size, managed, view, alive>>
  BY <1>1 DEF BufferInv, Buf!TypeOK, Buf!PointersFit
<1>2. CASE Buf!dealloc
  BY <1>2, BufferDealloc
<1>3. CASE m > 0 /\ Buf!Reallocate(rest)
  <2>1. Len(rest) # 0
    BY <1>3 DEF Buf!Reallocate, Buf!Moved, Buf!MoveFailed
  <2>2. Buf!Content \in Seq(Cell) /\ Len(Buf!Content) = size
    BY <1>0, Blocks DEF Buf!Content
  <2>3. m + 1 <= size
    BY <1>0, <2>1, <2>2
  <2>4. size - m \in 1 .. MaxSize
    BY <1>0, <2>3
  <2>5. rest \in [1 .. size - m -> Cell]
    <3>1. m + 1 \in 1 .. Len(Buf!Content) + 1 /\ size \in m .. Len(Buf!Content)
      BY <1>0, <2>2, <2>3
    <3>2. /\ rest \in Seq(Cell)
          /\ Len(rest) = IF m + 1 <= size THEN size - (m + 1) + 1 ELSE 0
      BY <1>0, <2>2, <3>1, SubSeqProperties
    <3>3. Len(rest) = size - m
      BY <1>0, <2>3, <3>2
    <3>4. \A s \in Seq(Cell) : s \in [1 .. Len(s) -> Cell]
      OBVIOUS
    <3> HIDE DEF rest
    <3> QED
      BY <3>2, <3>3, <3>4
  <2>6. rest \in Buf!Block
    BY <2>4, <2>5, Blocks
  <2> QED
    BY <1>3, <2>6, BufferReallocate
<1> QED
  BY <1>1, <1>2, <1>3 DEF Buf!strip, Buf!vars

LEMMA BufferStep == BufferInv /\ [Buf!Next]_(Buf!vars) => BufferInv'
<1> SUFFICES ASSUME BufferInv, [Buf!Next]_(Buf!vars) PROVE BufferInv'
  OBVIOUS
<1>0. /\ MaxSize \in Nat
      /\ size \in 0 .. MaxSize /\ (size = 0) = (ptr = Null)
  BY BufferAssumption DEF Buf!BufferConstants, BufferInv, Buf!TypeOK, Buf!PointersFit
<1>1. CASE Buf!manage
  BY <1>1 DEF Buf!manage, BufferInv, Buf!TypeOK, Buf!PointersFit
<1>2. CASE Buf!dealloc
  BY <1>2, BufferDealloc
<1>3. CASE Buf!modify
  <2>1. PICK c \in [1 .. size -> Cell] : heap' = [heap EXCEPT ![ptr] = c]
    BY <1>3 DEF Buf!modify
  <2>2. ptr # Null /\ size \in 1 .. MaxSize /\ UNCHANGED <<ptr, size, managed, view, alive>>
    BY <1>0, <1>3 DEF Buf!modify
  <2>3. c \in Buf!Block /\ Len(c) = size
    BY <2>2, Blocks
  <2> QED
    BY <2>1, <2>2, <2>3, BufferSameBlock
<1>4. ASSUME alive, NEW c \in Buf!Block \cup {<< >>}, Buf!init(c) \/ Buf!initVector(c)
      PROVE  BufferInv'
  BY <1>4, BufferInit
<1>5. ASSUME alive, NEW m \in 0 .. MaxSize, Buf!resize(m) PROVE BufferInv'
  <2>1. CASE UNCHANGED <<heap, ptr, size, managed, view, alive>>
    BY <2>1 DEF BufferInv, Buf!TypeOK, Buf!PointersFit
  <2>2. ASSUME NEW c \in Buf!Extended(m), Buf!Reallocate(c) PROVE BufferInv'
    <3>1. c \in [1 .. m -> Cell]
      BY DEF Buf!Extended
    <3>2. m # 0
      <4> SUFFICES ASSUME m = 0 PROVE FALSE
        OBVIOUS
      <4>1. Len(c) = 0
        BY <3>1
      <4> QED
        BY <2>2, <4>1 DEF Buf!Reallocate, Buf!Moved, Buf!MoveFailed
    <3>3. c \in Buf!Block
      BY <1>0, <3>1, <3>2, Blocks
    <3> QED
      BY <1>5, <2>2, <3>3, BufferReallocate
  <2> QED
    BY <1>5, <2>1, <2>2, BufferDealloc DEF Buf!resize, Buf!vars
<1>6. ASSUME alive, NEW m \in 0 .. MaxSize, Buf!strip(m) PROVE BufferInv'
  BY <1>6, BufferStrip
<1>8. ASSUME alive, NEW m \in 0 .. MaxSize, NEW pad \in Cell, Buf!resizePad(m, pad)
      PROVE  BufferInv'
  BY <1>8, BufferResizePad
<1>7. CASE UNCHANGED Buf!vars
  BY <1>7 DEF Buf!vars, BufferInv, Buf!TypeOK, Buf!PointersFit
<1> QED
  BY <1>1, <1>2, <1>3, <1>4, <1>5, <1>6, <1>7, <1>8 DEF Buf!Next, Buf!Call

LEMMA BufferInvariant == Buf!Spec => []BufferInv
<1>1. Buf!Init => BufferInv
  <2> SUFFICES ASSUME Buf!Init PROVE BufferInv
    OBVIOUS
  <2>1. DOMAIN heap = {} /\ MaxSize \in Nat
    BY BufferAssumption DEF Buf!BufferConstants, Buf!Init
  <2>2. ptr = Null /\ size = 0 /\ managed = FALSE /\ view = Null
    BY DEF Buf!Init
  <2>3. size \in 0 .. MaxSize
    BY <2>1, <2>2
  <2>4. DOMAIN heap \subseteq Addr /\ \A a \in DOMAIN heap : heap[a] \in Buf!Block
    BY <2>1
  <2>5. managed \in BOOLEAN /\ alive /\ alive \in BOOLEAN
    BY Zenon DEF Buf!Init
  <2>6. Buf!TypeOK
    BY <2>2, <2>3, <2>4, <2>5 DEF Buf!TypeOK
  <2>7. Buf!PointersFit
    BY <2>2, <2>5 DEF Buf!PointersFit
  <2> QED
    BY <2>6, <2>7 DEF BufferInv
<1> QED
  BY <1>1, BufferStep, PTL DEF Buf!Spec
---------------------------------------------------------------------------
(* BitView                                                                   *)

\* A number is divided in one way.
LEMMA DivisionIsUnique ==
    ASSUME NEW m \in Nat, m > 0, NEW q \in Int, NEW s \in 0 .. m - 1,
           NEW d \in Int, NEW t \in 0 .. m - 1,
           (m * q) + s = (m * d) + t
    PROVE  s = t
<1> DEFINE e == q - d
<1>1. e \in Int /\ m * e = (m * q) - (m * d)
  OBVIOUS
<1>2. m * e = t - s
  BY <1>1
<1> HIDE DEF e
<1>3. e >= 1 => m * e >= m
  BY <1>1
<1>4. e <= -1 => m * e <= -m
  BY <1>1
<1>5. e = 0
  BY <1>1, <1>2, <1>3, <1>4
<1> QED
  BY <1>2, <1>5

\* The remainder of a sum of a multiple and a smaller number is that number.
LEMMA Remainder ==
    ASSUME NEW m \in Nat, m > 0, NEW q \in Nat, NEW s \in 0 .. m - 1
    PROVE  ((m * q) + s) % m = s
<1> DEFINE a == (m * q) + s
           d == a \div m
           t == a % m
<1>1. a \in Nat
  OBVIOUS
<1>2. d \in Int /\ t \in 0 .. m - 1 /\ a = (m * d) + t
  BY <1>1
<1> HIDE DEF d, t
<1>3. (m * q) + s = (m * d) + t
  BY <1>2
<1>4. s = t
  BY <1>2, <1>3, DivisionIsUnique
<1> QED
  BY <1>4 DEF t

\* What division gives.
LEMMA Division ==
    ASSUME NEW m \in Nat, m > 0, NEW a \in Nat
    PROVE  \E q \in Nat : a = (m * q) + (a % m) /\ a % m \in 0 .. m - 1
<1>1. /\ a \div m \in Nat /\ a % m \in 0 .. m - 1
      /\ a = (m * (a \div m)) + (a % m)
  OBVIOUS
<1> QED
  BY <1>1

\* A summand may be replaced by its remainder.
LEMMA RemainderOfSum ==
    ASSUME NEW m \in Nat, m > 0, NEW a \in Nat, NEW b \in Nat
    PROVE  ((a % m) + b) % m = (a + b) % m
<1> DEFINE s == a % m
           t == (s + b) % m
<1>1. PICK q \in Nat : a = (m * q) + s /\ s \in 0 .. m - 1
  BY Division
<1> HIDE DEF s
<1>2. s + b \in Nat
  BY <1>1
<1>3. PICK d \in Nat : s + b = (m * d) + t /\ t \in 0 .. m - 1
  BY <1>2, Division
<1> HIDE DEF t
<1>4. m * (q + d) = (m * q) + (m * d) /\ q + d \in Nat
  OBVIOUS
<1>5. a + b = (m * (q + d)) + t
  BY <1>1, <1>3, <1>4
<1>6. (a + b) % m = t
  BY <1>3, <1>4, <1>5, Remainder
<1> QED
  BY <1>6 DEF s, t

\* Numbers with the same remainder are at least the divisor apart.
LEMMA SameRemainder ==
    ASSUME NEW m \in Nat, m > 0, NEW a \in Nat, NEW b \in Nat,
           a <= b, b - a < m, a % m = b % m
    PROVE  a = b
<1> DEFINE s == a % m
<1>1. PICK q \in Nat : a = (m * q) + s /\ s \in 0 .. m - 1
  BY Division
<1>2. PICK d \in Nat : b = (m * d) + s
  BY Division
<1> HIDE DEF s
<1> DEFINE e == d - q
<1>3. e \in Int /\ m * e = (m * d) - (m * q)
  OBVIOUS
<1>4. m * e = b - a
  BY <1>1, <1>2, <1>3
<1> HIDE DEF e
<1>5. e >= 1 => m * e >= m
  BY <1>3
<1>6. e <= -1 => m * e <= -m
  BY <1>3
<1>7. e = 0
  BY <1>3, <1>4, <1>5, <1>6
<1> QED
  BY <1>4, <1>7

\* A byte that starts before a multiple of its width ends before it.
LEMMA ByteFits ==
    ASSUME NEW m \in Nat, m > 0, NEW a \in Nat, NEW z \in Nat, NEW b \in 0 .. m - 1,
           a % m = 0, z % m = 0, a < z
    PROVE  a + b < z
<1>1. PICK q \in Nat : a = (m * q) + 0
  BY Division
<1>2. PICK d \in Nat : z = (m * d) + 0
  BY Division
<1> DEFINE e == d - q
<1>3. e \in Int /\ m * e = (m * d) - (m * q)
  OBVIOUS
<1>4. m * e = z - a
  BY <1>1, <1>2, <1>3
<1> HIDE DEF e
<1>5. e <= 0 => m * e <= 0
  BY <1>3
<1>6. e >= 1 => m * e >= m
  BY <1>3
<1> QED
  BY <1>3, <1>4, <1>5, <1>6

LEMMA BitViewFacts == Width \in Nat /\ Width > 0 /\ Bytes \in Nat /\ Bytes > 0
BY BitViewAssumption DEF Bits!BitViewConstants

\* The addresses of a window lie in it.
LEMMA WindowRanges ==
    ASSUME Bits!TypeOK
    PROVE  /\ Width * Bytes \in Nat
           /\ first \in Nat /\ last \in Nat /\ last <= Width * Bytes
           /\ Bits!size \in Nat /\ Bits!size > 0 /\ first + Bits!size = last
           /\ \A i \in Nat : /\ Bits!normalize(i) \in 0 .. Bits!size - 1
                             /\ Bits!Address(i) \in Bits!Bits
<1>1. Width * Bytes \in Nat
  BY BitViewFacts
<1>2. first \in Nat /\ last \in Nat /\ last <= Width * Bytes /\ first < last
  BY <1>1 DEF Bits!TypeOK, Bits!Bits
<1>3. Bits!size \in Nat /\ Bits!size > 0 /\ first + Bits!size = last
  BY <1>2 DEF Bits!size
<1>4. ASSUME NEW i \in Nat
      PROVE  Bits!normalize(i) \in 0 .. Bits!size - 1 /\ Bits!Address(i) \in Bits!Bits
  <2>1. Bits!normalize(i) \in 0 .. Bits!size - 1
    BY <1>3 DEF Bits!normalize
  <2> QED
    BY <1>1, <1>2, <1>3, <2>1 DEF Bits!Address, Bits!Bits
<1> QED
  BY <1>1, <1>2, <1>3, <1>4

\* Both ways to a byte lead to the same bits, but to those that overshoot, and
\* these are in memory too.
LEMMA BitsOfByte ==
    ASSUME Bits!TypeOK, NEW i \in Nat, NEW b \in 0 .. Width - 1
    PROVE  Bits!BitsAt(i)[b] = Bits!Place(i, b) /\ Bits!BitsAt(i)[b] \in Bits!Bits
<1> DEFINE z == Bits!size
           x == Bits!normalize(i)
<1>1. /\ z \in Nat /\ z > 0 /\ first \in Nat
      /\ x \in 0 .. z - 1
      /\ Bits!Address(i) \in Bits!Bits
      /\ Bits!Address(i + b) \in Bits!Bits
  BY BitViewFacts, WindowRanges
<1>2. b \in Nat /\ Width \in Nat /\ Width > 0
  BY BitViewFacts
<1>3. x = i % z /\ Bits!Address(i) = first + x /\ Bits!Address(i + b) = first + ((i + b) % z)
  BY DEF Bits!normalize, Bits!Address
<1>4. Bits!Overshoots(i, b) = /\ first % Width # 0 /\ z % Width = 0
                              /\ (first + x) % Width = 0
                              /\ x + b >= z
  BY <1>3 DEF Bits!Overshoots
<1>5. Bits!Place(i, b) = IF Bits!Overshoots(i, b) THEN (first + x) + b
                                                  ELSE first + ((i + b) % z)
  BY <1>3 DEF Bits!Place
<1>6. Bits!IsFast(i) = ((first + x) % Width = 0 /\ z % Width = 0)
  BY <1>3 DEF Bits!IsFast
<1>7. Bits!BitsAt(i)[b] = IF Bits!IsFast(i) THEN (first + x) + b
                                            ELSE first + ((x + b) % z)
  BY <1>3 DEF Bits!BitsAt
<1>8. Bits!Bits = 0 .. Width * Bytes - 1
  BY DEF Bits!Bits
<1> HIDE DEF z, x
<1>9. (x + b) % z = (i + b) % z
  BY <1>1, <1>2, <1>3, RemainderOfSum
<1>10. x \in Nat /\ x < z /\ first + x \in Nat
  BY <1>1
<1>11. CASE Bits!IsFast(i)
  <2>1. Bits!BitsAt(i)[b] \in Bits!Bits
    <3> DEFINE all == Width * Bytes
    <3>1. all \in Nat /\ all % Width = 0
      <4>1. Width * Bytes \in Nat /\ (Width * Bytes) + 0 = Width * Bytes
        BY BitViewFacts
      <4>2. ((Width * Bytes) + 0) % Width = 0
        <5>1. 0 \in 0 .. Width - 1
          BY <1>2
        <5> QED
          BY <1>2, <5>1, BitViewFacts, Remainder
      <4> QED
        BY <4>1, <4>2
    <3>2. first + x < all
      BY <1>1, <1>3, <1>8, <3>1
    <3> HIDE DEF all
    <3>3. (first + x) + b < all
      BY <1>2, <1>6, <1>10, <1>11, <3>1, <3>2, ByteFits
    <3>4. (first + x) + b \in 0 .. all - 1
      BY <1>2, <1>10, <3>1, <3>3
    <3> QED
      BY <1>7, <1>8, <1>11, <3>4 DEF all
  <2>2. CASE Bits!Overshoots(i, b)
    BY <1>5, <1>7, <1>11, <2>1, <2>2
  <2>3. CASE ~ Bits!Overshoots(i, b)
    <3>1. ASSUME first % Width = 0 PROVE x + b < z
      <4>1. ((first % Width) + x) % Width = (first + x) % Width
        BY <1>1, <1>2, <1>10, RemainderOfSum
      <4>2. x % Width = 0
        <5>1. 0 + x = x
          BY <1>10
        <5> QED
          BY <1>6, <1>11, <3>1, <4>1, <5>1
      <4> QED
        BY <1>1, <1>2, <1>6, <1>10, <1>11, <4>2, ByteFits
    <3>2. x + b < z
      <4>1. (first + x) % Width = 0 /\ z % Width = 0
        BY <1>6, <1>11
      <4>2. first % Width = 0 \/ ~ (x + b >= z)
        BY <1>4, <2>3, <4>1
      <4>3. x + b \in Nat
        BY <1>2, <1>10
      <4> QED
        BY <1>1, <3>1, <4>2, <4>3
    <3>3. (x + b) % z = x + b
      BY <1>1, <1>2, <1>10, <3>2
    <3>4. first + (x + b) = (first + x) + b
      BY <1>1, <1>2, <1>10
    <3> QED
      BY <1>5, <1>7, <1>9, <1>11, <2>1, <2>3, <3>3, <3>4
  <2> QED
    BY <2>2, <2>3
<1>12. CASE ~ Bits!IsFast(i)
  BY <1>1, <1>3, <1>4, <1>5, <1>6, <1>7, <1>9, <1>12
<1> QED
  BY <1>11, <1>12

\* In a window of at least a byte, the bits of a byte are different bits.
LEMMA BitsDiffer ==
    ASSUME Bits!TypeOK, Bits!size >= Width, NEW i \in Nat,
           NEW b \in 0 .. Width - 1, NEW c \in 0 .. Width - 1,
           Bits!BitsAt(i)[b] = Bits!BitsAt(i)[c]
    PROVE  b = c
<1> DEFINE z == Bits!size
           x == Bits!normalize(i)
<1>1. /\ z \in Nat /\ z > 0 /\ first \in Nat /\ Width \in Nat /\ Width <= z
      /\ x \in Nat
  <2>1. x \in 0 .. z - 1 /\ z \in Nat
    BY WindowRanges
  <2> HIDE DEF x, z
  <2>2. x \in Nat
    BY <2>1
  <2> QED
    BY <2>2, BitViewFacts, WindowRanges DEF z
<1>2. /\ x + b \in Nat /\ x + c \in Nat /\ b \in Nat /\ c \in Nat
      /\ b < Width /\ c < Width
  BY <1>1
<1> HIDE DEF z, x
<1>4. CASE Bits!IsFast(i)
  <2>1. (first + x) + b = (first + x) + c
    BY <1>4 DEF Bits!BitsAt, Bits!Address, x
  <2> QED
    BY <1>1, <1>2, <2>1
<1>5. CASE ~ Bits!IsFast(i)
  <2>1. (x + b) % z \in Nat /\ (x + c) % z \in Nat
    BY <1>1, <1>2
  <2>0. first + ((x + b) % z) = first + ((x + c) % z)
    BY <1>5 DEF Bits!BitsAt, x, z
  <2>2. (x + b) % z = (x + c) % z
    BY <1>1, <2>0, <2>1
  <2>3. CASE x + b <= x + c
    <3>1. (x + c) - (x + b) < z
      BY <1>1, <1>2
    <3>2. x + b = x + c
      BY <1>1, <1>2, <2>2, <2>3, <3>1, SameRemainder
    <3> QED
      BY <1>1, <1>2, <3>2
  <2>4. CASE x + c <= x + b
    <3>1. (x + b) - (x + c) < z
      BY <1>1, <1>2
    <3>2. x + c = x + b
      BY <1>1, <1>2, <2>2, <2>4, <3>1, SameRemainder
    <3> QED
      BY <1>1, <1>2, <3>2
  <2> QED
    BY <1>2, <2>3, <2>4
<1> QED
  BY <1>4, <1>5

\* A set of numbers up to a bound has a greatest one.
LEMMA GreatestNumber ==
    ASSUME NEW m \in Nat, NEW S \in SUBSET (0 .. m), S # {}
    PROVE  \E x \in S : \A y \in S : y <= x
<1> DEFINE D == {k \in Nat : m - k \in S}
<1>1. PICK s \in S : TRUE
  OBVIOUS
<1>2. m - s \in D
  <2>1. s \in 0 .. m /\ m - (m - s) = s /\ m - s \in Nat
    OBVIOUS
  <2> QED
    BY <2>1
<1>3. PICK k \in D : \A j \in D : k <= j
  <2> HIDE DEF D
  <2>1. D \in SUBSET Nat
    BY DEF D
  <2> QED
    BY <1>2, <2>1, LeastNumber
<1>4. ASSUME NEW y \in S PROVE y <= m - k
  <2>1. y \in 0 .. m /\ m - (m - y) = y /\ m - y \in Nat
    OBVIOUS
  <2>2. k <= m - y
    BY <1>3, <2>1
  <2> QED
    BY <2>1, <2>2
<1> QED
  BY <1>3, <1>4

\* What setByte() leaves in memory.
LEMMA WrittenBits ==
    ASSUME Bits!TypeOK, NEW i \in Nat, NEW val \in Bits!Byte
    PROVE  /\ Bits!Written(i, val) \in [Bits!Bits -> Bits!Bit]
           /\ \A a \in Bits!Bits :
                 (\A b \in 0 .. Width - 1 : a # Bits!Place(i, b))
                 => Bits!Written(i, val)[a] = sp[a]
           /\ Bits!size >= Width
              => \A b \in 0 .. Width - 1 : Bits!Written(i, val)[Bits!Place(i, b)] = val[b]
<1> DEFINE Here(a) == {b \in 0 .. Width - 1 : Bits!BitsAt(i)[b] = a}
           Top(a)  == CHOOSE b \in Here(a) : \A c \in Here(a) : c <= b
<1>1. \A a \in Bits!Bits :
         Bits!Written(i, val)[a] = IF Here(a) = {} THEN sp[a] ELSE val[Top(a)]
  BY DEF Bits!Written
<1>2. Bits!Written(i, val) = [a \in Bits!Bits |-> Bits!Written(i, val)[a]]
  BY DEF Bits!Written
<1>3. ASSUME NEW a, Here(a) # {}
      PROVE  Top(a) \in Here(a) /\ Top(a) \in 0 .. Width - 1
  <2> DEFINE S == Here(a)
  <2>1. S \in SUBSET (0 .. Width - 1) /\ Width - 1 \in Nat
    BY BitViewFacts
  <2>2. S # {}
    BY <1>3
  <2> HIDE DEF S
  <2>3. \E x \in S : \A y \in S : y <= x
    BY <2>1, <2>2, GreatestNumber
  <2>4. \E x \in Here(a) : \A y \in Here(a) : y <= x
    BY <2>3 DEF S
  <2> QED
    BY <2>4
<1>4. \A b \in 0 .. Width - 1 : Bits!BitsAt(i)[b] = Bits!Place(i, b)
  BY BitsOfByte
<1>5. sp \in [Bits!Bits -> Bits!Bit] /\ val \in [0 .. Width - 1 -> Bits!Bit]
  BY DEF Bits!TypeOK, Bits!Byte
<1>6. ASSUME NEW a \in Bits!Bits PROVE Bits!Written(i, val)[a] \in Bits!Bit
  <2>1. CASE Here(a) = {}
    BY <1>1, <1>5, <2>1
  <2>2. CASE Here(a) # {}
    BY <1>1, <1>3, <1>5, <2>2
  <2> QED
    BY <2>1, <2>2
<1>7. ASSUME NEW a \in Bits!Bits,
             \A b \in 0 .. Width - 1 : a # Bits!Place(i, b)
      PROVE  Bits!Written(i, val)[a] = sp[a]
  <2>1. Here(a) = {}
    BY <1>4, <1>7
  <2> QED
    BY <1>1, <2>1
<1>8. ASSUME Bits!size >= Width, NEW b \in 0 .. Width - 1
      PROVE  Bits!Written(i, val)[Bits!Place(i, b)] = val[b]
  <2> DEFINE a == Bits!Place(i, b)
  <2>1. b \in Here(a) /\ a \in Bits!Bits
    BY BitsOfByte
  <2>2. Top(a) \in 0 .. Width - 1 /\ Bits!BitsAt(i)[Top(a)] = Bits!BitsAt(i)[b]
    BY <1>3, <2>1
  <2> HIDE DEF Top
  <2>3. Top(a) = b
    BY <1>8, <2>2, BitsDiffer
  <2> QED
    BY <1>1, <2>1, <2>3 DEF Top
<1> QED
  BY <1>2, <1>6, <1>7, <1>8

LEMMA BitViewStep == Bits!TypeOK /\ [Bits!Next]_(Bits!vars) => Bits!TypeOK'
<1> SUFFICES ASSUME Bits!TypeOK, [Bits!Next]_(Bits!vars) PROVE Bits!TypeOK'
  OBVIOUS
<1>0. /\ sp \in [Bits!Bits -> Bits!Bit]
      /\ \A i \in Bits!Bits : i \in Nat /\ Bits!Address(i) \in Bits!Bits
  <2>1. Bits!Bits \subseteq Nat
    BY DEF Bits!Bits
  <2> QED
    BY <2>1, WindowRanges DEF Bits!TypeOK
<1>1. ASSUME NEW i \in Bits!Bits, NEW value \in Bits!Bit, Bits!set(i, value)
      PROVE  Bits!TypeOK'
  <2>1. sp' \in [Bits!Bits -> Bits!Bit] /\ UNCHANGED <<first, last>>
    BY <1>0, <1>1 DEF Bits!set
  <2> QED
    BY <2>1 DEF Bits!TypeOK
<1>2. ASSUME NEW i \in Bits!Bits, NEW val \in Bits!Byte, Bits!setByte(i, val)
      PROVE  Bits!TypeOK'
  <2>1. sp' \in [Bits!Bits -> Bits!Bit] /\ UNCHANGED <<first, last>>
    BY <1>0, <1>2, WrittenBits DEF Bits!setByte
  <2> QED
    BY <2>1 DEF Bits!TypeOK
<1>3. ASSUME NEW offset \in 0 .. Bits!size - 1, NEW m \in 1 .. Bits!size,
             Bits!subview(offset, m)
      PROVE  Bits!TypeOK'
  <2>1. /\ Width * Bytes \in Nat
        /\ first \in Nat /\ last \in Nat /\ last <= Width * Bytes
        /\ Bits!size \in Nat /\ Bits!size > 0 /\ first + Bits!size = last
    BY WindowRanges
  <2>2. /\ offset + m <= Bits!size /\ sp' = sp
        /\ first' = first + offset /\ last' = first + offset + m
    BY <1>3 DEF Bits!subview
  <2>3. first' \in Nat /\ last' \in Nat /\ first' < last' /\ last' <= Width * Bytes
    BY <2>1, <2>2
  <2>4. first' \in Bits!Bits /\ last' \in first' + 1 .. Width * Bytes
    <3> DEFINE all == Width * Bytes
    <3>1. all \in Nat /\ last' <= all
      BY <2>1, <2>3
    <3> HIDE DEF all
    <3>2. \A f, e \in Nat : f < e /\ e <= all => f \in 0 .. all - 1 /\ e \in f + 1 .. all
      BY <3>1
    <3>3. first' \in 0 .. all - 1 /\ last' \in first' + 1 .. all
      BY <2>3, <3>1, <3>2
    <3> QED
      BY <3>3 DEF Bits!Bits, all
  <2> QED
    BY <1>0, <2>2, <2>4 DEF Bits!TypeOK
<1>4. CASE UNCHANGED Bits!vars
  BY <1>4 DEF Bits!vars, Bits!TypeOK
<1> QED
  BY <1>1, <1>2, <1>3, <1>4 DEF Bits!Next

LEMMA BitViewInvariant == Bits!Spec => [](Bits!TypeOK)
<1>1. Bits!Init => Bits!TypeOK
  <2> SUFFICES ASSUME Bits!Init PROVE Bits!TypeOK
    OBVIOUS
  <2>1. Width * Bytes \in Nat /\ Width * Bytes > 0
    BY BitViewFacts
  <2>2. first = 0 /\ last \in 1 .. Width * Bytes /\ sp = [a \in Bits!Bits |-> 0]
    BY DEF Bits!Init
  <2>3. first \in Bits!Bits /\ last \in first + 1 .. Width * Bytes
    BY <2>1, <2>2 DEF Bits!Bits
  <2>4. sp \in [Bits!Bits -> Bits!Bit]
    BY <2>2 DEF Bits!Bit
  <2> QED
    BY <2>3, <2>4 DEF Bits!TypeOK
<1> QED
  BY <1>1, BitViewStep, PTL DEF Bits!Spec

LEMMA BitViewPaths == Bits!TypeOK => Bits!PathsAgree
<1> SUFFICES ASSUME Bits!TypeOK, NEW i \in 0 .. Bits!size - 1
             PROVE  /\ \A b \in 0 .. Width - 1 : Bits!getByte(i)[b] = sp[Bits!Place(i, b)]
                    /\ \A m \in 1 .. 2 * Width : \A k \in 0 .. m - 1 :
                          Bits!getBits(i, m)[k]
                             = sp[Bits!Place((i + k) - (k % Width), k % Width)]
                    /\ \A val \in Bits!Byte :
                          LET after == Bits!Written(i, val)
                              hit == {Bits!Place(i, b) : b \in 0 .. Width - 1}
                          IN  /\ \A a \in Bits!Bits \ hit : after[a] = sp[a]
                              /\ Bits!size >= Width
                                 => \A b \in 0 .. Width - 1 :
                                       after[Bits!Place(i, b)] = val[b]
  BY DEF Bits!PathsAgree
<1>0. i \in Nat /\ Width \in Nat /\ Width > 0
  BY BitViewFacts, WindowRanges
<1>1. ASSUME NEW j \in Nat, NEW b \in 0 .. Width - 1
      PROVE  Bits!getByte(j)[b] = sp[Bits!Place(j, b)]
  <2>1. Bits!BitsAt(j)[b] = Bits!Place(j, b)
    BY <1>1, BitsOfByte
  <2> QED
    BY <2>1 DEF Bits!getByte
<1>2. ASSUME NEW m \in 1 .. 2 * Width, NEW k \in 0 .. m - 1
      PROVE  Bits!getBits(i, m)[k] = sp[Bits!Place((i + k) - (k % Width), k % Width)]
  <2>1. k \in Nat
    BY <1>0
  <2>2. k % Width \in 0 .. Width - 1 /\ k % Width <= k
    BY <1>0, <2>1
  <2>3. (i + k) - (k % Width) \in Nat
    BY <1>0, <2>1, <2>2
  <2>4. Bits!getByte((i + k) - (k % Width))[k % Width]
          = sp[Bits!Place((i + k) - (k % Width), k % Width)]
    BY <1>1, <2>2, <2>3
  <2> QED
    BY <2>4 DEF Bits!getBits
<1>3. ASSUME NEW val \in Bits!Byte
      PROVE  LET after == Bits!Written(i, val)
                 hit == {Bits!Place(i, b) : b \in 0 .. Width - 1}
             IN  /\ \A a \in Bits!Bits \ hit : after[a] = sp[a]
                 /\ Bits!size >= Width
                    => \A b \in 0 .. Width - 1 : after[Bits!Place(i, b)] = val[b]
  BY <1>0, WrittenBits
<1> QED
  BY <1>0, <1>1, <1>2, <1>3
---------------------------------------------------------------------------
(* RunLength                                                                 *)

\* No run is longer than what has been read.
RunLengthInv == Run!TypeOK /\ repetitions <= Len(input)

LEMMA CoderFacts == /\ n \in Ns => n \in Nat /\ n > 0
                    /\ Largest \in Nat /\ Largest > 0 /\ Largest \in Run!Byte
BY RunLengthAssumption DEF Run!RunLengthConstants, Run!Byte

\* The length of a run is encoded as bytes.
LEMMA LengthBytes ==
    ASSUME NEW k \in Nat
    PROVE  Run!runLength(k) \in Seq(Run!Byte)
<1>1. k \div Largest \in Nat /\ k % Largest \in Run!Byte /\ Largest \in Run!Byte
  BY CoderFacts DEF Run!Byte
<1>2. Run!Times(k \div Largest, Largest) \in Seq(Run!Byte)
  BY <1>1 DEF Run!Times
<1> QED
  BY <1>1, <1>2 DEF Run!runLength

\* A run is encoded as bytes.
LEMMA EncodedBytes ==
    ASSUME n \in Ns, NEW element \in Run!Byte, NEW times \in Nat
    PROVE  Run!encode(element, times) \in Seq(Run!Byte)
<1>0. n \in Nat /\ n > 0
  BY CoderFacts
<1>1. ASSUME NEW k \in Nat, NEW b \in Run!Byte PROVE Run!Times(k, b) \in Seq(Run!Byte)
  BY DEF Run!Times
<1>2. ASSUME NEW k \in Nat PROVE Run!runLength(k) \in Seq(Run!Byte)
  BY LengthBytes
<1>3. CASE times < n
  BY <1>1, <1>3 DEF Run!encode
<1>4. CASE ~ (times < n)
  <2>1. times - n \in Nat
    BY <1>0, <1>4
  <2>2. /\ Run!Times(n, element) \in Seq(Run!Byte)
        /\ Run!runLength(times - n) \in Seq(Run!Byte)
    BY <1>0, <1>1, <1>2, <2>1
  <2> QED
    BY <1>4, <2>2 DEF Run!encode
<1> QED
  BY <1>3, <1>4

LEMMA RunLengthStep == RunLengthInv /\ [Run!Next]_(Run!vars) => RunLengthInv'
<1> SUFFICES ASSUME RunLengthInv, [Run!Next]_(Run!vars) PROVE RunLengthInv'
  OBVIOUS
<1>0. /\ n \in Ns /\ prev \in Run!Byte /\ repetitions \in Nat
      /\ input \in Seq(Run!Byte) /\ Len(input) \in Nat /\ Len(input) <= MaxLength
      /\ repetitions <= Len(input) /\ result \in Seq(Run!Byte)
      /\ MaxLength \in Nat
  BY RunLengthAssumption DEF Run!RunLengthConstants, RunLengthInv, Run!TypeOK
<1>1. Run!encode(prev, repetitions) \in Seq(Run!Byte)
  BY <1>0, EncodedBytes
<1>2. result \o Run!encode(prev, repetitions) \in Seq(Run!Byte)
  BY <1>0, <1>1
<1>3. ASSUME NEW b \in Run!Byte, Run!feed(b) PROVE RunLengthInv'
  <2>1. /\ input' = Append(input, b) /\ n' = n /\ done' = done
        /\ Len(input) < MaxLength
    BY <1>3 DEF Run!feed
  <2>2. input' \in Seq(Run!Byte) /\ Len(input') = Len(input) + 1
    BY <1>0, <2>1
  <2>3. Len(input') \in Nat /\ Len(input') <= MaxLength
    BY <1>0, <2>1, <2>2
  <2>4. done' \in BOOLEAN
    BY <2>1 DEF RunLengthInv, Run!TypeOK
  <2>5. CASE b = prev
    <3>1. repetitions' = repetitions + 1 /\ UNCHANGED <<prev, result>>
      BY <1>3, <2>5 DEF Run!feed
    <3>2. repetitions' \in 0 .. MaxLength /\ repetitions' <= Len(input')
      BY <1>0, <2>1, <2>2, <3>1
    <3> QED
      BY <1>0, <2>1, <2>2, <2>3, <2>4, <3>1, <3>2 DEF RunLengthInv, Run!TypeOK
  <2>6. CASE b # prev
    <3>1. /\ result' = result \o Run!encode(prev, repetitions)
          /\ prev' = b /\ repetitions' = 1
      BY <1>3, <2>6 DEF Run!feed
    <3>2. repetitions' \in 0 .. MaxLength /\ repetitions' <= Len(input')
      BY <1>0, <2>1, <2>2, <3>1
    <3>3. result' \in Seq(Run!Byte) /\ prev' \in Run!Byte
      BY <1>2, <3>1
    <3> QED
      BY <1>0, <2>1, <2>2, <2>3, <2>4, <3>2, <3>3 DEF RunLengthInv, Run!TypeOK
  <2> QED
    BY <2>5, <2>6
<1>4. CASE Run!finish
  <2>1. /\ result' \in Seq(Run!Byte)
        /\ UNCHANGED <<n, input, prev, repetitions>>
    BY <1>2, <1>4 DEF Run!finish
  <2>2. done' \in BOOLEAN
    BY <1>4 DEF Run!finish
  <2> QED
    BY <2>1, <2>2 DEF RunLengthInv, Run!TypeOK
<1>5. CASE Run!again
  <2>1. /\ n' \in Ns /\ input' = << >> /\ prev' = 0 /\ repetitions' = 0
        /\ result' = << >>
    BY <1>5 DEF Run!again
  <2>2. done' \in BOOLEAN
    BY <1>5 DEF Run!again
  <2>3. 0 \in Run!Byte /\ 0 \in 0 .. MaxLength
    BY <1>0, RunLengthAssumption DEF Run!RunLengthConstants, Run!Byte
  <2>4. input' \in Seq(Run!Byte) /\ Len(input') = 0 /\ result' \in Seq(Run!Byte)
    BY <2>1
  <2>5. Len(input') <= MaxLength /\ repetitions' <= Len(input')
    BY <1>0, <2>1, <2>4
  <2> QED
    BY <2>1, <2>2, <2>3, <2>4, <2>5 DEF RunLengthInv, Run!TypeOK
<1>6. CASE UNCHANGED Run!vars
  BY <1>6 DEF Run!vars, RunLengthInv, Run!TypeOK
<1> QED
  BY <1>3, <1>4, <1>5, <1>6 DEF Run!Next

LEMMA RunLengthInvariant == Run!Spec => []RunLengthInv
<1>1. Run!Init => RunLengthInv
  <2> SUFFICES ASSUME Run!Init PROVE RunLengthInv
    OBVIOUS
  <2>1. n \in Ns /\ input = << >> /\ prev = 0 /\ repetitions = 0 /\ result = << >>
    BY DEF Run!Init
  <2>2. done \in BOOLEAN
    BY DEF Run!Init
  <2>3. 0 \in Run!Byte /\ 0 \in 0 .. MaxLength /\ MaxLength \in Nat
    BY RunLengthAssumption DEF Run!RunLengthConstants, Run!Byte
  <2>4. input \in Seq(Run!Byte) /\ Len(input) = 0 /\ result \in Seq(Run!Byte)
    BY <2>1
  <2>5. Len(input) <= MaxLength /\ repetitions <= Len(input)
    BY <2>1, <2>3, <2>4
  <2> QED
    BY <2>1, <2>2, <2>3, <2>4, <2>5 DEF RunLengthInv, Run!TypeOK
<1> QED
  BY <1>1, RunLengthStep, PTL DEF Run!Spec

---------------------------------------------------------------------------
(* Decoding what has been encoded                                            *)

\* k times the same.
LEMMA TimesProperties ==
    ASSUME NEW S, NEW e \in S, NEW k \in Nat
    PROVE  /\ Run!Times(k, e) \in Seq(S) /\ Len(Run!Times(k, e)) = k
           /\ \A i \in 1 .. k : Run!Times(k, e)[i] = e
BY DEF Run!Times

LEMMA TimesSum ==
    ASSUME NEW S, NEW e \in S, NEW j \in Nat, NEW k \in Nat
    PROVE  Run!Times(j, e) \o Run!Times(k, e) = Run!Times(j + k, e)
<1> DEFINE s == Run!Times(j, e)
           t == Run!Times(k, e)
           u == Run!Times(j + k, e)
<1>0. j + k \in Nat
  OBVIOUS
<1>1. /\ s \in Seq(S) /\ Len(s) = j /\ \A i \in 1 .. j : s[i] = e
      /\ t \in Seq(S) /\ Len(t) = k /\ \A i \in 1 .. k : t[i] = e
      /\ u \in Seq(S) /\ Len(u) = j + k /\ \A i \in 1 .. j + k : u[i] = e
  BY <1>0, TimesProperties
<1> HIDE DEF s, t, u
<1>2. /\ s \o t \in Seq(S) /\ Len(s \o t) = j + k
      /\ \A i \in 1 .. j + k : (s \o t)[i] = IF i <= j THEN s[i] ELSE t[i - j]
  BY <1>1, ConcatProperties
<1>3. \A i \in 1 .. j + k : (s \o t)[i] = u[i]
  BY <1>1, <1>2
<1>4. s \o t = u
  BY <1>1, <1>2, <1>3, SeqEqual
<1> QED
  BY <1>4 DEF s, t, u

\* Appending to the end of what is concatenated.
LEMMA ConcatAppend ==
    ASSUME NEW S, NEW s \in Seq(S), NEW t \in Seq(S), NEW x \in S
    PROVE  s \o Append(t, x) = Append(s \o t, x)
<1>1. Append(t, x) \in Seq(S) /\ Append(s \o t, x) \in Seq(S) /\ s \o Append(t, x) \in Seq(S)
  BY ConcatProperties
<1>2. Len(s \o Append(t, x)) = Len(Append(s \o t, x))
  OBVIOUS
<1>3. \A i \in 1 .. Len(s \o Append(t, x)) : (s \o Append(t, x))[i] = Append(s \o t, x)[i]
  OBVIOUS
<1> QED
  BY <1>1, <1>2, <1>3, SeqEqual

LEMMA TimesNext ==
    ASSUME NEW S, NEW e \in S, NEW k \in Nat
    PROVE  Run!Times(k + 1, e) = Append(Run!Times(k, e), e)
<1>1. /\ Run!Times(k, e) \in Seq(S) /\ Len(Run!Times(k, e)) = k
      /\ \A i \in 1 .. k : Run!Times(k, e)[i] = e
      /\ Run!Times(k + 1, e) \in Seq(S) /\ Len(Run!Times(k + 1, e)) = k + 1
      /\ \A i \in 1 .. k + 1 : Run!Times(k + 1, e)[i] = e
  BY TimesProperties
<1> DEFINE s == Run!Times(k, e)
           t == Run!Times(k + 1, e)
<1> HIDE DEF s, t
<1>2. /\ Append(s, e) \in Seq(S) /\ Len(Append(s, e)) = k + 1
      /\ \A i \in 1 .. k + 1 : Append(s, e)[i] = e
  BY <1>1 DEF s, t
<1>3. t = Append(s, e)
  BY <1>1, <1>2, SeqEqual DEF t
<1> QED
  BY <1>3 DEF s, t

\* A decoder with the threshold m that has read code is in state s.
Decodes(m, code, s) ==
    \E g : /\ g = [k \in 0 .. Len(code) |->
                      IF k = 0 THEN Run!Start ELSE Run!Read(m, g[k - 1], code[k])]
           /\ g[Len(code)] = s

LEMMA DecodesNothing ==
    ASSUME NEW m
    PROVE  Decodes(m, << >>, Run!Start)
<1> DEFINE g == [k \in 0 .. 0 |-> Run!Start]
<1>1. Len(<< >>) = 0 /\ \A k \in 0 .. 0 : k = 0
  OBVIOUS
<1>2. /\ g = [k \in 0 .. Len(<< >>) |->
                 IF k = 0 THEN Run!Start ELSE Run!Read(m, g[k - 1], << >>[k])]
      /\ g[Len(<< >>)] = Run!Start
  BY <1>1
<1> QED
  BY <1>2 DEF Decodes

\* One more byte.
LEMMA DecodesNext ==
    ASSUME NEW code \in Seq(Run!Byte), NEW s, NEW b \in Run!Byte, Decodes(n, code, s)
    PROVE  Decodes(n, Append(code, b), Run!Read(n, s, b))
<1> DEFINE L == Len(code)
           more == Append(code, b)
<1>1. /\ L \in Nat /\ Len(more) = L + 1
      /\ \A k \in 1 .. L : more[k] = code[k]
      /\ more[L + 1] = b
  OBVIOUS
<1> HIDE DEF L, more
<1>2. PICK g : /\ g = [k \in 0 .. L |->
                          IF k = 0 THEN Run!Start ELSE Run!Read(n, g[k - 1], code[k])]
               /\ g[L] = s
  BY DEF Decodes, L
<1> DEFINE h == [k \in 0 .. L + 1 |-> IF k = L + 1 THEN Run!Read(n, s, b) ELSE g[k]]
<1>3. \A k \in 0 .. L : h[k] = g[k] /\ k # L + 1
  BY <1>1
<1>4. h[L + 1] = Run!Read(n, s, b)
  BY <1>1
<1>5. ASSUME NEW k \in 0 .. L + 1
      PROVE  h[k] = IF k = 0 THEN Run!Start ELSE Run!Read(n, h[k - 1], more[k])
  <2> HIDE DEF h
  <2>1. CASE k = 0
    BY <1>1, <1>2, <1>3, <2>1
  <2>2. CASE k \in 1 .. L
    <3>1. g[k] = Run!Read(n, g[k - 1], code[k])
      BY <1>1, <1>2, <2>2
    <3>2. k - 1 \in 0 .. L /\ k \in 0 .. L /\ k # 0
      BY <1>1, <2>2
    <3> QED
      BY <1>1, <1>3, <2>2, <3>1, <3>2
  <2>3. CASE k = L + 1
    <3>1. k - 1 = L /\ L \in 0 .. L /\ k # 0
      BY <1>1, <2>3
    <3> QED
      BY <1>1, <1>2, <1>3, <1>4, <2>3, <3>1
  <2> QED
    BY <1>1, <2>1, <2>2, <2>3
<1>6. h = [k \in 0 .. L + 1 |-> h[k]]
  OBVIOUS
<1> HIDE DEF h
<1>7. h = [k \in 0 .. L + 1 |-> IF k = 0 THEN Run!Start ELSE Run!Read(n, h[k - 1], more[k])]
  BY <1>5, <1>6
<1> QED
  BY <1>1, <1>4, <1>7 DEF Decodes, more

\* There is one such state, and its output is what unrle() returns.
LEMMA DecodesIsUnrle ==
    ASSUME NEW code, Len(code) \in Nat, NEW s, Decodes(n, code, s)
    PROVE  Run!unrle(n, code) = s.out
<1> DEFINE Is(f) == f = [k \in 0 .. Len(code) |->
                            IF k = 0 THEN Run!Start ELSE Run!Read(n, f[k - 1], code[k])]
<1>1. PICK g : Is(g) /\ g[Len(code)] = s
  BY DEF Decodes
<1>2. ASSUME NEW f, Is(f) PROVE f[Len(code)] = s
  <2> DEFINE Wrong == {k \in 0 .. Len(code) : f[k] # g[k]}
  <2> SUFFICES ASSUME Wrong # {} PROVE FALSE
    <3>1. Wrong = {}
      OBVIOUS
    <3>2. Len(code) \in 0 .. Len(code)
      OBVIOUS
    <3> QED
      BY <1>1, <3>1, <3>2
  <2>1. PICK k \in Wrong : \A j \in Wrong : k <= j
    <3>1. Wrong \in SUBSET Nat
      OBVIOUS
    <3> HIDE DEF Wrong
    <3> QED
      BY <3>1, LeastNumber
  <2>2. k \in 0 .. Len(code) /\ f[k] # g[k]
    BY <2>1
  <2>3. k # 0
    BY <1>1, <1>2, <2>2
  <2>4. k - 1 \in 0 .. Len(code) /\ ~ (k <= k - 1)
    BY <2>2, <2>3
  <2>5. f[k - 1] = g[k - 1]
    BY <2>1, <2>4
  <2> QED
    BY <1>1, <1>2, <2>2, <2>3, <2>5
<1>3. Run!unrle(n, code) = (CHOOSE f : Is(f))[Len(code)].out
  BY DEF Run!unrle
<1> HIDE DEF Is
<1> QED
  BY <1>1, <1>2, <1>3

\* The states of the decoder.
State(o, p, k, c) == [out |-> o, prev |-> p, repetitions |-> k, counting |-> c]

LEMMA ReadCopies ==
    ASSUME NEW o, NEW p, NEW k, NEW b, NEW t, t = IF b = p THEN k + 1 ELSE 1
    PROVE  /\ t = n => Run!Read(n, State(o, p, k, FALSE), b) = State(Append(o, b), b, 0, TRUE)
           /\ t # n => Run!Read(n, State(o, p, k, FALSE), b) = State(Append(o, b), b, t, FALSE)
BY DEF State, Run!Read, Run!Copied

LEMMA ReadCounts ==
    ASSUME NEW o, NEW p, NEW k, NEW b
    PROVE  /\ b = Largest => Run!Read(n, State(o, p, k, TRUE), b)
                             = State(o \o Run!Times(b, p), p, k, TRUE)
           /\ b # Largest => Run!Read(n, State(o, p, k, TRUE), b)
                             = State(o \o Run!Times(b, p), p, k, FALSE)
BY DEF State, Run!Read, Run!Counted

\* What the decoder makes of m equal bytes, which do not go on with the run before.
AfterBytes(o, e, m) == IF m = n THEN State(o \o Run!Times(m, e), e, 0, TRUE)
                                ELSE State(o \o Run!Times(m, e), e, m, FALSE)

LEMMA DecodesBytes ==
    ASSUME n \in Ns, NEW code \in Seq(Run!Byte), NEW o \in Seq(Run!Byte),
           NEW p, NEW e \in Run!Byte, NEW k \in Nat, p = e => k = 0,
           Decodes(n, code, State(o, p, k, FALSE)), NEW m \in 1 .. n
    PROVE  Decodes(n, code \o Run!Times(m, e), AfterBytes(o, e, m))
<1>0. n \in Nat /\ n > 0
  BY CoderFacts
<1> DEFINE Wrong == {j \in 1 .. n : ~ Decodes(n, code \o Run!Times(j, e), AfterBytes(o, e, j))}
<1> SUFFICES ASSUME Wrong # {} PROVE FALSE
  OBVIOUS
<1>1. PICK j \in Wrong : \A i \in Wrong : j <= i
  <2>1. Wrong \in SUBSET Nat
    BY <1>0
  <2> HIDE DEF Wrong
  <2> QED
    BY <2>1, LeastNumber
<1>2. j \in 1 .. n /\ ~ Decodes(n, code \o Run!Times(j, e), AfterBytes(o, e, j))
  BY <1>1
<1>3. j - 1 \in Nat /\ (j - 1) + 1 = j
  BY <1>0, <1>2
<1> DEFINE before == Run!Times(j - 1, e)
<1>4. /\ before \in Seq(Run!Byte) /\ Run!Times(j, e) = Append(before, e)
  BY <1>3, TimesProperties, TimesNext
<1> HIDE DEF before
<1>5. /\ code \o before \in Seq(Run!Byte)
      /\ code \o Run!Times(j, e) = Append(code \o before, e)
      /\ o \o Run!Times(j, e) = Append(o \o before, e)
  <2>1. code \o before \in Seq(Run!Byte)
    BY <1>4, ConcatProperties
  <2>2. code \o Append(before, e) = Append(code \o before, e)
    BY <1>4, ConcatAppend
  <2>3. o \o Append(before, e) = Append(o \o before, e)
    BY <1>4, ConcatAppend
  <2> QED
    BY <1>4, <2>1, <2>2, <2>3
<1>6. \E q, i : /\ Decodes(n, code \o before, State(o \o before, q, i, FALSE))
                /\ j = IF e = q THEN i + 1 ELSE 1
  <2>1. CASE j = 1
    <3>1. before = << >>
      BY <2>1 DEF before, Run!Times
    <3>2. code \o before = code /\ o \o before = o
      BY <3>1, ConcatEmptySeq
    <3>3. j = IF e = p THEN k + 1 ELSE 1
      BY <2>1
    <3> QED
      BY <3>2, <3>3
  <2>2. CASE j # 1
    <3>1. j - 1 \in 1 .. n /\ j - 1 # n /\ ~ (j <= j - 1)
      BY <1>0, <1>2, <2>2
    <3>2. Decodes(n, code \o before, AfterBytes(o, e, j - 1))
      BY <1>1, <3>1 DEF before
    <3>3. Decodes(n, code \o before, State(o \o before, e, j - 1, FALSE))
      BY <3>1, <3>2 DEF AfterBytes, before
    <3> QED
      BY <1>3, <3>3
  <2> QED
    BY <2>1, <2>2
<1>7. PICK q, i : /\ Decodes(n, code \o before, State(o \o before, q, i, FALSE))
                  /\ j = IF e = q THEN i + 1 ELSE 1
  BY <1>6
<1>8. Decodes(n, code \o Run!Times(j, e), Run!Read(n, State(o \o before, q, i, FALSE), e))
  BY <1>5, <1>7, DecodesNext
<1>9. Run!Read(n, State(o \o before, q, i, FALSE), e) = AfterBytes(o, e, j)
  <2>1. /\ j = n => Run!Read(n, State(o \o before, q, i, FALSE), e)
                    = State(Append(o \o before, e), e, 0, TRUE)
        /\ j # n => Run!Read(n, State(o \o before, q, i, FALSE), e)
                    = State(Append(o \o before, e), e, j, FALSE)
    <3> DEFINE written == o \o before
    <3> HIDE DEF written
    <3>1. /\ j = n => Run!Read(n, State(written, q, i, FALSE), e) = State(Append(written, e), e, 0, TRUE)
          /\ j # n => Run!Read(n, State(written, q, i, FALSE), e)
                      = State(Append(written, e), e, j, FALSE)
      BY <1>7 DEF State, Run!Read, Run!Copied
    <3> QED
      BY <3>1 DEF written
  <2> QED
    BY <1>5, <2>1 DEF AfterBytes
<1> QED
  BY <1>2, <1>8, <1>9

\* What it makes of m of the largest number, when it is counting.
LEMMA DecodesLargest ==
    ASSUME NEW code \in Seq(Run!Byte), NEW o \in Seq(Run!Byte), NEW e \in Run!Byte,
           Decodes(n, code, State(o, e, 0, TRUE)), NEW m \in Nat
    PROVE  Decodes(n, code \o Run!Times(m, Largest),
                   State(o \o Run!Times(Largest * m, e), e, 0, TRUE))
<1>0. Largest \in Nat /\ Largest > 0 /\ Largest \in Run!Byte
  BY CoderFacts
<1> DEFINE Right(j) == Decodes(n, code \o Run!Times(j, Largest),
                               State(o \o Run!Times(Largest * j, e), e, 0, TRUE))
           Wrong == {j \in Nat : ~ Right(j)}
<1> SUFFICES ASSUME Wrong # {} PROVE FALSE
  OBVIOUS
<1>1. PICK j \in Wrong : \A i \in Wrong : j <= i
  <2>1. Wrong \in SUBSET Nat
    OBVIOUS
  <2> HIDE DEF Wrong
  <2> QED
    BY <2>1, LeastNumber
<1>2. j \in Nat /\ ~ Right(j)
  BY <1>1
<1>3. j # 0
  <2> SUFFICES ASSUME j = 0 PROVE FALSE
    OBVIOUS
  <2>1. Largest * j = 0
    BY <1>0
  <2>2. Run!Times(j, Largest) = << >> /\ Run!Times(Largest * j, e) = << >>
    BY <2>1 DEF Run!Times
  <2>3. code \o << >> = code /\ o \o << >> = o
    BY ConcatEmptySeq
  <2> QED
    BY <1>2, <2>2, <2>3
<1>4. j - 1 \in Nat /\ (j - 1) + 1 = j /\ ~ (j <= j - 1)
  BY <1>2, <1>3
<1>5. Right(j - 1)
  BY <1>1, <1>4
<1> DEFINE numbers == Run!Times(j - 1, Largest)
           bytes   == Run!Times(Largest * (j - 1), e)
<1>6. Largest * (j - 1) \in Nat /\ (Largest * (j - 1)) + Largest = Largest * j
  <2>1. (Largest * (j - 1)) + Largest = Largest * ((j - 1) + 1)
    BY <1>0, <1>4
  <2> QED
    BY <1>0, <1>4, <2>1
<1>7. numbers \in Seq(Run!Byte) /\ bytes \in Seq(Run!Byte)
  BY <1>0, <1>4, <1>6, TimesProperties
<1>8. /\ code \o numbers \in Seq(Run!Byte)
      /\ code \o Run!Times(j, Largest) = Append(code \o numbers, Largest)
  <2>1. Run!Times(j, Largest) = Append(numbers, Largest)
    BY <1>0, <1>4, TimesNext
  <2> HIDE DEF numbers
  <2> QED
    BY <1>0, <1>7, <2>1, ConcatAppend, ConcatProperties
<1>9. (o \o bytes) \o Run!Times(Largest, e) = o \o Run!Times(Largest * j, e)
  <2>1. bytes \o Run!Times(Largest, e) = Run!Times(Largest * j, e)
    BY <1>0, <1>6, TimesSum
  <2>2. Run!Times(Largest, e) \in Seq(Run!Byte)
    BY <1>0, TimesProperties
  <2> HIDE DEF bytes
  <2>3. (o \o bytes) \o Run!Times(Largest, e) = o \o (bytes \o Run!Times(Largest, e))
    BY <1>7, <2>2, ConcatAssociative
  <2> QED
    BY <2>1, <2>3
<1>10. Decodes(n, code \o numbers, State(o \o bytes, e, 0, TRUE))
  BY <1>5
<1> HIDE DEF numbers, bytes
<1>11. Run!Read(n, State(o \o bytes, e, 0, TRUE), Largest)
       = State(o \o Run!Times(Largest * j, e), e, 0, TRUE)
  <2>1. Run!Read(n, State(o \o bytes, e, 0, TRUE), Largest)
        = State((o \o bytes) \o Run!Times(Largest, e), e, 0, TRUE)
    BY ReadCounts
  <2> QED
    BY <1>9, <2>1
<1>12. Decodes(n, Append(code \o numbers, Largest),
               Run!Read(n, State(o \o bytes, e, 0, TRUE), Largest))
  BY <1>0, <1>8, <1>10, DecodesNext
<1> QED
  BY <1>2, <1>8, <1>11, <1>12

\* What it makes of the length of a run, however many bytes that takes.
LEMMA DecodesLength ==
    ASSUME NEW code \in Seq(Run!Byte), NEW o \in Seq(Run!Byte), NEW e \in Run!Byte,
           Decodes(n, code, State(o, e, 0, TRUE)), NEW m \in Nat
    PROVE  Decodes(n, code \o Run!runLength(m), State(o \o Run!Times(m, e), e, 0, FALSE))
<1> DEFINE q == m \div Largest
           s == m % Largest
<1>0. Largest \in Nat /\ Largest > 0 /\ Largest \in Run!Byte
  BY CoderFacts
<1>1. /\ q \in Nat /\ s \in 0 .. Largest - 1 /\ m = (Largest * q) + s
      /\ s \in Nat /\ s # Largest /\ Largest * q \in Nat
  BY <1>0
<1>2. Run!runLength(m) = Append(Run!Times(q, Largest), s)
  BY DEF Run!runLength
<1> HIDE DEF q, s
<1> DEFINE numbers == Run!Times(q, Largest)
           bytes   == Run!Times(Largest * q, e)
           rest    == Run!Times(s, e)
<1>3. s \in Run!Byte
  BY <1>0, <1>1 DEF Run!Byte
<1>4. numbers \in Seq(Run!Byte) /\ bytes \in Seq(Run!Byte) /\ rest \in Seq(Run!Byte)
  BY <1>0, <1>1, TimesProperties
<1>5. bytes \o rest = Run!Times(m, e)
  BY <1>1, TimesSum
<1>6. Decodes(n, code \o numbers, State(o \o bytes, e, 0, TRUE))
  BY <1>1, DecodesLargest
<1>7. Run!Read(n, State(o \o bytes, e, 0, TRUE), s) = State((o \o bytes) \o rest, e, 0, FALSE)
  BY <1>1, ReadCounts
<1> HIDE DEF numbers, bytes, rest
<1>8. (o \o bytes) \o rest = o \o (bytes \o rest)
  <2>1. bytes \in Seq(Run!Byte) /\ rest \in Seq(Run!Byte)
    BY <1>4
  <2> QED
    BY <2>1, ConcatAssociative
<1>9. /\ code \o numbers \in Seq(Run!Byte)
      /\ code \o Append(numbers, s) = Append(code \o numbers, s)
  BY <1>3, <1>4, ConcatAppend, ConcatProperties
<1>10. Decodes(n, Append(code \o numbers, s), Run!Read(n, State(o \o bytes, e, 0, TRUE), s))
  BY <1>3, <1>6, <1>9, DecodesNext
<1>11. Run!runLength(m) = Append(numbers, s)
  BY <1>2 DEF numbers
<1> QED
  BY <1>5, <1>7, <1>8, <1>9, <1>10, <1>11

\* What it makes of an encoded run: the run.  It may be the decoder's first, or
\* one that differs from the run before.
LEMMA DecodesRun ==
    ASSUME n \in Ns, NEW code \in Seq(Run!Byte), NEW o \in Seq(Run!Byte),
           NEW p \in Run!Byte, NEW e \in Run!Byte, NEW k \in Nat, p = e => k = 0,
           Decodes(n, code, State(o, p, k, FALSE)), NEW m \in Nat
    PROVE  \E q \in Run!Byte, i \in Nat :
              /\ Decodes(n, code \o Run!encode(e, m), State(o \o Run!Times(m, e), q, i, FALSE))
              /\ IF m = 0 THEN i = k ELSE q = e
<1>0. n \in Nat /\ n > 0
  BY CoderFacts
<1>1. CASE m = 0
  <2>1. Run!encode(e, m) = << >> /\ Run!Times(m, e) = << >>
    BY <1>0, <1>1 DEF Run!encode, Run!Times
  <2>2. code \o << >> = code /\ o \o << >> = o
    BY ConcatEmptySeq
  <2> QED
    BY <1>1, <2>1, <2>2
<1>2. CASE m # 0 /\ m < n
  <2>1. m \in 1 .. n /\ m # n
    BY <1>0, <1>2
  <2>2. Run!encode(e, m) = Run!Times(m, e)
    BY <1>2 DEF Run!encode
  <2>3. Decodes(n, code \o Run!Times(m, e), State(o \o Run!Times(m, e), e, m, FALSE))
    BY <2>1, DecodesBytes DEF AfterBytes
  <2> QED
    BY <1>2, <2>2, <2>3
<1>3. CASE ~ (m < n)
  <2> DEFINE plain == Run!Times(n, e)
             length == Run!runLength(m - n)
             rest  == Run!Times(m - n, e)
  <2>1. m - n \in Nat /\ n \in 1 .. n /\ n + (m - n) = m /\ m # 0
    BY <1>0, <1>3
  <2>2. Run!encode(e, m) = plain \o length
    BY <1>3 DEF Run!encode
  <2>3. Decodes(n, code \o plain, State(o \o plain, e, 0, TRUE))
    BY <2>1, DecodesBytes DEF AfterBytes
  <2>4. plain \in Seq(Run!Byte) /\ rest \in Seq(Run!Byte)
    BY <1>0, <2>1, TimesProperties
  <2>5. length \in Seq(Run!Byte)
    BY <2>1, LengthBytes
  <2>6. plain \o rest = Run!Times(m, e)
    BY <1>0, <2>1, TimesSum
  <2>7. code \o plain \in Seq(Run!Byte) /\ o \o plain \in Seq(Run!Byte)
    <3> HIDE DEF plain
    <3> QED
      BY <2>4, ConcatProperties
  <2>8. Decodes(n, (code \o plain) \o length, State((o \o plain) \o rest, e, 0, FALSE))
    BY <2>1, <2>3, <2>7, DecodesLength
  <2> HIDE DEF plain, length, rest
  <2>9. /\ (code \o plain) \o length = code \o (plain \o length)
        /\ (o \o plain) \o rest = o \o (plain \o rest)
    <3>1. (code \o plain) \o length = code \o (plain \o length)
      BY <2>4, <2>5, ConcatAssociative
    <3>2. (o \o plain) \o rest = o \o (plain \o rest)
      BY <2>4, ConcatAssociative
    <3> QED
      BY <3>1, <3>2
  <2>10. Decodes(n, code \o Run!encode(e, m), State(o \o Run!Times(m, e), e, 0, FALSE))
    BY <2>2, <2>6, <2>8, <2>9
  <2> QED
    BY <2>1, <2>10
<1> QED
  BY <1>1, <1>2, <1>3

\* What has been written decodes to what had been read when the run under way
\* began.  The decoder does not take the run for part of the one before.
Pending == \E o \in Seq(Run!Byte), p \in Run!Byte, k \in Nat :
              /\ Decodes(n, result, State(o, p, k, FALSE))
              /\ input = o \o Run!Times(repetitions, prev)
              /\ p = prev \/ repetitions = 0 => k = 0

RoundInv == IF done THEN \E p, k : Decodes(n, result, State(input, p, k, FALSE))
                    ELSE Pending

LEMMA RoundStep ==
    RunLengthInv /\ RunLengthInv' /\ RoundInv /\ [Run!Next]_(Run!vars) => RoundInv'
<1> SUFFICES ASSUME RunLengthInv, RunLengthInv', RoundInv, [Run!Next]_(Run!vars)
             PROVE  RoundInv'
  OBVIOUS
<1>0. /\ n \in Ns /\ prev \in Run!Byte /\ repetitions \in Nat
      /\ input \in Seq(Run!Byte) /\ result \in Seq(Run!Byte)
  BY RunLengthAssumption DEF Run!RunLengthConstants, RunLengthInv, Run!TypeOK
\* What a step that writes the run leaves behind.
<1>1. ASSUME Pending
      PROVE  \E q \in Run!Byte, i \in Nat :
                /\ Decodes(n, result \o Run!encode(prev, repetitions), State(input, q, i, FALSE))
                /\ i = 0 \/ q = prev
  <2>1. PICK o \in Seq(Run!Byte), p \in Run!Byte, k \in Nat :
              /\ Decodes(n, result, State(o, p, k, FALSE))
              /\ input = o \o Run!Times(repetitions, prev)
              /\ p = prev \/ repetitions = 0 => k = 0
    BY <1>1 DEF Pending
  <2>2. PICK q \in Run!Byte, i \in Nat :
           /\ Decodes(n, result \o Run!encode(prev, repetitions),
                      State(o \o Run!Times(repetitions, prev), q, i, FALSE))
           /\ IF repetitions = 0 THEN i = k ELSE q = prev
    <3>1. p = prev => k = 0
      BY <2>1
    <3> QED
      BY <1>0, <2>1, <3>1, DecodesRun
  <2> QED
    BY <2>1, <2>2
<1>2. ASSUME NEW b \in Run!Byte, Run!feed(b) PROVE RoundInv'
  <2>1. /\ ~done /\ ~done' /\ n' = n /\ input' = Append(input, b)
    BY <1>2 DEF Run!feed
  <2>2. Pending
    BY <2>1 DEF RoundInv
  <2>4. CASE b = prev
    <3>1. repetitions' = repetitions + 1 /\ prev' = prev /\ result' = result
      BY <1>2, <2>4 DEF Run!feed
    <3>2. PICK o \in Seq(Run!Byte), p \in Run!Byte, k \in Nat :
             /\ Decodes(n, result, State(o, p, k, FALSE))
             /\ input = o \o Run!Times(repetitions, prev)
             /\ p = prev \/ repetitions = 0 => k = 0
      BY <2>2 DEF Pending
    <3>3. Append(input, b) = o \o Run!Times(repetitions + 1, prev)
      <4>1. /\ Run!Times(repetitions + 1, prev) = Append(Run!Times(repetitions, prev), prev)
            /\ Run!Times(repetitions, prev) \in Seq(Run!Byte)
        BY <1>0, TimesNext, TimesProperties
      <4>2. o \o Append(Run!Times(repetitions, prev), prev)
            = Append(o \o Run!Times(repetitions, prev), prev)
        BY <1>0, <4>1, ConcatAppend
      <4> QED
        BY <2>4, <3>2, <4>1, <4>2
    <3>4. Decodes(n', result', State(o, p, k, FALSE))
      BY <2>1, <3>1, <3>2
    <3>5. input' = o \o Run!Times(repetitions', prev')
      BY <2>1, <3>1, <3>3
    <3>6. p = prev' \/ repetitions' = 0 => k = 0
      BY <1>0, <3>1, <3>2
    <3>7. Pending'
      BY <3>4, <3>5, <3>6 DEF Pending
    <3> QED
      BY <2>1, <3>7 DEF RoundInv
  <2>5. CASE b # prev
    <3>1. /\ result' = result \o Run!encode(prev, repetitions)
          /\ prev' = b /\ repetitions' = 1
      BY <1>2, <2>5 DEF Run!feed
    <3>2. PICK q \in Run!Byte, i \in Nat :
             /\ Decodes(n, result', State(input, q, i, FALSE))
             /\ i = 0 \/ q = prev
      BY <1>1, <2>2, <3>1
    <3>3. Append(input, b) = input \o Run!Times(1, b)
      BY <1>0 DEF Run!Times
    <3>4. Decodes(n', result', State(input, q, i, FALSE))
      BY <2>1, <3>2
    <3>5. input' = input \o Run!Times(repetitions', prev')
      BY <2>1, <3>1, <3>3
    <3>6. q = prev' \/ repetitions' = 0 => i = 0
      BY <2>5, <3>1, <3>2
    <3>7. Pending'
      BY <1>0, <3>4, <3>5, <3>6 DEF Pending
    <3> QED
      BY <2>1, <3>7 DEF RoundInv
  <2> QED
    BY <2>4, <2>5
<1>3. CASE Run!finish
  <2>1. /\ ~done /\ done' /\ n' = n /\ input' = input
        /\ result' = result \o Run!encode(prev, repetitions)
    BY <1>3 DEF Run!finish
  <2>2. Pending
    BY <2>1 DEF RoundInv
  <2>4. PICK q \in Run!Byte, i \in Nat : Decodes(n, result', State(input', q, i, FALSE))
    BY <1>1, <2>1, <2>2
  <2> QED
    BY <2>1, <2>4 DEF RoundInv
<1>4. CASE Run!again
  <2>1. ~done' /\ input' = << >> /\ prev' = 0 /\ repetitions' = 0 /\ result' = << >>
    BY <1>4 DEF Run!again
  <2>2. Decodes(n', << >>, State(<< >>, 0, 0, FALSE))
    BY DecodesNothing DEF State, Run!Start
  <2>3. << >> = << >> \o Run!Times(0, 0) /\ 0 \in Run!Byte /\ << >> \in Seq(Run!Byte)
    BY CoderFacts DEF Run!Times, Run!Byte
  <2>4. Pending'
    BY <2>1, <2>2, <2>3 DEF Pending
  <2> QED
    BY <2>1, <2>4 DEF RoundInv
<1>5. CASE UNCHANGED Run!vars
  <2>1. /\ done' = done /\ n' = n /\ input' = input /\ result' = result
        /\ prev' = prev /\ repetitions' = repetitions
    BY <1>5 DEF Run!vars
  <2> QED
    BY <2>1 DEF RoundInv, Pending
<1> QED
  BY <1>2, <1>3, <1>4, <1>5 DEF Run!Next

LEMMA RoundTrips == Run!Spec => []Run!RoundTrip
<1>1. Run!Init => RoundInv
  <2> SUFFICES ASSUME Run!Init PROVE RoundInv
    OBVIOUS
  <2>1. ~done /\ input = << >> /\ prev = 0 /\ repetitions = 0 /\ result = << >>
    BY DEF Run!Init
  <2>2. Decodes(n, << >>, State(<< >>, 0, 0, FALSE))
    BY DecodesNothing DEF State, Run!Start
  <2>3. << >> = << >> \o Run!Times(0, 0) /\ 0 \in Run!Byte /\ << >> \in Seq(Run!Byte)
    BY CoderFacts DEF Run!Times, Run!Byte
  <2>4. Pending
    BY <2>1, <2>2, <2>3 DEF Pending
  <2> QED
    BY <2>1, <2>4 DEF RoundInv
<1>2. RunLengthInv /\ RoundInv => Run!RoundTrip
  <2> SUFFICES ASSUME RunLengthInv, RoundInv, done PROVE Run!unrle(n, result) = input
    BY DEF Run!RoundTrip
  <2>1. PICK p, k : Decodes(n, result, State(input, p, k, FALSE))
    BY DEF RoundInv
  <2>2. Len(result) \in Nat
    BY DEF RunLengthInv, Run!TypeOK
  <2>3. Run!unrle(n, result) = State(input, p, k, FALSE).out
    BY <2>1, <2>2, DecodesIsUnrle
  <2> QED
    BY <2>3 DEF State
<1> QED
  BY <1>1, <1>2, RoundStep, RunLengthInvariant, PTL DEF Run!Spec
---------------------------------------------------------------------------
(* The composition                                                           *)

\* In every part, for all values of the constants: the members stay in their
\* ranges, pointers and indices in their arrays, handles and paths among those
\* there are.
THEOREM TypesCorrect == Spec => []TypeOK
<1>1. Spec => [](part \in Parts)
  <2>1. Init => part \in Parts
    BY DEF Init
  <2>2. part \in Parts /\ [Next]_vars => (part \in Parts)'
    BY DEF Next, vars
  <2> QED
    BY <2>1, <2>2, PTL DEF Spec
<1>2. /\ BufferInv => Buf!TypeOK
      /\ MirrorInv => Mirr!TypeOK
      /\ SortedInv => Sort!TypeOK
      /\ RunLengthInv => Run!TypeOK
  BY DEF BufferInv, MirrorInv, SortedInv, RunLengthInv
<1> QED
  BY <1>1, <1>2, PartsAsAlone, BufferInvariant, ZipTypes, TempFileOwners, MirrorInvariant,
     SortedInvariant, ResizableTypes, RunLengthInvariant, BitViewInvariant, PTL DEF TypeOK

\* Whatever allocation fails and whatever address the allocator gives out again,
\* for all sizes: Buffer's pointer and size describe one block in use, and the
\* pointer it keeps up to date for its client never dangles.  The program ends
\* (init() writes to null, an assertion fails) only with a buffer that a failed
\* allocation has emptied; that it does end there this theorem does not exclude.
THEOREM ManagedPointerFits == Spec => []PointersFit
<1>1. BufferInv => Buf!PointersFit
  BY DEF BufferInv
<1> QED
  BY <1>1, PartsAsAlone, BufferInvariant, PTL DEF PointersFit

\* For every width of a byte, every memory and every window, also those that do
\* not start with a byte: the fast path and the bitwise one read and write the
\* same bits, around the end of the window, and no others, but for the bits of a
\* byte that the fast path takes for one of the window and that lies across its
\* end.
THEOREM PathsAreTheSame == Spec => []PathsAgree
BY BitViewPaths, PartsAsAlone, BitViewInvariant, PTL DEF PathsAgree

\* For every threshold, every largest number of a byte and every input: unrle()
\* gives back what rle() has read, also where the length of a run ends exactly
\* with the largest number.
THEOREM DecodingUndoesEncoding == Spec => []RoundTrip
BY PartsAsAlone, RoundTrips, PTL DEF RoundTrip
=============================================================================
