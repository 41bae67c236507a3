------------------------------- MODULE Buffer -------------------------------
(* A block of memory with a size, and a pointer of the client's that the     *)
(* buffer keeps up to date (src/storage/Buffer.cpp).  Allocations fail: some  *)
(* functions allow for it and others do not.                                 *)
EXTENDS Integers, Sequences, Functions

CONSTANTS T,            \* the elements
          Addr,         \* the addresses the allocator hands out
          Null,
          MaxSize       \* bound on the size

BufferConstants == MaxSize \in Nat /\ Null \notin Addr

VARIABLES heap,         \* the blocks in use, also those nobody frees any more
          ptr, size,
          managed,      \* has manage() been called?
          view,         \* *managed, the client's pointer
          alive         \* the program has neither written to null nor failed an assertion

vars == <<heap, ptr, size, managed, view, alive>>

Block == UNION {[1 .. n -> T] : n \in 1 .. MaxSize}

TypeOK == /\ DOMAIN heap \subseteq Addr
          /\ \A a \in DOMAIN heap : heap[a] \in Block
          /\ ptr \in Addr \cup {Null}
          /\ size \in 0 .. MaxSize
          /\ managed \in BOOLEAN
          /\ view \in Addr \cup {Null}
          /\ alive \in BOOLEAN

Init == /\ heap = << >>
        /\ ptr = Null
        /\ size = 0
        /\ managed = FALSE
        /\ view = Null
        /\ alive = TRUE

\* The heap without the buffer's own block, which delete[] returns.
Freed == Restrict(heap, DOMAIN heap \ {ptr})

\* The heap with the block c at a instead of the buffer's own one.
Replaced(a, c) == [b \in DOMAIN Freed \cup {a} |-> IF b = a THEN c ELSE heap[b]]

\* *managed = p.
Show(p) == view' = IF managed THEN p ELSE view

manage == /\ managed' = TRUE
          /\ view' = ptr
          /\ UNCHANGED <<heap, ptr, size, alive>>

\* Mutant of dealloc: the client's pointer is not reset.
deallocSilently == /\ heap' = Freed
                   /\ ptr' = Null
                   /\ size' = 0
                   /\ UNCHANGED <<managed, view, alive>>

dealloc == /\ heap' = Freed
           /\ ptr' = Null
           /\ size' = 0
           /\ IF ptr = Null THEN UNCHANGED view ELSE Show(Null)
           /\ UNCHANGED <<managed, alive>>

\* alloc(Len(c)) and filling in c.  A block of the right size is kept; any other
\* one is freed before the new one is asked for, which may be given the same
\* address.
Allocated(c) ==
    \/ /\ Len(c) = size
       /\ heap' = IF size = 0 THEN heap ELSE [heap EXCEPT ![ptr] = c]
       /\ UNCHANGED <<ptr, size, managed, view, alive>>
    \/ Len(c) = 0 /\ size # 0 /\ dealloc
    \/ /\ Len(c) \notin {0, size}
       /\ \E a \in Addr \ DOMAIN Freed : /\ heap' = Replaced(a, c)
                                         /\ ptr' = a
                                         /\ size' = Len(c)
                                         /\ Show(a)
       /\ UNCHANGED <<managed, alive>>

\* alloc() keeps the failure to itself and leaves the buffer empty.
AllocFailed(c) == /\ Len(c) \notin {0, size}
                  /\ heap' = Freed /\ ptr' = Null /\ size' = 0
                  /\ Show(Null)
                  /\ UNCHANGED managed

\* The variants of init() that look at the pointer before they fill the buffer.
init(c) == Allocated(c) \/ (AllocFailed(c) /\ UNCHANGED alive)

\* init(vector) does not look, and with it compress() and uncompress(), which end
\* in it whatever the buffer had before.
initVector(c) == Allocated(c) \/ (AllocFailed(c) /\ alive' = FALSE)

\* resize(Len(c)), where c is what the buffer holds afterwards.  The new block
\* is allocated first.  dealloc() resets the client's pointer, which nobody
\* sets again ...
Moved(c) ==
    /\ Len(c) \notin {0, size}
    /\ \E a \in Addr \ DOMAIN heap : /\ heap' = Replaced(a, c)
                                     /\ ptr' = a
                                     /\ size' = Len(c)
                                     /\ IF ptr = Null THEN UNCHANGED view ELSE Show(Null)
    /\ UNCHANGED <<managed, alive>>

\* ... and after a failure the old block is forgotten.
MoveFailed(c) == /\ Len(c) \notin {0, size}
                 /\ ptr' = Null /\ size' = 0
                 /\ UNCHANGED <<heap, managed, view>>

Reallocate(c) == Moved(c) \/ (MoveFailed(c) /\ UNCHANGED alive)

Content == IF ptr = Null THEN << >> ELSE heap[ptr]

\* The elements behind the old end are whatever new[] found there.
Extended(n) == {c \in [1 .. n -> T] : \A i \in 1 .. n : i <= size => c[i] = Content[i]}

resize(n) == \/ n = size /\ UNCHANGED vars
             \/ n = 0 /\ size # 0 /\ dealloc
             \/ \E c \in Extended(n) : Reallocate(c)

Padded(n, pad) == [i \in 1 .. n |-> IF i <= size THEN Content[i] ELSE pad]

\* resize(n, pad) clears what is new, by the size it asked for.  When it did not
\* get that, the assertion in clear() fails, where it is compiled in.
resizePad(n, pad) == \/ n = size /\ UNCHANGED vars
                     \/ n = 0 /\ size # 0 /\ dealloc
                     \/ Moved(Padded(n, pad))
                     \/ MoveFailed(Padded(n, pad)) /\ alive' \in BOOLEAN

\* The elements are moved to the front of the block before it is replaced; of a
\* block that is forgotten the model keeps them as they were.
strip(n) == LET rest == SubSeq(Content, n + 1, size)
            IN  \/ n = 0 /\ UNCHANGED vars
                \/ n > 0 /\ rest = << >> /\ dealloc
                \/ n > 0 /\ Reallocate(rest)

\* clear(), patch(), and writing through operator[].
modify == /\ ptr # Null
          /\ \E c \in [1 .. size -> T] : heap' = [heap EXCEPT ![ptr] = c]
          /\ UNCHANGED <<ptr, size, managed, view, alive>>

Call == \/ manage \/ dealloc \/ modify
        \/ \E c \in Block \cup {<< >>} : init(c) \/ initVector(c)
        \/ \E n \in 0 .. MaxSize : \/ resize(n) \/ strip(n)
                                  \/ \E pad \in T : resizePad(n, pad)

Next == \/ alive /\ Call
        \/ ~alive /\ UNCHANGED vars

Spec == Init /\ [][Next]_vars

---------------------------------------------------------------------------
(* Properties                                                                *)

\* assert((size == 0) == (ptr == nullptr)), in each function: pointer and size
\* describe one block in use, and the client's pointer never dangles, whatever
\* address is handed out again.  A failed allocation leaves an empty buffer, or
\* ends the program where that is not expected; nothing else ends it.
PointersFit == /\ (size = 0) = (ptr = Null)
               /\ ptr # Null => ptr \in DOMAIN heap /\ Len(heap[ptr]) = size
               /\ managed /\ view # Null => view \in DOMAIN heap
               /\ alive \/ ptr = Null
============================================================================
