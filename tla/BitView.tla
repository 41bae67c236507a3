------------------------------ MODULE BitView -------------------------------
(* A window on bits that is read and written cyclically, bit by bit or a     *)
(* byte at a time (include/utl/primitives/BitView.h).  Where a byte of the   *)
(* window is a byte in memory, it is accessed as such: the fast path.        *)
(* A byte has Width bits here.                                               *)
EXTENDS Integers, Sequences

CONSTANTS Width,        \* the bits of a byte
          Bytes         \* the bytes in memory

BitViewConstants == Width \in Nat \ {0} /\ Bytes \in Nat \ {0}

VARIABLES sp,           \* the bits in memory
          first, last   \* the window, last exclusive

vars == <<sp, first, last>>

Bits == 0 .. Width * Bytes - 1
Bit  == {0, 1}
Byte == [0 .. Width - 1 -> Bit]

TypeOK == /\ sp \in [Bits -> Bit]
          /\ first \in Bits
          /\ last \in first + 1 .. Width * Bytes

\* A view on bytes starts with a byte; subview(), slice() and the constructor that
\* is given a window may start anywhere.  Empty views are not accessed.
Init == /\ sp = [a \in Bits |-> 0]
        /\ first = 0
        /\ last \in 1 .. Width * Bytes

size         == last - first
normalize(i) == i % size
Address(i)   == first + normalize(i)

at(i) == sp[Address(i)]

\* Mutant of IsFast: the length of the window does not matter.
IsFastAnywhere(i) == Address(i) % Width = 0 /\ Address(i) \div Width < Bytes

IsFast(i) == Address(i) % Width = 0 /\ size % Width = 0

\* The addresses of the bits of a byte.
BitsAt(i) == [b \in 0 .. Width - 1 |->
                 IF IsFast(i) THEN Address(i) + b
                              ELSE first + ((normalize(i) + b) % size)]

getByte(i) == [b \in 0 .. Width - 1 |-> sp[BitsAt(i)[b]]]

\* Memory after setByte().  In a window shorter than a byte the last bits win.
Written(i, val) ==
    [a \in Bits |->
        LET here == {b \in 0 .. Width - 1 : BitsAt(i)[b] = a}
        IN  IF here = {} THEN sp[a]
            ELSE val[CHOOSE b \in here : \A c \in here : c <= b]]

\* Whole bytes first, then the upper bits of another one.
getBits(i, count) ==
    [k \in 0 .. count - 1 |-> getByte((i + k) - (k % Width))[k % Width]]

---------------------------------------------------------------------------
set(i, value) == /\ sp' = [sp EXCEPT ![Address(i)] = value]
                 /\ UNCHANGED <<first, last>>

setByte(i, val) == /\ sp' = Written(i, val)
                   /\ UNCHANGED <<first, last>>

subview(offset, count) == /\ offset + count <= size
                          /\ first' = first + offset
                          /\ last' = first + offset + count
                          /\ UNCHANGED sp

Next == \/ \E i \in Bits : \/ \E value \in Bit : set(i, value)
                           \/ \E val \in Byte : setByte(i, val)
        \/ \E offset \in 0 .. size - 1, count \in 1 .. size : subview(offset, count)

Spec == Init /\ [][Next]_vars

---------------------------------------------------------------------------
(* Properties                                                                *)

\* The fast path tests the address and the length of the window, which does not
\* tell that the window starts with a byte.  If it does not, the byte at its end
\* is accessed beyond the end instead of cyclically.
Overshoots(i, b) == /\ first % Width # 0 /\ size % Width = 0
                    /\ Address(i) % Width = 0
                    /\ normalize(i) + b >= size

\* Where bit b of the byte at i is.
Place(i, b) == IF Overshoots(i, b) THEN Address(i) + b ELSE Address(i + b)

\* "Byte-aligned read inside a byte-aligned view" and "Bitwise fallback" cannot
\* be told apart but for the bits that overshoot: getByte() and getBits() give the
\* bits that operator[] gives, across the end of the window, and setByte() changes
\* these and no others, whatever the window.
PathsAgree ==
    \A i \in 0 .. size - 1 :
        /\ \A b \in 0 .. Width - 1 : getByte(i)[b] = sp[Place(i, b)]
        /\ \A count \in 1 .. 2 * Width : \A k \in 0 .. count - 1 :
              getBits(i, count)[k] = sp[Place((i + k) - (k % Width), k % Width)]
        /\ \A val \in Byte : LET after == Written(i, val)
                                 hit == {Place(i, b) : b \in 0 .. Width - 1}
              IN /\ \A a \in Bits \ hit : after[a] = sp[a]
                 /\ size >= Width => \A b \in 0 .. Width - 1 : after[Place(i, b)] = val[b]

\* "... inside a byte-aligned view": no bit outside of the window is touched.
StaysInWindow ==
    \A i \in 0 .. size - 1, b \in 0 .. Width - 1 : BitsAt(i)[b] \in first .. last - 1
============================================================================
