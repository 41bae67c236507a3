----------------------------- MODULE RunLength ------------------------------
(* The run-length coder (rle(), unrle() in src/abilities/Compressible.cpp).  *)
(* A run of n bytes is followed by the number of its further repetitions, as *)
(* many bytes as it takes.  Bytes are 0 .. Largest, so that runs reach the   *)
(* largest number of a byte soon.                                            *)
EXTENDS Integers, Sequences

CONSTANTS Ns,           \* the thresholds n: 2 and 3
          Largest,      \* 255 in the code
          MaxLength     \* bound on the input

RunLengthConstants == /\ \A m \in Ns : m \in Nat \ {0}
                      /\ Largest \in Nat \ {0}
                      /\ MaxLength \in Nat

VARIABLES n, input,     \* the threshold, the bytes read so far
          prev, repetitions,
          result,
          done          \* has rle() returned?

vars == <<n, input, prev, repetitions, result, done>>

Byte == 0 .. Largest

TypeOK == /\ n \in Ns
          /\ input \in Seq(Byte) /\ Len(input) <= MaxLength
          /\ prev \in Byte
          /\ repetitions \in 0 .. MaxLength
          /\ result \in Seq(Byte)
          /\ done \in BOOLEAN

Init == /\ n \in Ns
        /\ input = << >>
        /\ prev = 0
        /\ repetitions = 0
        /\ result = << >>
        /\ done = FALSE

Times(k, b) == [i \in 1 .. k |-> b]

\* Mutant of runLength: no zero behind the largest number.
runLengthOpen(count) == IF count > 0 /\ count % Largest = 0
                        THEN Times(count \div Largest, Largest)
                        ELSE Append(Times(count \div Largest, Largest), count % Largest)

\* As many of the largest number as fit, and one that is smaller.
runLength(count) == Append(Times(count \div Largest, Largest), count % Largest)

encode(element, count) == IF count < n
                          THEN Times(count, element)
                          ELSE Times(n, element) \o runLength(count - n)

\* One byte of the buffer.
feed(b) == /\ ~done
           /\ Len(input) < MaxLength
           /\ input' = Append(input, b)
           /\ IF b = prev
              THEN repetitions' = repetitions + 1 /\ UNCHANGED <<prev, result>>
              ELSE /\ result' = result \o encode(prev, repetitions)
                   /\ prev' = b
                   /\ repetitions' = 1
           /\ UNCHANGED <<n, done>>

finish == /\ ~done
          /\ result' = result \o encode(prev, repetitions)
          /\ done' = TRUE
          /\ UNCHANGED <<n, input, prev, repetitions>>

\* The next call.
again == /\ done
         /\ input' = << >> /\ prev' = 0 /\ repetitions' = 0 /\ result' = << >>
         /\ done' = FALSE
         /\ n' \in Ns

Next == (\E b \in Byte : feed(b)) \/ finish \/ again

Spec == Init /\ [][Next]_vars

---------------------------------------------------------------------------
(* unrle(), byte by byte: counting tells whether the byte belongs to the     *)
(* length of a run.                                                          *)

Counted(s, b) == [s EXCEPT !.out = @ \o Times(b, s.prev), !.counting = b = Largest]

Copied(m, s, b) == LET k == IF b = s.prev THEN s.repetitions + 1 ELSE 1
                   IN  [out |-> Append(s.out, b), prev |-> b,
                        repetitions |-> IF k = m THEN 0 ELSE k, counting |-> k = m]

Read(m, s, b) == IF s.counting THEN Counted(s, b) ELSE Copied(m, s, b)

Start == [out |-> << >>, prev |-> 0, repetitions |-> 0, counting |-> FALSE]

\* With the threshold m.
unrle(m, code) ==
    LET after[k \in 0 .. Len(code)] == IF k = 0 THEN Start ELSE Read(m, after[k - 1], code[k])
    IN  after[Len(code)].out

---------------------------------------------------------------------------
(* Properties                                                                *)

\* Decoding undoes encoding, for runs of every length below, at and above the
\* threshold and the largest number of a byte, zeroes at the beginning included.
RoundTrip == done => unrle(n, result) = input
============================================================================
