-------------------------- MODULE MCBackedBuffer --------------------------
(* Instances of BackedBuffer for TLC.  A page of two bytes and a partial one *)
(* let files and buffers end before, at and behind a boundary.               *)
EXTENDS BackedBuffer

CONSTANT A              \* a byte that is not zero

MCValue == {Zero, A}

\* Each of these two alone.
OnlyComplete == {"complete"}
OnlyWrite == {"write"}
NoFaults == {}
===========================================================================
