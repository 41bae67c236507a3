----------------------------- MODULE MCStorage ------------------------------
(* Instances of Storage for TLC.                                             *)
(*                                                                           *)
(* Two objects can move archives and files to each other.  Three addresses   *)
(* let a block be freed, allocated again, and leaked.  Three names leave one *)
(* to choose when two are taken.  The tree has a file in a directory and one *)
(* beside it, with three edits of either tree between calls.  Runs of        *)
(* seven bytes pass both thresholds and twice the largest number.  Windows   *)
(* on three bytes of two bits are shorter, longer, and as long as a byte.    *)
EXTENDS Storage

MCParent == [p \in Path |-> IF p = "d/x" THEN "d" ELSE Root]
MCSize   == [d \in Data \cup {Old, Partial} |-> IF d = Partial THEN 0 ELSE 1]
MCArrays == {[elements |-> [i \in 0 .. 2 |-> 2 - i], keys |-> [i \in 0 .. 2 |-> 1 + i], w |-> 2]}
MCRings  == {[elements |-> [i \in 0 .. 3 |-> 1 + (i % 2)], r |-> 3, w |-> 1]}
============================================================================
