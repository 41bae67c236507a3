------------------------ MODULE MCSortedRingBuffer ------------------------
(* Instances of SortedRingBuffer for TLC.  Four slots hold up to three       *)
(* elements: the pointers can be in every relation to each other, three keys *)
(* can come in any order, and two of them can be equal.                      *)
EXTENDS SortedRingBuffer, TLC

CONSTANTS A, B

MCT == {A, B}
MCKey == {-1, 0, 2}

\* Buffers to copy: an empty one, and a full one that wraps around.
MCOther == {[elements |-> (0 :> A @@ 1 :> B @@ 2 :> A @@ 3 :> B),
             keys     |-> (0 :> 0 @@ 1 :> 2 @@ 2 :> 0 @@ 3 :> -1), r |-> 1, w |-> 1],
            [elements |-> (0 :> A @@ 1 :> B @@ 2 :> A @@ 3 :> B),
             keys     |-> (0 :> 0 @@ 1 :> 2 @@ 2 :> 0 @@ 3 :> -1), r |-> 3, w |-> 2]}
===========================================================================
