----------------------------- MODULE MCMailbox -----------------------------
(* Instances of Mailbox for TLC.  Three slots hold two messages, so the      *)
(* queue is empty, partly filled, full and wraps around.  Of two threads one *)
(* is anywhere in its call, or in a callback, while the other one starts.    *)
EXTENDS Mailbox

CONSTANTS T1, T2, D1, M1, M2

MCThread == {T1, T2}
MCDelegate == {D1}
MCMsg == {M1, M2}
============================================================================
