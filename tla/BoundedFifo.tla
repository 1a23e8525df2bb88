---------------------------- MODULE BoundedFifo ----------------------------
(***************************************************************************)
(* What a queue of size Size promises: elements leave in the order in      *)
(* which they came, one at a time, and there are never more than Size of   *)
(* them.  Flush takes all of them at once.                                 *)
(***************************************************************************)
EXTENDS Naturals, Sequences

CONSTANTS Elements, Size

VARIABLE buf

Init == buf = <<>>

Put == /\ Len(buf) < Size
       /\ \E e \in Elements : buf' = Append(buf, e)

Get == buf # <<>> /\ buf' = Tail(buf)

Flush == buf' = <<>>

Next == Put \/ Get \/ Flush

Spec == Init /\ [][Next]_buf
=============================================================================
