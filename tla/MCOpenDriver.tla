---------------------------- MODULE MCOpenDriver ----------------------------
(* Three calls: one with a short answer, one with a long one, and one whose answer
   does not fit into the buffer; an event is as long as the short answer. *)
EXTENDS OpenDriver, TLC
CONSTANTS c1, c2, c3

ThreeCalls == {c1, c2, c3}
Lengths == c1 :> 1 @@ c2 :> 3 @@ c3 :> 4
=============================================================================
