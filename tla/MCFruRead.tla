----------------------------- MODULE MCFruRead -----------------------------
(* Three devices: the built-in one with two areas, a second with multi-records, and
   one without anything. *)
EXTENDS FruRead, SequencesExt

FromLengths(o, ls) ==
  [k \in DOMAIN ls |->
    [at |-> FoldLeft(LAMBDA x, y : x + 5 + y, o, SubSeq(ls, 1, k - 1)), length |-> ls[k]]]

ThreeDevices == 0..2
None3 == [chassis |-> 0, board |-> 0, product |-> 0]
Contents == [d \in ThreeDevices |->
  CASE d = 0 -> [size |-> 128, multi |-> 0, records |-> <<>>,
                 offset |-> [None3 EXCEPT !.chassis = 1, !.product = 16],
                 length |-> [None3 EXCEPT !.chassis = 6, !.product = 1]]
    [] d = 1 -> [size |-> 400, multi |-> 6, records |-> FromLengths(48, <<2, 250, 40>>),
                 offset |-> [None3 EXCEPT !.board = 1],
                 length |-> [None3 EXCEPT !.board = 5]]
    [] d = 2 -> [size |-> 0, multi |-> 0, records |-> <<>>, offset |-> None3, length |-> None3]]

At(d, n, p) == [device |-> d, lun |-> n, place |-> p]
SomeLocators == {<<>>, <<At(0, 0, "mc"), At(1, 0, "mc")>>,
                 <<At(1, 0, "mc"), At(2, 0, "bus"), At(2, 0, "mc"), At(0, 1, "mc")>>}
=============================================================================
