--------------------------- MODULE MCUdpExchange ---------------------------
(* UdpExchange for TLC: the calls are interchangeable model values. *)
EXTENDS UdpExchange, TLC
CONSTANTS c1, c2, c3
Two       == {c1, c2}
Three     == {c1, c2, c3}
OnlyFirst == {c1}
NoCalls   == {}
Symmetry == Permutations(Three)
=============================================================================
