------------------------- MODULE MCRmcpPlusSession -------------------------
(* RmcpPlusSession for TLC. *)
EXTENDS RmcpPlusSession
CONSTANTS s1, s2, s3, s4
TwoSids   == {s1, s2}
FourSids  == {s1, s2, s3, s4}

\* Suites that end in every way: 17, 3 and 8 usable, 15 without integrity
\* (fails at RAKP Message 4), 18 with xRC4, which is preferred to 8, 1 not
\* preferred.
Interesting == {1, 3, 8, 15, 17, 18}
AnyList     == UNION {{l \in [1..n -> Interesting] : \A i, j \in 1..n : l[i] = l[j] => i = j}
                         : n \in 0..3}
Some        == {1, 17}
ThreeAnd17  == {<<3, 17>>}
\* None; a usable suite, one without integrity, one with xRC4, and one that is none.
AnyExplicit   == {Reserved, 3, 15, 18, 200}
ReservedAnd3  == {Reserved, 3}
OneConnect    == [s \in Explicits |-> 1]
\* Without a suite set, one Connect20 already tries several.
TwoIfExplicit == (Reserved :> 1) @@ (3 :> 2)
=============================================================================
