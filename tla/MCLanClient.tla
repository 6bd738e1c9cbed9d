---------------------------- MODULE MCLanClient ----------------------------
(* LanClient for TLC. *)
EXTENDS LanClient, TLC
CONSTANTS u1, u2, t1, t2, k1, k2, c0
Nobody    == {}
OneUser   == {u1}
TwoUsers  == {u1, u2}
OneTick   == {t1}
TwoTicks  == {t1, t2}
OneClose  == {k1}
TwoCloses == {k1, k2}
AllCalls  == Users \cup Ticks \cup Closes \cup {c0}
=============================================================================
