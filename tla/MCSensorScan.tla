---------------------------- MODULE MCSensorScan ----------------------------
(* Four records with sensors of different kinds: three have the same number, and two
   of these the same owner. *)
EXTENDS SensorScan

FourIds == 1..4
Recs == [i \in FourIds |->
  [type |-> <<"full", "eventonly", "compact", "full">>[i],
   owner |-> <<32, 32, 32, 44>>[i], number |-> <<5, 6, 5, 5>>[i]]]
Kinds == [i \in FourIds |->
  [threshold |-> i \in {1, 3}, analog |-> i # 2, nonlinear |-> i = 1]]

Call(w, s, n, t, f, fs, a) ==
  [walk |-> w, start |-> s, number |-> n, types |-> t, fill |-> f,
   filters |-> fs, any |-> a]
Sdrs(w, t, f, fs, a) == Call(w, 0, 0, t, f, fs, a)
Search(w, n, f) == Call(w, 0, n, {}, f, {}, FALSE)
SensorTypes == {"full", "compact"}

WalkOps ==
  {Call("GetSELEntries", s, 0, {}, "none", {}, FALSE) : s \in {0, 2, 65535}}
  \cup {Sdrs(w, t, "none", {}, FALSE) :
          w \in {"GetSDRs", "GetDeviceSDRs", "GetSDRsMap"}, t \in {{}, {"eventonly"}}}
  \cup {Search("GetDeviceSDRBySensorID", 5, "none")}
FillOps ==
  {Search("GetSDRBySensorID", n, "enhance") : n \in {5, 6}}
  \cup {Search("GetSDRBySensorID", 5, "one")}
  \cup {Sdrs("GetSDRs", SensorTypes, "sensors", fs, a) :
          fs \in {{}, {"threshold"}, {"threshold", "valid"}}, a \in BOOLEAN}
AllOps == WalkOps \cup FillOps

SomeCrossings == {{}, {"lnc"}}
=============================================================================
