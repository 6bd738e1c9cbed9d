-------------------------- MODULE SensorScan_proofs --------------------------
(***************************************************************************)
(* The walks over a repository that changes, for every repository, every   *)
(* number of changes and every call: nothing is missed, all is in order,   *)
(* and a search stops at the first match.                                  *)
(*                                                                         *)
(* The argument: while the walk goes on, what has been collected lies      *)
(* below the ID that is asked for next, and every record that has stayed   *)
(* and is wanted is either collected or lies at or above that ID.          *)
(*                                                                         *)
(* The second part is about the sensors that are filled from the records:  *)
(* what each has got before each of the commands; the last is about why    *)
(* every call ends.                                                        *)
(***************************************************************************)
EXTENDS SensorScan, TLAPS

InWalk == phase \in {"info", "entryInfo", "entry"}

WalkTypeOK ==
  /\ repo \subseteq Ids /\ stayed \subseteq repo
  /\ op \in Ops
  /\ phase \in {"info", "entryInfo", "entry", "collected", "failed"}
  /\ at \in Ids \cup {FirstID, LastID}
  /\ out \in Seq(Ids)

(* Where the walk is: before the first answer nothing has been collected, and only a
   walk over the SEL may begin with the last record; after it the ID asked for
   is above all that has been collected. *)
Position ==
  InWalk =>
    /\ at \in {FirstID, LastID} => out = <<>>
    /\ at = LastID => IsSEL /\ op.start = LastID
    /\ \A i \in DOMAIN out : out[i] < at
    /\ IsSearch => out = <<>>

(* What a walk still owes. *)
Owed(id) == FromStart(id) /\ Wanted(id)
Ahead(id) == at = FirstID \/ (at \in Ids /\ at <= id)
Remaining == InWalk => \A id \in stayed : Owed(id) => HandedOut(id) \/ Ahead(id)

WalkInv == WalkTypeOK /\ Position /\ Remaining /\ InOrder /\ NothingMissed /\ FirstMatch

-----------------------------------------------------------------------------
(* What is wanted and where a walk begins depend on the call alone. *)
LEMMA SameCall ==
  ASSUME op' = op
  PROVE  /\ IsSEL' = IsSEL /\ IsSearch' = IsSearch /\ IsMap' = IsMap
         /\ \A id : Wanted(id)' = Wanted(id) /\ FromStart(id)' = FromStart(id)
                      /\ Owed(id)' = Owed(id)
  BY DEF IsSEL, IsSearch, IsMap, Wanted, FromStart, Owed

(* And what has been handed out, as long as nothing is collected. *)
LEMMA SameOut ==
  ASSUME op' = op, out' = out
  PROVE  InOut' = InOut /\ \A id : HandedOut(id)' = HandedOut(id)
  BY DEF InOut, HandedOut, IsMap

(* A search wants exactly the records with its sensor number, from the first on. *)
LEMMA SearchWants ==
  ASSUME IsSearch
  PROVE  ~IsSEL /\ \A id : /\ Wanted(id) <=> SensorNumber(id) = op.number
                           /\ FromStart(id)
  BY DEF IsSearch, IsSEL, IsMap, Wanted, FromStart

(* An element more at the end of a sequence of IDs. *)
LEMMA AppendIds ==
  ASSUME NEW S, NEW s \in Seq(S), NEW id \in S
  PROVE  /\ Append(s, id) \in Seq(S)
         /\ DOMAIN Append(s, id) = 1 .. Len(s) + 1
         /\ DOMAIN s = 1 .. Len(s) /\ Len(s) \in Nat
         /\ \A i \in 1 .. Len(s) : Append(s, id)[i] = s[i]
         /\ Append(s, id)[Len(s) + 1] = id
  OBVIOUS

(* A record that comes after all those collected: it is in, nothing else is new, and
   the one that it takes the place of was of the same sensor. *)
LEMMA Storing ==
  ASSUME NEW id \in Ids, out \in Seq(Ids), out' = Stored(out, id)
  PROVE  /\ out' \in Seq(Ids)
         /\ \A i \in DOMAIN out' : out'[i] = id \/ (i \in DOMAIN out /\ out'[i] = out[i])
         /\ id \in InOut'
         /\ \A j \in InOut : j \in InOut' \/ (IsMap /\ SameSensor(j, id))
         /\ ~IsMap => out' = Append(out, id)
<1>1. CASE IsMap /\ \E i \in DOMAIN out : SameSensor(out[i], id)
  <2>1. out' = [i \in DOMAIN out |-> IF SameSensor(out[i], id) THEN id ELSE out[i]]
    BY <1>1 DEF Stored
  <2>2. DOMAIN out = 1 .. Len(out) /\ Len(out) \in Nat /\ \A i \in DOMAIN out : out[i] \in Ids
    OBVIOUS
  <2>3. out' \in [1 .. Len(out) -> Ids] /\ DOMAIN out' = DOMAIN out
    BY <2>1, <2>2
  <2>4. out' \in Seq(Ids)
    BY <2>2, <2>3
  <2> QED BY <1>1, <2>1, <2>3, <2>4 DEF InOut
<1>2. CASE ~(IsMap /\ \E i \in DOMAIN out : SameSensor(out[i], id))
  <2>1. out' = Append(out, id)
    BY <1>2 DEF Stored
  <2> QED BY <2>1, AppendIds DEF InOut
<1> QED BY <1>1, <1>2

-----------------------------------------------------------------------------
(* The invariant holds when a call begins. *)
LEMMA WalkInvInit == Init => WalkInv
<1> SUFFICES ASSUME Init PROVE WalkInv
  OBVIOUS
<1> USE WalkAssumption
<1>1. WalkTypeOK
  BY DEF Init, WalkInit, WalkTypeOK
<1>2. out = <<>> /\ DOMAIN out = {} /\ (at = LastID => IsSEL /\ op.start = LastID)
  BY DEF Init, WalkInit, IsSEL
<1>3. Position /\ InOrder
  BY <1>2 DEF Position, InOrder
<1>4. Remaining
  BY <1>1 DEF Init, WalkInit, WalkTypeOK, Remaining, Owed, Ahead, FromStart, IsSEL
<1>5. ~Walked
  BY DEF Init, WalkInit, Walked
<1> QED
  BY <1>1, <1>3, <1>4, <1>5 DEF WalkInv, NothingMissed, FirstMatch

(* An answer with a record: the heart of the matter. *)
LEMMA EntryKeepsInv ==
  ASSUME WalkInv, EntryAnswered
  PROVE  WalkInv'
<1> USE WalkAssumption
<1>1. PICK id \in repo, next \in Ids \cup {LastID} :
        /\ Addressed(id) /\ NextOf(id, next)
        /\ out' = IF Wanted(id) THEN Stored(out, id) ELSE out
        /\ at' = IF IsSearch /\ Wanted(id) THEN at ELSE next
        /\ phase' = (IF IsSearch /\ Wanted(id) THEN "collected"
                     ELSE IF next = LastID
                            THEN IF IsSearch THEN "failed" ELSE "collected"
                            ELSE IF IsSEL THEN "entryInfo" ELSE "entry")
  BY Zenon DEF EntryAnswered
<1>2. /\ phase = "entry" /\ InWalk
      /\ repo' = repo /\ op' = op /\ stayed' = stayed
  BY DEF EntryAnswered, InWalk
<1>3. WalkTypeOK /\ Position /\ Remaining /\ InOrder
  BY DEF WalkInv
<1>4. id \in Ids /\ repo \subseteq Ids /\ stayed \subseteq repo /\ out \in Seq(Ids)
  BY <1>3 DEF WalkTypeOK
<1>5. IsSEL' = IsSEL /\ IsSearch' = IsSearch /\ IsMap' = IsMap
      /\ \A j : Wanted(j)' = Wanted(j) /\ FromStart(j)' = FromStart(j) /\ Owed(j)' = Owed(j)
  BY <1>2, SameCall
<1>6. \A i \in DOMAIN out : out[i] < id
  BY <1>1, <1>2, <1>3, <1>4 DEF Position, Addressed, WalkTypeOK
<1>7. WalkTypeOK'
  BY <1>1, <1>2, <1>3, <1>4, Storing DEF WalkTypeOK
<1>8. InOrder'
  <2>1. CASE Wanted(id) /\ ~IsMap
    <3>1. out' = Append(out, id)
      BY <2>1, <1>1, <1>4, Storing
    <3> QED BY <2>1, <3>1, <1>3, <1>4, <1>5, <1>6, AppendIds DEF InOrder
  <2>2. CASE Wanted(id) /\ IsMap
    <3>1. \A i, j \in DOMAIN out : SameSensor(out[i], out[j]) => i = j
      BY <2>2, <1>3 DEF InOrder
    <3>2. \A i, j \in DOMAIN out' : SameSensor(out'[i], out'[j]) => i = j
      <4>1. CASE \E i \in DOMAIN out : SameSensor(out[i], id)
        <5>1. out' = [i \in DOMAIN out |-> IF SameSensor(out[i], id) THEN id ELSE out[i]]
          BY <4>1, <2>2, <1>1 DEF Stored
        <5> QED BY <5>1, <3>1 DEF SameSensor
      <4>2. CASE ~\E i \in DOMAIN out : SameSensor(out[i], id)
        <5>1. out' = Append(out, id)
          BY <4>2, <2>2, <1>1 DEF Stored
        <5>2. /\ \A i \in DOMAIN out' : i \in DOMAIN out \/ i = Len(out) + 1
              /\ \A i \in DOMAIN out : out'[i] = out[i]
              /\ out'[Len(out) + 1] = id
          BY <5>1, <1>4, AppendIds
        <5>3. \A i \in DOMAIN out : ~SameSensor(out[i], id) /\ ~SameSensor(id, out[i])
          BY <4>2 DEF SameSensor
        <5> QED BY <5>2, <5>3, <3>1
      <4> QED BY <4>1, <4>2
    <3> QED BY <2>2, <3>2, <1>5 DEF InOrder
  <2>3. CASE ~Wanted(id)
    BY <2>3, <1>1, <1>3, <1>5 DEF InOrder
  <2> QED BY <2>1, <2>2, <2>3
<1>9. \A j \in stayed : Owed(j) => HandedOut(j) \/ id <= j
  BY <1>1, <1>2, <1>3, <1>4 DEF Remaining, Ahead, Addressed, Owed, FromStart, Position
<1>10. Wanted(id) => id \in InOut'
  BY <1>1, <1>4, Storing
<1>11. \A j \in Ids : HandedOut(j) => HandedOut(j)'
  <2>1. CASE ~Wanted(id)
    BY <2>1, <1>1, <1>2, SameOut
  <2>2. CASE Wanted(id)
    <3>1. \A i \in InOut : i \in InOut' \/ (IsMap /\ SameSensor(i, id))
      BY <2>2, <1>1, <1>4, Storing
    <3>2. \A i \in InOut : i \in Nat /\ i < id
      <4>1. \A k \in DOMAIN out : out[k] \in Ids /\ out[k] < id
        BY <1>4, <1>6
      <4> QED BY <4>1 DEF InOut
    <3>3. id \in Nat /\ \A j \in Ids : j \in Nat
      BY <1>4
    <3>4. ASSUME NEW j \in Ids, j \in InOut PROVE HandedOut(j)'
      <4>1. CASE j \in InOut'
        BY <4>1 DEF HandedOut
      <4>2. CASE IsMap /\ SameSensor(j, id)
        <5>1. id \in InOut' /\ j < id /\ IsMap'
          BY <4>2, <2>2, <1>5, <1>10, <3>2, <3>4
        <5> QED BY <4>2, <5>1 DEF HandedOut, SameSensor
      <4> QED BY <3>1, <3>4, <4>1, <4>2
    <3>5. ASSUME NEW j \in Ids, IsMap, NEW i \in InOut, j < i, SameSensor(j, i)
          PROVE  HandedOut(j)'
      <4>1. CASE i \in InOut'
        BY <4>1, <3>5, <1>5 DEF HandedOut, SameSensor
      <4>2. CASE SameSensor(i, id)
        <5>1. j < id /\ SameSensor(j, id)
          BY <4>2, <3>2, <3>3, <3>5 DEF SameSensor
        <5>2. id \in InOut' /\ IsMap'
          BY <2>2, <1>5, <1>10, <3>5
        <5> QED BY <5>1, <5>2 DEF HandedOut, SameSensor
      <4> QED BY <3>1, <4>1, <4>2
    <3> QED BY <3>4, <3>5 DEF HandedOut
  <2> QED BY <2>1, <2>2
<1>12. \A j \in stayed : Owed(j) => HandedOut(j)' \/ id < j
  <2> SUFFICES ASSUME NEW j \in stayed, Owed(j), ~(id < j) PROVE HandedOut(j)'
    OBVIOUS
  <2>1. j \in Ids /\ j \in Nat /\ id \in Nat
    BY <1>4
  <2>2. HandedOut(j) \/ j = id
    BY <1>9, <2>1
  <2> QED BY <1>10, <1>11, <2>1, <2>2 DEF Owed, HandedOut
<1>13. CASE IsSearch /\ Wanted(id)
  <2>1. phase' = "collected" /\ out' = Append(out, id) /\ out = <<>> /\ ~IsMap
    BY <1>1, <1>2, <1>3, <1>13 DEF Position, IsSearch, IsMap, Stored
  <2>2. Position' /\ Remaining' /\ NothingMissed'
    BY <2>1, <1>5, <1>13 DEF Position, Remaining, NothingMissed, InWalk
  <2>3. InOut = {}
    BY <2>1 DEF InOut
  <2>4. \A j \in stayed : SensorNumber(j) = op.number => id <= j
    BY <2>1, <2>3, <1>9, <1>13, SearchWants DEF Owed, HandedOut
  <2>5. Len(out') = 1 /\ out'[1] = id
    BY <2>1
  <2>6. \A j : SensorNumber(j)' = SensorNumber(j)
    BY DEF SensorNumber
  <2>7. FirstMatch'
    BY <2>4, <2>5, <2>6, <1>2 DEF FirstMatch
  <2> QED
    BY <1>7, <1>8, <2>2, <2>7 DEF WalkInv
<1>14. CASE ~(IsSearch /\ Wanted(id)) /\ next = LastID
  <2>1. ~InWalk' /\ (IsSearch => ~Walked')
    BY <1>1, <1>14 DEF InWalk, Walked
  <2>2. Position' /\ Remaining' /\ FirstMatch'
    BY <2>1, <1>5 DEF Position, Remaining, FirstMatch
  <2>3. \A j \in stayed : j <= id
    BY <1>1, <1>4, <1>14 DEF NextOf
  <2>4. NothingMissed'
    <3>1. \A j \in stayed : j \in Nat /\ id \in Nat
      BY <1>4
    <3> QED BY <2>3, <3>1, <1>2, <1>5, <1>12 DEF NothingMissed, Owed
  <2> QED
    BY <1>7, <1>8, <2>2, <2>4 DEF WalkInv
<1>15. CASE ~(IsSearch /\ Wanted(id)) /\ next # LastID
  <2>1. ~Walked' /\ at' = next /\ next \in Ids /\ id < next
    BY <1>1, <1>15 DEF Walked, NextOf
  <2>2. NothingMissed' /\ FirstMatch'
    BY <2>1 DEF NothingMissed, FirstMatch
  <2>3. \A i \in DOMAIN out' : out'[i] < next
    <3>1. \A i \in DOMAIN out : out[i] \in Int /\ out[i] < next
      <4> TAKE i \in DOMAIN out
      <4>1. out[i] \in Ids /\ id \in Ids /\ next \in Ids
        BY <1>4, <2>1
      <4>2. out[i] \in Nat /\ id \in Nat /\ next \in Nat
        BY <4>1 DEF WalkAssumption
      <4>3. out[i] < id /\ id < next
        BY <1>6, <2>1
      <4> QED BY <4>2, <4>3
    <3>2. CASE Wanted(id)
      <4>1. \A i \in DOMAIN out' : out'[i] = id \/ (i \in DOMAIN out /\ out'[i] = out[i])
        BY <3>2, <1>1, <1>4, Storing
      <4> QED BY <4>1, <3>1, <2>1
    <3>3. CASE ~Wanted(id)
      <4>1. out' = out
        BY <3>3, <1>1
      <4> QED BY <4>1, <3>1
    <3> QED BY <3>2, <3>3
  <2>4. IsSearch => out' = <<>>
    <3> SUFFICES ASSUME IsSearch PROVE out' = <<>>
      OBVIOUS
    <3>1. out' = out
      BY <1>1, <1>15
    <3> QED BY <3>1, <1>2, <1>3 DEF Position
  <2>5. Position'
    BY <2>1, <2>3, <2>4, <1>5 DEF Position
  <2>6. \A j \in stayed : id < j => next <= j
    BY <1>1, <1>4, <1>15 DEF NextOf
  <2>7. Remaining'
    BY <2>1, <2>6, <1>2, <1>5, <1>12 DEF Remaining, Ahead
  <2> QED
    BY <1>7, <1>8, <2>2, <2>5, <2>7 DEF WalkInv
<1> QED
  BY <1>13, <1>14, <1>15

(* The other answers and errors. *)
LEMMA InfoKeepsInv ==
  ASSUME WalkInv, InfoAnswered
  PROVE  WalkInv'
<1>1. /\ IsSEL' = IsSEL /\ IsSearch' = IsSearch /\ IsMap' = IsMap
      /\ \A id : Owed(id)' = Owed(id) /\ HandedOut(id)' = HandedOut(id)
  BY SameCall, SameOut DEF InfoAnswered
<1>2. WalkTypeOK' /\ InOrder'
  BY <1>1 DEF WalkInv, WalkTypeOK, InOrder, InfoAnswered
<1>3. InWalk /\ ~Walked'
  BY DEF InfoAnswered, InWalk, Walked
<1>4. Position' /\ Remaining'
  BY <1>1, <1>3 DEF WalkInv, Position, Remaining, Ahead, InfoAnswered
<1> QED
  BY <1>2, <1>3, <1>4 DEF WalkInv, NothingMissed, FirstMatch

LEMMA FailureKeepsInv ==
  ASSUME WalkInv, WalkFails
  PROVE  WalkInv'
<1>1. phase' = "failed" /\ out' = <<>> /\ DOMAIN out' = {}
  BY DEF WalkFails
<1>2. WalkTypeOK'
  BY DEF WalkFails, WalkInv, WalkTypeOK
<1> QED
  BY <1>1, <1>2 DEF WalkInv, Position, Remaining, InOrder, NothingMissed, FirstMatch, InWalk, Walked

(* Changes of the repository during a walk: nothing new counts as stayed. *)
LEMMA ChangeKeepsInv ==
  ASSUME WalkInv, RepoStep
  PROVE  WalkInv'
<1>1. /\ phase' = phase /\ op' = op /\ at' = at /\ out' = out
      /\ stayed' \subseteq stayed /\ stayed' \subseteq repo' /\ repo' \subseteq Ids
  BY DEF RepoStep, Change, AddRecord, RemoveRecord, ClearRecords, WalkInv, WalkTypeOK
<1>2. /\ IsSEL' = IsSEL /\ IsSearch' = IsSearch /\ IsMap' = IsMap
      /\ \A id : Owed(id)' = Owed(id) /\ HandedOut(id)' = HandedOut(id)
  BY <1>1, SameCall, SameOut
<1>3. InWalk /\ ~Walked'
  BY <1>1 DEF RepoStep, InWalk, Walked
<1>4. WalkTypeOK' /\ InOrder'
  BY <1>1, <1>2 DEF WalkInv, WalkTypeOK, InOrder
<1>5. Position' /\ Remaining'
  BY <1>1, <1>2, <1>3 DEF WalkInv, Position, Remaining, Ahead
<1> QED
  BY <1>3, <1>4, <1>5 DEF WalkInv, NothingMissed, FirstMatch

(* Filling sensors, and doing nothing. *)
LEMMA FillingKeepsInv ==
  ASSUME WalkInv, UNCHANGED walkVars
  PROVE  WalkInv'
<1>1. /\ IsSEL' = IsSEL /\ IsSearch' = IsSearch /\ IsMap' = IsMap
      /\ \A id : /\ Owed(id)' = Owed(id) /\ Wanted(id)' = Wanted(id)
                 /\ FromStart(id)' = FromStart(id) /\ HandedOut(id)' = HandedOut(id)
  BY SameCall, SameOut DEF walkVars
<1>2. WalkTypeOK' /\ InOrder' /\ Position'
  BY <1>1 DEF WalkInv, WalkTypeOK, InOrder, Position, InWalk, walkVars
<1>3. Remaining' /\ NothingMissed'
  BY <1>1 DEF WalkInv, Remaining, NothingMissed, Walked, Ahead, InWalk, walkVars
<1>4. FirstMatch'
  BY <1>1 DEF WalkInv, FirstMatch, Walked, SensorNumber, walkVars
<1> QED
  BY <1>2, <1>3, <1>4 DEF WalkInv

LEMMA WalkInvStep == WalkInv /\ [Next]_vars => WalkInv'
<1> SUFFICES ASSUME WalkInv, [Next]_vars PROVE WalkInv'
  OBVIOUS
<1>1. CASE WalkStep
  BY <1>1, EntryKeepsInv, InfoKeepsInv, FailureKeepsInv DEF WalkStep, Walk
<1>2. CASE RepoStep
  BY <1>2, ChangeKeepsInv
<1>3. CASE Command
  <2>1. UNCHANGED walkVars
    BY <1>3 DEF Command, Fill, NextRecord, Ignorable, FillFails, EventStatus, Factors,
         Thresholds, Hysteresis, Keep, FillEnds, Reading
  <2> QED BY <2>1, FillingKeepsInv
<1>4. CASE UNCHANGED vars
  BY <1>4, FillingKeepsInv DEF vars
<1> QED
  BY <1>1, <1>2, <1>3, <1>4 DEF Next

THEOREM WalkInvariant == Spec => []WalkInv
  BY WalkInvInit, WalkInvStep, PTL DEF Spec
-----------------------------------------------------------------------------
(* GetSELEntries, GetSDRs and the like hand out every record that was there all the
   time, GetSDRsMap that record or a later one of its sensor, whatever is added or
   removed meanwhile, in a repository of any size. *)
THEOREM WalksMissNothing == Spec => []NothingMissed
  BY WalkInvariant, PTL DEF WalkInv

(* They hand the records out in the repository's order, none of them twice, and
   GetSDRsMap no sensor twice. *)
THEOREM WalksInOrder == Spec => []InOrder
  BY WalkInvariant, PTL DEF WalkInv

(* GetSDRBySensorID ends at the first record of the sensor. *)
THEOREM SearchesStopAtTheFirst == Spec => []FirstMatch
  BY WalkInvariant, PTL DEF WalkInv
-----------------------------------------------------------------------------
(* Filling a sensor: what it has at each command. *)
FactorSet == {SdrFactors} \cup {ReadFactors(r) : r \in Raws \cup {None}}
ValueSet  == FactorSet \cup {"plain", None}
Sensors   ==
  [id: Ids \cup {None}, raw: Raws \cup {None}, value: ValueSet, factors: FactorSet,
   disabled: BOOLEAN, available: BOOLEAN,
   crossed: SUBSET {"unr", "ucr", "unc", "lnr", "lcr", "lnc"}, status: {"", "ok", "ucr"},
   events: BOOLEAN, thresholds: ValueSet, hysteresis: ValueSet]
Commands == {"reading", "discrete", "factors", "thresholds", "hysteresis"}

FillTypeOK ==
  /\ todo \in Seq(Ids) /\ sensor \in Sensors /\ sensors \in Seq(Sensors)
  /\ step \in Commands \cup {"walk", "next", "filled", "done", "failed"}
  /\ step \in Commands \cup {"filled"} => sensor.id \in Ids /\ todo # <<>>

(* What ThresholdsOfTheReading says of one sensor. *)
Right(s) ==
  /\ Traits[s.id].nonlinear /\ s.thresholds # None =>
       /\ s.thresholds = ReadFactors(s.raw)
       /\ s.hysteresis # None => s.hysteresis = s.thresholds
  /\ s.disabled => ~s.events /\ s.thresholds = None /\ s.factors = SdrFactors

(* Nothing is converted before the factors are those of the reading. *)
Bare(s) == s.thresholds = None /\ s.hysteresis = None
InHand(s) ==
  /\ step \in {"reading", "discrete", "factors", "thresholds"} => Bare(s) /\ ~s.disabled
  /\ step = "reading" => ~s.events /\ s.factors = SdrFactors
  /\ step \in {"factors", "thresholds", "hysteresis"} => HasAnalogReading(s.id)
  /\ step \in {"thresholds", "hysteresis"} /\ Traits[s.id].nonlinear =>
       s.factors = ReadFactors(s.raw)
  /\ step = "hysteresis" =>
       s.thresholds = Converted(s) /\ s.hysteresis = None /\ ~s.disabled
  /\ step = "filled" => Right(s)

FillInv ==
  /\ FillTypeOK
  /\ InHand(sensor)
  /\ \A i \in DOMAIN sensors : Right(sensors[i])

LEMMA NewSensors ==
  ASSUME NEW id \in Ids \cup {None}
  PROVE  /\ NewSensor(id) \in Sensors /\ NewSensor(id).id = id
         /\ Bare(NewSensor(id)) /\ ~NewSensor(id).disabled
         /\ ~NewSensor(id).events /\ NewSensor(id).factors = SdrFactors
  BY DEF NewSensor, Sensors, Bare, FactorSet, ValueSet

LEMMA FillInvInit == Init => FillInv
<1> SUFFICES ASSUME Init PROVE FillInv
  OBVIOUS
<1>1. /\ todo = <<>> /\ sensor = NoSensor /\ step = "walk" /\ sensors = <<>>
      /\ <<>> \in Seq(Ids) /\ <<>> \in Seq(Sensors)
  BY DEF Init
<1>2. sensor \in Sensors
  BY <1>1, NewSensors DEF NoSensor
<1> QED
  BY <1>1, <1>2 DEF FillInv, FillTypeOK, Commands, InHand

LEMMA AfterReadings ==
  ASSUME NEW s, Traits[s.id] \in Trait, s.id \in Ids, Bare(s)
  PROVE  /\ AfterReading(s) \in {"filled", "discrete", "factors", "thresholds"}
         /\ s.disabled => AfterReading(s) = "filled"
         /\ AfterReading(s) \in {"factors", "thresholds"} => HasAnalogReading(s.id)
         /\ AfterReading(s) = "thresholds" => ~Traits[s.id].nonlinear
  BY DEF AfterReading, HasAnalogReading, Bare, Trait

(* The walk is over when the first record is filled. *)
LEMMA FillKeeps == WalkInv /\ FillInv /\ Fill => FillInv'
  BY DEF Fill, FillInv, FillTypeOK, WalkInv, WalkTypeOK, Commands, InHand

LEMMA NextRecordKeeps == FillInv /\ NextRecord => FillInv'
<1> SUFFICES ASSUME FillInv, NextRecord PROVE FillInv'
  OBVIOUS
<1>1. Head(todo) \in Ids
  BY DEF FillInv, FillTypeOK, NextRecord
<1>2. CASE step' = "reading" /\ sensor' = NewSensor(Head(todo)) /\ UNCHANGED sensors
  BY <1>1, <1>2, NewSensors DEF FillInv, FillTypeOK, Commands, InHand, NextRecord
<1>3. CASE step' = "failed" /\ sensors' = <<>> /\ UNCHANGED sensor
  BY <1>3 DEF FillInv, FillTypeOK, Commands, InHand, NextRecord
<1> QED
  BY <1>2, <1>3 DEF NextRecord

LEMMA ReadingKeeps ==
  ASSUME FillInv, NEW r \in Raws, NEW c \in Crossings, NEW d \in BOOLEAN, NEW u \in BOOLEAN,
         Reading(r, c, d, u)
  PROVE  FillInv'
<1>1. /\ step = "reading" /\ step' = AfterReading(sensor') /\ UNCHANGED <<todo, sensors>>
      /\ sensor' = [sensor EXCEPT !.raw = r, !.value = Converted(sensor),
                      !.disabled = d, !.available = ~u,
                      !.crossed = c, !.status = ThresholdStatus(c)]
  BY DEF Reading
<1>2. /\ sensor \in Sensors /\ sensor.id \in Ids /\ Bare(sensor)
      /\ sensor.factors \in FactorSet
  BY <1>1 DEF FillInv, FillTypeOK, Commands, InHand, Sensors
<1>3. Converted(sensor) \in ValueSet /\ ThresholdStatus(c) \in {"", "ok", "ucr"}
  BY <1>2 DEF Converted, ValueSet, ThresholdStatus
<1>4. sensor' \in Sensors /\ sensor'.id = sensor.id /\ sensor'.disabled = d
      /\ Bare(sensor')
  <2>1. c \in SUBSET {"unr", "ucr", "unc", "lnr", "lcr", "lnc"} /\ r \in Raws \cup {None}
    BY ScanAssumption
  <2>2. sensor' \in Sensors
    BY <1>1, <1>2, <1>3, <2>1 DEF Sensors
  <2>3. sensor'.id = sensor.id /\ sensor'.disabled = d
    BY <1>1, <1>2 DEF Sensors
  <2>4. Bare(sensor')
    BY <1>1, <1>2 DEF Sensors, Bare
  <2> QED BY <2>2, <2>3, <2>4
<1>5. Traits[sensor'.id] \in Trait
  BY <1>2, <1>4, ScanAssumption
<1>6. /\ step' \in {"filled", "discrete", "factors", "thresholds"}
      /\ d => step' = "filled"
      /\ step' \in {"factors", "thresholds"} => HasAnalogReading(sensor'.id)
      /\ step' = "thresholds" => ~Traits[sensor'.id].nonlinear
  BY <1>1, <1>2, <1>4, <1>5, AfterReadings
<1>7. sensor'.events = sensor.events /\ sensor'.factors = sensor.factors
  BY <1>1, <1>2 DEF Sensors
<1>8. ~sensor.events /\ sensor.factors = SdrFactors
  BY <1>1 DEF FillInv, InHand
<1> QED
  BY <1>1, <1>2, <1>4, <1>6, <1>7, <1>8 DEF FillInv, FillTypeOK, Commands, InHand, Right, Bare,
       HasAnalogReading

LEMMA IgnorableKeeps == FillInv /\ Ignorable => FillInv'
<1> SUFFICES ASSUME FillInv, Ignorable PROVE FillInv'
  OBVIOUS
<1> USE ScanAssumption
<1>1. UNCHANGED <<todo, sensor, sensors>> /\ step \in Commands /\ sensor.id \in Ids
  BY DEF Ignorable, Commands, FillInv, FillTypeOK
<1>2. Traits[sensor.id] \in Trait
  BY <1>1
<1>3. CASE step = "reading" /\ step' = AfterReading(sensor)
  <2>1. Bare(sensor) /\ ~sensor.disabled
    BY <1>3 DEF FillInv, InHand
  <2> QED
    BY <1>1, <1>2, <1>3, <2>1, AfterReadings
       DEF FillInv, FillTypeOK, Commands, InHand, Right, Bare, HasAnalogReading
<1>4. CASE step # "reading" /\ step' = "filled"
  <2>1. Right(sensor)
    BY <1>1, <1>4 DEF FillInv, InHand, Right, Bare, Commands, Converted
  <2> QED
    BY <1>1, <1>4, <2>1 DEF FillInv, FillTypeOK, Commands, InHand
<1> QED
  BY <1>3, <1>4 DEF Ignorable

LEMMA FillFailsKeeps == FillInv /\ FillFails => FillInv'
  BY DEF FillFails, FillInv, FillTypeOK, Commands, InHand

LEMMA EventStatusKeeps == FillInv /\ EventStatus => FillInv'
<1> SUFFICES ASSUME FillInv, EventStatus PROVE FillInv'
  OBVIOUS
<1>1. /\ sensor \in Sensors /\ Bare(sensor) /\ ~sensor.disabled
      /\ sensor' = [sensor EXCEPT !.events = TRUE]
  BY DEF EventStatus, FillInv, FillTypeOK, InHand
<1>2. sensor' \in Sensors /\ Bare(sensor') /\ ~sensor'.disabled /\ sensor'.id = sensor.id
  BY <1>1 DEF Sensors, Bare
<1> QED
  BY <1>2 DEF EventStatus, FillInv, FillTypeOK, Commands, InHand, Right, Bare

LEMMA FactorsKeeps == FillInv /\ Factors => FillInv'
<1> SUFFICES ASSUME FillInv, Factors PROVE FillInv'
  OBVIOUS
<1>1. /\ sensor \in Sensors /\ Bare(sensor) /\ ~sensor.disabled
      /\ sensor' = [sensor EXCEPT !.factors = ReadFactors(sensor.raw)]
      /\ ReadFactors(sensor.raw) \in FactorSet
  BY DEF Factors, FillInv, FillTypeOK, InHand, Sensors, FactorSet
<1>2. /\ sensor' \in Sensors /\ Bare(sensor') /\ ~sensor'.disabled /\ sensor'.id = sensor.id
      /\ sensor'.factors = ReadFactors(sensor'.raw)
  BY <1>1 DEF Sensors, Bare
<1> QED
  BY <1>2 DEF Factors, FillInv, FillTypeOK, Commands, InHand, HasAnalogReading

(* Thresholds and hysteresis are converted by the same factors. *)
LEMMA ThresholdsKeeps == FillInv /\ Thresholds => FillInv'
<1> SUFFICES ASSUME FillInv, Thresholds PROVE FillInv'
  OBVIOUS
<1>1. /\ sensor \in Sensors /\ Bare(sensor) /\ ~sensor.disabled
      /\ sensor' = [sensor EXCEPT !.thresholds = Converted(sensor)]
      /\ Converted(sensor) \in ValueSet
  BY DEF Thresholds, FillInv, FillTypeOK, InHand, Sensors, Converted, ValueSet
<1>2. /\ sensor' \in Sensors /\ ~sensor'.disabled /\ sensor'.id = sensor.id
      /\ sensor'.factors = sensor.factors /\ sensor'.raw = sensor.raw
      /\ sensor'.thresholds = Converted(sensor) /\ sensor'.hysteresis = None
  BY <1>1 DEF Sensors, Bare
<1>3. Converted(sensor') = Converted(sensor)
  BY <1>2 DEF Converted, HasAnalogReading
<1> QED
  BY <1>2, <1>3 DEF Thresholds, FillInv, FillTypeOK, Commands, InHand, HasAnalogReading

LEMMA HysteresisKeeps == FillInv /\ Hysteresis => FillInv'
<1> SUFFICES ASSUME FillInv, Hysteresis PROVE FillInv'
  OBVIOUS
<1>1. /\ sensor \in Sensors /\ ~sensor.disabled /\ HasAnalogReading(sensor.id)
      /\ sensor' = [sensor EXCEPT !.hysteresis = Converted(sensor)]
      /\ Converted(sensor) \in ValueSet /\ Converted(sensor) = sensor.factors
      /\ sensor.thresholds = Converted(sensor)
  BY DEF Hysteresis, FillInv, FillTypeOK, InHand, Sensors, Converted, ValueSet
<1>2. /\ sensor' \in Sensors /\ ~sensor'.disabled /\ sensor'.id = sensor.id
      /\ sensor'.raw = sensor.raw
      /\ sensor'.thresholds = sensor.factors /\ sensor'.hysteresis = sensor.factors
  BY <1>1 DEF Sensors
<1>3. Traits[sensor.id].nonlinear => sensor.factors = ReadFactors(sensor.raw)
  BY DEF Hysteresis, FillInv, InHand
<1>4. Right(sensor')
  BY <1>2, <1>3 DEF Right
<1> QED
  BY <1>2, <1>4 DEF Hysteresis, FillInv, FillTypeOK, Commands, InHand

LEMMA KeepKeeps == FillInv /\ Keep => FillInv'
<1> SUFFICES ASSUME FillInv, Keep PROVE FillInv'
  OBVIOUS
<1>1. /\ sensor \in Sensors /\ Right(sensor) /\ sensors \in Seq(Sensors)
      /\ sensors' = Append(sensors, sensor) \/ sensors' = sensors
      /\ step' = "next" /\ sensor' = sensor
  BY DEF Keep, FillInv, FillTypeOK, InHand
<1>2. sensors' \in Seq(Sensors) /\ \A i \in DOMAIN sensors' : Right(sensors'[i])
  <2>1. CASE sensors' = sensors
    BY <1>1, <2>1 DEF FillInv
  <2>2. CASE sensors' = Append(sensors, sensor)
    BY <1>1, <2>2, AppendIds DEF FillInv
  <2> QED
    BY <1>1, <2>1, <2>2
<1>3. todo' \in Seq(Ids)
  <2>1. todo \in Seq(Ids) /\ todo # <<>> /\ (todo' = todo \/ todo' = Tail(todo))
    BY DEF Keep, FillInv, FillTypeOK
  <2> QED
    BY <2>1
<1> QED
  BY <1>1, <1>2, <1>3 DEF FillInv, FillTypeOK, Commands, InHand

LEMMA FillEndsKeeps == FillInv /\ FillEnds => FillInv'
  BY DEF FillEnds, FillInv, FillTypeOK, Commands, InHand

LEMMA FillInvStep == WalkInv /\ FillInv /\ [Next]_vars => FillInv'
<1>1. FillInv /\ UNCHANGED fillVars => FillInv'
  BY DEF fillVars, FillInv, FillTypeOK, InHand
<1> QED
  BY <1>1, FillKeeps, NextRecordKeeps, ReadingKeeps, IgnorableKeeps, FillFailsKeeps,
     EventStatusKeeps, FactorsKeeps, ThresholdsKeeps, HysteresisKeeps, KeepKeeps, FillEndsKeeps
     DEF Next, WalkStep, RepoStep, Command, vars

LEMMA FillInvariant == Spec => []FillInv
  BY FillInvInit, FillInvStep, WalkInvariant, PTL DEF Spec

(* Whatever commands a BMC does not know, thresholds and hysteresis of a non-linear
   sensor are converted by the factors for its reading, and a sensor that does not scan
   has none (sdrToSensor, fillSensorThreshold). *)
THEOREM ThresholdsFollowTheReading == Spec => []ThresholdsOfTheReading
<1>1. FillInv => ThresholdsOfTheReading
  BY DEF FillInv, Right, ThresholdsOfTheReading
<1> QED
  BY <1>1, FillInvariant, PTL
-----------------------------------------------------------------------------
(* Which sensors are returned.  While they are filled, the records still to be done
   are the end of what the walk has collected, the one at hand is the first of
   them, and the result holds what the filters let through of those before. *)
Filling == op.fill = "sensors" /\ step \notin {"walk", "failed"}
Taken == Len(out) - Len(todo)

TheRestToDo ==
  /\ Taken >= 0
  /\ \A i \in 1 .. Len(todo) : todo[i] = out[Taken + i]
AtHand == step \in Commands \cup {"filled"} => sensor.id = out[Taken + 1] /\ todo # <<>>
Ascending == \A i, j \in DOMAIN sensors : i < j => sensors[i].id < sensors[j].id
FromTheRecords ==
  \A i \in DOMAIN sensors :
    Chosen(sensors[i]) /\ \E j \in 1 .. Taken : sensors[i].id = out[j]
NoneLeftOut ==
  \A j \in 1 .. Taken : Certain(out[j]) => \E i \in DOMAIN sensors : sensors[i].id = out[j]

ResultSoFar == Ascending /\ FromTheRecords /\ NoneLeftOut

ResultInv ==
  /\ step = "walk" => sensors = <<>>
  /\ step \notin {"walk", "failed"} => Walked
  /\ step = "done" => todo = <<>>
  /\ Filling => TheRestToDo /\ AtHand /\ ResultSoFar

(* The filters depend on the call and the sensor alone. *)
LEMMA SameFilters ==
  ASSUME op' = op
  PROVE  /\ \A s : Chosen(s)' = Chosen(s)
         /\ \A id : Certain(id)' = Certain(id)
  BY DEF Chosen, Certain, Passes

(* What is certain of a record is chosen, whatever its reading. *)
LEMMA CertainIsChosen ==
  ASSUME op \in Ops, NEW s, Certain(s.id)
  PROVE  Chosen(s)
<1>1. op.filters \subseteq {"threshold", "valid"}
  BY ScanAssumption
<1> QED
  BY <1>1 DEF Chosen, Certain, Passes

LEMMA ResultInvInit == Init => ResultInv
  BY DEF Init, ResultInv, Filling

(* As long as neither the result nor the records to be done change, all stays. *)
LEMMA SameResult ==
  ASSUME ResultInv, UNCHANGED <<walkVars, todo, sensors>>, step # "walk", step' \notin {"walk", "done"},
         step # "failed",
         Filling /\ step' \in Commands \cup {"filled"} =>
           sensor'.id = out[Taken + 1] /\ todo # <<>>
  PROVE  ResultInv'
<1>1. op' = op /\ out' = out /\ Taken' = Taken /\ phase' = phase
  BY DEF walkVars, Taken
<1>2. CASE Filling'
  <2>1. Filling
    BY <1>1, <1>2 DEF Filling
  <2>2. TheRestToDo' /\ AtHand'
    BY <1>1, <2>1 DEF ResultInv, TheRestToDo, AtHand
  <2>3. Ascending' /\ FromTheRecords' /\ NoneLeftOut'
    BY <1>1, <2>1, SameFilters DEF ResultInv, ResultSoFar, Ascending, FromTheRecords, NoneLeftOut
  <2> QED
    BY <1>1, <2>2, <2>3 DEF ResultInv, ResultSoFar, Walked
<1> QED
  BY <1>1, <1>2 DEF ResultInv, Walked

(* The commands fill the sensor at hand, and no other. *)
LEMMA CommandsKeepResult ==
  ASSUME ResultInv, FillInv,
         \/ Ignorable \/ EventStatus \/ Factors \/ Thresholds \/ Hysteresis
         \/ \E r \in Raws, c \in Crossings, d, u \in BOOLEAN : Reading(r, c, d, u)
  PROVE  ResultInv'
<1>1. sensor \in Sensors /\ sensor.id \in Ids
  BY DEF FillInv, FillTypeOK, Commands, Ignorable, EventStatus, Factors, Thresholds,
         Hysteresis, Reading
<1>2. /\ UNCHANGED <<walkVars, todo, sensors>> /\ step \in Commands
  BY DEF Commands, Ignorable, EventStatus, Factors, Thresholds, Hysteresis, Reading
<1>3. sensor'.id = sensor.id
  BY <1>1 DEF Sensors, Ignorable, EventStatus, Factors, Thresholds, Hysteresis, Reading
<1>4. step' \in Commands \cup {"filled"}
  BY DEF Commands, Ignorable, EventStatus, Factors, Thresholds, Hysteresis, Reading,
         AfterReading
<1> QED
  BY <1>2, <1>3, <1>4, SameResult DEF ResultInv, Filling, AtHand, Commands
(* The walk itself: nothing has been filled yet. *)
LEMMA WalkKeepsResult ==
  ASSUME ResultInv, WalkStep \/ RepoStep
  PROVE  ResultInv'
<1>1. UNCHANGED fillVars /\ ~Walked
  BY DEF WalkStep, RepoStep, Walk, InfoAnswered, EntryAnswered, WalkFails, Walked
<1>2. step \in {"walk", "failed"}
  BY <1>1 DEF ResultInv
<1> QED
  BY <1>1, <1>2 DEF ResultInv, Filling, fillVars

LEMMA FillKeepsResult ==
  ASSUME WalkInv, ResultInv, Fill
  PROVE  ResultInv'
<1>1. /\ out \in Seq(Ids) /\ todo' = out /\ out' = out /\ sensors' = <<>> /\ step' = "next"
      /\ phase' = phase /\ Walked
  BY DEF WalkInv, WalkTypeOK, Fill, ResultInv, walkVars, Walked
<1>2. Taken' = 0
  BY <1>1 DEF Taken
<1>3. DOMAIN sensors' = {}
  BY <1>1
<1>4. TheRestToDo' /\ AtHand'
  BY <1>1, <1>2 DEF TheRestToDo, AtHand, Commands
<1>5. ResultSoFar'
  BY <1>2, <1>3 DEF ResultSoFar, Ascending, FromTheRecords, NoneLeftOut
<1> QED
  BY <1>1, <1>4, <1>5 DEF ResultInv, Walked

LEMMA NextRecordKeepsResult ==
  ASSUME FillInv, ResultInv, NextRecord
  PROVE  ResultInv'
<1>1. todo \in Seq(Ids) /\ todo # <<>> /\ step = "next"
  BY DEF FillInv, FillTypeOK, NextRecord
<1>2. Head(todo) \in Ids /\ Head(todo) = todo[1] /\ 1 \in 1 .. Len(todo)
  BY <1>1
<1>3. NewSensor(Head(todo)).id = Head(todo)
  BY <1>2, NewSensors
<1>4. CASE step' = "reading" /\ sensor' = NewSensor(Head(todo)) /\ UNCHANGED sensors
  <2>1. Filling => sensor'.id = out[Taken + 1]
    BY <1>1, <1>2, <1>3, <1>4 DEF ResultInv, TheRestToDo
  <2> QED
    BY <1>1, <1>4, <2>1, SameResult DEF NextRecord
<1>5. CASE step' = "failed"
  BY <1>5 DEF ResultInv, Filling
<1> QED
  BY <1>4, <1>5 DEF NextRecord

LEMMA FailureKeepsResult ==
  ASSUME FillFails
  PROVE  ResultInv'
  BY DEF FillFails, ResultInv, Filling

LEMMA EndKeepsResult ==
  ASSUME ResultInv, FillEnds
  PROVE  ResultInv'
<1>1. op' = op /\ out' = out /\ Taken' = Taken /\ phase' = phase /\ todo' = todo
      /\ sensors' = sensors /\ step = "next" /\ step' = "done" /\ todo = <<>>
  BY DEF FillEnds, walkVars, Taken
<1>2. Filling => TheRestToDo' /\ AtHand' /\ ResultSoFar'
  BY <1>1, SameFilters DEF ResultInv, TheRestToDo, AtHand, ResultSoFar, Ascending,
       FromTheRecords, NoneLeftOut, Commands
<1> QED
  BY <1>1, <1>2 DEF ResultInv, Filling, Walked

(* A sensor that is kept comes after those before it; one that is not was not
   certain. *)
LEMMA KeepKeepsResult ==
  ASSUME WalkInv, FillInv, ResultInv, Keep
  PROVE  ResultInv'
<1>1. /\ op' = op /\ out' = out /\ phase' = phase /\ step = "filled" /\ step' = "next"
      /\ sensors' = IF Chosen(sensor) THEN Append(sensors, sensor) ELSE sensors
      /\ Walked
  BY DEF Keep, walkVars, ResultInv
<1>2. CASE op.fill # "sensors"
  BY <1>1, <1>2 DEF ResultInv, Filling, Walked
<1>3. CASE op.fill = "sensors"
  <2>1. Filling /\ TheRestToDo /\ AtHand /\ Ascending /\ FromTheRecords /\ NoneLeftOut
    BY <1>1, <1>3 DEF ResultInv, Filling, ResultSoFar
  <2>2. /\ todo \in Seq(Ids) /\ todo # <<>> /\ todo' = Tail(todo)
        /\ sensors \in Seq(Sensors) /\ sensor \in Sensors /\ out \in Seq(Ids)
        /\ Ids \subseteq Nat /\ op \in Ops
    BY <1>3, WalkAssumption DEF Keep, FillInv, FillTypeOK, WalkInv, WalkTypeOK
  <2>3. /\ Len(todo') = Len(todo) - 1 /\ Len(todo) >= 1
        /\ Len(todo) \in Nat /\ Len(out) \in Nat
        /\ \A i \in 1 .. Len(todo) - 1 : todo'[i] = todo[i + 1]
    BY <2>2
  <2> DEFINE k == Taken
  <2>4. k \in Nat /\ Taken' = k + 1 /\ k + 1 <= Len(out)
    BY <1>1, <2>1, <2>3 DEF Taken, TheRestToDo
  <2>5. TheRestToDo' /\ AtHand'
    <3>1. \A i \in 1 .. Len(todo) : todo[i] = out[k + i]
      BY <2>1 DEF TheRestToDo
    <3> HIDE DEF k
    <3>2. ASSUME NEW i \in 1 .. Len(todo') PROVE todo'[i] = out[k + 1 + i]
      <4>1. i \in 1 .. Len(todo) - 1 /\ i + 1 \in 1 .. Len(todo) /\ k + (i + 1) = k + 1 + i
        BY <2>3, <2>4
      <4> QED
        BY <2>3, <3>1, <4>1
    <3>3. AtHand'
      BY <1>1 DEF AtHand, Commands
    <3>4. Taken' >= 0 /\ out' = out
      BY <1>1, <2>4
    <3> QED
      BY <2>4, <3>2, <3>3, <3>4 DEF TheRestToDo
  <2>6. sensor.id = out[k + 1]
    BY <1>1, <2>1 DEF AtHand
  <2> HIDE DEF k
  <2>7. \A j \in 1 .. k : out[j] < out[k + 1]
    <3>1. ~IsMap
      BY <1>3, <2>2, ScanAssumption DEF IsMap
    <3> QED BY <2>2, <2>4, <3>1 DEF WalkInv, InOrder
  <2>8. \A i \in DOMAIN sensors : Chosen(sensors[i]) /\ \E j \in 1 .. k : sensors[i].id = out[j]
    BY <2>1 DEF FromTheRecords, k
  <2>9. \A j \in 1 .. k : Certain(out[j]) => \E i \in DOMAIN sensors : sensors[i].id = out[j]
    BY <2>1 DEF NoneLeftOut, k
  <2>10. /\ \A s : Chosen(s)' = Chosen(s)
         /\ \A id : Certain(id)' = Certain(id)
    BY <1>1, SameFilters
  <2>11. \A j : j \in 1 .. k + 1 <=> j \in 1 .. k \/ j = k + 1
    BY <2>4
  <2>12. CASE Chosen(sensor)
    <3> DEFINE n == Len(sensors)
    <3>1. /\ sensors' = Append(sensors, sensor) /\ n \in Nat
          /\ DOMAIN sensors' = 1 .. n + 1 /\ DOMAIN sensors = 1 .. n
          /\ \A i \in 1 .. n : sensors'[i] = sensors[i]
          /\ sensors'[n + 1] = sensor
      BY <1>1, <2>2, <2>12, AppendIds
    <3> HIDE DEF n
    <3>2. \A i : i \in 1 .. n + 1 <=> i \in 1 .. n \/ i = n + 1
      BY <3>1
    <3>3. \A i \in 1 .. n : sensors[i].id < sensor.id
      BY <2>6, <2>7, <2>8, <3>1
    <3>4. Ascending'
      BY <2>1, <3>1, <3>2, <3>3 DEF Ascending
    <3>5. FromTheRecords'
      BY <1>1, <2>4, <2>6, <2>8, <2>10, <2>11, <2>12, <3>1, <3>2 DEF FromTheRecords
    <3>6. NoneLeftOut'
      BY <1>1, <2>4, <2>6, <2>9, <2>10, <2>11, <3>1, <3>2 DEF NoneLeftOut
    <3> QED
      BY <1>1, <2>5, <3>4, <3>5, <3>6 DEF ResultInv, ResultSoFar, Walked
  <2>13. CASE ~Chosen(sensor)
    <3>1. sensors' = sensors /\ ~Certain(out[k + 1])
      BY <1>1, <2>2, <2>6, <2>13, CertainIsChosen
    <3>2. Ascending'
      BY <2>1, <3>1 DEF Ascending
    <3>3. FromTheRecords'
      BY <1>1, <2>4, <2>8, <2>10, <2>11, <3>1 DEF FromTheRecords
    <3>4. NoneLeftOut'
      BY <1>1, <2>4, <2>9, <2>10, <2>11, <3>1 DEF NoneLeftOut
    <3> QED
      BY <1>1, <2>5, <3>2, <3>3, <3>4 DEF ResultInv, ResultSoFar, Walked
  <2> QED
    BY <2>12, <2>13
<1> QED
  BY <1>2, <1>3

LEMMA ResultInvStep == WalkInv /\ FillInv /\ ResultInv /\ [Next]_vars => ResultInv'
<1> SUFFICES ASSUME WalkInv, FillInv, ResultInv, [Next]_vars PROVE ResultInv'
  OBVIOUS
<1>1. CASE WalkStep \/ RepoStep
  BY <1>1, WalkKeepsResult
<1>2. CASE Command
  BY <1>2, FillKeepsResult, NextRecordKeepsResult, CommandsKeepResult, FailureKeepsResult,
     KeepKeepsResult, EndKeepsResult DEF Command
<1>3. CASE UNCHANGED vars
  <2>1. UNCHANGED walkVars /\ UNCHANGED fillVars /\ op' = op /\ out' = out /\ Taken' = Taken
    BY <1>3 DEF vars, walkVars, fillVars, Taken
  <2>2. Filling' => TheRestToDo' /\ AtHand' /\ ResultSoFar'
    BY <2>1, SameFilters DEF ResultInv, Filling, TheRestToDo, AtHand, ResultSoFar, Ascending,
         FromTheRecords, NoneLeftOut, fillVars
  <2> QED
    BY <2>1, <2>2 DEF ResultInv, Walked, fillVars, walkVars
<1> QED
  BY <1>1, <1>2, <1>3 DEF Next

LEMMA ResultInvariant == Spec => []ResultInv
  BY ResultInvInit, ResultInvStep, WalkInvariant, FillInvariant, PTL DEF Spec

(* GetSensors, and GetSensorsAny with filters, return the sensors of the records that
   the walk has met, in order, and none but those that the filters accept; whatever a
   BMC answers to the commands that fill them, none goes missing that the filters take
   for certain. *)
THEOREM SensorsAreComplete == Spec => []SensorsComplete
<1>1. FillInv /\ WalkInv /\ ResultInv => SensorsComplete
  <2> SUFFICES ASSUME FillInv, WalkInv, ResultInv, step = "done", op.fill = "sensors"
               PROVE  /\ Ascending
                      /\ \A i \in DOMAIN sensors : sensors[i].id \in InOut /\ Chosen(sensors[i])
                      /\ \A id \in InOut :
                           Certain(id) => \E i \in DOMAIN sensors : sensors[i].id = id
    BY DEF SensorsComplete, Ascending
  <2>1. todo = <<>> /\ Filling /\ Ascending /\ FromTheRecords /\ NoneLeftOut
    BY DEF ResultInv, Filling, ResultSoFar
  <2>2. out \in Seq(Ids)
    BY DEF WalkInv, WalkTypeOK
  <2>3. DOMAIN out = 1 .. Taken
    BY <2>1, <2>2 DEF Taken
  <2> QED
    BY <2>1, <2>3 DEF FromTheRecords, NoneLeftOut, InOut
<1> QED
  BY <1>1, FillInvariant, WalkInvariant, ResultInvariant, PTL
-----------------------------------------------------------------------------
(* Why every call ends, although the repository changes under it.  The IDs of the
   records that a walk asks for ascend, and a record ID has 16 bits; what has been
   collected is then filled, one command after the other.  A call that returns one
   sensor fills it twice, and takes no filters (GetSensorByID). *)
OnePass == \A o \in Ops : o.fill = "one" => ~o.any /\ o.filters = {}

Stage == IF InWalk THEN 3
         ELSE IF step = "walk" THEN 2 ELSE IF step \in {"done", "failed"} THEN 0 ELSE 1
Place(top) == IF ~InWalk THEN Len(todo)
              ELSE IF at = FirstID THEN top + 1 ELSE IF at = LastID THEN 0 ELSE top - at
Again == IF op.fill = "one" /\ sensors = <<>> THEN 1 ELSE 0
OfRecord == CASE InWalk /\ phase = "info"            -> 2
              [] InWalk /\ phase = "entryInfo"       -> 1
              [] ~InWalk /\ step = "next"            -> 6
              [] ~InWalk /\ step = "reading"         -> 5
              [] ~InWalk /\ step = "factors"         -> 4
              [] ~InWalk /\ step = "thresholds"      -> 3
              [] ~InWalk /\ step \in {"hysteresis", "discrete"} -> 2
              [] ~InWalk /\ step = "filled"          -> 1
              [] OTHER                               -> 0
Left(top) == <<Stage, Place(top), Again, OfRecord>>

Smaller(m, n) == \E i \in DOMAIN n : m[i] < n[i] /\ \A j \in 1..(i - 1) : m[j] = n[j]

(* The walk and the filling take turns. *)
Turns == InWalk \/ phase = "failed" => step = "walk"

LEMMA TurnsInvariant == Spec => []Turns
<1>1. Init => Turns
  BY WalkAssumption DEF Init, WalkInit, Turns
<1>2. Turns /\ [Next]_vars => Turns'
  <2> SUFFICES ASSUME Turns, [Next]_vars PROVE Turns'
    OBVIOUS
  <2> USE WalkAssumption DEF Turns, InWalk
  <2>1. CASE UNCHANGED vars
    BY <2>1 DEF vars, walkVars, fillVars
  <2>2. CASE WalkStep
    BY <2>2 DEF WalkStep, Walk, InfoAnswered, EntryAnswered, WalkFails, fillVars
  <2>3. CASE RepoStep
    BY <2>3 DEF RepoStep, Change, AddRecord, RemoveRecord, ClearRecords, fillVars
  <2>4. CASE Command
    <3>1. UNCHANGED walkVars /\ (step # "walk" \/ phase = "collected")
      BY <2>4 DEF Command, Fill, NextRecord, Ignorable, FillFails, EventStatus, Factors,
           Thresholds, Hysteresis, Keep, FillEnds, Reading
    <3> QED BY <3>1 DEF walkVars
  <2> QED BY <2>1, <2>2, <2>3, <2>4 DEF Next
<1> QED BY <1>1, <1>2, PTL DEF Spec

(* The first difference is at any of the four places. *)
LEMMA Compare ==
  ASSUME NEW a, NEW b, NEW c, NEW d, NEW o, NEW p, NEW q, NEW r,
         \/ o < a
         \/ o = a /\ p < b
         \/ o = a /\ p = b /\ q < c
         \/ o = a /\ p = b /\ q = c /\ r < d
  PROVE  Smaller(<<o, p, q, r>>, <<a, b, c, d>>)
  BY DEF Smaller

LEMMA LeftType ==
  ASSUME NEW top \in Nat, Ids \subseteq 0..top, WalkInv, FillInv, Turns
  PROVE  Left(top) \in [1..4 -> Nat]
<1>1. Place(top) \in Nat
  <2>1. InWalk => at \in Ids \cup {FirstID, LastID}
    BY DEF WalkInv, WalkTypeOK
  <2>2. Len(todo) \in Nat
    BY DEF FillInv, FillTypeOK
  <2>3. \A i \in Ids : top - i \in Nat
    OBVIOUS
  <2>4. top + 1 \in Nat
    OBVIOUS
  <2> HIDE DEF InWalk
  <2>5. CASE InWalk
    <3>1. Place(top) = top + 1 \/ Place(top) = 0 \/ (at \in Ids /\ Place(top) = top - at)
      BY <2>1, <2>5 DEF Place
    <3>2. 0 \in Nat
      OBVIOUS
    <3> QED BY <2>3, <2>4, <3>1, <3>2, Zenon
  <2>6. CASE ~InWalk
    BY <2>2, <2>6 DEF Place
  <2> QED BY <2>5, <2>6
<1>2. Stage \in Nat /\ Again \in Nat /\ OfRecord \in Nat
  BY DEF Stage, Again, OfRecord
<1> HIDE DEF Stage, Place, Again, OfRecord
<1> QED BY <1>1, <1>2 DEF Left

(* A step of the walk that does not end it asks for a record further on. *)
LEMMA WalkAdvances ==
  ASSUME NEW top \in Nat, Ids \subseteq 0..top, WalkInv, WalkStep
  PROVE  /\ Again' = Again
         /\ \/ Stage' < Stage
            \/ Stage' = Stage /\ Place(top)' < Place(top)
            \/ Stage' = Stage /\ Place(top)' = Place(top) /\ OfRecord' < OfRecord
<1> USE DEF Stage, OfRecord, InWalk
<1>1. Again' = Again
  BY DEF WalkStep, Walk, InfoAnswered, EntryAnswered, WalkFails, fillVars, Again
<1>2. CASE InfoAnswered
  BY <1>1, <1>2 DEF InfoAnswered, Place, WalkStep, fillVars
<1>3. CASE WalkFails
  BY <1>1, <1>3 DEF WalkFails, WalkStep, fillVars
<1>4. CASE EntryAnswered
  <2>1. PICK id \in repo, next \in Ids \cup {LastID} :
          /\ Addressed(id) /\ NextOf(id, next)
          /\ at' = IF IsSearch /\ Wanted(id) THEN at ELSE next
          /\ phase' = (IF IsSearch /\ Wanted(id) THEN "collected"
                       ELSE IF next = LastID
                              THEN IF IsSearch THEN "failed" ELSE "collected"
                              ELSE IF IsSEL THEN "entryInfo" ELSE "entry")
    BY <1>4, Zenon DEF EntryAnswered
  <2>2. CASE phase' \in {"collected", "failed"}
    BY <1>1, <1>4, <2>2 DEF EntryAnswered, WalkStep, fillVars
  <2>3. CASE phase' \notin {"collected", "failed"}
    <3>1. at' = next /\ next # LastID /\ next \in Ids /\ phase' \in {"entry", "entryInfo"}
      BY <2>1, <2>3
    <3>2. next \in repo /\ next > id /\ ~(\A j \in repo : j <= id)
      <4>1. repo \subseteq Nat
        BY WalkAssumption DEF WalkInv, WalkTypeOK
      <4> QED BY <2>1, <3>1, <4>1 DEF NextOf
    <3>3. repo \subseteq Ids /\ at \in Ids \cup {FirstID, LastID}
      BY DEF WalkInv, WalkTypeOK
    <3>4. at = FirstID \/ (at = id /\ at \in Ids)
      BY <2>1, <3>2, <3>3 DEF Addressed
    <3>5. next \in 0..top /\ next # FirstID /\ next # LastID
      BY <3>1, WalkAssumption
    <3>6. Place(top)' = top - next
      BY <3>1, <3>5 DEF Place
    <3>7. top - next < Place(top)
      <4>1. CASE at = FirstID
        BY <1>4, <3>5, <4>1 DEF Place, EntryAnswered
      <4>2. CASE at = id /\ at \in Ids
        <5>1. Place(top) = top - id
          BY <1>4, <4>2, WalkAssumption DEF Place, EntryAnswered
        <5> QED BY <3>2, <3>5, <4>2, <5>1
      <4> QED BY <3>4, <4>1, <4>2
    <3>8. Stage' = Stage
      BY <1>4, <3>1 DEF EntryAnswered, WalkStep, fillVars
    <3> QED BY <1>1, <3>6, <3>7, <3>8
  <2> QED BY <1>1, <2>2, <2>3
<1> QED BY <1>1, <1>2, <1>3, <1>4 DEF WalkStep, Walk

(* A command that does not end the call leads to a later command, a later sensor, or
   the second pass over the one. *)
LEMMA CommandAdvances ==
  ASSUME NEW top \in Nat, OnePass, WalkInv, FillInv, Turns, Command
  PROVE  \/ Stage' < Stage
         \/ Stage' = Stage /\ Place(top)' < Place(top)
         \/ Stage' = Stage /\ Place(top)' = Place(top) /\ Again' < Again
         \/ Stage' = Stage /\ Place(top)' = Place(top) /\ Again' = Again
              /\ OfRecord' < OfRecord
<1> USE DEF Stage, Place, OfRecord
<1>1. UNCHANGED walkVars /\ (step # "walk" \/ phase = "collected")
  BY DEF Command, Fill, NextRecord, Ignorable, FillFails, EventStatus, Factors,
       Thresholds, Hysteresis, Keep, FillEnds, Reading
<1>2. UNCHANGED <<op, phase, at>> /\ ~InWalk /\ ~InWalk'
  BY <1>1 DEF walkVars, Turns, InWalk
<1>3. CASE Fill
  BY <1>2, <1>3 DEF Fill
<1>4. CASE FillFails \/ FillEnds
  BY <1>2, <1>4 DEF FillFails, FillEnds
<1>5. CASE EventStatus \/ Factors \/ Thresholds \/ Hysteresis
  BY <1>2, <1>5 DEF EventStatus, Factors, Thresholds, Hysteresis, Again
<1>6. CASE NextRecord
  BY <1>2, <1>6 DEF NextRecord, Again
<1>7. CASE Ignorable
  BY <1>2, <1>7 DEF Ignorable, AfterReading, Again
<1>8. ASSUME NEW r \in Raws, NEW c \in Crossings, NEW d \in BOOLEAN, NEW u \in BOOLEAN,
             Reading(r, c, d, u)
      PROVE  Stage' = Stage /\ Place(top)' = Place(top) /\ Again' = Again /\ OfRecord' < OfRecord
  BY <1>2, <1>8 DEF Reading, AfterReading, Again
<1>9. CASE Keep
  <2>1. step = "filled" /\ step' = "next" /\ todo # <<>> /\ todo \in Seq(Ids)
    BY <1>9 DEF Keep, FillInv, FillTypeOK
  <2>2. CASE op.fill = "one" /\ sensors = <<>>
    <3>1. Chosen(sensor)
      BY <2>2 DEF OnePass, Chosen, WalkInv, WalkTypeOK
    <3>2. todo' = todo /\ sensors' = Append(sensors, sensor)
      BY <1>9, <2>2, <3>1 DEF Keep
    <3>3. sensors' # <<>>
      BY <2>2, <3>2
    <3> QED BY <1>2, <2>1, <2>2, <3>2, <3>3 DEF Again
  <2>3. CASE ~(op.fill = "one" /\ sensors = <<>>)
    <3>1. todo' = Tail(todo)
      BY <1>9, <2>3 DEF Keep
    <3>2. Len(todo)' < Len(todo)
      BY <2>1, <3>1
    <3> QED BY <1>2, <2>1, <3>2
  <2> QED BY <2>2, <2>3
<1> QED BY <1>2, <1>3, <1>4, <1>5, <1>6, <1>7, <1>8, <1>9 DEF Command

(* A change of the repository leaves the call where it is. *)
LEMMA LeftStep ==
  ASSUME NEW top \in Nat, Ids \subseteq 0..top, OnePass, WalkInv, FillInv, Turns, Next
  PROVE  Smaller(Left(top)', Left(top)) \/ (RepoStep /\ UNCHANGED Left(top))
<1>1. CASE WalkStep
  BY <1>1, WalkAdvances, Compare DEF Left
<1>2. CASE RepoStep
  <2>1. UNCHANGED <<op, phase, at, todo, step, sensors>>
    BY <1>2 DEF RepoStep, Change, AddRecord, RemoveRecord, ClearRecords, fillVars
  <2>2. UNCHANGED <<Stage, Place(top), Again, OfRecord>>
    BY <2>1 DEF Stage, Place, Again, OfRecord, InWalk
  <2> QED BY <1>2, <2>2 DEF Left
<1>3. CASE Command
  BY <1>3, CommandAdvances, Compare DEF Left
<1> QED BY <1>1, <1>2, <1>3 DEF Next

(* Every step of a call leaves less to do: the loops of GetSELEntries, GetSDRs,
   GetSDRBySensorID and the others advance through the record IDs, whatever is added,
   removed or cleared meanwhile and however often, and the commands of sdrToSensor go in
   one direction. *)
THEOREM ScansAreFinite ==
  ASSUME NEW top \in Nat, Ids \subseteq 0..top, OnePass
  PROVE  Spec => /\ [](Left(top) \in [1..4 -> Nat])
                 /\ [][Smaller(Left(top)', Left(top)) \/ (RepoStep /\ UNCHANGED Left(top))]_vars
<1>1. WalkInv /\ FillInv /\ Turns => Left(top) \in [1..4 -> Nat]
  BY LeftType
<1>2. WalkInv /\ FillInv /\ Turns /\ [Next]_vars =>
        [Smaller(Left(top)', Left(top)) \/ (RepoStep /\ UNCHANGED Left(top))]_vars
  BY LeftStep
<1> QED BY <1>1, <1>2, WalkInvariant, FillInvariant, TurnsInvariant, PTL DEF Spec
=============================================================================
