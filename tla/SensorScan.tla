----------------------------- MODULE SensorScan -----------------------------
(***************************************************************************)
(* GetSensors, GetSensorsAny, GetSensorByID and the enhancement of a record *)
(* found by GetSDRBySensorID: the walk of RecordWalk, and then, record by  *)
(* record, the commands with which sdrToSensor fills a Sensor.             *)
(*                                                                         *)
(* A converted value (float64) is the pair of what it depends on: the raw  *)
(* byte and the reading factors.  The reading changes between any two      *)
(* commands.                                                               *)
(***************************************************************************)
EXTENDS RecordWalk

CONSTANTS
  Traits,   \* of each record: class, data format and linearization of its sensor
  Raws,     \* raw readings
  Crossings,\* the sets of thresholds that a reading may be beyond
  None

Trait == [threshold: BOOLEAN, analog: BOOLEAN, nonlinear: BOOLEAN]
ASSUME ScanAssumption ==
  /\ Traits \in [Ids -> Trait]
  /\ None \notin Raws
  /\ Crossings \subseteq SUBSET {"unr", "ucr", "unc", "lnr", "lcr", "lnc"}
  /\ \A o \in Ops : /\ o.filters \subseteq {"threshold", "valid"} /\ o.any \in BOOLEAN
                    /\ o.fill # "none" => o.walk # "GetSDRsMap"

VARIABLES
  todo,    \* the records still to be filled
  sensor,  \* the Sensor being filled
  step,    \* the command that sdrToSensor is at
  sensors  \* the result

fillVars == <<todo, sensor, step, sensors>>
vars == <<walkVars, fillVars>>

Kept == {"none", "sensors", "enhance", "one"}
IsFilled == op.fill # "none"

(* Which reading factors: those of the record, or those read for a raw value. *)
SdrFactors == [source |-> "sdr", raw |-> None]
ReadFactors(r) == [source |-> "read", raw |-> r]

NewSensor(id) ==
  [id |-> id, raw |-> None, value |-> None, factors |-> SdrFactors,
   disabled |-> FALSE, available |-> FALSE, crossed |-> {}, status |-> "",
   events |-> FALSE, thresholds |-> None, hysteresis |-> None]
NoSensor == NewSensor(None)

(* Only a threshold sensor with a Full record has an analog reading; the others
   are converted by no factors. *)
HasAnalogReading(id) == Content[id].type = "full" /\ Traits[id].threshold
Converted(s) == IF HasAnalogReading(s.id) THEN s.factors ELSE "plain"

(* All that crosses, in the order of the checks. *)
ThresholdStatus(crossed) == IF crossed = {} THEN "ok" ELSE "ucr"

Init ==
  /\ WalkInit
  /\ todo = <<>> /\ sensor = NoSensor /\ step = "walk" /\ sensors = <<>>

(* The walk is over: its records are filled one after the other. *)
Fill ==
  /\ step = "walk" /\ phase = "collected" /\ IsFilled
  /\ todo' = out /\ step' = "next"
  /\ UNCHANGED <<walkVars, sensor, sensors>>

(* sdrToSensor begins; a record that is neither Full nor Compact is an error. *)
NextRecord ==
  /\ step = "next" /\ todo # <<>>
  /\ IF Content[Head(todo)].type \in {"full", "compact"}
       THEN step' = "reading" /\ sensor' = NewSensor(Head(todo)) /\ UNCHANGED sensors
       ELSE step' = "failed" /\ sensors' = <<>> /\ UNCHANGED sensor
  /\ UNCHANGED <<walkVars, todo>>

(* Wrong on purpose: the factors of the record serve for a non-linear sensor too. *)
AfterReadingLinear(s) ==
  IF s.disabled THEN "filled"
  ELSE IF ~Traits[s.id].threshold \/ ~Traits[s.id].analog THEN "discrete"
  ELSE IF Content[s.id].type # "full" THEN "filled" ELSE "thresholds"
(* The command that follows fillSensorReading. *)
AfterReading(s) ==
  IF s.disabled THEN "filled"
  ELSE IF ~Traits[s.id].threshold \/ ~Traits[s.id].analog THEN "discrete"
  ELSE IF Content[s.id].type # "full" THEN "filled"
  ELSE IF Traits[s.id].nonlinear THEN "factors" ELSE "thresholds"

(* Get Sensor Reading: the value is converted by the factors at hand. *)
Reading(r, crossed, disabled, unavailable) ==
  /\ step = "reading"
  /\ sensor' = [sensor EXCEPT !.raw = r, !.value = Converted(sensor),
                  !.disabled = disabled, !.available = ~unavailable,
                  !.crossed = crossed, !.status = ThresholdStatus(crossed)]
  /\ step' = AfterReading(sensor')
  /\ UNCHANGED <<walkVars, todo, sensors>>

(* Wrong on purpose: a sensor that does not know a command is left out. *)
IgnorableDrops ==
  /\ step \in {"reading", "discrete", "factors", "thresholds", "hysteresis"}
  /\ step' = "next" /\ todo' = Tail(todo)
  /\ UNCHANGED <<walkVars, sensor, sensors>>
(* A completion code that says the sensor or the command does not exist: the
   rest of that fill function is left out. *)
Ignorable ==
  /\ \/ step = "reading" /\ step' = AfterReading(sensor)
     \/ step \in {"discrete", "factors", "thresholds", "hysteresis"} /\ step' = "filled"
  /\ UNCHANGED <<walkVars, todo, sensor, sensors>>

(* Any other error gives up the whole call. *)
FillFails ==
  /\ step \in {"reading", "discrete", "factors", "thresholds", "hysteresis"}
  /\ step' = "failed" /\ sensors' = <<>>
  /\ UNCHANGED <<walkVars, todo, sensor>>

EventStatus ==
  /\ step = "discrete" /\ step' = "filled"
  /\ sensor' = [sensor EXCEPT !.events = TRUE]
  /\ UNCHANGED <<walkVars, todo, sensors>>

(* Get Sensor Reading Factors for the raw byte at hand, 0 if none was read. *)
Factors ==
  /\ step = "factors" /\ step' = "thresholds"
  /\ sensor' = [sensor EXCEPT !.factors = ReadFactors(sensor.raw)]
  /\ UNCHANGED <<walkVars, todo, sensors>>

Thresholds ==
  /\ step = "thresholds" /\ step' = "hysteresis"
  /\ sensor' = [sensor EXCEPT !.thresholds = Converted(sensor)]
  /\ UNCHANGED <<walkVars, todo, sensors>>

Hysteresis ==
  /\ step = "hysteresis" /\ step' = "filled"
  /\ sensor' = [sensor EXCEPT !.hysteresis = Converted(sensor)]
  /\ UNCHANGED <<walkVars, todo, sensors>>

(* A filter looks at what the record says of a sensor, or at its reading. *)
Passes(f, s) == IF f = "threshold" THEN Traits[s.id].threshold ELSE s.available

(* GetSensors wants all filters to accept, GetSensorsAny one of them. *)
Chosen(s) == IF op.any THEN \E f \in op.filters : Passes(f, s)
                       ELSE \A f \in op.filters : Passes(f, s)

(* A filled sensor goes to the result. GetSensorByID fills its sensor twice: in
   GetSDRBySensorID, and again itself. *)
Keep ==
  /\ step = "filled"
  /\ LET again == op.fill = "one" /\ sensors = <<>>
     IN  /\ sensors' = IF Chosen(sensor) THEN Append(sensors, sensor) ELSE sensors
         /\ todo' = IF again THEN todo ELSE Tail(todo)
  /\ step' = "next"
  /\ UNCHANGED <<walkVars, sensor>>

FillEnds ==
  /\ step = "next" /\ todo = <<>>
  /\ step' = "done"
  /\ UNCHANGED <<walkVars, todo, sensor, sensors>>

Command ==
  \/ Fill \/ NextRecord \/ Ignorable \/ FillFails \/ EventStatus \/ Factors
  \/ Thresholds \/ Hysteresis \/ Keep \/ FillEnds
  \/ \E r \in Raws, c \in Crossings, d, u \in BOOLEAN : Reading(r, c, d, u)

WalkStep == Walk /\ UNCHANGED fillVars
RepoStep == Change /\ phase \in {"info", "entryInfo", "entry"} /\ UNCHANGED fillVars
Next == WalkStep \/ RepoStep \/ Command

Spec == Init /\ [][Next]_vars
FairSpec == Spec /\ WF_vars(WalkStep) /\ WF_vars(Command)
-----------------------------------------------------------------------------
Walked == phase = "collected"
InOut == {out[i] : i \in DOMAIN out}
FromStart(id) == ~IsSEL \/ op.start = FirstID \/ (op.start # LastID /\ op.start <= id)

(* What the caller gets of a record: the record, or, in the map of GetSDRsMap, that of
   the same sensor that came last (cmd_get_sdr.go:197-202). *)
HandedOut(id) ==
  id \in InOut \/ (IsMap /\ \E j \in InOut : id < j /\ SameSensor(id, j))

(* A walk that succeeds has met every record that was there all the time, from
   the one that it began with: what is added or removed meanwhile does not make
   it jump (GetSELEntries, GetSDRs: recordID = NextRecordID).  The map has a record
   for each of their sensors. *)
NothingMissed ==
  Walked /\ ~IsSearch =>
    \A id \in stayed : FromStart(id) /\ Wanted(id) => HandedOut(id)

(* The records come in the order of the repository, each once, in spite of
   changes during the walk; the map has each sensor once. *)
InOrder ==
  \A i, j \in DOMAIN out :
    /\ ~IsMap /\ i < j => out[i] < out[j]
    /\ IsMap /\ SameSensor(out[i], out[j]) => i = j

(* A search for a sensor number ends at the first record of that sensor, never
   past one that was there all the time (GetSDRBySensorID). *)
FirstMatch ==
  Walked /\ IsSearch =>
    /\ Len(out) = 1
    /\ \A id \in stayed : SensorNumber(id) = op.number => out[1] <= id

(* What the filters take for certain, whatever the reading of the sensor is. *)
Certain(id) ==
  IF op.any THEN "threshold" \in op.filters /\ Traits[id].threshold
  ELSE op.filters \subseteq {"threshold"} /\ ("threshold" \in op.filters => Traits[id].threshold)

(* GetSensors and GetSensorsAny return at most one sensor for each record that the
   walk collected, in its order, and none that the filters refuse; and they leave
   none out that the filters take for certain: a sensor that does not know a command
   is reported all the same, and hides no other (_canSafelyIgnoredResponseError).
   Of GetSensorsAny without filters this says nothing: its comment has it return all
   sensors (cmd_get_sensors.go:70), the loop over the filters chooses none (90-96). *)
SensorsComplete ==
  step = "done" /\ op.fill = "sensors" /\ (op.any => op.filters # {}) =>
    /\ \A i, j \in DOMAIN sensors : i < j => sensors[i].id < sensors[j].id
    /\ \A i \in DOMAIN sensors : sensors[i].id \in InOut /\ Chosen(sensors[i])
    /\ \A id \in InOut : Certain(id) => \E i \in DOMAIN sensors : sensors[i].id = id

(* The thresholds and the hysteresis of a non-linear sensor are converted by
   factors that the BMC gave for the reading that the sensor is reported with
   (fillSensorThreshold); a sensor whose scanning is disabled has none, for what the
   BMC has of it is stale (sdrToSensor). *)
ThresholdsOfTheReading ==
  \A s \in {sensors[i] : i \in DOMAIN sensors} :
    /\ Traits[s.id].nonlinear /\ s.thresholds # None =>
         /\ s.thresholds = ReadFactors(s.raw)
         /\ s.hysteresis # None => s.hysteresis = s.thresholds
    /\ s.disabled => ~s.events /\ s.thresholds = None /\ s.factors = SdrFactors

(* Every call ends: the walk, although the repository changes under it, and the
   commands that fill the sensors. *)
ScanEnds ==
  <>(phase = "failed" \/ (Walked /\ (~IsFilled \/ step \in {"done", "failed"})))
=============================================================================
