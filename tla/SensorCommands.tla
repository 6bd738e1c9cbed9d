--------------------------- MODULE SensorCommands --------------------------
(***************************************************************************)
(* The commands of the network function "Sensor/Event": event receiver,    *)
(* platform event filter, device SDRs, sensors.  One definition per        *)
(* command, see Wires.                                                     *)
(***************************************************************************)
EXTENDS Wires, TLC

SetEventReceiver ==
  Cmd("SetEventReceiver", {"SlaveAddress", "LUN"},
    Req(2, U8("SlaveAddress", 0) \cup U8("LUN", 1)), Ignored)
GetEventReceiver ==
  Cmd("GetEventReceiver", {}, NoFields, Answer(2, U8("SlaveAddress", 0) \cup U8("LUN", 1)))
(* Pack fills eight bytes and returns an empty slice instead of them.      *)
PlatformEventMessage ==
  Cmd("PlatformEventMessage",
    {"GeneratorID", "EvMRev", "SensorType", "SensorNumber", "EventDir", "EventType",
     "EventData1", "EventData2", "EventData3"}, NoFields, Ignored)

GetPEFCapabilities ==
  Cmd("GetPEFCapabilities", {}, NoFields,
    Answer(3, Bits("PEFVersion.tens", 0, 7, 4) \cup Bits("PEFVersion.units", 0, 3, 0)
      \cup Flags(1, <<"SupportOEMEventRecordFilter", "", "SupportDiagnosticInterrupt",
                      "SupportOEMAction", "SupportPowerCycle", "SupportReset",
                      "SupportPowerDown", "SupportAlert">>)
      \cup U8("EventFilterTableEntries", 2)))
(* The methods of the next three have no parameters: the zero request.     *)
ArmPEFPostponeTimer ==
  Cmd("ArmPEFPostponeTimer", {}, Req(1, U8("Timeout", 0)), Answer(1, U8("PresentValue", 0)))
SetPEFConfigParameters ==
  Cmd("SetPEFConfigParameters", {},
    UNION {Req(1 + d, U8("ParamSelector", 0) \cup Le("ConfigData", 1, d)) : d \in 0 .. TailLen},
    Ignored)
SetLastProcessedEventId ==
  Cmd("SetLastProcessedEventId", {}, Req(3, Bit("ByBMC", 0, 0) \cup Le("RecordID", 1, 2)), Ignored)
(* The last two identifiers are read most significant byte first.          *)
GetLastProcessedEventId ==
  Cmd("GetLastProcessedEventId", {}, NoFields,
    Answer(10, Le("MostRecentAdditionTime", 0, 4) \cup Le("LastRecordID", 4, 2)
      \cup Be("LastSoftwareProcessedEventRecordID", 6, 2)
      \cup Be("LastBMCProcessedEventRecordID", 8, 2)))
GetPEFConfigParameters ==
  Cmd("GetPEFConfigParameters", {"GetRevisionOnly", "ParamSelector", "SetSelector", "BlockSelector"},
    Req(3, Bit("GetRevisionOnly", 0, 7) \cup Bits("ParamSelector", 0, 5, 0)
      \cup U8("SetSelector", 1) \cup U8("BlockSelector", 2)),
    With(Answer(1, U8("Revision", 0)), TailOf("ConfigData", 1)))
PEFConfigParam_SystemUUID ==
  Cmd("PEF SystemUUID", {}, NoFields, Answer(17, Bit("UseGUID", 0, 0) \cup Le("GUID", 1, 16)))
-----------------------------------------------------------------------------
(* Device SDRs.  An answer that says the population is dynamic must have   *)
(* six bytes.                                                              *)
GetDeviceSDRInfo ==
  LET always(answers) ==
        Also(answers, 2, U8("Count", 0) \cup Bit("DynamicSensorPopulation", 1, 7)
          \cup Flags(1, <<"", "", "", "", "LUN3HasSensors", "LUN2HasSensors",
                          "LUN1HasSensors", "LUN0HasSensors">>))
  IN  Cmd("GetDeviceSDRInfo", {"GetSDRCount"}, Req(1, Bit("GetSDRCount", 0, 0)),
        always(Answer(2, {})) \cup always(Answer(6, Le("SensorPopulationChangeIndicator", 2, 4))))
(* The reservation and the offset are zero, the whole record is asked for. *)
GetDeviceSDR ==
  Cmd("GetDeviceSDR", {"RecordID"}, Req(6, Le("RecordID", 2, 2)),
    With(Answer(2, Le("NextRecordID", 0, 2)), TailOf("RecordData", 2)))
ReserveDeviceSDRRepo ==
  Cmd("ReserveDeviceSDRRepo", {}, NoFields, Answer(2, Le("ReservationID", 0, 2)))
-----------------------------------------------------------------------------
(* Sensors.                                                                *)

SensorOnly == Req(1, U8("SensorNumber", 0))

(* Wrong on purpose: the slice is one byte too short, as the reserved byte  *)
(* is not counted.                                                         *)
SetSensorHysteresisShort ==
  Cmd("SetSensorHysteresis", {"SensorNumber", "PositiveHysteresis", "NegativeHysteresis"},
    Req(3, U8("SensorNumber", 0) \cup U8("PositiveHysteresis", 2) \cup U8("NegativeHysteresis", 3)),
    Ignored)
SetSensorHysteresis ==
  Cmd("SetSensorHysteresis", {"SensorNumber", "PositiveHysteresis", "NegativeHysteresis"},
    Req(4, U8("SensorNumber", 0) \cup U8("PositiveHysteresis", 2) \cup U8("NegativeHysteresis", 3)),
    Ignored)
GetSensorHysteresis ==
  Cmd("GetSensorHysteresis", {"SensorNumber"}, Req(2, U8("SensorNumber", 0)),
    Answer(2, U8("PositiveRaw", 0) \cup U8("NegativeRaw", 1)))

SetSensorThresholds ==
  Cmd("SetSensorThresholds",
    {"SensorNumber", "SetUNR", "SetUCR", "SetUNC", "SetLNR", "SetLCR", "SetLNC",
     "LNC_Raw", "LCR_Raw", "LNR_Raw", "UNC_Raw", "UCR_Raw", "UNR_Raw"},
    Req(8, U8("SensorNumber", 0)
      \cup Flags(1, <<"", "", "SetUNR", "SetUCR", "SetUNC", "SetLNR", "SetLCR", "SetLNC">>)
      \cup U8("LNC_Raw", 2) \cup U8("LCR_Raw", 3) \cup U8("LNR_Raw", 4) \cup U8("UNC_Raw", 5)
      \cup U8("UCR_Raw", 6) \cup U8("UNR_Raw", 7)), Ignored)
GetSensorThresholds ==
  Cmd("GetSensorThresholds", {"SensorNumber"}, SensorOnly,
    Answer(7, Flags(0, <<"", "", "UNR_Readable", "UCR_Readable", "UNC_Readable",
                         "LNR_Readable", "LCR_Readable", "LNC_Readable">>)
      \cup U8("LNC_Raw", 1) \cup U8("LCR_Raw", 2) \cup U8("LNR_Raw", 3) \cup U8("UNC_Raw", 4)
      \cup U8("UCR_Raw", 5) \cup U8("UNR_Raw", 6)))

SetSensorType ==
  Cmd("SetSensorType", {"SensorNumber", "SensorType", "EventReadingType"},
    Req(3, U8("SensorNumber", 0) \cup U8("SensorType", 1) \cup U8("EventReadingType", 2)), Ignored)
GetSensorType ==
  Cmd("GetSensorType", {"SensorNumber"}, SensorOnly,
    Answer(2, U8("SensorType", 0) \cup U8("EventReadingType", 1)))

(* M and B have ten bits, eight of them in the byte before; the accuracy   *)
(* has six bits and four more above them.                                  *)
GetSensorReadingFactors ==
  Cmd("GetSensorReadingFactors", {"SensorNumber", "Reading"},
    Req(2, U8("SensorNumber", 0) \cup U8("Reading", 1)),
    Answer(7, U8("NextReading", 0)
      \cup U8("M", 1) \cup Shifted("M", 2, 7, 6, -2) \cup Bits("Tolerance", 2, 5, 0)
      \cup U8("B", 3) \cup Shifted("B", 4, 7, 6, -2)
      \cup Bits("Accuracy", 4, 5, 0) \cup Shifted("Accuracy", 5, 7, 4, -2)
      \cup Bits("Accuracy_Exp", 5, 3, 2)
      \cup Bits("R_Exp", 6, 7, 4) \cup Bits("B_Exp", 6, 3, 0)))

(* What a bit of the state bytes means depends on the kind of the sensor:  *)
(* both readings are decoded.                                              *)
State(n, what) == "State_" \o ToString(n) \o what
LowStates(byte, what)  == UNION {Bit(State(i, what), byte, i) : i \in 0 .. 7}
HighStates(byte, what) == UNION {Bit(State(8 + i, what), byte, i) : i \in 0 .. 6}

GetSensorReading ==
  Cmd("GetSensorReading", {"SensorNumber"}, SensorOnly,
    Also(Also(Answer(2, U8("Reading", 0) \cup NotBit("EventMessagesDisabled", 1, 7)
        \cup NotBit("SensorScanningDisabled", 1, 6) \cup Bit("ReadingUnavailable", 1, 5)),
      3, Flags(2, <<"", "", "Above_UNR", "Above_UCR", "Above_UNC", "Below_LNR", "Below_LCR",
                    "Below_LNC">>) \cup LowStates(2, "") \cup U8("optionalData1", 2)),
      4, HighStates(3, "") \cup U8("optionalData2", 3)))

LowThresholds(byte, what) ==
  Flags(byte, <<"UNC_High" \o what, "UNC_Low" \o what, "LNR_High" \o what, "LNR_Low" \o what,
                "LCR_High" \o what, "LCR_Low" \o what, "LNC_High" \o what, "LNC_Low" \o what>>)
HighThresholds(byte, what) ==
  Flags(byte, <<"", "", "", "", "UNR_High" \o what, "UNR_Low" \o what, "UCR_High" \o what,
                "UCR_Low" \o what>>)
EventFlags(answers) ==
  Also(Also(Also(Also(answers,
    2, LowThresholds(1, "_Assert") \cup LowStates(1, "_Assert")),
    3, HighThresholds(2, "_Assert") \cup HighStates(2, "_Assert")),
    4, LowThresholds(3, "_Deassert") \cup LowStates(3, "_Deassert")),
    5, HighThresholds(4, "_Deassert") \cup HighStates(4, "_Deassert"))

GetSensorEventEnable ==
  Cmd("GetSensorEventEnable", {"SensorNumber"}, SensorOnly,
    EventFlags(Answer(1, NotBit("EventMessagesDisabled", 0, 7)
      \cup NotBit("SensorScanningDisabled", 0, 6))))
GetSensorEventStatus ==
  Cmd("GetSensorEventStatus", {"SensorNumber"}, SensorOnly,
    EventFlags(Answer(2, NotBit("EventMessagesDisabled", 0, 7)
      \cup NotBit("SensorScanningDisabled", 0, 6) \cup Bit("ReadingUnavailable", 0, 5))))

(* Pack leaves the event flags and the event data zero.                    *)
SetSensorReadingAndEventStatus ==
  Cmd("SetSensorReadingAndEventStatus",
    {"SensorNumber", "EventDataBytesOperation", "AssertionBitsOperation",
     "DeassertionBitsOperation", "SensorReadingOperation", "SensorReading",
     "SensorEventFlag", "EventData1", "EventData2", "EventData3"},
    Req(9, U8("SensorNumber", 0) \cup Bits("EventDataBytesOperation", 1, 7, 6)
      \cup Bits("AssertionBitsOperation", 1, 5, 4) \cup Bits("DeassertionBitsOperation", 1, 3, 2)
      \cup Bits("SensorReadingOperation", 1, 1, 0) \cup U8("SensorReading", 2)), Ignored)

SensorCommands ==
  {SetEventReceiver, GetEventReceiver, PlatformEventMessage, GetPEFCapabilities,
   ArmPEFPostponeTimer, SetPEFConfigParameters, SetLastProcessedEventId,
   GetLastProcessedEventId, GetPEFConfigParameters, PEFConfigParam_SystemUUID,
   GetDeviceSDRInfo, GetDeviceSDR, ReserveDeviceSDRRepo, SetSensorHysteresis,
   GetSensorHysteresis, SetSensorThresholds, GetSensorThresholds, SetSensorType,
   GetSensorType, GetSensorReadingFactors, GetSensorReading, GetSensorEventEnable,
   GetSensorEventStatus, SetSensorReadingAndEventStatus}
=============================================================================
