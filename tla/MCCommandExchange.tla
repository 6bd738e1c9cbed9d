------------------------- MODULE MCCommandExchange --------------------------
(* Every command, record and packet format, and the pairs of a command     *)
(* that sets and one that reads back.                                      *)
EXTENDS CommandExchange, AppCommands, ChassisCommands, TransportCommands, SensorCommands,
        StorageCommands, SdrRecords, FruRecords, SessionPackets

AllCommands ==
  AppCommands \cup ChassisCommands \cup TransportCommands \cup SensorCommands
    \cup StorageCommands \cup SdrRecords \cup FruRecords \cup SessionPackets

(* A parameter, a record or a header that is packed and unpacked itself.   *)
Itself(c) ==
  [set |-> c.name, get |-> c.name, shift |-> 0,
   fields |-> [f \in c.args \cap FieldsOf(UNION {UNION {b.wires : b \in a.blocks} : a \in c.answers}) |-> f]]
Pair(set, get, shift, fields) == [set |-> set, get |-> get, shift |-> shift, fields |-> fields]
Same(fields) == [f \in fields |-> f]

SetsAndGets ==
  {Pair("SetBMCGlobalEnables", "GetBMCGlobalEnables", 0,
     [OEM2Enabled |-> "EnableOEM2", OEM1Enabled |-> "EnableOEM1", OEM0Enabled |-> "EnableOEM0",
      SystemEventLoggingEnabled |-> "EnableSystemEventLogging",
      EventMessageBufferEnabled |-> "EnableEventMessageBuffer",
      EventMessageBufferFullInterruptEnabled |-> "EnableEventMessageBufferFullInterrupt",
      ReceiveMessageQueueInterruptEnabled |-> "EnableReceiveMessageQueueInterrupt"]),
   Pair("SetChannelAccess", "GetChannelAccess", 1,
     [PEFAlertingDisabled |-> "DisablePEFAlerting", PerMsgAuthDisabled |-> "DisablePerMsgAuth",
      UserLevelAuthDisabled |-> "DisableUserLevelAuth", AccessMode |-> "AccessMode",
      MaxPrivilegeLevel |-> "MaxPrivilegeLevel"]),
   Pair("SetWatchdogTimer", "GetWatchdogTimer", 0,
     Same({"DontLog", "TimerUse", "PreTimeoutInterrupt", "TimeoutAction", "PreTimeoutIntervalSec",
           "InitialCountdown"})),
   Pair("SetSensorThresholds", "GetSensorThresholds", 1,
     Same({"LNC_Raw", "LCR_Raw", "LNR_Raw", "UNC_Raw", "UCR_Raw", "UNR_Raw"})),
   Pair("SetSensorHysteresis", "GetSensorHysteresis", 2,
     [PositiveRaw |-> "PositiveHysteresis", NegativeRaw |-> "NegativeHysteresis"]),
   Pair("SetSensorType", "GetSensorType", 1, Same({"SensorType", "EventReadingType"})),
   Pair("SetUsername", "GetUsername", 1, Same({"Username"})),
   Pair("SetEventReceiver", "GetEventReceiver", 0, Same({"SlaveAddress", "LUN"})),
   Pair("SetSELTime", "GetSELTime", 0, Same({"Time"})),
   Pair("SetSELTimeUTCOffset", "GetSELTimeUTCOffset", 0, Same({"MinutesOffset"})),
   Pair("SetACPIPowerState", "GetACPIPowerState", 0, Same({"SystemPowerState", "DevicePowerState"})),
   Pair("SetChassisCapabilities", "GetChassisCapabilities", 0,
     Same({"ProvideFrontPanelLockout", "ProvideIntrusionSensor", "FRUDeviceAddress",
           "SDRDeviceAddress", "SELDeviceAddress", "SystemManagementDeviceAddress"})),
   Pair("ClearMessageFlags", "GetMessageFlags", 0,
     [OEM2Available |-> "ClearOEM2", OEM1Available |-> "ClearOEM1", OEM0Available |-> "ClearOEM0",
      WatchdogPreTimeoutInterruptOccurred |-> "ClearWatchdogPreTimeoutInterruptFlag",
      EventMessageBufferFull |-> "ClearEventMessageBuffer",
      ReceiveMessageQueueAvailable |-> "ClearReceiveMessageQueue"]),
   Pair("SetLastProcessedEventId", "GetLastProcessedEventId", -5,
     [LastSoftwareProcessedEventRecordID |-> "RecordID"])}

MCPairs ==
  SetsAndGets \cup {Itself(c) : c \in BootOptionParameters \cup SOLConfigParams
    \cup {SELStandard, SELOEMTimestamped, SELOEMNonTimestamped, FRUCommonHeader, RmcpHeader, ASF,
          SessionHeader15, SessionHeader20}}

MCDropsArguments ==
  {"GetCommandSupport", "GetConfigurableCommands", "GetCommandEnables",
   "GetCommandSubfunctionSupport", "SetUserAccess", "SetChassisCapabilities",
   "SetFrontPanelEnables", "SetLanConfigParams", "PlatformEventMessage",
   "SetSensorReadingAndEventStatus", "BootFlags", "WriteFRUData", "SetWatchdogTimer",
   "ClearMessageFlags", "EnableMessageChannelReceive", "SOLActivating", "ArmPEFPostponeTimer",
   "SetPEFConfigParameters", "SetLastProcessedEventId"}
MCReadsPastEnd ==
  {"LAN BadPasswordThreshold", "FRU ChassisInfoArea", "FRU BoardInfoArea", "FRU ProductInfoArea",
   "FRU MultiRecord", "FRU DCOutput", "FRU ExtendedDCOutput", "FRU DCLoad", "Session20 trailer"}
MCSharesBits ==
  {"GetCommandSubfunctionSupport", "GetBTInterfaceCapabilities", "GetSystemInterfaceCapabilities",
   "GetSessionInfo", "GetChannelInfo", "GetUserAccess", "GetSensorReading",
   "GetSensorEventEnable", "GetSensorEventStatus", "LAN CipherSuitePrivilegeLevels",
   "SDR Full", "SDR Compact", "SDR GenericLocator"}
MCReadsBackLess == {"ASF message", "SEL OEMNonTimestamped", "SetChannelAccess", "SetLastProcessedEventId"}

ASSUME ExceptionsFail
=============================================================================
