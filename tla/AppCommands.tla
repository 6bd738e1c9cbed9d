---------------------------- MODULE AppCommands ----------------------------
(***************************************************************************)
(* The commands of the network function "App": device, watchdog, messages, *)
(* channels, users.  One definition per command, see Wires.                *)
(***************************************************************************)
EXTENDS Wires

ColdReset           == Cmd("ColdReset", {}, NoFields, Ignored)
WarmReset           == Cmd("WarmReset", {}, NoFields, Ignored)
ManufacturingTestOn == Cmd("ManufacturingTestOn", {}, NoFields, Ignored)
GetSelfTestResults  ==
  Cmd("GetSelfTestResults", {}, NoFields, Answer(2, U8("Byte1", 0) \cup U8("Byte2", 1)))

(* The minor firmware revision is made of two decimal digits.  Between 12  *)
(* and 14 bytes are refused.                                               *)
GetDeviceID ==
  Cmd("GetDeviceID", {}, NoFields,
    Refusing(Also(Answer(11,
      U8("DeviceID", 0) \cup Bit("ProvideDeviceSDRs", 1, 7) \cup Bits("DeviceRevision", 1, 3, 0)
        \cup NotBit("DeviceAvailable", 2, 7) \cup Bits("MajorFirmwareRevision", 2, 6, 0)
        \cup Bits("MinorFirmwareRevision.tens", 3, 7, 4)
        \cup Bits("MinorFirmwareRevision.units", 3, 3, 0)
        \cup Bits("MajorIPMIVersion", 4, 3, 0) \cup Bits("MinorIPMIVersion", 4, 7, 4)
        \cup Flags(5, <<"SupportChassis", "SupportBridge", "SupportIPMBEventGenerator",
                        "SupportIPMBEventReceiver", "SupportFRUInventory", "SupportSEL",
                        "SupportSDRRepo", "SupportSensor">>)
        \cup Le("ManufacturerID", 6, 3) \cup Le("ProductID", 9, 2)),
      15, Le("AuxiliaryFirmwareRevision", 11, 4)), 12 .. 14))

SetACPIPowerState ==
  Cmd("SetACPIPowerState",
    {"SystemPowerState", "SetSystemPowerState", "DevicePowerState", "SetDevicePowerState"},
    Req(2, Bit("SetSystemPowerState", 0, 7) \cup Bits("SystemPowerState", 0, 6, 0)
      \cup Bit("SetDevicePowerState", 1, 7) \cup Bits("DevicePowerState", 1, 6, 0)), Ignored)
GetACPIPowerState ==
  Cmd("GetACPIPowerState", {}, NoFields,
    Answer(2, Bits("SystemPowerState", 0, 6, 0) \cup Bits("DevicePowerState", 1, 6, 0)))

GetDeviceGUID == Cmd("GetDeviceGUID", {}, NoFields, Answer(16, Le("GUID", 0, 16)))
GetSystemGUID == Cmd("GetSystemGUID", {}, NoFields, Answer(16, Le("GUID", 0, 16)))

GetNetFnSupport ==
  Cmd("GetNetFnSupport", {"ChannelNumber"}, Req(1, U8("ChannelNumber", 0)),
    Answer(17, Bits("LUN3Support", 0, 7, 6) \cup Bits("LUN2Support", 0, 5, 4)
      \cup Bits("LUN1Support", 0, 3, 2) \cup Bits("LUN0Support", 0, 1, 0)
      \cup Le("NetFnPairsSupport", 1, 16)))

(* The requests about one network function.  A network function has six    *)
(* bits and the range mask goes to the upper two: the code combines them   *)
(* with "and" where both are to be sent, so that the byte is zero.         *)
OfNetFn(first) ==
  LET head == U8("ChannelNumber", 0) \cup Bits("LUN", 2, 1, 0) \cup first
      n    == 3 + Cardinality({w[3] : w \in {x \in first : x[3] >= 3}})
  IN  Req(n, head) \cup Req(n + 1, head \cup U8("CodeForNetFn2C", n))
        \cup Req(n + 3, head \cup Le("OEM_IANA", n, 3))
NetFnArgs == {"ChannelNumber", "NetFn", "LUN", "CodeForNetFn2C", "OEM_IANA"}

GetCommandSupport ==
  Cmd("GetCommandSupport", NetFnArgs \cup {"CommandRangeMask"}, OfNetFn({}),
    Answer(16, Le("CommandSupportMask", 0, 16)))
GetConfigurableCommands ==
  Cmd("GetConfigurableCommands", NetFnArgs \cup {"CommandRangeMask"}, OfNetFn({}),
    Answer(16, Le("CommandSupportMask", 0, 16)))
GetCommandEnables ==
  Cmd("GetCommandEnables", NetFnArgs \cup {"CommandRangeMask"}, OfNetFn({}),
    Answer(16, Le("CommandEnableMask", 0, 16)))
GetCommandSubfunctionSupport ==
  Cmd("GetCommandSubfunctionSupport", NetFnArgs,
    OfNetFn(Bits("NetFn", 1, 5, 0) \cup U8("Cmd", 3)),
    Also(Answer(3, Bits("SpecificationType", 0, 7, 4) \cup Bits("ErrataVersion", 0, 3, 0)
      \cup U8("OEMGroupBody", 0) \cup U8("SpecificationVersion", 1)
      \cup U8("SpecificationRevision", 2)), 7, Le("SupportMask", 3, 4)))

ResetWatchdogTimer == Cmd("ResetWatchdogTimer", {}, NoFields, Ignored)
(* The method has no parameters: it sends the zero request.                *)
SetWatchdogTimer ==
  Cmd("SetWatchdogTimer", {},
    Req(6, Bit("DontLog", 0, 7) \cup Bit("DontStopTimer", 0, 6) \cup Bits("TimerUse", 0, 2, 0)
      \cup Bits("PreTimeoutInterrupt", 1, 6, 4) \cup Bits("TimeoutAction", 1, 2, 0)
      \cup U8("PreTimeoutIntervalSec", 2) \cup U8("ExpirationFlags", 3)
      \cup Le("InitialCountdown", 4, 2)), Ignored)
GetWatchdogTimer ==
  Cmd("GetWatchdogTimer", {}, NoFields,
    Answer(8, Bit("DontLog", 0, 7) \cup Bit("TimerIsStarted", 0, 6) \cup Bits("TimerUse", 0, 2, 0)
      \cup Bits("PreTimeoutInterrupt", 1, 6, 4) \cup Bits("TimeoutAction", 1, 2, 0)
      \cup U8("PreTimeoutIntervalSec", 2) \cup U8("ExpirationFlags", 3)
      \cup Le("InitialCountdown", 4, 2) \cup Le("PresentCountdown", 6, 2)))

(* The OEM bits are filled from an answer to Get BMC Global Enables that   *)
(* the method asks for first.                                              *)
SetBMCGlobalEnables ==
  Cmd("SetBMCGlobalEnables",
    {"EnableOEM2", "EnableOEM1", "EnableOEM0", "EnableSystemEventLogging",
     "EnableEventMessageBuffer", "EnableEventMessageBufferFullInterrupt",
     "EnableReceiveMessageQueueInterrupt"},
    Req(1, Flags(0, <<"EnableOEM2", "EnableOEM1", "EnableOEM0", "", "EnableSystemEventLogging",
      "EnableEventMessageBuffer", "EnableEventMessageBufferFullInterrupt",
      "EnableReceiveMessageQueueInterrupt">>)), Ignored)
(* Wrong on purpose: two flags are read from bit 5.                        *)
GetBMCGlobalEnablesTwice ==
  Cmd("GetBMCGlobalEnables", {}, NoFields,
    Answer(1, Flags(0, <<"OEM2Enabled", "OEM1Enabled", "OEM0Enabled", "",
      "SystemEventLoggingEnabled", "EventMessageBufferEnabled", "",
      "ReceiveMessageQueueInterruptEnabled">>)
      \cup Bit("EventMessageBufferFullInterruptEnabled", 0, 5)))
GetBMCGlobalEnables ==
  Cmd("GetBMCGlobalEnables", {}, NoFields,
    Answer(1, Flags(0, <<"OEM2Enabled", "OEM1Enabled", "OEM0Enabled", "",
      "SystemEventLoggingEnabled", "EventMessageBufferEnabled",
      "EventMessageBufferFullInterruptEnabled", "ReceiveMessageQueueInterruptEnabled">>)))

(* The method has no parameters: it sends the zero request.                *)
ClearMessageFlags ==
  Cmd("ClearMessageFlags", {},
    Req(1, Flags(0, <<"ClearOEM2", "ClearOEM1", "ClearOEM0", "",
      "ClearWatchdogPreTimeoutInterruptFlag", "", "ClearEventMessageBuffer",
      "ClearReceiveMessageQueue">>)), Ignored)
GetMessageFlags ==
  Cmd("GetMessageFlags", {}, NoFields,
    Answer(1, Flags(0, <<"OEM2Available", "OEM1Available", "OEM0Available", "",
      "WatchdogPreTimeoutInterruptOccurred", "", "EventMessageBufferFull",
      "ReceiveMessageQueueAvailable">>)))

(* The method has no parameters: it sends the zero request.                *)
EnableMessageChannelReceive ==
  Cmd("EnableMessageChannelReceive", {},
    Req(2, U8("ChannelNumber", 0) \cup U8("ChannelState", 1)),
    Answer(2, U8("ChannelNumber", 0) \cup Bit("ChannelEnabled", 1, 0)))

GetMessage ==
  Cmd("GetMessage", {}, NoFields,
    With(Answer(1, U8("ChannelNumber", 0)), TailOf("MessageData", 1)))
SendMessage ==
  Cmd("SendMessage",
    {"ChannelNumber", "Authenticated", "Encrypted", "TrackMask", "MessageData"},
    UNION {Req(1 + d, Bits("TrackMask", 0, 7, 6) \cup Bit("Encrypted", 0, 5)
             \cup Bit("Authenticated", 0, 4) \cup Bits("ChannelNumber", 0, 3, 0)
             \cup Le("MessageData", 1, d)) : d \in 0 .. TailLen},
    With(Answer(0, {}), TailOf("Data", 0)))
ReadEventMessageBuffer ==
  Cmd("ReadEventMessageBuffer", {}, NoFields, Answer(16, Le("MessageData", 0, 16)))

(* All five fields are read from the first byte.                           *)
GetBTInterfaceCapabilities ==
  Cmd("GetBTInterfaceCapabilities", {}, NoFields,
    Answer(5, U8("NumberOfOutstandingRequestsSupported", 0)
      \cup U8("InputBufferMessageSizeBytes", 0) \cup U8("OutputBufferMessageSizeBytes", 0)
      \cup U8("BMCRequestToResponseTimeSec", 0) \cup U8("RecommendedRetries", 0)))
GetSystemInterfaceCapabilities ==
  Cmd("GetSystemInterfaceCapabilities", {"SystemInterfaceType"},
    Req(1, U8("SystemInterfaceType", 0)),
    Also(Answer(3, Bits("TransactionSupportMask", 1, 7, 6) \cup Bit("PECSupported", 1, 3)
      \cup Bits("SSIFVersion", 1, 2, 0) \cup U8("InputMessageSizeBytes", 2)
      \cup Bits("SystemInterfaceVersion", 1, 2, 0)
      \cup U8("InputMaximumMessageSizeBytes", 2)), 4, U8("OutputMessageSizeBytes", 3)))

(* Unpack leaves the bytes that were read where they are.                  *)
MasterWriteRead ==
  Cmd("MasterWriteRead",
    {"ChannelNumber", "BusID", "BusTypeIsPrivate", "SlaveAddress", "ReadCount", "Data"},
    UNION {Req(3 + d, Bits("ChannelNumber", 0, 7, 4) \cup Bits("BusID", 0, 3, 1)
             \cup Bit("BusTypeIsPrivate", 0, 0) \cup U8("SlaveAddress", 1)
             \cup U8("ReadCount", 2) \cup Le("Data", 3, d)) : d \in 0 .. TailLen}, Ignored)
-----------------------------------------------------------------------------
(* Sessions, channels and users.                                           *)

(* The console behind a session over LAN, and over a PPP channel: an       *)
(* answer of 18 bytes is decoded in both ways.                             *)
GetSessionInfo ==
  Cmd("GetSessionInfo", {"SessionIndex", "SessionHandle", "SessionID"},
    Req(1, U8("SessionIndex", 0))
      \cup Req(2, U8("SessionIndex", 0) \cup U8("SessionHandle", 1))
      \cup Req(5, U8("SessionIndex", 0) \cup Le("SessionID", 1, 4)),
    Refusing(Also(Also(Also(Answer(3,
      U8("SessionHandle", 0) \cup U8("PossibleActiveSessions", 1)
        \cup U8("CurrentActiveSessions", 2)),
      6, U8("UserID", 3) \cup U8("OperatingPrivilegeLevel", 4)
        \cup Bits("AuxiliaryData", 5, 7, 4) \cup Bits("ChannelNumber", 5, 3, 0)),
      18, Le("RemoteConsoleIPAddr", 6, 4) \cup Le("RemoteConsoleMacAddr", 10, 6)
        \cup Le("RemoteConsolePort", 16, 2)),
      14, U8("SessionChannelActivityType", 6) \cup U8("DestinationSelector", 7)
        \cup Be("RemoteConsoleIPAddr_PPP", 8, 4) \cup Le("RemoteConsolePort_PPP", 12, 2)),
      4 .. 5))
CloseSession ==
  Cmd("CloseSession", {"SessionID", "SessionHandle"},
    Req(4, Le("SessionID", 0, 4))
      \cup Req(5, Le("SessionID", 0, 4) \cup U8("SessionHandle", 4)), Ignored)

SetChannelAccess ==
  Cmd("SetChannelAccess",
    {"ChannelNumber", "AccessOption", "DisablePEFAlerting", "DisablePerMsgAuth",
     "DisableUserLevelAuth", "AccessMode", "PrivilegeOption", "MaxPrivilegeLevel"},
    Req(3, U8("ChannelNumber", 0) \cup Bits("AccessOption", 1, 7, 6)
      \cup Bit("DisablePEFAlerting", 1, 5) \cup Bit("DisablePerMsgAuth", 1, 4)
      \cup Bit("DisableUserLevelAuth", 1, 3) \cup Bits("AccessMode", 1, 2, 0)
      \cup Bits("PrivilegeOption", 2, 7, 6) \cup Bits("MaxPrivilegeLevel", 2, 5, 0)), Ignored)
GetChannelAccess ==
  Cmd("GetChannelAccess", {"ChannelNumber", "AccessOption"},
    Req(2, U8("ChannelNumber", 0) \cup Bits("AccessOption", 1, 7, 6)),
    Answer(2, Bit("PEFAlertingDisabled", 0, 5) \cup Bit("PerMsgAuthDisabled", 0, 4)
      \cup Bit("UserLevelAuthDisabled", 0, 3) \cup Bits("AccessMode", 0, 2, 0)
      \cup Bits("MaxPrivilegeLevel", 1, 3, 0)))
GetChannelInfo ==
  Cmd("GetChannelInfo", {"ChannelNumber"}, Req(1, U8("ChannelNumber", 0)),
    Answer(9, U8("ActualChannelNumber", 0) \cup U8("ChannelMedium", 1)
      \cup U8("ChannelProtocol", 2) \cup Bits("SessionSupport", 3, 7, 6)
      \cup Bits("ActiveSessionCount", 3, 5, 0) \cup Le("VendorID", 4, 3)
      \cup Le("Auxiliary", 7, 2) \cup U8("SMSInterruptType", 7)
      \cup U8("EventMessageBufferInterruptType", 8)))

(* The privilege limit is written to the byte of the user ID.              *)
SetUserAccess ==
  Cmd("SetUserAccess",
    {"EnableChanging", "RestrictedToCallback", "EnableLinkAuth", "EnableIPMIMessaging",
     "ChannelNumber", "UserID", "MaxPrivLevel", "SessionLimit"},
    Req(4, Over(Bit("EnableChanging", 0, 7) \cup Bit("RestrictedToCallback", 0, 6)
      \cup Bit("EnableLinkAuth", 0, 5) \cup Bit("EnableIPMIMessaging", 0, 4)
      \cup Bits("ChannelNumber", 0, 3, 0) \cup Bits("UserID", 1, 5, 0)
      \cup Bits("SessionLimit", 3, 3, 0), Bits("MaxPrivLevel", 1, 5, 0))), Ignored)
(* "b1 & 0xc0 >> 6" shifts the mask, not the byte.                         *)
GetUserAccess ==
  Cmd("GetUserAccess", {"ChannelNumber", "UserID"},
    Req(2, U8("ChannelNumber", 0) \cup U8("UserID", 1)),
    Answer(4, U8("MaxUsersIDCount", 0) \cup Bits("EnableStatus", 1, 1, 0)
      \cup Bits("EnabledUserIDsCount", 1, 5, 0) \cup Bits("FixedNameUseIDsCount", 2, 5, 0)
      \cup Bit("CallbackOnly", 3, 6) \cup Bit("LinkAuthEnabled", 3, 5)
      \cup Bit("IPMIMessagingEnabled", 3, 4) \cup Bits("MaxPrivLevel", 3, 3, 0)))
(* padBytes cuts the name, or fills it with zeroes, to sixteen bytes.      *)
SetUsername ==
  Cmd("SetUsername", {"UserID", "Username"},
    Req(17, U8("UserID", 0) \cup Le("Username", 1, 16)), Ignored)
GetUsername ==
  Cmd("GetUsername", {"UserID"}, Req(1, U8("UserID", 0)), Answer(16, Le("Username", 0, 16)))
SetUserPassword ==
  Cmd("SetUserPassword", {"UserID", "Stored20", "Operation", "Password"},
    UNION {Req(2 + p, Bit("Stored20", 0, 7) \cup Bits("UserID", 0, 5, 0)
             \cup Bits("Operation", 1, 1, 0) \cup Le("Password", 2, p)) : p \in {0, 16, 20}},
    Ignored)

(* The capacity is the first byte plus one.                                *)
GetPayloadActivationStatus ==
  Cmd("GetPayloadActivationStatus", {"PayloadType"}, Req(1, U8("PayloadType", 0)),
    Answer(3, U8("InstanceCapacity.lessOne", 0)
      \cup Flags(1, <<"Instance08Activated", "Instance07Activated", "Instance06Activated",
                      "Instance05Activated", "Instance04Activated", "Instance03Activated",
                      "Instance02Activated", "Instance01Activated">>)
      \cup Flags(2, <<"Instance16Activated", "Instance15Activated", "Instance14Activated",
                      "Instance13Activated", "Instance12Activated", "Instance11Activated",
                      "Instance10Activated", "Instance09Activated">>)))

(* What the exchange of the other modules runs through.                    *)
AppCommands ==
  {ColdReset, WarmReset, ManufacturingTestOn, GetSelfTestResults, GetDeviceID,
   SetACPIPowerState, GetACPIPowerState, GetDeviceGUID, GetSystemGUID, GetNetFnSupport,
   GetCommandSupport, GetConfigurableCommands, GetCommandEnables,
   GetCommandSubfunctionSupport, ResetWatchdogTimer, SetWatchdogTimer, GetWatchdogTimer,
   SetBMCGlobalEnables, GetBMCGlobalEnables, ClearMessageFlags, GetMessageFlags,
   EnableMessageChannelReceive, GetMessage, SendMessage, ReadEventMessageBuffer,
   GetBTInterfaceCapabilities, GetSystemInterfaceCapabilities, MasterWriteRead,
   GetSessionInfo, CloseSession, SetChannelAccess, GetChannelAccess, GetChannelInfo,
   SetUserAccess, GetUserAccess, SetUsername, GetUsername, SetUserPassword,
   GetPayloadActivationStatus}
=============================================================================
