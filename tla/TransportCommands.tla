------------------------- MODULE TransportCommands -------------------------
(***************************************************************************)
(* The commands of the LAN interface and of serial over LAN with their     *)
(* parameters, of DCMI, of OEMs, the RMCP ping and the raw command.        *)
(***************************************************************************)
EXTENDS Wires, TLC

SuspendARPs ==
  Cmd("SuspendARPs", {"ChannelNumber", "SuspendARP", "SuspendGratuitousARP"},
    Req(2, U8("ChannelNumber", 0) \cup Bit("SuspendARP", 1, 1)
      \cup Bit("SuspendGratuitousARP", 1, 0)),
    Answer(1, Bit("IsARPOccurring", 0, 1) \cup Bit("IsGratuitousARPOccurring", 0, 0)))
GetIPStatistics ==
  Cmd("GetIPStatistics", {"ChannelNumber", "ClearAllStatistics"},
    Req(2, U8("ChannelNumber", 0) \cup Bit("ClearAllStatistics", 1, 0)),
    Answer(18, Le("IPPacketsReceived", 0, 2) \cup Le("IPHeaderErrorsReceived", 2, 2)
      \cup Le("IPAddressErrorsReceived", 4, 2) \cup Le("IPPacketsFragmentedReceived", 6, 2)
      \cup Le("IPPacketsTransmitted", 8, 2) \cup Le("UDPPacketsReceived", 10, 2)
      \cup Le("RMCPPacketsValidReceived", 12, 2) \cup Le("UDPProxyPacketsReceived", 14, 2)
      \cup Le("UDPProxyPacketsDropped", 16, 2)))

(* Set selector and block selector are zero in every call of the method.   *)
GetLanConfigParams ==
  Cmd("GetLanConfigParams", {"ChannelNumber", "ParamSelector"},
    Req(4, U8("ChannelNumber", 0) \cup U8("ParamSelector", 1)),
    With(Answer(1, U8("ParameterVersion", 0)), TailOf("ConfigData", 1)))
(* The structure has fields, Pack returns no bytes.                        *)
SetLanConfigParams ==
  Cmd("SetLanConfigParams", {"ChannelNumber", "ParamSelector", "ConfigData"}, NoFields, Ignored)

(* The method has no parameters: it sends the zero request.                *)
SOLActivating ==
  Cmd("SOLActivating", {},
    Req(4, U8("SessionState", 0) \cup U8("PayloadInstance", 1)
      \cup U8("FormatVersionMajor", 2) \cup U8("FormatVersionMinor", 3)), Ignored)
GetSOLConfigParams ==
  Cmd("GetSOLConfigParams", {"ChannelNumber", "ParameterSelector"},
    Req(4, Bits("ChannelNumber", 0, 6, 0) \cup U8("ParameterSelector", 1)),
    With(Answer(1, U8("ParameterRevision", 0)), TailOf("ParameterData", 1)))
SetSOLConfigurationParameters ==
  Cmd("SetSOLConfigurationParameters", {"ChannelNumber", "ParameterSelector", "ParameterData"},
    UNION {Req(2 + d, U8("ChannelNumber", 0) \cup U8("ParameterSelector", 1)
             \cup Le("ParameterData", 2, d)) : d \in 0 .. TailLen}, Ignored)

(* Answers of another group extension are refused as well.                 *)
GetDCMIAssetTag ==
  Cmd("GetDCMIAssetTag", {"Offset"}, Req(3, U8("Offset", 1)),
    With(Answer(2, U8("TotalLength", 1)), TailOf("AssetTag", 2)))
GetDCMIPowerReading ==
  Cmd("GetDCMIPowerReading", {}, Req(4, {}),
    Answer(18, Le("CurrentPower", 1, 2) \cup Le("MinimumPower", 3, 2) \cup Le("MaximumPower", 5, 2)
      \cup Le("AveragePower", 7, 2) \cup Le("Timestamp", 9, 4) \cup Le("ReportingPeriod", 13, 4)
      \cup Bit("PowerMeasurementActive", 17, 6)))
GetSupermicroBiosVersion ==
  Cmd("GetSupermicroBiosVersion", {}, Req(2, {}), With(Answer(0, {}), TailOf("Version", 0)))

RmcpPing ==
  Cmd("RmcpPing", {}, NoFields,
    Answer(16, Le("OEMIANA", 0, 4) \cup Le("OEMDefined", 4, 4) \cup Bit("IPMISupported", 8, 7)
      \cup Bits("ASFVersion", 8, 3, 0) \cup Bit("RMCPSecurityExtensionsSupported", 9, 7)
      \cup Bit("DMTFDashSupported", 9, 5) \cup Le("Reserved", 10, 6)))
RawCommand ==
  Cmd("RawCommand", {"Data"}, UNION {Req(d, Le("Data", 0, d)) : d \in 0 .. TailLen},
    With(Answer(0, {}), TailOf("Response", 0)))
-----------------------------------------------------------------------------
(* The parameters of serial over LAN: what their Pack and Unpack do.       *)
SolParam(name, n, wires) == Cmd(name, FieldsOf(wires), Req(n, wires), Exactly(n, wires))

SOLConfigParam_SetInProgress     == SolParam("SOL SetInProgress", 1, U8("SetInProgress", 0))
SOLConfigParam_SOLEnable         == SolParam("SOL SOLEnable", 1, Bit("SOLEnable", 0, 0))
SOLConfigParam_SOLAuthentication ==
  SolParam("SOL SOLAuthentication", 1, Bit("ForceEncryption", 0, 7)
    \cup Bit("ForceAuthentication", 0, 6) \cup Bits("PrivilegeLevel", 0, 3, 0))
SOLConfigParam_Character ==
  SolParam("SOL Character", 2, U8("AccumulateInterval5Millis", 0) \cup U8("SendThreshold", 1))
SOLConfigParam_SOLRetry ==
  SolParam("SOL SOLRetry", 2, U8("RetryCount", 0) \cup U8("RetryInterval10Millis", 1))
SOLConfigParam_NonVolatileBitRate == SolParam("SOL NonVolatileBitRate", 1, U8("NonVolatileBitRate", 0))
SOLConfigParam_VolatileBitRate    == SolParam("SOL VolatileBitRate", 1, U8("VolatileBitRate", 0))
SOLConfigParam_PayloadChannel     == SolParam("SOL PayloadChannel", 1, U8("PayloadChannel", 0))
SOLConfigParam_PayloadPort        == SolParam("SOL PayloadPort", 2, Le("PayloadPort", 0, 2))

(* ParseSOLParamData chooses among them by selector.                       *)
SOLConfigParams ==
  {SOLConfigParam_SetInProgress, SOLConfigParam_SOLEnable, SOLConfigParam_SOLAuthentication,
   SOLConfigParam_Character, SOLConfigParam_SOLRetry, SOLConfigParam_NonVolatileBitRate,
   SOLConfigParam_VolatileBitRate, SOLConfigParam_PayloadChannel, SOLConfigParam_PayloadPort}
-----------------------------------------------------------------------------
(* The parameters of a LAN channel that GetLanConfig asks for: DataSize of *)
(* the table LanParams, and what FillLanConfig reads.  The two alert       *)
(* formats of a destination address are told apart by their second byte.   *)
LanParam(name, size, wires) == Cmd(name, {}, NoFields, Answer(size, wires))

LanAuthTypes(of, byte) ==
  {<<of \o a[1], 0, byte, a[2]>> : a \in {<<"OEM", 5>>, <<"Password", 4>>, <<"MD5", 2>>, <<"MD2", 1>>}}

(* Two levels are taken from a byte: "v&0xf0>>4" shifts the mask.          *)
MaxPrivLevels(j) == {"MaxPrivLevel." \o ToString(2 * j), "MaxPrivLevel." \o ToString(2 * j + 1)}

(* NewCommunityString overwrites every byte it has copied by zero.         *)
FillLanConfig ==
  {LanParam("LAN SetInProgress", 1, U8("SetInProgress", 0)),
   LanParam("LAN AuthTypeSupported", 1, LanAuthTypes("", 0)),
   LanParam("LAN AuthTypeEnables", 5, LanAuthTypes("Callback.", 0) \cup LanAuthTypes("User.", 1)
     \cup LanAuthTypes("Operator.", 2) \cup LanAuthTypes("Admin.", 3) \cup LanAuthTypes("OEM.", 4)),
   LanParam("LAN IP", 4, Le("IP", 0, 4)),
   LanParam("LAN IPSource", 1, U8("IPSource", 0)),
   LanParam("LAN MAC", 6, Le("MAC", 0, 6)),
   LanParam("LAN SubnetMask", 4, Le("SubnetMask", 0, 4)),
   LanParam("LAN IPv4HeaderParams", 3, U8("TTL", 0) \cup Shifted("Flags", 1, 7, 6, 5)
     \cup Shifted("Precedence", 2, 7, 6, 5) \cup Bits("TOS", 2, 4, 1)),
   LanParam("LAN PrimaryRMCPPort", 2, Le("PrimaryRMCPPort", 0, 2)),
   LanParam("LAN SecondaryRMCPPort", 2, Le("SecondaryRMCPPort", 0, 2)),
   LanParam("LAN ARPControl", 1, Bit("ARPResponseEnabled", 0, 1) \cup Bit("GratuitousARPEnabled", 0, 0)),
   LanParam("LAN GratuitousARPInterval", 1, U8("GratuitousARPIntervalMilliSec.by500", 0)),
   LanParam("LAN DefaultGatewayIP", 4, Le("DefaultGatewayIP", 0, 4)),
   LanParam("LAN DefaultGatewayMAC", 6, Le("DefaultGatewayMAC", 0, 6)),
   LanParam("LAN BackupGatewayIP", 4, Le("BackupGatewayIP", 0, 4)),
   LanParam("LAN BackupGatewayMAC", 6, Le("BackupGatewayMAC", 0, 6)),
   LanParam("LAN CommunityString", 18, {}),
   LanParam("LAN AlertDestinationsNumber", 1, U8("AlertDestinationsNumber", 0)),
   LanParam("LAN AlertDestinationType", 4, U8("SetSelector", 0)
     \cup Bit("AlertSupportAcknowledge", 1, 7) \cup Bits("DestinationType", 1, 2, 0)
     \cup U8("AlertAcknowledgeTimeout", 2) \cup Bits("Retries", 3, 6, 0)),
   Cmd("LAN AlertDestinationAddress", {}, NoFields,
     Answer(13, U8("SetSelector", 0) \cup Bits("AddressFormat", 1, 7, 4)
       \cup Bit("IP4UseBackupGateway", 2, 0) \cup Le("IP4IP", 3, 4) \cup Le("IP4MAC", 7, 5))
     \cup Refusing(Answer(13, U8("SetSelector", 0) \cup Bits("AddressFormat", 1, 7, 4)
       \cup Le("IP6IP", 2, 15)), 13 .. 17)),
   LanParam("LAN VLANID", 2, Bit("VLANEnabled", 1, 7) \cup U8("VLANID", 0)
     \cup Shifted("VLANID", 1, 3, 0, -8)),
   LanParam("LAN VLANPriority", 1, Bits("VLANPriority", 0, 2, 0)),
   LanParam("LAN CipherSuiteEntrySupport", 1, Bits("RMCPCipherSuitesCount", 0, 4, 0)),
   LanParam("LAN CipherSuiteEntries", 17, Le("RMCPCipherSuiteEntries", 1, 16)),
   LanParam("LAN CipherSuitePrivilegeLevels", 9,
     UNION {UNION {Bits(level, 1 + j, 3, 0) : level \in MaxPrivLevels(j)} : j \in 0 .. 7}),
   LanParam("LAN BadPasswordThreshold", 4, Bit("GenerateSessionAuditEvent", 0, 0)
     \cup U8("Threshold", 1) \cup Le("AttemptCountResetIntervalSec.by10", 2, 2)
     \cup Le("UserLockoutIntervalSec.by10", 4, 2))}

TransportCommands ==
  {SuspendARPs, GetIPStatistics, GetLanConfigParams, SetLanConfigParams, SOLActivating,
   GetSOLConfigParams, SetSOLConfigurationParameters, GetDCMIAssetTag, GetDCMIPowerReading,
   GetSupermicroBiosVersion, RmcpPing, RawCommand} \cup SOLConfigParams \cup FillLanConfig
=============================================================================
