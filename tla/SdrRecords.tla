----------------------------- MODULE SdrRecords -----------------------------
(***************************************************************************)
(* The sensor data records: ParseSDR and the parser of each record type,   *)
(* as the layouts of Wires with the record as the answer.  The header of   *)
(* five bytes is decoded for each of them; records that are too short, and *)
(* records whose identifier string does not fit, are refused.              *)
(*                                                                         *)
(* The masks are decoded twice, once as thresholds and once as states, and *)
(* the kind of the sensor says which of the two is meant: the fields of    *)
(* the two have the prefixes T. and D.                                     *)
(***************************************************************************)
EXTENDS Wires, TLC

SDRHeader == Le("RecordID", 0, 2) \cup U8("SDRVersion", 2) \cup U8("RecordType", 3)
               \cup U8("RecordLength", 4)

Sdr(name, answers) == Cmd(name, {}, NoFields, Also(answers, 5, SDRHeader))

(* A record of n bytes and the string whose length the byte before it      *)
(* gives (six bits of it; the other two are the encoding).                 *)
WithIDString(n, wires) ==
  UNION {Answer(n + l, wires \cup Bits("IDString.Length", n - 1, 5, 0)
                  \cup Bits("IDString.TypeCode", n - 1, 7, 6) \cup Le("IDStringBytes", n, l)) :
           l \in 0 .. TailLen}
-----------------------------------------------------------------------------
(* What full and compact sensor records, and in part event-only records,   *)
(* have in common.                                                         *)

SensorKey ==
  Le("GeneratorID", 5, 2) \cup U8("SensorNumber", 7) \cup U8("SensorEntityID", 8)
    \cup Bits("SensorEntityInstance", 9, 6, 0) \cup Bit("SensorEntityIsLogical", 9, 7)

SensorSetup ==
  Flags(10, <<"Settable", "InitScanning", "InitEvents", "InitThresholds", "InitHysteresis",
              "InitSensorType", "EventGenerationEnabled", "SensorScanningEnabled">>)
    \cup Bit("IgnoreSensorIfNoEntity", 11, 7) \cup Bit("AutoRearm", 11, 6)
    \cup Bits("HysteresisAccess", 11, 5, 4) \cup Bits("ThresholdAccess", 11, 3, 2)
    \cup Bits("EventMessageControl", 11, 1, 0)
    \cup U8("SensorType", 12) \cup U8("SensorEventReadingType", 13)

(* The sixteen bits at a byte are read most significant byte first and     *)
(* then taken apart the other way round: states 0 to 7 are in the first    *)
(* byte.                                                                   *)
StatesOf(what, byte) ==
  UNION {Bit("D." \o what \o ToString(i), byte + i \div 8, i % 8) : i \in 0 .. 14}
Thresholds == <<"LNC", "LCR", "LNR", "UNC", "UCR", "UNR">>   \* by bit, lowest first
ThresholdEvents(what, byte) ==
  UNION {Bit("T." \o Thresholds[j \div 2 + 1] \o (IF j % 2 = 0 THEN "Low" ELSE "High") \o what,
             byte + j \div 8, j % 8) : j \in 0 .. 11}
ThresholdBits(what, byte) ==
  UNION {Bit("T." \o Thresholds[j] \o what, byte, j - 1) : j \in 1 .. 6}

ParseAssertLower ==
  StatesOf("Assert", 14) \cup ThresholdEvents("Assert", 14)
    \cup Flags(15, <<"", "T.LNRStatusReturned", "T.LCRStatusReturned", "T.LNCStatusReturned",
                     "", "", "", "">>)
ParseDeassertUpper ==
  StatesOf("Deassert", 16) \cup ThresholdEvents("Deassert", 16)
    \cup Flags(17, <<"", "T.UNRStatusReturned", "T.UCRStatusReturned", "T.UNCStatusReturned",
                     "", "", "", "">>)
ParseReading ==
  StatesOf("Reading", 18) \cup ThresholdBits("Settable", 19) \cup ThresholdBits("Readable", 18)

(* The masks cut three bits out for the rate and two for the relation of   *)
(* the modifier, the shifts leave two and one of them.                     *)
SensorUnit ==
  Bits("AnalogDataFormat", 20, 7, 6) \cup Bits("RateUnit", 20, 5, 4)
    \cup Bits("ModifierRelation", 20, 2, 2) \cup Bit("Percentage", 20, 0)
    \cup U8("BaseUnit", 21) \cup U8("ModifierUnit", 22)

SensorRecord ==
  SensorKey \cup SensorSetup \cup ParseAssertLower \cup ParseDeassertUpper \cup ParseReading
    \cup SensorUnit
-----------------------------------------------------------------------------
(* Full sensor: 48 bytes and the string.                                   *)
SDRFullSensor ==
  LET raw == <<"NominalReading", "NormalMax", "NormalMin", "SensorMaxReading", "SensorMinReading",
               "UNR", "UCR", "UNC", "LNR", "LCR", "LNC", "PositiveHysteresis", "NegativeHysteresis">>
  IN  Sdr("SDR Full", WithIDString(48,
        SensorRecord \cup U8("LinearizationFunc", 23)
          \cup U8("M", 24) \cup Shifted("M", 25, 7, 6, -2) \cup Bits("Tolerance", 25, 5, 0)
          \cup U8("B", 26) \cup Shifted("B", 27, 7, 6, -2)
          \cup Bits("Accuracy", 27, 5, 0) \cup Shifted("Accuracy", 28, 7, 4, -2)
          \cup Bits("Accuracy_Exp", 28, 3, 2) \cup Bits("SensorDirection", 28, 1, 0)
          \cup Bits("R_Exp", 29, 7, 4) \cup Bits("B_Exp", 29, 3, 0)
          \cup Flags(30, <<"", "", "", "", "", "NormalMinSpecified", "NormalMaxSpecified",
                           "NominalReadingSpecified">>)
          \cup UNION {U8(raw[j], 30 + j) : j \in DOMAIN raw}))

(* Compact sensor: 32 bytes and the string.                                *)
SDRCompactSensor ==
  Sdr("SDR Compact", WithIDString(32,
    SensorRecord \cup U8("PositiveHysteresis", 25) \cup U8("NegativeHysteresis", 26)))

(* Event-only sensor: 17 bytes and the string.                             *)
SDREventOnly ==
  Sdr("SDR EventOnly", WithIDString(17,
    SensorKey \cup U8("SensorType", 10) \cup U8("SensorEventReadingType", 11)))
-----------------------------------------------------------------------------
(* Associations: four contained entities, as pairs or as two ranges.       *)

AssociationFlags(byte) ==
  Flags(byte, <<"ContainedEntitiesAsRange", "LinkedEntityAssociationExist",
                "PresenceSensorAlwaysAccessible", "", "", "", "", "">>)
Contained(what, j) == "ContainedEntity" \o ToString(j) \o what

SDREntityAssociation ==
  Sdr("SDR EntityAssociation", Answer(16,
    U8("ContainerEntityID", 5) \cup U8("ContainerEntityInstance", 6) \cup AssociationFlags(7)
      \cup UNION {U8(Contained("ID", j), 6 + 2 * j) \cup U8(Contained("Instance", j), 7 + 2 * j) :
                    j \in 1 .. 4}))
SDRDeviceRelative ==
  LET parts == <<"DeviceAddress", "DeviceChannel", "ID", "Instance">>
  IN  Sdr("SDR DeviceRelative", Answer(32,
        U8("ContainerEntityID", 5) \cup U8("ContainerEntityInstance", 6)
          \cup U8("ContainerEntityDeviceAddress", 7) \cup U8("ContainerEntityDeviceChannel", 8)
          \cup AssociationFlags(9)
          \cup UNION {U8(Contained(parts[k], j), 5 + 4 * j + k) : j \in 1 .. 4, k \in 1 .. 4}))
-----------------------------------------------------------------------------
(* Locators: 16 bytes and the string.                                      *)

(* Bit 0 of the slave address stands for bit 4 of the channel number.      *)
SDRGenericLocator ==
  Sdr("SDR GenericLocator", WithIDString(16,
    U8("DeviceAccessAddress", 5) \cup U8("DeviceSlaveAddress", 6)
      \cup Shifted("ChannelNumber", 6, 0, 0, -4) \cup Bits("ChannelNumber", 7, 7, 5)
      \cup Bits("AccessLUN", 7, 4, 3) \cup Bits("PrivateBusID", 7, 2, 0)
      \cup U8("AddressSpan", 8) \cup U8("DeviceType", 10) \cup U8("DeviceTypeModifier", 11)
      \cup U8("EntityID", 12) \cup U8("EntityInstance", 13)))

(* A string with the encoding 0 takes what is left of the record.          *)
SDRFRUDeviceLocator ==
  LET fields == U8("DeviceAccessAddress", 5) \cup U8("FRUDeviceID_SlaveAddress", 6)
        \cup Bit("IsLogicalFRUDevice", 7, 7) \cup Bits("AccessLUN", 7, 4, 3)
        \cup Bits("PrivateBusID", 7, 2, 0) \cup Bits("ChannelNumber", 8, 7, 4)
        \cup U8("DeviceType", 10) \cup U8("DeviceTypeModifier", 11)
        \cup U8("FRUEntityID", 12) \cup U8("FRUEntityInstance", 13)
  IN  Sdr("SDR FRUDeviceLocator",
        WithIDString(16, fields)
          \cup With(Answer(16, fields \cup Bits("IDString.TypeCode", 15, 7, 6)),
                    TailOf("IDStringBytes", 16)))

SDRManagementControllerDeviceLocator ==
  Sdr("SDR ManagementControllerDeviceLocator", WithIDString(16,
    U8("DeviceSlaveAddress", 5) \cup U8("ChannelNumber", 6)
      \cup Flags(7, <<"ACPISystemPowerStateNotificationRequired",
                      "ACPIDevicePowerStateNotificationRequired", "", "",
                      "ControllerLogsInitializationAgentErrors", "LogInitializationAgentErrors",
                      "", "">>)
      \cup Flags(8, <<"ChassisDevice", "Bridge", "IPMBEventGenerator", "IPMBEventReceiver",
                      "FRUInventoryDevice", "SELDevice", "SDRRepoDevice", "SensorDevice">>)
      \cup U8("EntityID", 12) \cup U8("EntityInstance", 13)))
-----------------------------------------------------------------------------
(* The rest.                                                               *)

SDRManagementControllerConfirmation ==
  Sdr("SDR ManagementControllerConfirmation", Answer(32,
    U8("DeviceSlaveAddress", 5) \cup U8("DeviceID", 6) \cup Bits("ChannelNumber", 7, 7, 4)
      \cup Bits("DeviceRevision", 7, 3, 0) \cup Bits("FirmwareMajorRevision", 8, 6, 0)
      \cup U8("FirmwareMinorRevision", 9) \cup Bits("MinorIPMIVersion", 10, 7, 4)
      \cup Bits("MajorIPMIVersion", 10, 3, 0) \cup Le("ManufacturerID", 11, 3)
      \cup Le("ProductID", 14, 2) \cup Le("DeviceGUID", 16, 16)))

SDRBMCMessageChannelInfo ==
  LET channel(j) == "Channel" \o ToString(j)
  IN  Sdr("SDR BMCMessageChannelInfo", Answer(16,
        UNION {Bit(channel(j) \o ".TransmitSupported", 5 + j, 7)
                 \cup Bits(channel(j) \o ".MessageReceiveLUN", 5 + j, 6, 4)
                 \cup Bits(channel(j) \o ".ChannelProtocol", 5 + j, 3, 0) : j \in 0 .. 7}
          \cup U8("MessagingInterruptType", 13) \cup U8("EventMessageBufferInterruptType", 14)))

(* 56 bytes of the vendor at most.                                         *)
SDROEM ==
  Sdr("SDR OEM", With(Answer(8, Le("ManufacturerID", 5, 3)), TailOf("OEMData", 8)))

SdrRecords ==
  {SDRFullSensor, SDRCompactSensor, SDREventOnly, SDREntityAssociation, SDRDeviceRelative,
   SDRGenericLocator, SDRFRUDeviceLocator, SDRManagementControllerDeviceLocator,
   SDRManagementControllerConfirmation, SDRBMCMessageChannelInfo, SDROEM}
=============================================================================
