-------------------------- MODULE ChassisCommands --------------------------
(***************************************************************************)
(* The commands of the chassis, the boot options, and the parameters that  *)
(* the boot options carry.  One definition per command, see Wires.         *)
(***************************************************************************)
EXTENDS Wires

ChassisControl ==
  Cmd("ChassisControl", {"ChassisControl"}, Req(1, U8("ChassisControl", 0)), Ignored)
ChassisIdentify ==
  Cmd("ChassisIdentify", {"IdentifyInterval", "ForceIdentifyOn"},
    Req(2, U8("IdentifyInterval", 0) \cup Bit("ForceIdentifyOn", 1, 0)), Ignored)
ChassisReset == Cmd("ChassisReset", {}, NoFields, Ignored)

(* Pack leaves the address of the bridge out.                              *)
SetChassisCapabilities ==
  Cmd("SetChassisCapabilities",
    {"ProvideFrontPanelLockout", "ProvideIntrusionSensor", "FRUDeviceAddress",
     "SDRDeviceAddress", "SELDeviceAddress", "SystemManagementDeviceAddress",
     "BridgeDeviceAddress"},
    Req(5, Bit("ProvideFrontPanelLockout", 0, 1) \cup Bit("ProvideIntrusionSensor", 0, 0)
      \cup U8("FRUDeviceAddress", 1) \cup U8("SDRDeviceAddress", 2)
      \cup U8("SELDeviceAddress", 3) \cup U8("SystemManagementDeviceAddress", 4)), Ignored)
(* The bridge is read from an answer of six bytes, not from a longer one.  *)
GetChassisCapabilities ==
  Cmd("GetChassisCapabilities", {}, NoFields,
    Only(Answer(5, Flags(0, <<"", "", "", "", "ProvidePowerInterlock",
        "ProvideDiagnosticInterrupt", "ProvideFrontPanelLockout", "ProvideIntrusionSensor">>)
      \cup U8("FRUDeviceAddress", 1) \cup U8("SDRDeviceAddress", 2)
      \cup U8("SELDeviceAddress", 3) \cup U8("SystemManagementDeviceAddress", 4)),
      6, U8("BridgeDeviceAddress", 5)))

GetChassisStatus ==
  Cmd("GetChassisStatus", {}, NoFields,
    Only(Answer(3, Bits("PowerRestorePolicy", 0, 6, 5)
      \cup Flags(0, <<"", "", "", "PowerControlFault", "PowerFault", "InterLock",
                      "PowerOverload", "PowerIsOn">>)
      \cup Flags(1, <<"", "", "", "LastPowerOnByCommand", "LastPowerDownByPowerFault",
                      "LastPowerDownByPowerInterlockActivated",
                      "LastPowerDownByPowerOverload", "ACFailed">>)
      \cup Bits("ChassisIdentifyState", 2, 5, 4)
      \cup Flags(2, <<"", "ChassisIdentifySupported", "", "", "CollingFanFault",
                      "DriveFault", "FrontPanelLockoutActive", "ChassisIntrusionActive">>)),
      4, Flags(3, <<"SleepButtonDisableAllowed", "DiagnosticButtonDisableAllowed",
                    "ResetButtonDisableAllowed", "PoweroffButtonDisableAllowed",
                    "SleepButtonDisabled", "DiagnosticButtonDisabled",
                    "ResetButtonDisabled", "PoweroffButtonDisabled">>)))
(* All four bits come from the first argument, and are packed behind the   *)
(* end of the slice of one byte.                                           *)
SetFrontPanelEnables ==
  Cmd("SetFrontPanelEnables",
    {"DisableSleepButton", "DisableDiagnosticButton", "DisableResetButton",
     "DisablePoweroffButton"},
    Req(1, {<<"DisableSleepButton", 0, 1, i>> : i \in 0 .. 3}), Ignored)
SetPowerCycleInterval ==
  Cmd("SetPowerCycleInterval", {"IntervalInSec"}, Req(1, U8("IntervalInSec", 0)), Ignored)
SetPowerRestorePolicy ==
  Cmd("SetPowerRestorePolicy", {"PowerRestorePolicy"}, Req(1, U8("PowerRestorePolicy", 0)),
    Answer(1, Bit("SupportPolicyAlwaysOff", 0, 0) \cup Bit("SupportPolicyPrevious", 0, 1)
      \cup Bit("SupportPolicyAlwaysOn", 0, 2)))
(* Wrong on purpose: four bytes are taken to be enough.                    *)
GetPOHCounterShort ==
  Cmd("GetPOHCounter", {}, NoFields,
    Answer(4, U8("MinutesPerCount", 0) \cup Le("CounterReading", 1, 4)))
GetPOHCounter ==
  Cmd("GetPOHCounter", {}, NoFields,
    Answer(5, U8("MinutesPerCount", 0) \cup Le("CounterReading", 1, 4)))
GetSystemRestartCause ==
  Cmd("GetSystemRestartCause", {}, NoFields,
    Answer(2, U8("SystemRestartCause", 0) \cup U8("ChannelNumber", 1)))

(* Set selector and block selector are zero in every call of the method.   *)
GetSystemBootOptions ==
  Cmd("GetSystemBootOptions", {"ParameterSelector"}, Req(3, U8("ParameterSelector", 0)),
    With(Answer(2, U8("ParameterVersion", 0) \cup Bit("ParameterInValid", 1, 7)
      \cup Bits("ParameterSelector", 1, 6, 0)), TailOf("parameterData", 2)))
SetSystemBootOptions ==
  Cmd("SetSystemBootOptions", {"MarkParameterInvalid", "ParameterSelector", "parameterData"},
    UNION {Req(1 + d, Bit("MarkParameterInvalid", 0, 7) \cup Bits("ParameterSelector", 0, 6, 0)
             \cup Le("parameterData", 1, d)) : d \in 0 .. TailLen}, Ignored)
-----------------------------------------------------------------------------
(* The parameters: what their Pack and their Unpack do.  Written and read  *)
(* back, they are one exchange each.                                       *)

OneByte(name) == Cmd(name, {name}, Req(1, U8(name, 0)), Exactly(1, U8(name, 0)))

BOP_SetInProgressState       == OneByte("SetInProgressState")
BOP_ServicePartitionSelector == OneByte("ServicePartitionSelector")
BOP_ServicePartitionScan     == OneByte("ServicePartitionScan")

BOP_BMCBootFlagValidBitClear ==
  LET bits == Flags(0, <<"", "", "", "DontClearOnResetPEFOrPowerCyclePEF",
                         "DontClearOnCommandReceivedTimeout", "DontClearOnWatchdogTimeout",
                         "DontClearOnResetPushButtonOrSoftReset",
                         "DontClearOnPowerUpPushButtonOrWakeEvent">>)
  IN  Cmd("BMCBootFlagValidBitClear", FieldsOf(bits), Req(1, bits), Exactly(1, bits))

(* The first byte says which bits of the second one are written.           *)
BOP_BootInfoAcknowledge ==
  LET by(byte) == Flags(byte, <<"", "", "", "ByOEM", "BySMS", "ByOSServicePartition",
                                "ByOSLoader", "ByBIOSPOST">>)
  IN  Cmd("BootInfoAcknowledge", FieldsOf(by(0)), Req(2, by(0) \cup by(1)), Exactly(2, by(1)))

(* The bit for the sleep button is made of the field of the reset button,  *)
(* in both directions: the reset button of an answer is what bit 2 of the  *)
(* third byte says, which is written after bit 0 of the second one.        *)
BOP_BootFlags ==
  LET both == Bit("BootFlagsValid", 0, 7) \cup Bit("Persist", 0, 6) \cup Bit("BIOSBootType", 0, 5)
                \cup Bit("CMOSClear", 1, 7) \cup Bit("LockKeyboard", 1, 6)
                \cup Bits("BootDeviceSelector", 1, 5, 2) \cup Bit("ScreenBlank", 1, 1)
                \cup Bit("LockoutPowerOff", 2, 7) \cup Bits("BIOSVerbosity", 2, 6, 5)
                \cup Bit("ForceProgressEventTraps", 2, 4) \cup Bit("BypassUserPassword", 2, 3)
                \cup Bit("LockoutResetButton", 2, 2)
                \cup Bits("ConsoleRedirectionControl", 2, 1, 0)
                \cup Bit("BIOSSharedModeOverride", 3, 3) \cup Bits("BIOSMuxControl", 3, 2, 0)
                \cup Bits("DeviceInstanceSelector", 4, 4, 0)
  IN  Cmd("BootFlags", FieldsOf(both) \cup {"LockoutSleepButton"},
        Req(5, both \cup Bit("LockoutResetButton", 1, 0)), Exactly(5, both))

BOP_BootInitiatorInfo ==
  LET all == U8("ChannelNumber", 0) \cup Le("SessionID", 1, 4) \cup Le("BootInfoTimestamp", 5, 4)
  IN  Cmd("BootInitiatorInfo", FieldsOf(all), Req(9, all), Exactly(9, all))
BOP_BootInitiatorMailbox ==
  Cmd("BootInitiatorMailbox", {"SetSelector", "BlockData"},
    UNION {Req(1 + d, U8("SetSelector", 0) \cup Le("BlockData", 1, d)) : d \in 0 .. TailLen},
    With(Answer(1, U8("SetSelector", 0)), TailOf("BlockData", 1)))

(* ParseBootOptionParameterData and Pack choose among them by selector.    *)
BootOptionParameters ==
  {BOP_SetInProgressState, BOP_ServicePartitionSelector, BOP_ServicePartitionScan,
   BOP_BMCBootFlagValidBitClear, BOP_BootInfoAcknowledge, BOP_BootFlags,
   BOP_BootInitiatorInfo, BOP_BootInitiatorMailbox}

ChassisCommands ==
  {ChassisControl, ChassisIdentify, ChassisReset, SetChassisCapabilities,
   GetChassisCapabilities, GetChassisStatus, SetFrontPanelEnables, SetPowerCycleInterval,
   SetPowerRestorePolicy, GetPOHCounter, GetSystemRestartCause, GetSystemBootOptions,
   SetSystemBootOptions} \cup BootOptionParameters
=============================================================================
