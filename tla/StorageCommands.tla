-------------------------- MODULE StorageCommands --------------------------
(***************************************************************************)
(* The commands of the network function "Storage": FRU inventory, SDR      *)
(* repository, system event log.  One definition per command, see Wires.   *)
(* Constants that a method itself puts into a request (offset 0, "read the *)
(* whole record", the letters CLR) are no wires: nobody gives them.        *)
(***************************************************************************)
EXTENDS Wires

GetFRUInventoryAreaInfo ==
  Cmd("GetFRUInventoryAreaInfo", {"FRUDeviceID"}, Req(1, U8("FRUDeviceID", 0)),
    Answer(3, Le("AreaSizeBytes", 0, 2) \cup Bit("DeviceAccessedByWords", 2, 0)))
ReadFRUData ==
  Cmd("ReadFRUData", {"FRUDeviceID", "ReadOffset", "ReadCount"},
    Req(4, U8("FRUDeviceID", 0) \cup Le("ReadOffset", 1, 2) \cup U8("ReadCount", 3)),
    With(Answer(1, U8("CountReturned", 0)), TailOf("Data", 1)))
(* packBytes writes all of the data or, where they do not fit, none: four  *)
(* bytes are made, three are taken, so that data of one byte are sent and  *)
(* longer data are left out.                                               *)
WriteFRUData ==
  LET head == U8("FRUDeviceID", 0) \cup Le("WriteOffset", 1, 2)
  IN  Cmd("WriteFRUData", {"FRUDeviceID", "WriteOffset", "DataByte", "LongerData"},
        Req(4, head \cup U8("DataByte", 3)) \cup Req(4, head),
        Answer(1, U8("CountWritten", 0)))
-----------------------------------------------------------------------------
(* Sensor data records.                                                    *)

GetSDRRepoInfo ==
  Cmd("GetSDRRepoInfo", {}, NoFields,
    Answer(14, U8("SDRVersion", 0) \cup Le("RecordCount", 1, 2) \cup Le("FreeSpaceBytes", 3, 2)
      \cup Le("MostRecentAdditionTime", 5, 4) \cup Le("MostRecentEraseTime", 9, 4)
      \cup Flags(13, <<"Overflow", "SupportModalSDRRepoUpdate", "SupportNonModalSDRRepoUpdate", "",
                       "SupportDeleteSDR", "SupportPartialAddSDR", "SupportReserveSDRRepo",
                       "SupportGetSDRRepoAllocInfo">>)))

AllocInfo == Le("PossibleAllocUnits", 0, 2) \cup Le("AllocUnitsSize", 2, 2)
               \cup Le("FreeAllocUnits", 4, 2) \cup Le("LargestFreeBlock", 6, 2)
               \cup U8("MaximumRecordSize", 8)
GetSDRRepoAllocInfo == Cmd("GetSDRRepoAllocInfo", {}, NoFields, Answer(9, AllocInfo))

GetSDR ==
  Cmd("GetSDR", {"RecordID"}, Req(6, Le("RecordID", 2, 2)),
    With(Answer(2, Le("NextRecordID", 0, 2)), TailOf("RecordData", 2)))
-----------------------------------------------------------------------------
(* System event log.                                                       *)

GetSELInfo ==
  Cmd("GetSELInfo", {}, NoFields,
    Answer(14, U8("SELVersion", 0) \cup Le("Entries", 1, 2) \cup Le("FreeBytes", 3, 2)
      \cup Le("RecentAdditionTime", 5, 4) \cup Le("RecentEraseTime", 9, 4)
      \cup Flags(13, <<"Overflow", "", "", "", "DeleteSEL", "PartialAddSEL", "ReserveSEL",
                       "GetSELAllocInfo">>)))
GetSELAllocInfo == Cmd("GetSELAllocInfo", {}, NoFields, Answer(9, AllocInfo))
ReserveSEL == Cmd("ReserveSEL", {}, NoFields, Answer(2, Le("ReservationID", 0, 2)))
(* unpackBytesMost: sixteen bytes of the record at most.                   *)
GetSELEntry ==
  Cmd("GetSELEntry", {"ReservationID", "RecordID"},
    Req(6, Le("ReservationID", 0, 2) \cup Le("RecordID", 2, 2)),
    With(Answer(2, Le("NextRecordID", 0, 2)), TailOf("Data", 2)))
DeleteSELEntry ==
  Cmd("DeleteSELEntry", {"RecordID", "ReservationID"},
    Req(4, Le("ReservationID", 0, 2) \cup Le("RecordID", 2, 2)),
    Answer(2, Le("RecordID", 0, 2)))
ClearSEL ==
  Cmd("ClearSEL", {"ReservationID"}, Req(6, Le("ReservationID", 0, 2)),
    Answer(1, U8("ErasureProgressStatus", 0)))

(* Seconds since 1970 in four bytes; minutes as a complement of two in two *)
(* bytes, which is what both sides make of a signed number.                *)
SetSELTime == Cmd("SetSELTime", {"Time"}, Req(4, Le("Time", 0, 4)), Ignored)
(* Wrong on purpose: most significant byte first.                          *)
GetSELTimeBE == Cmd("GetSELTime", {}, NoFields, Answer(4, Be("Time", 0, 4)))
GetSELTime == Cmd("GetSELTime", {}, NoFields, Answer(4, Le("Time", 0, 4)))
SetSELTimeUTCOffset ==
  Cmd("SetSELTimeUTCOffset", {"MinutesOffset"}, Req(2, Le("MinutesOffset", 0, 2)), Ignored)
GetSELTimeUTCOffset ==
  Cmd("GetSELTimeUTCOffset", {}, NoFields, Answer(2, Le("MinutesOffset", 0, 2)))
-----------------------------------------------------------------------------
(* The entries of the system event log, by the range of their record type. *)
(* All of them have sixteen bytes and start alike.                         *)

SELHead == Le("RecordID", 0, 2) \cup U8("RecordType", 2)

SELStandard ==
  LET fields == SELHead \cup Le("Timestamp", 3, 4) \cup Le("GeneratorID", 7, 2)
        \cup U8("EvMRev", 9) \cup U8("SensorType", 10) \cup U8("SensorNumber", 11)
        \cup Bit("EventDir", 12, 7) \cup Bits("EventReadingType", 12, 6, 0)
        \cup U8("EventData1", 13) \cup U8("EventData2", 14) \cup U8("EventData3", 15)
  IN  Cmd("SEL Standard", FieldsOf(fields), Req(16, fields), Exactly(16, fields))

SELOEMTimestamped ==
  LET fields == SELHead \cup Le("Timestamp", 3, 4) \cup Le("ManufacturerID", 7, 3)
        \cup Le("OEMDefined", 10, 6)
  IN  Cmd("SEL OEMTimestamped", FieldsOf(fields), Req(16, fields), Exactly(16, fields))

(* Pack sends the thirteen bytes of the vendor, the parser copies six.     *)
SELOEMNonTimestamped ==
  Cmd("SEL OEMNonTimestamped", {"RecordID", "RecordType", "OEM"},
    Req(16, SELHead \cup Le("OEM", 3, 13)), Exactly(16, SELHead \cup Le("OEM", 3, 6)))

(* AddSELEntry sends what Pack of the record returns.                      *)
AddSELEntry ==
  LET records == {SELStandard, SELOEMTimestamped, SELOEMNonTimestamped}
  IN  Cmd("AddSELEntry", UNION {r.args : r \in records}, UNION {r.reqs : r \in records},
        Answer(2, Le("RecordID", 0, 2)))

StorageCommands ==
  {GetFRUInventoryAreaInfo, ReadFRUData, WriteFRUData, GetSDRRepoInfo, GetSDRRepoAllocInfo,
   GetSDR, GetSELInfo, GetSELAllocInfo, ReserveSEL, GetSELEntry, DeleteSELEntry, ClearSEL,
   SetSELTime, GetSELTime, SetSELTimeUTCOffset, GetSELTimeUTCOffset, AddSELEntry,
   SELStandard, SELOEMTimestamped, SELOEMNonTimestamped}
=============================================================================
