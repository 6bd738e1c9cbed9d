----------------------------- MODULE FruRecords -----------------------------
(***************************************************************************)
(* The areas and records of the FRU inventory as layouts of Wires, with    *)
(* the data of the area as the answer.  Where the fields of an area follow *)
(* each other, each with its length before it, all fields but one have the *)
(* length 0: what such a field takes, and that the next one starts after   *)
(* it, is FieldsAt.                                                        *)
(***************************************************************************)
EXTENDS Wires

Area(name, answers) == Cmd(name, {}, NoFields, answers)

(* Byte 6 is padding.  Pack is there for the checksum (Valid).             *)
FRUCommonHeader ==
  LET fields == U8("FormatVersion", 0) \cup U8("InternalOffset8B", 1) \cup U8("ChassisOffset8B", 2)
        \cup U8("BoardOffset8B", 3) \cup U8("ProductOffset8B", 4)
        \cup U8("MultiRecordsOffset8B", 5) \cup U8("Checksum", 7)
  IN  Cmd("FRU CommonHeader", FieldsOf(fields), Req(8, fields), Answer(8, fields))
-----------------------------------------------------------------------------
(* getFRUTypeLengthField: a byte with the encoding and the length, and the *)
(* bytes of the field; the next field starts behind them.                  *)
FieldAt(name, byte, l) ==
  Bits(name \o ".Length", byte, 5, 0) \cup Bits(name \o ".TypeCode", byte, 7, 6)
    \cup Le(name, byte + 1, l)

(* The fields in their order from a byte on, the k-th of them with l bytes.*)
FieldsAt(names, byte, k, l) ==
  UNION {FieldAt(names[j], byte + j - 1 + (IF j > k THEN l ELSE 0), IF j = k THEN l ELSE 0) :
           j \in DOMAIN names}

(* The area says its length in units of eight bytes; an area that is       *)
(* shorter than that is refused.  After the fields come those of the       *)
(* vendor, with the same two parts and until the end mark, then unused     *)
(* bytes, and the last byte is the checksum.                               *)
(*                                                                         *)
(* Two forms more that a device may answer: an area whose last field ends  *)
(* with the area, so that the end mark is looked for in the byte behind;   *)
(* and one that says it has no length, of which two bytes will do.         *)
InfoArea(name, start, fixed, names) ==
  LET begin == U8("FormatVersion", 0) \cup U8("Length8B", 1) \cup start
      custom == Append(names, "Custom")
      units(bytes) == ((bytes + 7) \div 8) * 8
      area(fields, k, l) ==
        LET length == units(fixed + Len(fields) + l + 2)   \* end mark, checksum
        IN  With(Answer(length, begin \cup FieldsAt(fields, fixed, k, l)),
                 {Block(length, length, U8("Checksum", length - 1))})
      filled == units(fixed + Len(custom) + 1)
      unended == Answer(filled,
        begin \cup FieldsAt(custom, fixed, Len(custom), filled - fixed - Len(custom))
          \cup U8("EndMark", filled))
  IN  Area(name,
        UNION ({area(names, k, l) : k \in DOMAIN names, l \in 0 .. TailLen}
                 \cup {area(custom, Len(custom), l) : l \in 1 .. TailLen}
                 \cup {unended, Answer(2, begin)}))

FRUChassisInfoArea ==
  InfoArea("FRU ChassisInfoArea", U8("ChassisType", 2), 3, <<"PartNumber", "SerialNumber">>)
FRUBoardInfoArea ==
  InfoArea("FRU BoardInfoArea", U8("LanguageCode", 2) \cup Le("MfgDateTime", 3, 3), 6,
    <<"Manufacturer", "ProductName", "SerialNumber", "PartNumber", "FRUFileID">>)
FRUProductInfoArea ==
  InfoArea("FRU ProductInfoArea", U8("LanguageCode", 2), 3,
    <<"Manufacturer", "Name", "PartModel", "Version", "SerialNumber", "AssetTag", "FRUFileID">>)
-----------------------------------------------------------------------------
(* A record of the list of multi-records: five bytes and the data, which   *)
(* are none where they do not fit.  Three bytes pass the check, although   *)
(* the checksums are at 3 and 4.                                           *)
FRUMultiRecord ==
  Area("FRU MultiRecord",
    UNION {Also(Answer(3, U8("RecordType", 0) \cup Bit("EndOfList", 1, 7)
                  \cup Bits("FormatVersion", 1, 3, 0) \cup U8("RecordLength", 2)
                  \cup U8("RecordChecksum", 3) \cup U8("HeaderChecksum", 4)),
                5 + l, Le("RecordData", 5, l)) : l \in 0 .. TailLen})

(* Power outputs and loads: thirteen bytes, of which three of the four     *)
(* types ask for twelve: the last byte of the current may be missing, and  *)
(* the current then reads as zero.                                         *)
PowerRecord(name, need, flags, names) ==
  Area(name, Answer(need, flags \cup UNION {Le(names[j], 2 * j - 1, 2) : j \in DOMAIN names}))
OutputRecord ==
  <<"NominalVoltage10mV", "MaxNegativeVoltage10mV", "MaxPositiveVoltage10mV", "RippleNoise",
    "MinCurrentDraw", "MaxCurrentDraw">>
LoadRecord ==
  <<"NominalVoltage10mV", "MinVoltage10mV", "MaxVoltage10mV", "RippleNoise1mV", "MinCurrentLoad",
    "MaxCurrentLoad">>

FRURecordTypeDCOutput ==
  PowerRecord("FRU DCOutput", 12, Bit("OutputWhenOff", 0, 7) \cup Bits("OutputNumber", 0, 3, 0),
    OutputRecord)
FRURecordTypeExtendedDCOutput ==
  PowerRecord("FRU ExtendedDCOutput", 12,
    Bit("OutputWhenOff", 0, 7) \cup Bit("CurrentUnits100", 0, 4) \cup Bits("OutputNumber", 0, 3, 0),
    OutputRecord)
FRURecordTypeDCLoad ==
  PowerRecord("FRU DCLoad", 12, Bits("OutputNumber", 0, 3, 0), LoadRecord)
FRURecordTypeExtendedDCLoad ==
  PowerRecord("FRU ExtendedDCLoad", 13,
    Bit("IsCurrentUnit100mA", 0, 7) \cup Bits("OutputNumber", 0, 3, 0), LoadRecord)

FRURecordTypeManagementAccess ==
  Area("FRU ManagementAccess", With(Answer(1, U8("SubRecordType", 0)), TailOf("Data", 1)))

Compatibility ==
  Answer(7, Le("ManufacturerID", 0, 3) \cup U8("EntityID", 3) \cup U8("CompatibilityBase", 4)
    \cup U8("CompatibilityCodeStart", 5) \cup U8("CodeRangeMask", 6))
FRURecordTypeBaseCompatibility           == Area("FRU BaseCompatibility", Compatibility)
FRURecordTypeExtendedCompatibilityRecord == Area("FRU ExtendedCompatibility", Compatibility)
FRURecordTypeOEM ==
  Area("FRU OEM", With(Answer(3, Le("ManufacturerID", 0, 3)), TailOf("Data", 3)))

FruRecords ==
  {FRUCommonHeader, FRUChassisInfoArea, FRUBoardInfoArea, FRUProductInfoArea, FRUMultiRecord,
   FRURecordTypeDCOutput, FRURecordTypeExtendedDCOutput, FRURecordTypeDCLoad,
   FRURecordTypeExtendedDCLoad, FRURecordTypeManagementAccess, FRURecordTypeBaseCompatibility,
   FRURecordTypeExtendedCompatibilityRecord, FRURecordTypeOEM}
=============================================================================
