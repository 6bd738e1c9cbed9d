------------------------------ MODULE FruRead ------------------------------
(***************************************************************************)
(* GetFRUs, GetFRU and GetFRUData: which FRU devices are read, which of    *)
(* their areas, and how readFRUDataByLength and tryReadFRUData cut an area *)
(* into Read FRU Data commands.                                            *)
(*                                                                         *)
(* A byte that is read is known by its address.  Of the contents only the  *)
(* offsets and lengths in headers matter, which Inventory gives; where it  *)
(* has no record, a header says anything.  Parsing the fields of an area   *)
(* is not a part of this module.                                           *)
(***************************************************************************)
EXTENDS Integers, Sequences, FiniteSets

CONSTANTS
  Devices,    \* FRU device IDs
  Inventory,  \* the contents of each device
  Locators,   \* sequences that the SDR walk may yield
  Limits,     \* the most bytes that a BMC puts into one answer
  Shorter,    \* by how much an answer may be shorter than asked for
  Direct,     \* devices given to GetFRUData
  MaxRead     \* 32, the count that a read is first tried with

Areas == <<"chassis", "board", "product">>
W16 == 65536
W8 == 256
Word == 0..(W16 - 1)
Byte == 0..(W8 - 1)

(* The multi-records follow each other without a gap, from where the header says. *)
Inside(d, o8) == o8 > 0 /\ o8 * 8 < Inventory[d].size
ListOf(d) ==
  LET r == Inventory[d].records
  IN  /\ \A k \in DOMAIN r :
           r[k].at \in Word /\ r[k].length \in Byte /\ r[k].at + 5 + r[k].length < W16
      /\ Inside(d, Inventory[d].multi) => r # <<>> /\ r[1].at = Inventory[d].multi * 8
      /\ \A j, k \in DOMAIN r :
           /\ k = j + 1 => r[k].at = r[j].at + 5 + r[j].length
           /\ j < k => r[j].at < r[k].at

ASSUME FruAssumption ==
  /\ 0 \in Devices /\ Devices \subseteq Byte /\ Direct \subseteq Devices
  /\ MaxRead \in Byte \ {0} /\ Limits \subseteq Nat /\ Shorter \subseteq Nat
  /\ \A d \in Devices :
       /\ Inventory[d].size \in Word
       /\ Inventory[d].multi \in Byte /\ Inventory[d].records \in Seq([at: Nat, length: Nat])
       /\ \A a \in {"chassis", "board", "product"} :
            Inventory[d].offset[a] \in Byte /\ Inventory[d].length[a] \in Byte
       /\ ListOf(d)
  /\ Locators \subseteq Seq([device: Devices, lun: 0..3, place: {"mc", "bus", "ipmb"}])

VARIABLES
  limit,      \* of the BMC
  phase,      \* the exchange that the call waits in, or how it ended
  walked,     \* the SDRs have been walked
  todo,       \* locators still to be looked at
  dev,        \* the device in hand
  area,       \* 1..3 an area of Areas, 4 the multi-records
  start,      \* where the current area or record begins
  size,       \* its length
  offset, length, readCount,   \* locals of the two read functions, 16 and 8 bits
  end,        \* ghost: the data collected are the bytes from start to here,
  gap,        \* ghost: unless there is a gap between them
  areas,      \* of the FRU in hand: the areas read, as <<name, start, size>>
  frus        \* the result

reading == <<start, size, offset, length, readCount, end, gap>>
vars == <<limit, phase, walked, todo, dev, area, reading, areas, frus>>

Inv == Inventory[dev]
NoReading == /\ start = 0 /\ size = 0 /\ offset = 0 /\ length = 0
             /\ readCount = 0 /\ end = 0 /\ gap = FALSE

Init ==
  /\ limit \in Limits
  /\ phase \in {"deviceID", "data"}
  /\ walked = FALSE /\ todo = <<>> /\ area = 1 /\ areas = <<>> /\ frus = <<>>
  /\ dev \in IF phase = "data" THEN Direct ELSE {0}
  /\ NoReading

Failed ==
  /\ phase' = "failed" /\ frus' = <<>>
  /\ UNCHANGED <<limit, walked, todo, dev, area, reading, areas>>

(* Any exchange may fail; the whole call then fails. *)
ExchangeFails ==
  phase \in {"deviceID", "sdrs", "info", "data", "header", "length", "chunk"} /\ Failed

(* Get Device ID: device 0 comes first if there is FRU support at all. *)
GetDeviceID(support) ==
  /\ phase = "deviceID"
  /\ phase' = (IF support THEN "info" ELSE "sdrs")
  /\ UNCHANGED <<limit, walked, todo, dev, area, reading, areas, frus>>

(* The locator records, from GetSDRs. *)
GetSDRs(locators) ==
  /\ phase = "sdrs"
  /\ phase' = "locator" /\ todo' = locators /\ walked' = TRUE
  /\ UNCHANGED <<limit, dev, area, reading, areas, frus>>

(* Only devices behind the controller itself are read, device 0 not again. *)
Readable(l) == l.place = "mc" /\ ~(l.lun = 0 /\ l.device = 0)
Locator ==
  /\ phase = "locator"
  /\ IF todo = <<>> THEN phase' = "done" /\ UNCHANGED <<todo, dev>>
     ELSE /\ todo' = Tail(todo)
          /\ IF Readable(Head(todo))
               THEN dev' = Head(todo).device /\ phase' = "info"
               ELSE UNCHANGED <<dev, phase>>
  /\ UNCHANGED <<limit, walked, area, reading, areas, frus>>

AfterDevice == IF walked THEN "locator" ELSE "sdrs"

(* GetFRU ends, with a FRU or with one that is marked as not present. *)
FruEnds(present) ==
  /\ frus' = Append(frus, [device |-> dev, present |-> present, areas |-> areas])
  /\ phase' = AfterDevice /\ areas' = <<>> /\ area' = 1
  /\ UNCHANGED <<limit, walked, todo, dev, reading>>

(* Wrong on purpose: a device that is not present is forgotten. *)
NotPresentForgotten ==
  /\ phase \in {"info", "header"}
  /\ phase' = AfterDevice /\ areas' = <<>> /\ area' = 1
  /\ UNCHANGED <<limit, walked, todo, dev, reading, frus>>
(* A completion code says that there is nothing there, or that it is too slow. *)
NotPresent == phase \in {"info", "header"} /\ FruEnds(FALSE)

(* Get FRU Inventory Area Info; a size of 0 is an error. *)
AreaInfo ==
  /\ phase = "info" /\ Inv.size >= 1
  /\ phase' = "header"
  /\ UNCHANGED <<limit, walked, todo, dev, area, reading, areas, frus>>

(* A read of length bytes from o on begins. *)
TryCount(n) == IF n <= MaxRead THEN n ELSE MaxRead
BeginRead(o, n) ==
  /\ start' = o /\ size' = n /\ offset' = o /\ length' = n
  /\ readCount' = TryCount(n) /\ end' = o /\ gap' = FALSE

(* GetFRUData: the info and then the whole device. *)
DataInfo ==
  /\ phase = "data" /\ Inv.size >= 1
  /\ phase' = "chunk" /\ area' = 5
  /\ BeginRead(0, Inv.size)
  /\ UNCHANGED <<limit, walked, todo, dev, areas, frus>>

(* The 8 bytes of the header; they fit into any answer or the BMC refuses.  Fewer of
   them do not unpack, which is an error as of the exchange itself. *)
Header ==
  /\ phase = "header" /\ limit >= 8
  /\ phase' = "area"
  /\ UNCHANGED <<limit, walked, todo, dev, area, reading, areas, frus>>

OffsetOf(a) == (IF a = 4 THEN Inv.multi ELSE Inv.offset[Areas[a]]) * 8

(* The next area: one that the header has, within the size of the device. *)
Area ==
  /\ phase = "area"
  /\ IF area = 5 THEN FruEnds(TRUE)
     ELSE LET o == OffsetOf(area)
          IN  IF o > 0 /\ o < Inv.size
                THEN /\ phase' = "length" /\ start' = o
                     /\ UNCHANGED <<limit, walked, todo, dev, area, size, offset, length,
                                    readCount, end, gap, areas, frus>>
                ELSE /\ area' = area + 1
                     /\ UNCHANGED <<limit, phase, walked, todo, dev, reading, areas, frus>>

(* The first 2 bytes of an area, or 5 of a record, which hold its length.  A
   record of length zero is a header only. *)
RecordsAt(o) == {k \in DOMAIN Inv.records : Inv.records[k].at = o}
LengthsAt(o) == IF RecordsAt(o) = {} THEN Byte
                ELSE {Inv.records[k].length : k \in RecordsAt(o)}
Asked == IF area = 4 THEN 5 ELSE 2
UpToLength == IF area = 4 THEN 3 ELSE 2
AreaLength ==
  /\ phase = "length" /\ limit >= Asked /\ \E s \in Shorter : Asked - s >= UpToLength
  /\ IF area = 4 THEN \E l \in LengthsAt(start) : BeginRead(start, 5 + l)
                 ELSE BeginRead(start, Inv.length[Areas[area]] * 8)
  /\ phase' = "chunk"
  /\ UNCHANGED <<limit, walked, todo, dev, area, areas, frus>>

(* An answer that ends before the byte with the length, which is indexed all the same. *)
NoLength ==
  /\ phase = "length" /\ limit >= Asked
  /\ \E s \in Shorter : Asked - s \in 1..(UpToLength - 1)
  /\ phase' = "panic"
  /\ UNCHANGED <<limit, walked, todo, dev, area, reading, areas, frus>>

(* Wrong on purpose: what was asked for is taken for what was returned. *)
ChunkAsAsked(n) ==
  /\ phase = "chunk" /\ length > 0 /\ readCount <= limit
  /\ n \in {readCount - s : s \in Shorter} /\ n >= 1
  /\ end' = end + n /\ gap' = (gap \/ offset # end)
  /\ length' = (length - readCount) % W16
  /\ offset' = (offset + readCount) % W16
  /\ readCount' = TryCount((length - readCount) % W16)
  /\ UNCHANGED <<limit, phase, walked, todo, dev, area, start, size, areas, frus>>
(* An answer with n bytes, as many as it says: the rest is asked for from there. *)
Chunk(n) ==
  /\ phase = "chunk" /\ length > 0 /\ readCount <= limit
  /\ n \in {readCount - s : s \in Shorter} /\ n >= 1
  /\ end' = end + n /\ gap' = (gap \/ offset # end)
  /\ length' = (length - n) % W16
  /\ offset' = (offset + n) % W16
  /\ readCount' = TryCount((length - n) % W16)
  /\ UNCHANGED <<limit, phase, walked, todo, dev, area, start, size, areas, frus>>

(* Wrong on purpose: from eight bytes on it begins again with the most. *)
TooLongAgain ==
  /\ phase = "chunk" /\ length > 0 /\ readCount > limit
  /\ readCount' = IF readCount > 8 THEN readCount - 1 ELSE TryCount(length)
  /\ UNCHANGED <<limit, phase, walked, todo, dev, area, start, size, offset, length,
                 end, gap, areas, frus>>
(* The completion codes for "too long": one byte less, until nothing is left. *)
TooLong ==
  /\ phase = "chunk" /\ length > 0 /\ readCount > limit
  /\ IF readCount = 1 THEN Failed
     ELSE /\ readCount' = readCount - 1
          /\ UNCHANGED <<limit, phase, walked, todo, dev, area, start, size, offset, length,
                         end, gap, areas, frus>>

(* The loop over one multi-record after the other, until the end of the list;
   the length is a byte, and so is its sum with 5. *)
NextOffset(o, n) == (o + (n % W8)) % W16
MoreAt(o) == IF RecordsAt(o) = {} THEN BOOLEAN
             ELSE {k < Len(Inv.records) : k \in RecordsAt(o)}

(* All has been read.  An empty area does not unpack. *)
NextArea ==
  /\ phase' = (IF area = 5 THEN "done" ELSE "area")
  /\ area' = (IF area = 5 THEN 5 ELSE area + 1)
  /\ UNCHANGED start
NextRecord ==
  /\ phase' = "length" /\ start' = NextOffset(start, size)
  /\ UNCHANGED area
ReadEnds ==
  /\ phase = "chunk" /\ length = 0
  /\ IF size = 0 THEN Failed
     ELSE /\ areas' = Append(areas, <<area, start, end - start>>)
          /\ IF area # 4 THEN NextArea
             ELSE \E more \in MoreAt(start) : IF more THEN NextRecord ELSE NextArea
          /\ UNCHANGED <<limit, walked, todo, dev, size, offset, length, readCount, end,
                         gap, frus>>

Next ==
  \/ ExchangeFails \/ Locator \/ NotPresent \/ AreaInfo \/ DataInfo \/ Header
  \/ Area \/ AreaLength \/ NoLength \/ TooLong \/ ReadEnds
  \/ \E support \in BOOLEAN : GetDeviceID(support)
  \/ \E l \in Locators : GetSDRs(l)
  \/ \E n \in 1..MaxRead : Chunk(n)

Spec == Init /\ [][Next]_vars
FairSpec == Spec /\ WF_vars(Next)
-----------------------------------------------------------------------------
(* While an area is read, in however many pieces of whatever sizes, never more is
   asked for than is left, so that the unsigned length does not wrap.  What has been
   collected and what is still to be read make up the area: no byte is skipped, read
   twice or read from beyond it (readFRUDataByLength goes on by CountReturned), if the
   area ends where a 16-bit offset can be. *)
ReadExactly ==
  phase = "chunk" =>
    /\ readCount <= length
    /\ start + size < W16 =>
         /\ ~gap /\ end = offset
         /\ offset + length = start + size

(* The records of a device, each with another behind it, have up to 250 bytes. *)
Short(d) ==
  \A k \in 1..(Len(Inventory[d].records) - 1) : 5 + Inventory[d].records[k].length < W8

InfoArea(d, a) ==
  LET o8 == Inventory[d].offset[Areas[a]]
  IN  IF Inside(d, o8) THEN << <<a, o8 * 8, Inventory[d].length[Areas[a]] * 8>> >> ELSE <<>>
Record(d, k) == <<4, Inventory[d].records[k].at, 5 + Inventory[d].records[k].length>>
MultiRecords(d, n) == IF Inside(d, Inventory[d].multi) THEN [k \in 1..n |-> Record(d, k)] ELSE <<>>
Complete(d) ==
  InfoArea(d, 1) \o InfoArea(d, 2) \o InfoArea(d, 3) \o MultiRecords(d, Len(Inventory[d].records))

(* After b others, fs has a FRU for each readable one of the first n locators of l. *)
Walked(fs, l, n, b) ==
  \E f \in [(b + 1)..Len(fs) -> 1..n] :
    /\ \A i, j \in (b + 1)..Len(fs) : i < j => f[i] < f[j]
    /\ {f[i] : i \in (b + 1)..Len(fs)} = {i \in 1..n : Readable(l[i])}
    /\ \A i \in (b + 1)..Len(fs) : fs[i].device = l[f[i]].device

(* A FRU that is returned as present has every area and every multi-record that its
   header tells of, each whole and in order (GetFRU), if no record but the last of the
   device is longer than 250 bytes: see AtRecord.  GetFRUs succeeds only with a FRU for
   every locator that the code can reach, whatever the devices contain; a device that
   is not present takes its place and does not end the walk. *)
FrusComplete ==
  /\ \A i \in DOMAIN frus :
       frus[i].present /\ Short(frus[i].device) => frus[i].areas = Complete(frus[i].device)
  /\ phase = "done" /\ walked =>
       \E l \in Locators, b \in {0, 1} :
         Len(frus) >= b /\ (b = 1 => frus[1].device = 0) /\ Walked(frus, l, Len(l), b)

(* The length of a record, added to where its data begin, gives the header of the next,
   and "allows for 0 to 255 bytes of data" (types_fru.go:569-572): the walk over the
   list finds a record each time.  Behind a record of 251 bytes and more it does not,
   for the code adds the 5 bytes of the header to the length in 8 bits. *)
AtRecord == phase = "length" /\ area = 4 => RecordsAt(start) # {}

(* Every call ends, with a result, an error or a panic, whatever the BMC accepts, as
   long as it returns something and no device has long records before others. *)
ReadsEnd == (\A d \in Devices : Short(d)) => <>(phase \in {"done", "failed", "panic"})
=============================================================================
