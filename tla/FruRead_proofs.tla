--------------------------- MODULE FruRead_proofs ---------------------------
(***************************************************************************)
(* FRU reading, for any devices, inventories, locators and any way in      *)
(* which a BMC limits or cuts its answers: every piece of an area is read  *)
(* once, and the FRUs are those of the locators.  The areas of a FRU are   *)
(* those of its header if its device has no long record before another.    *)
(*                                                                         *)
(* The argument: while an area or a record is in hand, the areas read are  *)
(* those in front of it, and start is where it is; while a locator is in   *)
(* hand, the FRUs are those of the locators in front of it.                *)
(* The last part is about why a call ends.                                 *)
(***************************************************************************)
EXTENDS FruRead, SequenceTheorems, TLAPS

Entry == Int \X Int \X Int
FruRecord == [device: Devices, present: BOOLEAN, areas: Seq(Entry)]
LocatorRecord == [device: Devices, lun: 0..3, place: {"mc", "bus", "ipmb"}]
InFru == {"info", "header", "area", "length", "chunk"}

NumbersOK ==
  /\ start \in Word /\ size \in Word /\ offset \in Word /\ length \in Word
  /\ readCount \in Byte /\ end \in Nat /\ gap \in BOOLEAN
FruTypeOK ==
  /\ limit \in Nat /\ walked \in BOOLEAN /\ todo \in Seq(LocatorRecord)
  /\ phase \in InFru \cup {"deviceID", "sdrs", "locator", "data", "done", "failed", "panic"}
  /\ dev \in Devices /\ area \in 1..5 /\ (phase = "length" => area # 5)
  /\ NumbersOK
  /\ areas \in Seq(Entry) /\ frus \in Seq(FruRecord)

(* A read goes on where it is and asks for something until it ends. *)
Reading == phase = "chunk" => ReadExactly /\ (length > 0 => readCount >= 1)

(* The areas of a device before the one in hand. *)
Before(d, a) ==
  IF a = 1 THEN <<>>
  ELSE IF a = 2 THEN InfoArea(d, 1)
  ELSE IF a = 3 THEN InfoArea(d, 1) \o InfoArea(d, 2)
  ELSE InfoArea(d, 1) \o InfoArea(d, 2) \o InfoArea(d, 3)

AtInfoArea ==
  /\ areas = Before(dev, area)
  /\ Inside(dev, Inv.offset[Areas[area]]) /\ start = Inv.offset[Areas[area]] * 8
  /\ phase = "chunk" => size = Inv.length[Areas[area]] * 8
AtMultiRecord(m) ==
  /\ areas = Before(dev, 4) \o MultiRecords(dev, m - 1)
  /\ Inside(dev, Inv.multi) /\ start = Inv.records[m].at
  /\ phase = "chunk" => size = 5 + Inv.records[m].length
AreasRead ==
  /\ phase \in {"deviceID", "data", "sdrs", "locator", "info", "header"} =>
       areas = <<>> /\ area = 1
  /\ Short(dev) =>
       /\ phase = "area" =>
            areas = IF area = 5 THEN Complete(dev) ELSE Before(dev, area)
       /\ phase \in {"length", "chunk"} /\ area \in 1..3 => AtInfoArea
       /\ phase \in {"length", "chunk"} /\ area = 4 =>
            \E m \in DOMAIN Inv.records : AtMultiRecord(m)

PresentComplete ==
  \A i \in DOMAIN frus :
    frus[i].present /\ Short(frus[i].device) => frus[i].areas = Complete(frus[i].device)

(* The FRU of the controller comes before those of the locators. *)
Builtin(b) == Len(frus) >= b /\ (b = 1 => frus[1].device = 0)
GetFRUData == area = 5 /\ phase = "chunk"
BeforeWalk ==
  /\ phase \in InFru \cup {"deviceID", "data"} => frus = <<>>
  /\ phase \in InFru \cup {"deviceID"} /\ ~GetFRUData => dev = 0
  /\ phase = "sdrs" => \E b \in {0, 1} : Len(frus) = b /\ Builtin(b)
  /\ phase # "locator"
InWalk ==
  /\ phase \in InFru \cup {"locator", "done"} /\ ~GetFRUData
  /\ \E l \in Locators, b \in {0, 1} : \E n \in 0..Len(l) :
       /\ Builtin(b) /\ todo = SubSeq(l, n + 1, Len(l))
       /\ phase \in {"locator", "done"} => Walked(frus, l, n, b)
       /\ phase = "done" => n = Len(l)
       /\ phase \in InFru => /\ n >= 1 /\ Readable(l[n]) /\ dev = l[n].device
                             /\ Walked(frus, l, n - 1, b)
Walk == phase \notin {"failed", "panic"} => IF walked THEN InWalk ELSE BeforeWalk

FruInv == FruTypeOK /\ Reading /\ AreasRead /\ PresentComplete /\ Walk
-----------------------------------------------------------------------------
(* What the assumption says of one device. *)
LEMMA Device ==
  ASSUME NEW d \in Devices
  PROVE  /\ d \in Byte /\ Inventory[d].size \in Word /\ Inventory[d].multi \in Byte
         /\ Inventory[d].records \in Seq([at: Nat, length: Nat]) /\ ListOf(d)
         /\ \A a \in 1..3 : /\ Inventory[d].offset[Areas[a]] \in Byte
                            /\ Inventory[d].length[Areas[a]] \in Byte
<1>1. \A a \in 1..3 : Areas[a] \in {"chassis", "board", "product"}
  BY DEF Areas
<1>2. /\ d \in Byte /\ Inventory[d].size \in Word /\ Inventory[d].multi \in Byte
      /\ Inventory[d].records \in Seq([at: Nat, length: Nat]) /\ ListOf(d)
  BY FruAssumption, Zenon
<1>3. \A a \in {"chassis", "board", "product"} :
        Inventory[d].offset[a] \in Byte /\ Inventory[d].length[a] \in Byte
  BY FruAssumption, Zenon
<1>4. ASSUME NEW a \in 1..3
      PROVE  Inventory[d].offset[Areas[a]] \in Byte /\ Inventory[d].length[Areas[a]] \in Byte
  BY <1>1, <1>3, Zenon
<1> QED BY <1>2, <1>4, Zenon DEF Word

(* The widths as far as they matter: sums of bytes times 8 fit into a word. *)
LEMMA Width == W8 \in Nat /\ W8 > 5 /\ W16 \in Nat /\ W16 > 16 * W8
  BY DEF W16, W8

LEMMA InByte ==
  /\ \A n \in Byte : n \in Nat /\ n < W8 /\ n % W8 = n
  /\ \A n \in Nat : n < W8 => n \in Byte
<1>1. \A n \in Nat : n < W8 => n % W8 = n
  BY DEF W8
<1>2. \A n : n \in Byte <=> n \in Nat /\ n < W8
  BY Width DEF Byte
<1> QED BY <1>1, <1>2, Zenon

LEMMA Records ==
  ASSUME NEW d \in Devices
  PROVE  LET r == Inventory[d].records
         IN  /\ Len(r) \in Nat /\ DOMAIN r = 1..Len(r)
             /\ \A k \in 1..Len(r) :
                  /\ r[k].at \in Word /\ r[k].length \in Byte
                  /\ r[k].at + 5 + r[k].length < W16
             /\ \A j, k \in 1..Len(r) :
                  /\ k = j + 1 => r[k].at = r[j].at + 5 + r[j].length
                  /\ j < k => r[j].at < r[k].at
<1> DEFINE r == Inventory[d].records
<1>1. r \in Seq([at: Nat, length: Nat]) /\ ListOf(d)
  BY Device
<1>2. Len(r) \in Nat /\ DOMAIN r = 1..Len(r)
  BY <1>1
<1> QED BY <1>1, <1>2, Zenon DEF ListOf, Word

LEMMA Increasing ==
  ASSUME NEW n \in Nat, NEW at, \A k \in 1..n : at[k] \in Nat,
         \A j, k \in 1..n : j < k => at[j] < at[k], NEW m \in 1..n
  PROVE  {k \in 1..n : at[k] = at[m]} = {m}
<1> SUFFICES ASSUME NEW k \in 1..n, at[k] = at[m] PROVE k = m
  OBVIOUS
<1>1. at[k] \in Nat /\ at[m] \in Nat
  OBVIOUS
<1>2. ~(k < m) /\ ~(m < k)
  BY <1>1
<1> QED BY <1>2

(* A record of the list: where it is, and that it is the only one there. *)
LEMMA RecordAt ==
  ASSUME NEW d \in Devices, NEW m \in DOMAIN Inventory[d].records
  PROVE  LET r == Inventory[d].records
         IN  /\ r[m].at \in Word /\ r[m].length \in Byte
             /\ r[m].at + 5 + r[m].length < W16
             /\ {k \in DOMAIN r : r[k].at = r[m].at} = {m}
             /\ m \in 1..Len(r) /\ Len(r) \in Nat
             /\ m < Len(r) => m + 1 \in DOMAIN r /\ r[m + 1].at = r[m].at + 5 + r[m].length
<1> DEFINE n == Len(Inventory[d].records)
           at == [k \in 1..n |-> Inventory[d].records[k].at]
<1>1. n \in Nat /\ DOMAIN Inventory[d].records = 1..n /\ m \in 1..n
  BY Records, Zenon
<1>2. \A k \in 1..n : Inventory[d].records[k].at \in Word
  BY Records, Zenon
<1>3. \A j, k \in 1..n : j < k => Inventory[d].records[j].at < Inventory[d].records[k].at
  BY Records, Zenon
<1>4. {k \in 1..n : at[k] = at[m]} = {m}
  <2>1. \A k \in 1..n : at[k] \in Nat
    <3>1. Word \subseteq Nat
      BY Width DEF Word
    <3> QED BY <1>2, <3>1, Zenon
  <2>2. \A j, k \in 1..n : j < k => at[j] < at[k]
    BY <1>3, Zenon
  <2> HIDE DEF n, at
  <2> QED BY <1>1, <2>1, <2>2, Increasing
<1>5. {k \in 1..n : at[k] = at[m]} = {k \in 1..n : Inventory[d].records[k].at = Inventory[d].records[m].at}
  BY <1>1, Zenon
<1>6. m < n => m + 1 \in 1..n
  BY <1>1
<1>7. m + 1 \in 1..n =>
        Inventory[d].records[m + 1].at = Inventory[d].records[m].at + 5 + Inventory[d].records[m].length
  BY <1>1, Records, Zenon
<1>8. /\ Inventory[d].records[m].at \in Word /\ Inventory[d].records[m].length \in Byte
      /\ Inventory[d].records[m].at + 5 + Inventory[d].records[m].length < W16
  BY <1>1, Records, Zenon
<1> QED BY <1>1, <1>4, <1>5, <1>6, <1>7, <1>8, Zenon

LEMMA EntryOf ==
  ASSUME NEW a \in Int, NEW o \in Word, NEW n \in Byte
  PROVE  <<a, o, 5 + n>> \in Entry
  BY Width, InByte DEF Entry, Word

LEMMA InfoEntry ==
  ASSUME NEW d \in Devices, NEW a \in 1..3
  PROVE  <<a, Inventory[d].offset[Areas[a]] * 8, Inventory[d].length[Areas[a]] * 8>> \in Entry
<1>1. Inventory[d].offset[Areas[a]] \in Byte /\ Inventory[d].length[Areas[a]] \in Byte
  BY Device, Zenon
<1> DEFINE o == Inventory[d].offset[Areas[a]]
           l == Inventory[d].length[Areas[a]]
<1>2. o \in Byte /\ l \in Byte
  BY <1>1
<1> HIDE DEF o, l
<1>3. <<a, o * 8, l * 8>> \in Entry
  BY <1>2, InByte DEF Entry
<1> QED BY <1>3 DEF o, l

LEMMA RecordEntry ==
  ASSUME NEW d \in Devices, NEW m \in DOMAIN Inventory[d].records
  PROVE  Record(d, m) \in Entry
<1>1. Inventory[d].records[m].at \in Word /\ Inventory[d].records[m].length \in Byte
  BY RecordAt, Zenon
<1>2. 4 \in Int
  OBVIOUS
<1> QED BY <1>1, <1>2, EntryOf, Zenon DEF Record

(* The areas are entries of a sequence. *)
LEMMA Entries ==
  ASSUME NEW d \in Devices
  PROVE  /\ \A a \in 1..3 : InfoArea(d, a) \in Seq(Entry)
         /\ \A a \in 1..4 : Before(d, a) \in Seq(Entry)
         /\ \A n \in 0..Len(Inventory[d].records) : MultiRecords(d, n) \in Seq(Entry)
         /\ Complete(d) \in Seq(Entry)
<1>1. \A a \in 1..3 : InfoArea(d, a) \in Seq(Entry)
  <2> TAKE a \in 1..3
  <2> DEFINE e == <<a, Inventory[d].offset[Areas[a]] * 8, Inventory[d].length[Areas[a]] * 8>>
  <2>1. e \in Entry
    BY InfoEntry
  <2> HIDE DEF e
  <2>2. <<e>> \in Seq(Entry) /\ <<>> \in Seq(Entry)
    BY <2>1
  <2> QED BY <2>2 DEF InfoArea, e
<1>2. \A a \in 1..4 : Before(d, a) \in Seq(Entry)
  BY <1>1 DEF Before
<1>3. \A n \in 0..Len(Inventory[d].records) : MultiRecords(d, n) \in Seq(Entry)
  <2> TAKE n \in 0..Len(Inventory[d].records)
  <2>1. Len(Inventory[d].records) \in Nat /\ DOMAIN Inventory[d].records = 1..Len(Inventory[d].records)
    BY Records, Zenon
  <2>2. \A k \in 1..n : Record(d, k) \in Entry
    BY <2>1, RecordEntry
  <2>3. [k \in 1..n |-> Record(d, k)] \in Seq(Entry)
    BY <2>1, <2>2, IsASeq
  <2>4. <<>> \in Seq(Entry)
    OBVIOUS
  <2> QED BY <2>3, <2>4 DEF MultiRecords
<1>4. Len(Inventory[d].records) \in Nat
  BY Records, Zenon
<1> QED BY <1>1, <1>2, <1>3, <1>4 DEF Complete

(* The areas before the next one: with this one, if the header has it. *)
LEMMA NextBefore ==
  ASSUME NEW d \in Devices, NEW a \in 1..3
  PROVE  LET o8 == Inventory[d].offset[Areas[a]]
         IN  /\ ~Inside(d, o8) => Before(d, a + 1) = Before(d, a)
             /\ Inside(d, o8) =>
                  Before(d, a + 1) =
                    Append(Before(d, a), <<a, o8 * 8, Inventory[d].length[Areas[a]] * 8>>)
<1> DEFINE e == <<a, Inventory[d].offset[Areas[a]] * 8, Inventory[d].length[Areas[a]] * 8>>
<1>1. e \in Entry
  BY InfoEntry
<1>2. Before(d, a) \in Seq(Entry)
  BY Entries
<1>3. Before(d, a + 1) = Before(d, a) \o InfoArea(d, a)
  <2>1. CASE a = 1
    <3>1. InfoArea(d, 1) \in Seq(Entry)
      BY Entries
    <3> QED BY <3>1, <2>1, ConcatEmptySeq DEF Before
  <2>2. CASE a = 2
    BY <2>2 DEF Before
  <2>3. CASE a = 3
    BY <2>3 DEF Before
  <2> QED BY <2>1, <2>2, <2>3
<1>4. Inside(d, Inventory[d].offset[Areas[a]]) => InfoArea(d, a) = <<e>>
  BY DEF InfoArea
<1>5. ~Inside(d, Inventory[d].offset[Areas[a]]) => InfoArea(d, a) = <<>>
  BY DEF InfoArea
<1> HIDE DEF e
<1>6. Before(d, a) \o <<e>> = Append(Before(d, a), e) /\ Before(d, a) \o <<>> = Before(d, a)
  BY <1>1, <1>2, AppendIsConcat, ConcatEmptySeq
<1> QED BY <1>3, <1>4, <1>5, <1>6 DEF e

LEMMA NextMultiRecord ==
  ASSUME NEW d \in Devices, NEW m \in DOMAIN Inventory[d].records,
         Inside(d, Inventory[d].multi), NEW s \in Seq(Entry)
  PROVE  Append(s \o MultiRecords(d, m - 1), Record(d, m)) = s \o MultiRecords(d, m)
<1> DEFINE r(n) == [k \in 1..n |-> Record(d, k)]
<1>1. m \in 1..Len(Inventory[d].records) /\ Len(Inventory[d].records) \in Nat
  BY RecordAt, Zenon
<1>2. MultiRecords(d, m - 1) = r(m - 1) /\ MultiRecords(d, m) = r(m)
  BY DEF MultiRecords
<1>3. r(m - 1) \in Seq(Entry) /\ r(m) \in Seq(Entry)
  <2>1. m \in 0..Len(Inventory[d].records) /\ m - 1 \in 0..Len(Inventory[d].records)
    BY <1>1
  <2> QED BY <1>2, <2>1, Entries
<1>4. Record(d, m) \in Entry
  BY RecordEntry
<1>5. Append(r(m - 1), Record(d, m)) = r(m)
  <2>1. Len(r(m - 1)) = m - 1 /\ Len(r(m)) = m
    BY <1>1, <1>3
  <2>2. Append(r(m - 1), Record(d, m)) \in Seq(Entry)
    BY <1>3, <1>4
  <2> QED BY <1>1, <1>3, <1>4, <2>1, <2>2
<1> HIDE DEF r
<1>6. Append(s \o r(m - 1), Record(d, m)) = s \o Append(r(m - 1), Record(d, m))
  <2> DEFINE e == Record(d, m)
             t == r(m - 1)
  <2>1. t \in Seq(Entry) /\ e \in Entry
    BY <1>3, <1>4
  <2> HIDE DEF e, t
  <2>2. Append(s \o t, e) = (s \o t) \o <<e>> /\ Append(t, e) = t \o <<e>>
    BY <2>1, AppendIsConcat, ConcatProperties
  <2>3. <<e>> \in Seq(Entry)
    BY <2>1
  <2>4. (s \o t) \o <<e>> = s \o (t \o <<e>>)
    BY <2>1, <2>3, ConcatAssociative
  <2> QED BY <2>2, <2>4 DEF e, t
<1> QED BY <1>2, <1>5, <1>6

(* Before the first record, and after the last. *)
LEMMA AllAreas ==
  ASSUME NEW d \in Devices
  PROVE  /\ Before(d, 4) \o MultiRecords(d, 0) = Before(d, 4)
         /\ Complete(d) = Before(d, 4) \o MultiRecords(d, Len(Inventory[d].records))
         /\ ~Inside(d, Inventory[d].multi) => Complete(d) = Before(d, 4)
<1>1. MultiRecords(d, 0) = <<>>
  BY DEF MultiRecords
<1>2. Complete(d) = Before(d, 4) \o MultiRecords(d, Len(Inventory[d].records))
  BY DEF Complete, Before
<1>3. Before(d, 4) \in Seq(Entry)
  BY Entries
<1>4. ~Inside(d, Inventory[d].multi) => MultiRecords(d, Len(Inventory[d].records)) = <<>>
  BY DEF MultiRecords
<1> QED BY <1>1, <1>2, <1>3, <1>4, ConcatEmptySeq
-----------------------------------------------------------------------------
(* Types. *)
LEMMA Bounds == MaxRead \in Byte \ {0} /\ Limits \subseteq Nat /\ Shorter \subseteq Nat
  BY FruAssumption, Zenon

LEMMA Words ==
  /\ Word \subseteq Int /\ 0 \in Word /\ \A n \in Byte : n * 8 \in Word /\ 5 + n \in Word
  /\ \A x \in Int : x % W16 \in Word
<1>1. Word \subseteq Int /\ 0 \in Word
  BY Width DEF Word
<1>2. \A n \in Byte : n * 8 \in Word
  BY Width, InByte DEF Word
<1>3. \A n \in Byte : 5 + n \in Word
  BY Width, InByte DEF Word
<1>4. ASSUME NEW x \in Int PROVE x % W16 \in Word
  <2>1. x % W16 \in Nat /\ x % W16 < W16
    BY SMTT(30) DEF W16
  <2> QED BY <2>1, Width DEF Word
<1> QED BY <1>1, <1>2, <1>3, <1>4, Zenon

LEMMA InWord ==
  /\ W16 \in Nat /\ \A x \in Word : x \in Nat /\ x < W16 /\ x % W16 = x
  /\ \A x \in Nat : x < W16 => x \in Word
<1>1. \A x \in Word : x \in Nat /\ x < W16
  BY Width DEF Word
<1>2. ASSUME NEW x \in Nat, x < W16 PROVE x % W16 = x /\ x \in Word
  <2>1. x % W16 = x
    BY <1>2, SMTT(30) DEF W16
  <2> QED BY <1>2, <2>1, Width DEF Word
<1>3. W16 \in Nat
  BY Width
<1> QED BY <1>1, <1>2, <1>3, Zenon

LEMMA TryCountType ==
  ASSUME NEW n \in Word
  PROVE  TryCount(n) \in Byte /\ TryCount(n) <= n /\ (n > 0 => TryCount(n) >= 1)
<1>1. MaxRead \in Byte \ {0} /\ n \in Nat
  BY Width, InByte, Bounds DEF Word
<1> QED BY <1>1, InByte, Width DEF TryCount

LEMMA OffsetType ==
  ASSUME FruTypeOK, area \in 1..4
  PROVE  /\ OffsetOf(area) \in Word
         /\ area \in 1..3 => /\ OffsetOf(area) = Inv.offset[Areas[area]] * 8
                             /\ Inv.offset[Areas[area]] \in Byte
                             /\ Inv.length[Areas[area]] \in Byte
         /\ area = 4 => OffsetOf(area) = Inv.multi * 8 /\ Inv.multi \in Byte
<1>1. area \in 1..3 =>
        /\ Inv.offset[Areas[area]] \in Byte /\ Inv.length[Areas[area]] \in Byte
  BY Device, Zenon DEF Inv, FruTypeOK
<1>2. Inv.multi \in Byte
  BY Device, Zenon DEF Inv, FruTypeOK
<1>3. CASE area = 4
  <2>1. OffsetOf(area) = Inv.multi * 8
    BY <1>3 DEF OffsetOf
  <2> HIDE DEF Inv
  <2> QED BY <1>2, <1>3, <2>1, Words
<1>4. CASE area \in 1..3
  <2>1. OffsetOf(area) = Inv.offset[Areas[area]] * 8
    BY <1>4 DEF OffsetOf
  <2> HIDE DEF Inv
  <2> QED BY <1>1, <1>4, <2>1, Words
<1> QED BY <1>3, <1>4

LEMMA LengthsType ==
  ASSUME FruTypeOK
  PROVE  \A o : LengthsAt(o) \subseteq Byte
<1> TAKE o
<1>1. \A k \in DOMAIN Inv.records : Inv.records[k].length \in Byte
  BY RecordAt, Zenon DEF Inv, FruTypeOK
<1> QED BY <1>1, Zenon DEF LengthsAt, RecordsAt

(* The read of an area or a record, of as many bytes as a byte says. *)
LEMMA LengthBegins ==
  ASSUME FruTypeOK, AreaLength
  PROVE  \E n \in Word : BeginRead(start, n)
<1>1. CASE area = 4
  <2>1. PICK l \in LengthsAt(start) : BeginRead(start, 5 + l)
    BY <1>1 DEF AreaLength
  <2>2. l \in Byte
    BY <2>1, LengthsType
  <2>3. 5 + l \in Word
    BY <2>2, Words
  <2> QED BY <2>1, <2>3
<1>2. CASE area # 4
  <2>1. BeginRead(start, Inv.length[Areas[area]] * 8)
    BY <1>2 DEF AreaLength
  <2>2. Inv.length[Areas[area]] * 8 \in Word
    <3>1. area \in 1..3
      BY <1>2 DEF AreaLength, FruTypeOK
    <3> QED BY <3>1, OffsetType, Words
  <2> QED BY <2>1, <2>2
<1> QED BY <1>1, <1>2

LEMMA BeginReadType ==
  ASSUME NEW o \in Word, NEW n \in Word, BeginRead(o, n)
  PROVE  NumbersOK' /\ readCount' <= n /\ (n > 0 => readCount' >= 1)
<1>1. n \in Int /\ o \in Nat
  BY Width DEF Word
<1> QED BY <1>1, TryCountType DEF BeginRead, NumbersOK

LEMMA NewFru ==
  ASSUME FruTypeOK, NEW p \in BOOLEAN
  PROVE  Append(frus, [device |-> dev, present |-> p, areas |-> areas]) \in Seq(FruRecord)
<1>1. [device |-> dev, present |-> p, areas |-> areas] \in FruRecord
  BY DEF FruRecord, FruTypeOK
<1> QED BY <1>1 DEF FruTypeOK

LEMMA TypeInit == Init => FruTypeOK
<1> SUFFICES ASSUME Init PROVE FruTypeOK
  OBVIOUS
<1>1. limit \in Nat
  BY Bounds DEF Init
<1>2. dev \in Devices
  BY FruAssumption, Zenon DEF Init
<1>3. 0 \in Word
  BY Words
<1>4. NumbersOK
  <2>1. NoReading
    BY DEF Init
  <2>2. readCount \in Byte /\ end \in Nat
    BY <2>1, InByte, Width DEF NoReading
  <2> QED BY <1>3, <2>1, <2>2, Zenon DEF NoReading, NumbersOK
<1>5. phase \in {"deviceID", "data"} /\ walked \in BOOLEAN /\ area = 1
  BY DEF Init
<1>6. todo \in Seq(LocatorRecord) /\ areas \in Seq(Entry) /\ frus \in Seq(FruRecord)
  BY DEF Init
<1> QED BY <1>1, <1>2, <1>4, <1>5, <1>6 DEF FruTypeOK, InFru

LEMMA TypeStep ==
  ASSUME FruTypeOK, [Next]_vars
  PROVE  FruTypeOK'
<1>0. UNCHANGED reading => NumbersOK'
  BY DEF reading, NumbersOK, FruTypeOK
<1>1. CASE UNCHANGED vars
  BY <1>0, <1>1 DEF vars, FruTypeOK
<1>2. CASE Failed
  BY <1>2, <1>0 DEF Failed, FruTypeOK
<1>3. ASSUME NEW p \in BOOLEAN, FruEnds(p) PROVE FruTypeOK'
  <2>1. frus' \in Seq(FruRecord)
    BY <1>3, NewFru, Zenon DEF FruEnds
  <2> QED BY <1>3, <2>1, <1>0 DEF FruEnds, AfterDevice, FruTypeOK
<1>4. CASE ExchangeFails
  BY <1>4, <1>2 DEF ExchangeFails
<1>5. ASSUME NEW support \in BOOLEAN, GetDeviceID(support) PROVE FruTypeOK'
  BY <1>5, <1>0 DEF GetDeviceID, reading, InFru, FruTypeOK
<1>6. ASSUME NEW l \in Locators, GetSDRs(l) PROVE FruTypeOK'
  BY <1>6, FruAssumption, <1>0 DEF GetSDRs, LocatorRecord, FruTypeOK
<1>7. CASE Locator
  <2>1. todo # <<>> => Head(todo) \in LocatorRecord /\ Tail(todo) \in Seq(LocatorRecord)
    BY DEF FruTypeOK
  <2>2. todo # <<>> => Head(todo).device \in Devices
    BY <2>1 DEF LocatorRecord
  <2> QED BY <1>7, <2>1, <2>2, <1>0 DEF Locator, reading, InFru, FruTypeOK
<1>8. CASE NotPresent
  BY <1>8, <1>3 DEF NotPresent
<1>9. CASE AreaInfo \/ Header \/ NoLength
  BY <1>9, <1>0 DEF AreaInfo, Header, NoLength, reading, InFru, FruTypeOK
<1>10. CASE DataInfo
  <2>1. Inv.size \in Word /\ 0 \in Word
    BY Device, Words, Zenon DEF Inv, FruTypeOK
  <2>2. BeginRead(0, Inv.size)
    BY <1>10 DEF DataInfo
  <2>3. NumbersOK'
    BY <2>1, <2>2, BeginReadType, Zenon
  <2> QED BY <1>10, <2>3 DEF DataInfo, InFru, FruTypeOK
<1>11. CASE Area
  <2>1. CASE area = 5
    BY <1>11, <2>1, <1>3 DEF Area
  <2>2. CASE area # 5
    <3>1. OffsetOf(area) \in Word
<4>1. area \in 1..4 /\ OffsetOf(area) \in Word
        BY <2>2, OffsetType DEF FruTypeOK
      <4> QED BY Width, <4>1 DEF Word
    <3>2. NumbersOK'
      BY <1>11, <2>2, <3>1, <1>0 DEF Area, NumbersOK, FruTypeOK, reading
    <3> QED BY <1>11, <2>2, <3>2 DEF Area, InFru, FruTypeOK
  <2> QED BY <2>1, <2>2
<1>12. CASE AreaLength
  <2>1. \E n \in Word : BeginRead(start, n)
    BY <1>12, LengthBegins
  <2>2. start \in Word
    BY DEF FruTypeOK, NumbersOK
  <2>3. NumbersOK'
    BY <2>1, <2>2, BeginReadType, Zenon
  <2> QED BY <1>12, <2>3 DEF AreaLength, InFru, FruTypeOK
<1>13. ASSUME NEW n \in 1..MaxRead, Chunk(n) PROVE FruTypeOK'
  <2>1. length' \in Word /\ offset' \in Word /\ end' \in Nat
    <3>1. length - n \in Int /\ offset + n \in Int /\ end + n \in Nat
      BY Words DEF FruTypeOK, NumbersOK
    <3> QED BY <1>13, <3>1, Words, Zenon DEF Chunk
  <2>2. readCount' \in Byte
    BY <1>13, <2>1, TryCountType DEF Chunk
  <2>3. gap' \in BOOLEAN
    BY <1>13 DEF Chunk
  <2>4. NumbersOK'
    BY <1>13, <2>1, <2>2, <2>3 DEF Chunk, NumbersOK, FruTypeOK
  <2> QED BY <1>13, <2>4 DEF Chunk, FruTypeOK
<1>14. CASE TooLong
<2>1. CASE readCount = 1
    BY <1>14, <1>2, <2>1 DEF TooLong
  <2>2. CASE readCount # 1
    <3>1. readCount - 1 \in Byte
      <4>1. readCount \in Byte /\ readCount \in Nat /\ length \in Nat
        BY InByte, InWord DEF FruTypeOK, NumbersOK
      <4>2. readCount > limit /\ limit \in Nat
        BY <1>14 DEF TooLong, FruTypeOK
      <4>3. readCount - 1 \in Nat /\ readCount - 1 < W8
        BY <4>1, <4>2, InByte, Width
      <4> QED BY <4>3, InByte
    <3>2. NumbersOK'
      BY <1>14, <2>2, <3>1 DEF TooLong, FruTypeOK, NumbersOK
    <3> QED BY <1>14, <2>2, <3>2 DEF TooLong, FruTypeOK
  <2> QED BY <2>1, <2>2
<1>15. CASE ReadEnds
  <2>1. CASE size = 0
    BY <1>15, <2>1, <1>2 DEF ReadEnds
  <2>2. CASE size # 0
    <3>1. areas' \in Seq(Entry)
      <4>1. area \in Int /\ start \in Int /\ end - start \in Int
        BY Words DEF FruTypeOK, NumbersOK
      <4>2. <<area, start, end - start>> \in Entry
        BY <4>1 DEF Entry
      <4>3. areas \in Seq(Entry) /\ areas' = Append(areas, <<area, start, end - start>>)
        BY <1>15, <2>2 DEF ReadEnds, FruTypeOK
      <4> QED BY <4>2, <4>3
    <3>2. NextArea => start' \in Word /\ area' \in 1..5 /\ phase' \in {"done", "area"}
      BY DEF NextArea, FruTypeOK, NumbersOK
    <3>3. NextRecord => start' \in Word /\ area' = area /\ phase' = "length"
      <4>1. start + (size % W8) \in Int
        BY Words DEF W8, FruTypeOK, NumbersOK
      <4> QED BY <4>1, Words DEF NextRecord, NextOffset
    <3>4. NextArea \/ (area = 4 /\ NextRecord)
      BY <1>15, <2>2 DEF ReadEnds
    <3>5. start' \in Word /\ area' \in 1..5 /\ phase' \in {"done", "area", "length"}
          /\ (phase' = "length" => area' # 5)
      BY <3>2, <3>3, <3>4 DEF FruTypeOK
    <3>6. NumbersOK'
      BY <1>15, <2>2, <3>5 DEF ReadEnds, NumbersOK, FruTypeOK
    <3> QED BY <1>15, <2>2, <3>1, <3>5, <3>6 DEF ReadEnds, InFru, FruTypeOK
  <2> QED BY <2>1, <2>2
<1> QED BY <1>1, <1>4, <1>5, <1>6, <1>7, <1>8, <1>9, <1>10, <1>11, <1>12, <1>13, <1>14, <1>15
        DEF Next
-----------------------------------------------------------------------------
(* Every piece of a read. *)
LEMMA BeginReading ==
  ASSUME NEW o \in Word, NEW n \in Word, BeginRead(o, n)
  PROVE  Reading'
<1>1. readCount' <= n /\ (n > 0 => readCount' >= 1)
  BY BeginReadType
<1>2. n \in Int /\ o \in Int
  BY Words
<1> QED BY <1>1, <1>2 DEF BeginRead, Reading, ReadExactly

(* The record in hand is the only one there. *)
LEMMA InHand ==
  ASSUME FruTypeOK, NEW m \in DOMAIN Inv.records, start = Inv.records[m].at
  PROVE  /\ LengthsAt(start) = {Inv.records[m].length}
         /\ MoreAt(start) = {m < Len(Inv.records)}
<1>1. dev \in Devices
  BY DEF FruTypeOK
<1>2. RecordsAt(start) = {m}
  BY <1>1, RecordAt, Zenon DEF RecordsAt, Inv
<1> QED BY <1>2, Zenon DEF LengthsAt, MoreAt

LEMMA ReadingStep ==
  ASSUME FruTypeOK, Reading, [Next]_vars
  PROVE  Reading'
<1>1. CASE UNCHANGED vars
  BY <1>1 DEF vars, reading, Reading, ReadExactly
<1>2. CASE DataInfo
  <2>1. Inv.size \in Word /\ 0 \in Word
    BY Device, Words, Zenon DEF Inv, FruTypeOK
  <2>2. BeginRead(0, Inv.size)
    BY <1>2 DEF DataInfo
  <2> QED BY <2>1, <2>2, BeginReading
<1>3. CASE AreaLength
  <2>1. \E n \in Word : BeginRead(start, n)
    BY <1>3, LengthBegins
  <2>2. start \in Word
    BY DEF FruTypeOK, NumbersOK
  <2> QED BY <2>1, <2>2, BeginReading
<1>4. ASSUME NEW n \in 1..MaxRead, Chunk(n) PROVE Reading'
  <2>1. /\ length \in Nat /\ offset \in Nat /\ start \in Nat /\ size \in Nat
        /\ readCount \in Nat /\ end \in Nat /\ length < W16 /\ W16 \in Nat
    BY InWord, InByte DEF FruTypeOK, NumbersOK
  <2>2. n <= readCount /\ n \in Nat
    BY <1>4, <2>1, Bounds DEF Chunk
  <2>3. /\ readCount <= length
        /\ start + size < W16 => ~gap /\ end = offset /\ offset + length = start + size
    BY <1>4 DEF Chunk, Reading, ReadExactly
  <2>4. length - n \in Word /\ (length - n) % W16 = length - n
    <3>1. readCount <= length
      BY <2>3
    <3>2. length - n \in Nat /\ length - n < W16
      BY <2>1, <2>2, <3>1
    <3> QED BY <3>2, InWord
  <2>5. /\ length' = length - n /\ end' = end + n /\ UNCHANGED <<start, size>>
        /\ offset' = (offset + n) % W16 /\ readCount' = TryCount(length - n)
    BY <1>4, <2>4 DEF Chunk
  <2>6. readCount' <= length' /\ (length' > 0 => readCount' >= 1)
    BY <2>4, <2>5, TryCountType
  <2>7. ASSUME start + size < W16
        PROVE  ~gap' /\ offset' + length' = start' + size' /\ end' = offset'
    <3>1. offset + n \in Nat /\ offset + n < W16
      <4>1. offset + length = start + size /\ readCount <= length
        BY <2>3, <2>7
      <4> QED BY <2>1, <2>2, <2>7, <4>1
    <3>2. offset' = offset + n
      BY <2>5, <3>1, InWord
    <3>3. ~gap'
      BY <1>4, <2>3, <2>7 DEF Chunk
    <3> QED BY <2>1, <2>2, <2>3, <2>5, <2>7, <3>2, <3>3
  <2>8. start' + size' < W16 => start + size < W16
    BY <2>5
  <2> QED BY <2>6, <2>7, <2>8 DEF Reading, ReadExactly
<1>5. CASE TooLong
  <2>1. CASE readCount = 1
    BY <1>5, <2>1 DEF TooLong, Failed, Reading
  <2>2. CASE readCount # 1
    <3>1. readCount' = readCount - 1 /\ UNCHANGED <<phase, start, size, offset, length, end, gap>>
      BY <1>5, <2>2 DEF TooLong
    <3>2. readCount \in Nat /\ length \in Int /\ readCount >= 1 /\ readCount <= length
      BY <1>5, Words, InByte DEF TooLong, Reading, ReadExactly, FruTypeOK, NumbersOK
    <3>3. readCount' <= length' /\ readCount' >= 1
      BY <2>2, <3>1, <3>2
    <3> QED BY <1>5, <3>1, <3>3 DEF Reading, ReadExactly, TooLong
  <2> QED BY <2>1, <2>2
<1>6. CASE \/ ExchangeFails \/ Locator \/ NotPresent \/ AreaInfo \/ Header \/ Area \/ ReadEnds
           \/ NoLength \/ \E support \in BOOLEAN : GetDeviceID(support)
           \/ \E l \in Locators : GetSDRs(l)
  <2>1. phase' # "chunk"
    BY <1>6 DEF ExchangeFails, Failed, Locator, NotPresent, AreaInfo, Header, Area, FruEnds,
                AfterDevice, ReadEnds, NextArea, NextRecord, NoLength, GetDeviceID, GetSDRs
  <2> QED BY <2>1 DEF Reading
<1> QED BY <1>1, <1>2, <1>3, <1>4, <1>5, <1>6 DEF Next
(* Behind a record that another one follows, its header begins. *)
LEMMA Onward ==
  ASSUME Short(dev), FruTypeOK, phase = "chunk",
         NEW m \in DOMAIN Inv.records, AtMultiRecord(m), m < Len(Inv.records)
  PROVE  /\ NextOffset(start, size) = start + size
         /\ start \in Nat /\ size \in Nat /\ size >= 5 /\ start + size < W16
<1> DEFINE l == Inv.records[m].length
           o == Inv.records[m].at
<1>0. dev \in Devices
  BY DEF FruTypeOK
<1>1. m \in 1..Len(Inv.records) /\ Len(Inv.records) \in Nat
  BY <1>0, RecordAt, Zenon DEF Inv
<1>2. m \in 1..(Len(Inv.records) - 1)
  BY <1>1
<1>3. 5 + l < W8
  BY <1>2 DEF Short, Inv
<1>4. l \in Byte /\ o \in Word /\ o + 5 + l < W16
  BY <1>0, RecordAt, Zenon DEF Inv
<1>5. size = 5 + l /\ start = o
  BY DEF AtMultiRecord
<1> HIDE DEF l, o
<1>6. size % W8 = 5 + l
  BY <1>3, <1>4, <1>5, InByte
<1>7. o \in Nat /\ l \in Nat /\ o + (5 + l) = o + 5 + l /\ o + 5 + l \in Nat
  <2>1. o \in Nat /\ l \in Nat
    BY <1>4, InWord, InByte
  <2> QED BY <2>1
<1>8. (o + (5 + l)) % W16 = o + (5 + l)
  BY <1>4, <1>7, InWord
<1>9. NextOffset(start, size) = start + size
  BY <1>5, <1>6, <1>8 DEF NextOffset
<1> QED BY <1>4, <1>5, <1>7, <1>9

(* An area or a record in hand ends where an offset can be. *)
LEMMA InPlace ==
  ASSUME FruTypeOK, AreasRead, Short(dev), phase = "chunk", area \in 1..4
  PROVE  start + size < W16
<1>0. dev \in Devices
  BY DEF FruTypeOK
<1>1. CASE area = 4
  <2>1. PICK m \in DOMAIN Inv.records : AtMultiRecord(m)
    BY <1>1 DEF AreasRead
  <2> DEFINE l == Inv.records[m].length
             o == Inv.records[m].at
  <2>2. l \in Byte /\ o \in Word /\ o + 5 + l < W16
    BY <1>0, RecordAt, Zenon DEF Inv
  <2>3. size = 5 + l /\ start = o
    BY <2>1 DEF AtMultiRecord
  <2> HIDE DEF l, o
  <2> QED BY <2>2, <2>3, InWord, InByte
<1>2. CASE area \in 1..3
  <2> DEFINE l == Inv.length[Areas[area]]
             o == Inv.offset[Areas[area]]
  <2>1. l \in Byte /\ o \in Byte
    BY <1>2, OffsetType
  <2>2. size = l * 8 /\ start = o * 8
    BY <1>2 DEF AreasRead, AtInfoArea
  <2> HIDE DEF l, o
  <2> QED BY <2>1, <2>2, InByte, Width
<1> QED BY <1>1, <1>2
-----------------------------------------------------------------------------
(* The areas of the device in hand. *)
LEMMA AreasStep ==
  ASSUME FruTypeOK, Reading, AreasRead, [Next]_vars
  PROVE  AreasRead'
<1>0. dev \in Devices /\ area \in 1..5
  BY DEF FruTypeOK
<1>1. CASE UNCHANGED vars
  BY <1>1 DEF vars, reading, AreasRead, AtInfoArea, AtMultiRecord, Inv
<1>2. CASE Failed
  BY <1>2 DEF Failed, AreasRead
<1>3. ASSUME NEW p \in BOOLEAN, FruEnds(p) PROVE AreasRead'
  <2>1. phase' \in {"locator", "sdrs"} /\ areas' = <<>> /\ area' = 1
    BY <1>3 DEF FruEnds, AfterDevice
  <2> QED BY <2>1 DEF AreasRead
<1>4. CASE \/ Locator \/ AreaInfo
           \/ \E support \in BOOLEAN : GetDeviceID(support)
           \/ \E l \in Locators : GetSDRs(l)
  <2>1. phase \in {"locator", "info", "deviceID", "sdrs"} /\ UNCHANGED <<areas, area>>
    BY <1>4 DEF Locator, AreaInfo, GetDeviceID, GetSDRs
  <2>2. phase' \in {"locator", "info", "sdrs", "header", "done"}
    BY <1>4 DEF Locator, AreaInfo, GetDeviceID, GetSDRs
  <2> QED BY <2>1, <2>2 DEF AreasRead
<1>5. CASE Header \/ NoLength
  <2>1. CASE Header
    <3>1. areas = <<>> /\ area = 1 /\ phase' = "area" /\ UNCHANGED <<areas, area, dev>>
      BY <2>1 DEF Header, AreasRead
    <3> QED BY <3>1 DEF AreasRead, Before
  <2>2. CASE NoLength
    BY <2>2 DEF NoLength, AreasRead
  <2> QED BY <1>5, <2>1, <2>2
<1>6. CASE DataInfo
  <2>1. phase' = "chunk" /\ area' = 5
    BY <1>6 DEF DataInfo
  <2> QED BY <2>1 DEF AreasRead
<1>7. CASE Area /\ area # 5
  <2> DEFINE o == OffsetOf(area)
             inside == o > 0 /\ o < Inv.size
  <2>0. CASE ~Short(dev)
    <3>1. phase' \in {"length", "area"} /\ dev' = dev
      BY <1>7 DEF Area
    <3> QED BY <2>0, <3>1 DEF AreasRead
  <2> SUFFICES ASSUME Short(dev) PROVE AreasRead'
    BY <2>0
  <2>1. phase = "area" /\ areas = Before(dev, area) /\ area \in 1..4
    BY <1>0, <1>7 DEF Area, AreasRead
  <2>2. UNCHANGED <<dev, areas>>
    BY <1>7 DEF Area
  <2>3. area = 4 => (inside <=> Inside(dev, Inv.multi))
    <3>1. area = 4 => o = Inv.multi * 8 /\ Inv.multi \in Byte
      BY OffsetType
    <3> DEFINE o8 == Inv.multi
    <3> SUFFICES ASSUME area = 4 PROVE inside <=> (o8 > 0 /\ o8 * 8 < Inv.size)
      BY DEF Inside, Inv
    <3> HIDE DEF o8, o
    <3>2. o > 0 <=> o8 > 0
      BY <3>1, InByte DEF o8
    <3> QED BY <3>1, <3>2 DEF o8
  <2>4. area \in 1..3 => (inside <=> Inside(dev, Inv.offset[Areas[area]]))
    <3>1. area \in 1..3 =>
            /\ o = Inv.offset[Areas[area]] * 8
            /\ Inv.offset[Areas[area]] \in Byte
      BY OffsetType
    <3> DEFINE o8 == Inv.offset[Areas[area]]
    <3> SUFFICES ASSUME area \in 1..3 PROVE inside <=> (o8 > 0 /\ o8 * 8 < Inv.size)
      BY DEF Inside, Inv
    <3> HIDE DEF o8, o
    <3>2. o > 0 <=> o8 > 0
      BY <3>1, InByte DEF o8
    <3> QED BY <3>1, <3>2 DEF o8
  <2>5. CASE inside
    <3>1. phase' = "length" /\ start' = o /\ area' = area
      BY <1>7, <2>5 DEF Area
    <3>2. CASE area \in 1..3
      <4>1. start' = Inv.offset[Areas[area]] * 8
        BY <3>1, <3>2, OffsetType
      <4>2. AtInfoArea'
        BY <2>1, <2>2, <2>4, <2>5, <3>1, <3>2, <4>1 DEF AtInfoArea, Inv
      <4> QED BY <3>1, <3>2, <4>2 DEF AreasRead
    <3>3. CASE area = 4
      <4>1. Inside(dev, Inv.multi)
        BY <2>3, <2>5, <3>3
      <4>2. /\ Inv.records # <<>> /\ Inv.records[1].at = Inv.multi * 8
            /\ Inv.records \in Seq([at: Nat, length: Nat])
        BY <1>0, <4>1, Device, Zenon DEF ListOf, Inv
      <4>3. 1 \in DOMAIN Inv.records
        BY <4>2
      <4>4. start' = Inv.records[1].at
        BY <3>1, <3>3, <4>2 DEF OffsetOf
      <4>5. areas = Before(dev, 4) \o MultiRecords(dev, 1 - 1)
        BY <1>0, <2>1, <3>3, AllAreas
      <4>6. AtMultiRecord(1)'
        BY <2>2, <3>1, <4>1, <4>4, <4>5 DEF AtMultiRecord, Inv
      <4>7. (\E m \in DOMAIN Inv.records : AtMultiRecord(m))'
        BY <2>2, <4>3, <4>6 DEF Inv
      <4> QED BY <3>1, <3>3, <4>7 DEF AreasRead
    <3> QED BY <2>1, <3>2, <3>3
  <2>6. CASE ~inside
    <3>1. phase' = "area" /\ area' = area + 1
      BY <1>7, <2>1, <2>6 DEF Area
    <3>2. CASE area \in 1..3
      <4>1. Before(dev, area + 1) = Before(dev, area)
        BY <1>0, <2>4, <2>6, <3>2, NextBefore, Zenon DEF Inv
      <4>2. area' # 5
        BY <3>1, <3>2
      <4> QED BY <2>1, <2>2, <3>1, <4>1, <4>2 DEF AreasRead
    <3>3. CASE area = 4
      <4>1. areas = Complete(dev)
        BY <1>0, <2>1, <2>3, <2>6, <3>3, AllAreas, Zenon DEF Inv
      <4> QED BY <2>2, <3>1, <3>3, <4>1 DEF AreasRead
    <3> QED BY <2>1, <3>2, <3>3
  <2> QED BY <2>5, <2>6
<1>8. CASE AreaLength
  <2>1. phase = "length" /\ phase' = "chunk" /\ UNCHANGED <<dev, area, areas>> /\ area \in 1..4
    BY <1>0, <1>8 DEF AreaLength, FruTypeOK
  <2>0. CASE ~Short(dev)
    BY <2>0, <2>1 DEF AreasRead
  <2> SUFFICES ASSUME Short(dev) PROVE AreasRead'
    BY <2>0
  <2>2. CASE area \in 1..3
    <3>1. AtInfoArea /\ area # 4
      BY <2>1, <2>2 DEF AreasRead
    <3>2. start' = start /\ size' = Inv.length[Areas[area]] * 8
      BY <1>8, <3>1 DEF AreaLength, BeginRead
    <3>3. AtInfoArea'
      BY <2>1, <3>1, <3>2 DEF AtInfoArea, Inv
    <3> QED BY <2>1, <2>2, <3>3 DEF AreasRead
  <2>3. CASE area = 4
    <3>1. PICK m \in DOMAIN Inv.records : AtMultiRecord(m)
      BY <2>1, <2>3 DEF AreasRead
    <3>2. LengthsAt(start) = {Inv.records[m].length}
      BY <3>1, InHand DEF AtMultiRecord
    <3>3. start' = start /\ size' = 5 + Inv.records[m].length
      BY <1>8, <2>3, <3>2 DEF AreaLength, BeginRead
    <3>4. AtMultiRecord(m)'
      BY <2>1, <3>1, <3>3 DEF AtMultiRecord, Inv
    <3>5. (\E k \in DOMAIN Inv.records : AtMultiRecord(k))'
      BY <2>1, <3>4 DEF Inv
    <3> QED BY <2>1, <2>3, <3>5 DEF AreasRead
  <2> QED BY <2>1, <2>2, <2>3
<1>9. CASE (TooLong \/ \E n \in 1..MaxRead : Chunk(n)) /\ ~Failed
  <2>1. phase = "chunk" /\ UNCHANGED <<phase, dev, area, areas, start, size>>
    BY <1>9 DEF TooLong, Chunk
  <2>2. AtInfoArea => AtInfoArea'
    BY <2>1 DEF AtInfoArea, Inv
  <2>3. \A m : AtMultiRecord(m) => AtMultiRecord(m)'
    BY <2>1 DEF AtMultiRecord, Inv
  <2>4. (\E m \in DOMAIN Inv.records : AtMultiRecord(m)) =>
          (\E m \in DOMAIN Inv.records : AtMultiRecord(m))'
    BY <2>1, <2>3 DEF Inv
  <2> QED BY <2>1, <2>2, <2>4 DEF AreasRead
<1>10. CASE ReadEnds /\ ~Failed
  <2>1. /\ phase = "chunk" /\ length = 0 /\ areas' = Append(areas, <<area, start, end - start>>)
        /\ UNCHANGED <<dev, size>>
    BY <1>10 DEF ReadEnds
  <2>0. CASE ~Short(dev)
    <3>1. phase' \in {"length", "area", "done"}
      BY <1>10 DEF ReadEnds, NextArea, NextRecord
    <3> QED BY <2>0, <2>1, <3>1 DEF AreasRead
  <2> SUFFICES ASSUME Short(dev) PROVE AreasRead'
    BY <2>0
  <2>2. area # 5 => end - start = size
    <3>1. area \in 1..4 => start + size < W16
      BY <1>0, <2>1, InPlace
    <3> QED BY <1>0, <2>1, <3>1, Words DEF Reading, ReadExactly, FruTypeOK, NumbersOK
  <2>3. CASE area = 5
    <3>1. phase' = "done" /\ area' = 5
      BY <1>10, <2>3 DEF ReadEnds, NextArea
    <3> QED BY <3>1 DEF AreasRead
  <2>4. CASE area \in 1..3
    <3>1. phase' = "area" /\ area' = area + 1
      BY <1>10, <2>4 DEF ReadEnds, NextArea
    <3>2. AtInfoArea
      BY <2>1, <2>4 DEF AreasRead
    <3>3. areas' = Append(Before(dev, area),
                     <<area, Inv.offset[Areas[area]] * 8, Inv.length[Areas[area]] * 8>>)
      <4>1. area # 5
        BY <2>4
      <4> QED BY <2>1, <2>2, <3>2, <4>1 DEF AtInfoArea
    <3>4. areas' = Before(dev, area + 1)
      BY <1>0, <2>4, <3>2, <3>3, NextBefore, Zenon DEF Inv, AtInfoArea
    <3>5. area' # 5
      BY <2>4, <3>1
    <3> QED BY <2>1, <3>1, <3>4, <3>5 DEF AreasRead
  <2>5. CASE area = 4
    <3>1. PICK m \in DOMAIN Inv.records : AtMultiRecord(m)
      BY <2>1, <2>5 DEF AreasRead
    <3>2. MoreAt(start) = {m < Len(Inv.records)}
      BY <3>1, InHand DEF AtMultiRecord
    <3>3. areas' = Before(dev, 4) \o MultiRecords(dev, m)
      <4>1. areas' = Append(areas, Record(dev, m))
        BY <2>1, <2>2, <2>5, <3>1 DEF AtMultiRecord, Record, Inv
      <4>2. Before(dev, 4) \in Seq(Entry) /\ Inside(dev, Inventory[dev].multi)
        BY <1>0, <3>1, Entries DEF AtMultiRecord, Inv
      <4> QED BY <1>0, <3>1, <4>1, <4>2, NextMultiRecord DEF AtMultiRecord, Inv
    <3>4. CASE m < Len(Inv.records)
      <4>1. NextRecord
        BY <1>10, <2>5, <3>2, <3>4 DEF ReadEnds
      <4> DEFINE l == Inv.records[m].length
                 o == Inv.records[m].at
      <4>2. m \in 1..Len(Inv.records) /\ Len(Inv.records) \in Nat
        BY <1>0, <3>1, RecordAt, Zenon DEF Inv
      <4>3. m + 1 \in DOMAIN Inv.records /\ Inv.records[m + 1].at = o + 5 + l
        BY <1>0, <3>1, <3>4, RecordAt, Zenon DEF Inv
      <4>4. l \in Byte /\ o \in Word
        BY <1>0, <3>1, RecordAt, Zenon DEF Inv
      <4>7. size = 5 + l /\ start = o
        BY <2>1, <3>1 DEF AtMultiRecord
      <4>8. NextOffset(start, size) = o + 5 + l
        <5>1. NextOffset(start, size) = start + size
          BY <2>1, <3>1, <3>4, Onward
        <5> HIDE DEF l, o
        <5> QED BY <4>4, <4>7, <5>1, InWord, InByte
      <4>9. start' = Inv.records[m + 1].at /\ phase' = "length" /\ area' = 4
        BY <2>5, <4>1, <4>3, <4>8 DEF NextRecord
      <4>10. PICK k \in DOMAIN Inv.records : k = m + 1
        BY <4>3
      <4>11. AtMultiRecord(k)'
        <5>1. m = k - 1
          BY <4>2, <4>10
        <5>2. (areas = Before(dev, 4) \o MultiRecords(dev, k - 1))'
          BY <2>1, <3>3, <5>1
        <5>3. (Inside(dev, Inv.multi) /\ start = Inv.records[k].at)'
          BY <2>1, <3>1, <4>9, <4>10 DEF AtMultiRecord, Inv
        <5> QED BY <4>9, <5>2, <5>3 DEF AtMultiRecord
      <4>12. (\E j \in DOMAIN Inv.records : AtMultiRecord(j))'
        BY <2>1, <4>10, <4>11 DEF Inv
      <4> QED BY <4>9, <4>12 DEF AreasRead
    <3>5. CASE ~(m < Len(Inv.records))
      <4>1. NextArea
        BY <1>10, <2>5, <3>2, <3>5 DEF ReadEnds
      <4>2. phase' = "area" /\ area' = 5
        BY <2>5, <4>1 DEF NextArea
      <4>3. m = Len(Inv.records)
        <5>1. m \in 1..Len(Inv.records) /\ Len(Inv.records) \in Nat
          BY <1>0, <3>1, RecordAt, Zenon DEF Inv
        <5> QED BY <3>5, <5>1
      <4>4. areas' = Complete(dev)
        BY <1>0, <3>3, <4>3, AllAreas DEF Inv
      <4> QED BY <2>1, <4>2, <4>4 DEF AreasRead
    <3> QED BY <3>4, <3>5
  <2> QED BY <1>0, <2>3, <2>4, <2>5
<1>11. CASE ExchangeFails
  BY <1>2, <1>11 DEF ExchangeFails
<1>12. CASE NotPresent
  BY <1>3, <1>12 DEF NotPresent
<1>13. CASE Area /\ area = 5
  BY <1>3, <1>13 DEF Area
<1> QED BY <1>1, <1>2, <1>4, <1>5, <1>6, <1>7, <1>8, <1>9, <1>10, <1>11, <1>12, <1>13 DEF Next

(* A FRU is put into the list when all is read, or marked as not present. *)
LEMMA PresentStep ==
  ASSUME FruTypeOK, AreasRead, PresentComplete, [Next]_vars
  PROVE  PresentComplete'
<1>1. CASE UNCHANGED frus
  BY <1>1 DEF PresentComplete
<1>2. CASE frus' = <<>>
  BY <1>2 DEF PresentComplete
<1>3. ASSUME NEW p \in BOOLEAN, FruEnds(p), p /\ Short(dev) => areas = Complete(dev)
      PROVE  PresentComplete'
  <2> DEFINE fru == [device |-> dev, present |-> p, areas |-> areas]
  <2>1. fru \in FruRecord /\ frus \in Seq(FruRecord)
    BY DEF FruRecord, FruTypeOK
  <2>2. fru.present /\ Short(fru.device) => fru.areas = Complete(fru.device)
    BY <1>3
  <2>3. frus' = Append(frus, fru)
    BY <1>3 DEF FruEnds
  <2> HIDE DEF fru
  <2>4. \A i \in DOMAIN frus' : frus'[i] = fru \/ (i \in DOMAIN frus /\ frus'[i] = frus[i])
    BY <2>1, <2>3
  <2> QED BY <2>2, <2>4 DEF PresentComplete
<1>4. CASE Area /\ area = 5
  <2>1. FruEnds(TRUE) /\ (Short(dev) => areas = Complete(dev))
    BY <1>4 DEF Area, AreasRead
  <2> QED BY <1>3, <2>1
<1>5. CASE NotPresent
  BY <1>3, <1>5 DEF NotPresent
<1>6. UNCHANGED frus \/ frus' = <<>> \/ (Area /\ area = 5) \/ NotPresent
  BY DEF Next, vars, ExchangeFails, Failed, Locator, AreaInfo, DataInfo, Header, Area, AreaLength,
         NoLength, TooLong, ReadEnds, GetDeviceID, GetSDRs, Chunk
<1> QED BY <1>1, <1>2, <1>4, <1>5, <1>6
-----------------------------------------------------------------------------
(* The locators of the walk. *)
LEMMA WalkedNone ==
  ASSUME NEW fs \in Seq(FruRecord), NEW l
  PROVE  Walked(fs, l, 0, Len(fs))
<1>1. (Len(fs) + 1)..Len(fs) = {} /\ 1..0 = {}
  OBVIOUS
<1>2. [i \in {} |-> 0] \in [{} -> {}]
  OBVIOUS
<1> QED BY <1>1, <1>2 DEF Walked

LEMMA WalkedSkip ==
  ASSUME NEW fs, NEW l, NEW n \in Nat, NEW b, ~Readable(l[n + 1]), Walked(fs, l, n, b)
  PROVE  Walked(fs, l, n + 1, b)
<1>1. PICK f \in [(b + 1)..Len(fs) -> 1..n] :
        /\ \A i, j \in (b + 1)..Len(fs) : i < j => f[i] < f[j]
        /\ {f[i] : i \in (b + 1)..Len(fs)} = {i \in 1..n : Readable(l[i])}
        /\ \A i \in (b + 1)..Len(fs) : fs[i].device = l[f[i]].device
  BY Zenon DEF Walked
<1>2. f \in [(b + 1)..Len(fs) -> 1..(n + 1)]
  OBVIOUS
<1>3. {i \in 1..n : Readable(l[i])} = {i \in 1..(n + 1) : Readable(l[i])}
  <2>1. 1..(n + 1) = 1..n \cup {n + 1}
    OBVIOUS
  <2> QED BY <2>1
<1> QED BY <1>1, <1>2, <1>3, Zenon DEF Walked

LEMMA WalkedNext ==
  ASSUME NEW fs \in Seq(FruRecord), NEW l, NEW n \in Nat, n >= 1, NEW b \in {0, 1},
         Len(fs) >= b, NEW r \in FruRecord, Readable(l[n]), r.device = l[n].device,
         Walked(fs, l, n - 1, b)
  PROVE  Walked(Append(fs, r), l, n, b)
<1> DEFINE D == (b + 1)..Len(fs)
           last == Len(fs) + 1
           E == (b + 1)..last
           rs == Append(fs, r)
<1>1. PICK f \in [D -> 1..(n - 1)] :
        /\ \A i, j \in D : i < j => f[i] < f[j]
        /\ {f[i] : i \in D} = {i \in 1..(n - 1) : Readable(l[i])}
        /\ \A i \in D : fs[i].device = l[f[i]].device
  BY Zenon DEF Walked
<1> DEFINE g == [i \in E |-> IF i = last THEN n ELSE f[i]]
<1>2. /\ Len(rs) = last /\ Len(fs) \in Nat /\ rs[last] = r
      /\ \A i \in D : rs[i] = fs[i] /\ i \in E /\ i # last /\ i < last
  OBVIOUS
<1>3. E = D \cup {last} /\ last \in E /\ last \notin D
  BY <1>2
<1>4. 1..n = 1..(n - 1) \cup {n} /\ n \in 1..n
  OBVIOUS
<1>5. g[last] = n /\ \A i \in D : g[i] = f[i] /\ g[i] \in 1..(n - 1)
  BY <1>2, <1>3
<1>6. g \in [E -> 1..n]
  BY <1>3, <1>4, <1>5
<1> HIDE DEF g, E
<1>7. \A i, j \in E : i < j => g[i] < g[j]
  <2> TAKE i \in E, j \in E
  <2>1. CASE i \in D /\ j \in D
    BY <1>1, <1>5, <2>1
  <2>2. CASE i \in D /\ j = last
    BY <1>5, <2>2
  <2>3. CASE i = last
    <3>1. ~(i < j)
      BY <1>2, <1>3, <2>3
    <3> QED BY <3>1
  <2> QED BY <1>3, <2>1, <2>2, <2>3
<1>8. {g[i] : i \in E} = {i \in 1..n : Readable(l[i])}
  <2>1. {g[i] : i \in E} = {f[i] : i \in D} \cup {n}
    BY <1>3, <1>5
  <2> HIDE DEF D
  <2> QED BY <1>1, <1>4, <2>1
<1>9. \A i \in E : rs[i].device = l[g[i]].device
  BY <1>1, <1>2, <1>3, <1>5
<1> HIDE DEF rs
<1>10. E = (b + 1)..Len(rs)
  BY <1>2 DEF E
<1>11. Walked(rs, l, n, b)
  BY <1>6, <1>7, <1>8, <1>9, <1>10, Zenon DEF Walked
<1> QED BY <1>11 DEF rs

LEMMA BuiltinKept ==
  ASSUME NEW b \in {0, 1}, frus \in Seq(FruRecord), Builtin(b), NEW r \in FruRecord,
         frus' = Append(frus, r)
  PROVE  Builtin(b)'
<1>1. Len(frus') = Len(frus) + 1 /\ Len(frus) \in Nat
  OBVIOUS
<1>2. Len(frus) >= 1 => frus'[1] = frus[1]
  OBVIOUS
<1> QED BY <1>1, <1>2 DEF Builtin

(* What is left of the locators. *)
LEMMA Rest ==
  ASSUME NEW l \in Seq(LocatorRecord), NEW n \in 0..Len(l), todo = SubSeq(l, n + 1, Len(l))
  PROVE  /\ todo = <<>> => n = Len(l)
         /\ todo # <<>> => /\ n + 1 \in 1..Len(l) /\ Head(todo) = l[n + 1]
                           /\ Tail(todo) = SubSeq(l, n + 2, Len(l))
<1>1. Len(l) \in Nat
  OBVIOUS
<1>2. CASE n = Len(l)
  <2>1. todo = <<>>
    BY <1>1, <1>2, SubSeqEmpty
  <2> QED BY <1>2, <2>1
<1>3. CASE n # Len(l)
  <2>1. n + 1 \in 1..Len(l) /\ n + 1 <= Len(l) /\ Len(l) \in 0..Len(l)
    BY <1>1, <1>3
  <2>2. todo # <<>>
    <3>1. \A i \in (n + 1)..Len(l) : l[i] \in LocatorRecord
      BY <1>1, <2>1
    <3>2. Len(todo) = Len(l) - (n + 1) + 1
      BY <1>1, <2>1, <3>1, SubSeqProperties
    <3>3. Len(todo) > 0
      BY <1>1, <2>1, <3>2
    <3>4. Len(<<>>) = 0 /\ ~(0 > 0)
      OBVIOUS
    <3> QED BY <3>3, <3>4, Zenon
  <2>3. Len(l) \in (n + 1)..Len(l) /\ n + 2 = n + 1 + 1
    BY <1>1, <2>1
  <2>4. Head(todo) = l[n + 1] /\ Tail(todo) = SubSeq(l, n + 2, Len(l))
    BY <2>1, <2>3, HeadTailOfSubSeq
  <2> QED BY <2>1, <2>2, <2>4
<1> QED BY <1>2, <1>3

LEMMA WholeList ==
  ASSUME NEW l \in Seq(LocatorRecord)
  PROVE  l = SubSeq(l, 0 + 1, Len(l)) /\ 0 \in 0..Len(l)
  BY SubSeqFull

LEMMA WalkStep ==
  ASSUME FruTypeOK, AreasRead, Walk, [Next]_vars
  PROVE  Walk'
<1> USE DEF Walk
<1>1. CASE UNCHANGED vars
  <2>1. UNCHANGED <<phase, walked, todo, dev, area, frus>>
    BY <1>1 DEF vars
  <2>2. GetFRUData' = GetFRUData /\ \A b : Builtin(b)' = Builtin(b)
    BY <2>1 DEF Builtin, GetFRUData
  <2>3. BeforeWalk => BeforeWalk'
    BY <2>1, <2>2 DEF BeforeWalk
  <2>4. InWalk => InWalk'
    BY <2>1, <2>2 DEF InWalk
  <2> QED BY <2>1, <2>3, <2>4
<1>2. CASE Failed \/ NoLength
  BY <1>2 DEF Failed, NoLength
<1>3. ASSUME phase \in InFru, phase' \in InFru, UNCHANGED <<walked, todo, dev, frus>>,
             GetFRUData' = GetFRUData
      PROVE  Walk'
  <2>1. /\ phase \notin {"failed", "panic"} /\ phase' \notin {"failed", "panic"}
        /\ phase' \notin {"locator", "done", "sdrs"}
    BY <1>3 DEF InFru
  <2>2. CASE ~walked
    <3>1. frus = <<>> /\ (~GetFRUData => dev = 0)
      BY <1>3, <2>1, <2>2 DEF BeforeWalk
    <3> QED BY <1>3, <2>1, <2>2, <3>1 DEF BeforeWalk
  <2>3. CASE walked
    <3>1. ~GetFRUData
      BY <2>1, <2>3 DEF InWalk
    <3>2. PICK l \in Locators, b \in {0, 1} : \E n \in 0..Len(l) :
            /\ Builtin(b) /\ todo = SubSeq(l, n + 1, Len(l))
            /\ n >= 1 /\ Readable(l[n]) /\ dev = l[n].device /\ Walked(frus, l, n - 1, b)
      BY <1>3, <2>1, <2>3 DEF InWalk
    <3>3. PICK n \in 0..Len(l) :
            /\ Builtin(b) /\ todo = SubSeq(l, n + 1, Len(l))
            /\ n >= 1 /\ Readable(l[n]) /\ dev = l[n].device /\ Walked(frus, l, n - 1, b)
      BY <3>2
    <3>4. /\ Builtin(b)' /\ todo' = SubSeq(l, n + 1, Len(l))
          /\ n >= 1 /\ Readable(l[n]) /\ dev' = l[n].device /\ Walked(frus', l, n - 1, b)
      BY <1>3, <3>3 DEF Builtin
    <3>5. ~GetFRUData' /\ walked'
      BY <1>3, <2>3, <3>1
    <3> QED BY <1>3, <2>1, <3>4, <3>5 DEF InWalk
  <2> QED BY <2>2, <2>3 DEF FruTypeOK
<1>4. ASSUME NEW support \in BOOLEAN, GetDeviceID(support) PROVE Walk'
  <2>1. phase = "deviceID" /\ phase' \in {"info", "sdrs"} /\ UNCHANGED <<walked, dev, frus, area>>
    BY <1>4 DEF GetDeviceID
  <2>2. ~walked /\ frus = <<>> /\ dev = 0
    BY <2>1 DEF BeforeWalk, InWalk, InFru, GetFRUData
  <2>3. Builtin(0) /\ Len(frus) = 0
    BY <2>2 DEF Builtin
  <2> QED BY <2>1, <2>2, <2>3 DEF BeforeWalk, Builtin
<1>5. ASSUME NEW l \in Locators, GetSDRs(l) PROVE Walk'
  <2>1. phase = "sdrs" /\ phase' = "locator" /\ todo' = l /\ walked' = TRUE /\ UNCHANGED frus
    BY <1>5 DEF GetSDRs
  <2>2. ~walked
    BY <2>1 DEF InWalk, InFru
  <2>3. PICK b \in {0, 1} : Len(frus) = b /\ Builtin(b)
    BY <2>1, <2>2 DEF BeforeWalk
  <2>4. l \in Seq(LocatorRecord)
    BY FruAssumption, Zenon DEF LocatorRecord
  <2>5. Walked(frus', l, 0, b)
    BY <2>1, <2>3, WalkedNone DEF FruTypeOK
  <2>6. todo' = SubSeq(l, 0 + 1, Len(l)) /\ 0 \in 0..Len(l) /\ Builtin(b)'
    BY <2>1, <2>3, <2>4, WholeList DEF Builtin
  <2>7. phase' \notin InFru /\ ~GetFRUData' /\ phase' # "done"
    BY <2>1 DEF InFru, GetFRUData
  <2> QED BY <2>1, <2>5, <2>6, <2>7 DEF InWalk
<1>6. CASE Locator
  <2>1. phase = "locator" /\ walked /\ UNCHANGED <<walked, frus>>
    BY <1>6 DEF Locator, BeforeWalk
  <2>2. PICK l \in Locators, b \in {0, 1} : \E n \in 0..Len(l) :
          Builtin(b) /\ todo = SubSeq(l, n + 1, Len(l)) /\ Walked(frus, l, n, b)
    BY <2>1 DEF InWalk
  <2>3. PICK n \in 0..Len(l) :
          Builtin(b) /\ todo = SubSeq(l, n + 1, Len(l)) /\ Walked(frus, l, n, b)
    BY <2>2
  <2>4. l \in Seq(LocatorRecord) /\ n \in Nat
    <3>1. l \in Seq(LocatorRecord)
      BY FruAssumption, Zenon DEF LocatorRecord
    <3> QED BY <3>1
  <2>5. /\ todo = <<>> => n = Len(l)
        /\ todo # <<>> => /\ n + 1 \in 1..Len(l) /\ Head(todo) = l[n + 1]
                          /\ Tail(todo) = SubSeq(l, n + 2, Len(l))
    BY <2>3, <2>4, Rest
  <2>6. Builtin(b)'
    BY <2>1, <2>3 DEF Builtin
  <2>7. CASE todo = <<>>
    <3>1. phase' = "done" /\ UNCHANGED todo /\ phase' \notin InFru /\ ~GetFRUData'
      BY <1>6, <2>7 DEF Locator, InFru, GetFRUData
    <3> QED BY <2>1, <2>3, <2>5, <2>6, <2>7, <3>1 DEF InWalk
  <2>8. CASE todo # <<>> /\ Readable(Head(todo))
    <3> DEFINE k == n + 1
    <3>1. phase' = "info" /\ dev' = l[k].device /\ todo' = SubSeq(l, k + 1, Len(l))
      <4>1. n + 2 = k + 1
        BY <2>4
      <4> QED BY <1>6, <2>5, <2>8, <4>1 DEF Locator
    <3>2. k \in 0..Len(l) /\ k >= 1 /\ k - 1 = n /\ Readable(l[k])
      BY <2>4, <2>5, <2>8
    <3>3. phase' \in InFru /\ ~GetFRUData' /\ phase' \notin {"locator", "done", "failed"}
      BY <3>1 DEF InFru, GetFRUData
    <3> HIDE DEF k
    <3>4. Walked(frus', l, k - 1, b)
      BY <2>1, <2>3, <3>2
    <3> QED BY <2>1, <2>6, <3>1, <3>2, <3>3, <3>4 DEF InWalk
  <2>9. CASE todo # <<>> /\ ~Readable(Head(todo))
    <3> DEFINE k == n + 1
    <3>1. phase' = "locator" /\ todo' = SubSeq(l, k + 1, Len(l))
      <4>1. n + 2 = k + 1
        BY <2>4
      <4> QED BY <1>6, <2>1, <2>5, <2>9, <4>1 DEF Locator
    <3>2. k \in 0..Len(l)
      BY <2>4, <2>5, <2>9
    <3>3. Walked(frus', l, k, b)
      BY <2>1, <2>3, <2>4, <2>5, <2>9, WalkedSkip
    <3>4. phase' \notin InFru /\ ~GetFRUData' /\ phase' # "done"
      BY <3>1 DEF InFru, GetFRUData
    <3> HIDE DEF k
    <3> QED BY <2>1, <2>6, <3>1, <3>2, <3>3, <3>4 DEF InWalk
  <2> QED BY <2>7, <2>8, <2>9
<1>7. ASSUME NEW p \in BOOLEAN, FruEnds(p), phase \in {"info", "header", "area"} PROVE Walk'
  <2> DEFINE fru == [device |-> dev, present |-> p, areas |-> areas]
  <2>1. fru \in FruRecord /\ fru.device = dev /\ frus \in Seq(FruRecord)
    BY DEF FruRecord, FruTypeOK
  <2>2. frus' = Append(frus, fru) /\ phase' = AfterDevice /\ UNCHANGED <<walked, todo>>
    BY <1>7 DEF FruEnds
  <2>3. ~GetFRUData /\ phase \in InFru
    BY <1>7 DEF GetFRUData, InFru
  <2> HIDE DEF fru
  <2>4. CASE ~walked
    <3>1. frus = <<>> /\ dev = 0 /\ phase' = "sdrs"
      BY <1>7, <2>2, <2>3, <2>4 DEF BeforeWalk, AfterDevice
    <3>2. Len(frus') = 1 /\ frus'[1] = fru
      BY <2>1, <2>2, <3>1
    <3>3. (Len(frus) = 1 /\ Builtin(1))'
      BY <2>1, <3>1, <3>2 DEF Builtin
    <3> QED BY <2>2, <2>4, <3>1, <3>3 DEF BeforeWalk, InFru
  <2>5. CASE walked
    <3>1. PICK l \in Locators, b \in {0, 1} : \E n \in 0..Len(l) :
            /\ Builtin(b) /\ todo = SubSeq(l, n + 1, Len(l))
            /\ n >= 1 /\ Readable(l[n]) /\ dev = l[n].device /\ Walked(frus, l, n - 1, b)
      BY <1>7, <2>3, <2>5 DEF InWalk
    <3>2. PICK n \in 0..Len(l) :
            /\ Builtin(b) /\ todo = SubSeq(l, n + 1, Len(l))
            /\ n >= 1 /\ Readable(l[n]) /\ dev = l[n].device /\ Walked(frus, l, n - 1, b)
      BY <3>1
    <3>3. Walked(frus', l, n, b)
      <4>1. Len(frus) >= b /\ n \in Nat
        BY <3>2 DEF Builtin
      <4> QED BY <2>1, <2>2, <3>2, <4>1, WalkedNext
    <3>4. Builtin(b)'
      BY <2>1, <2>2, <3>2, BuiltinKept
    <3>5. phase' = "locator" /\ phase' \notin InFru /\ ~GetFRUData'
      BY <2>2, <2>5 DEF AfterDevice, InFru, GetFRUData
    <3> QED BY <2>2, <2>5, <3>2, <3>3, <3>4, <3>5 DEF InWalk
  <2> QED BY <2>4, <2>5 DEF FruTypeOK
<1>8. CASE DataInfo
  <2>1. phase = "data" /\ phase' = "chunk" /\ area' = 5 /\ UNCHANGED <<walked, frus>>
    BY <1>8 DEF DataInfo
  <2>2. ~walked /\ frus = <<>>
    BY <2>1 DEF InWalk, BeforeWalk, InFru
  <2> QED BY <2>1, <2>2 DEF BeforeWalk, GetFRUData
<1>9. CASE AreaInfo \/ Header \/ AreaLength \/ (Area /\ area # 5)
  <2>1. phase \in {"info", "header", "length", "area"} /\ UNCHANGED <<walked, todo, dev, frus>>
    BY <1>9 DEF AreaInfo, Header, AreaLength, Area
  <2>2. phase' \in {"header", "area", "length"} \/ (phase' = "chunk" /\ phase = "length" /\ area' = area)
    BY <1>9 DEF AreaInfo, Header, AreaLength, Area
  <2>3. GetFRUData' = GetFRUData /\ phase \in InFru /\ phase' \in InFru
    BY <2>1, <2>2 DEF GetFRUData, InFru, FruTypeOK
  <2> QED BY <1>3, <2>1, <2>3
<1>10. CASE (TooLong \/ \E n \in 1..MaxRead : Chunk(n)) /\ ~Failed
  <2>1. phase = "chunk" /\ phase' = "chunk" /\ UNCHANGED <<walked, todo, dev, frus, area>>
    BY <1>10 DEF TooLong, Chunk
  <2> QED BY <1>3, <2>1 DEF GetFRUData, InFru
<1>11. CASE ReadEnds /\ ~Failed
  <2>1. phase = "chunk" /\ UNCHANGED <<walked, todo, dev, frus>>
    BY <1>11 DEF ReadEnds
  <2>2. CASE area = 5
    <3>1. phase' = "done" /\ GetFRUData
      BY <1>11, <2>1, <2>2 DEF ReadEnds, NextArea, GetFRUData
    <3>2. ~walked
      BY <2>1, <3>1 DEF InWalk
    <3> QED BY <2>1, <3>1, <3>2 DEF BeforeWalk, InFru
  <2>3. CASE area # 5
    <3>1. phase' \in {"area", "length"}
      BY <1>11, <2>3 DEF ReadEnds, NextArea, NextRecord
    <3> QED BY <1>3, <2>1, <2>3, <3>1 DEF GetFRUData, InFru
  <2> QED BY <2>2, <2>3
<1>12. CASE ExchangeFails
  BY <1>2, <1>12 DEF ExchangeFails
<1>13. CASE NotPresent
  BY <1>7, <1>13 DEF NotPresent
<1>14. CASE Area /\ area = 5
  BY <1>7, <1>14 DEF Area
<1> QED BY <1>1, <1>2, <1>4, <1>5, <1>6, <1>8, <1>9, <1>10, <1>11, <1>12, <1>13, <1>14 DEF Next
-----------------------------------------------------------------------------
LEMMA FruInit == Init => FruInv
<1> SUFFICES ASSUME Init PROVE FruInv
  OBVIOUS
<1>1. phase \in {"deviceID", "data"} /\ areas = <<>> /\ area = 1 /\ frus = <<>> /\ walked = FALSE
  BY DEF Init
<1>2. phase = "deviceID" => dev = 0
  BY DEF Init
<1>3. Walk
  BY <1>1, <1>2 DEF Walk, BeforeWalk, InFru, GetFRUData
<1>4. Reading /\ AreasRead /\ PresentComplete
  BY <1>1 DEF Reading, AreasRead, PresentComplete
<1> QED BY <1>3, <1>4, TypeInit DEF FruInv

(* The invariant of FRU reading. *)
THEOREM FruInvariant == Spec => []FruInv
<1>1. FruInv /\ [Next]_vars => FruInv'
  BY TypeStep, ReadingStep, AreasStep, PresentStep, WalkStep DEF FruInv
<1> QED BY <1>1, FruInit, PTL DEF Spec

(* readFRUDataByLength never asks for more than is left, and collects each byte of an area
   that ends below 64 K once and in order, for any limits of the BMC and any shortened
   answers, and any inventories, long records included. *)
THEOREM FruReadExactly == Spec => []ReadExactly
<1>1. FruInv => ReadExactly
  BY DEF FruInv, Reading, ReadExactly
<1> QED BY <1>1, FruInvariant, PTL

(* GetFRU returns every area and record of a device, if no record of the device but the
   last is longer than 250 bytes; and GetFRUs a FRU for every locator that it can read,
   for any inventories and locators. *)
THEOREM FrusAreComplete == Spec => []FrusComplete
<1>1. FruInv => FrusComplete
  <2> SUFFICES ASSUME FruInv, phase = "done", walked
               PROVE  \E l \in Locators, b \in {0, 1} :
                        /\ Len(frus) >= b /\ (b = 1 => frus[1].device = 0)
                        /\ Walked(frus, l, Len(l), b)
    BY DEF FruInv, FrusComplete, PresentComplete
  <2>1. InWalk
    BY DEF FruInv, Walk
  <2> QED BY <2>1 DEF InWalk, Builtin
<1> QED BY <1>1, FruInvariant, PTL

(* The walk over the list of records of a device finds the header of a record each time,
   if no record but the last is longer than 250 bytes (cmd_get_frus.go:334). *)
THEOREM FruAtRecord == Spec => [](Short(dev) => AtRecord)
<1>1. FruInv => (Short(dev) => AtRecord)
  BY DEF FruInv, AreasRead, AtMultiRecord, AtRecord, RecordsAt, Inv
<1> QED BY <1>1, FruInvariant, PTL
-----------------------------------------------------------------------------
(* Why every call ends: each exchange leaves less to do.  What is left is counted in
   seven numbers, of which the first that changes gets smaller.  Of the list of records
   of a device with a long record that does not hold. *)
Stage == IF phase \in {"done", "failed", "panic"} THEN 0
         ELSE IF walked THEN 1 ELSE IF phase = "sdrs" THEN 2 ELSE 3
OfDevice == CASE phase \in {"deviceID", "data"}         -> 4
              [] phase = "info"                         -> 3
              [] phase = "header"                       -> 2
              [] phase \in {"area", "length", "chunk"}  -> 1
              [] OTHER                                  -> 0
OfList == IF phase \in {"length", "chunk"} THEN W16 - start ELSE W16
OfArea == IF phase = "length" THEN W16 ELSE length
Left == <<Stage, Len(todo), OfDevice, 5 - area, OfList, OfArea, readCount>>

Smaller(m, n) == \E i \in DOMAIN n : m[i] < n[i] /\ \A j \in 1..(i - 1) : m[j] = n[j]

LEMMA Seven ==
  ASSUME NEW a \in Nat, NEW b \in Nat, NEW c \in Nat, NEW d \in Nat, NEW e \in Nat,
         NEW f \in Nat, NEW g \in Nat
  PROVE  <<a, b, c, d, e, f, g>> \in [1..7 -> Nat]
<1> DEFINE s == <<a, b, c, d, e, f, g>>
<1>1. s = [i \in 1..7 |-> s[i]]
  OBVIOUS
<1>2. \A i \in 1..7 : s[i] \in Nat
  OBVIOUS
<1> QED BY <1>1, <1>2, Zenon

LEMMA LeftType == FruTypeOK => Left \in [1..7 -> Nat]
<1> SUFFICES ASSUME FruTypeOK PROVE Left \in [1..7 -> Nat]
  OBVIOUS
<1>1. Stage \in Nat /\ Len(todo) \in Nat /\ OfDevice \in Nat
  BY DEF Stage, OfDevice, FruTypeOK
<1>2. 5 - area \in Nat
  BY DEF FruTypeOK
<1>3. OfList \in Nat /\ OfArea \in Nat /\ readCount \in Nat
  <2>1. start \in Word /\ length \in Word /\ readCount \in Byte
    BY DEF FruTypeOK, NumbersOK
  <2>2. start \in Nat /\ start < W16 /\ length \in Nat /\ readCount \in Nat /\ W16 \in Nat
    BY <2>1, InWord, InByte, Zenon
  <2> QED BY <2>2 DEF OfList, OfArea
<1> HIDE DEF Stage, OfDevice, OfList, OfArea
<1> QED BY <1>1, <1>2, <1>3, Seven DEF Left

(* The first difference is at any of the seven places. *)
LEMMA Compare ==
  ASSUME NEW a, NEW b, NEW c, NEW d, NEW e, NEW f, NEW g,
         NEW o, NEW p, NEW q, NEW r, NEW s, NEW t, NEW u,
         \/ o < a
         \/ o = a /\ p < b
         \/ o = a /\ p = b /\ q < c
         \/ o = a /\ p = b /\ q = c /\ r < d
         \/ o = a /\ p = b /\ q = c /\ r = d /\ s < e
         \/ o = a /\ p = b /\ q = c /\ r = d /\ s = e /\ t < f
         \/ o = a /\ p = b /\ q = c /\ r = d /\ s = e /\ t = f /\ u < g
  PROVE  Smaller(<<o, p, q, r, s, t, u>>, <<a, b, c, d, e, f, g>>)
  BY DEF Smaller

LEMMA LeftStep ==
  ASSUME FruInv, Next, ~(NextRecord /\ ~Short(dev))
  PROVE  Smaller(Left', Left)
<1> USE DEF Stage, OfDevice, OfList, OfArea
<1>0. /\ FruTypeOK /\ area \in 1..5 /\ walked \in BOOLEAN
      /\ phase \in InFru \cup {"deviceID", "sdrs", "locator", "data", "done", "failed", "panic"}
  BY DEF FruInv, FruTypeOK
<1>1. /\ start \in Nat /\ start < W16 /\ length \in Nat /\ length < W16 /\ readCount \in Nat
      /\ W16 \in Nat /\ Len(todo) \in Nat
  <2>1. start \in Word /\ length \in Word /\ readCount \in Byte /\ todo \in Seq(LocatorRecord)
    BY <1>0 DEF FruTypeOK, NumbersOK
  <2> QED BY <2>1, InWord, InByte
<1>2. CASE (Failed /\ phase \notin {"done", "failed", "panic"}) \/ NoLength
  <2>1. Stage' < Stage
    BY <1>2 DEF Failed, NoLength
  <2> QED BY <2>1, Compare DEF Left
<1>3. CASE ExchangeFails
  BY <1>2, <1>3 DEF ExchangeFails
<1>4. ASSUME NEW p \in BOOLEAN, FruEnds(p), phase \in {"info", "header", "area"}
      PROVE  Smaller(Left', Left)
  <2>1. \/ Stage' < Stage
        \/ Stage' = Stage /\ todo' = todo /\ OfDevice' < OfDevice
    BY <1>0, <1>4 DEF FruEnds, AfterDevice
  <2> QED BY <2>1, Compare DEF Left
<1>5. CASE NotPresent
  BY <1>4, <1>5 DEF NotPresent
<1>6. ASSUME NEW support \in BOOLEAN, GetDeviceID(support) PROVE Smaller(Left', Left)
  <2>1. \/ Stage' < Stage
        \/ Stage' = Stage /\ todo' = todo /\ OfDevice' < OfDevice
    BY <1>0, <1>6 DEF GetDeviceID
  <2> QED BY <2>1, Compare DEF Left
<1>7. ASSUME NEW l \in Locators, GetSDRs(l) PROVE Smaller(Left', Left)
  <2>1. ~walked
    BY <1>7 DEF GetSDRs, FruInv, Walk, InWalk, InFru
  <2>2. Stage' < Stage
    BY <1>7, <2>1 DEF GetSDRs
  <2> QED BY <2>2, Compare DEF Left
<1>8. CASE Locator
  <2>1. walked
    BY <1>8 DEF Locator, FruInv, Walk, BeforeWalk
  <2>2. \/ Stage' < Stage
        \/ Stage' = Stage /\ Len(todo)' < Len(todo)
    <3>1. CASE todo = <<>>
      BY <1>8, <2>1, <3>1 DEF Locator
    <3>2. CASE todo # <<>>
      <4>1. todo' = Tail(todo) /\ walked' = walked /\ phase' \in {"info", "locator"}
        BY <1>8, <3>2 DEF Locator
      <4>2. Len(Tail(todo)) < Len(todo)
        BY <1>0, <3>2 DEF FruTypeOK
      <4>3. Stage' = Stage
        BY <1>8, <2>1, <4>1 DEF Locator
      <4> QED BY <4>1, <4>2, <4>3
    <3> QED BY <3>1, <3>2
  <2> QED BY <2>2, Compare DEF Left
<1>9. CASE AreaInfo \/ Header \/ DataInfo
  <2>1. Stage' = Stage /\ todo' = todo /\ OfDevice' < OfDevice
    BY <1>9 DEF AreaInfo, Header, DataInfo
  <2> QED BY <2>1, Compare DEF Left
<1>10. CASE Area /\ area = 5
  BY <1>4, <1>10 DEF Area
<1>11. CASE Area /\ area # 5
  <2> DEFINE o == OffsetOf(area)
  <2>1. Stage' = Stage /\ todo' = todo /\ OfDevice' = OfDevice
    BY <1>11 DEF Area
  <2>2. CASE o > 0 /\ o < Inv.size
    <3>1. o \in Word
      BY <1>0, <1>11, OffsetType
    <3>2. o \in Nat /\ o > 0
      BY <2>2, <3>1, InWord
    <3>3. area' = area /\ start' = o /\ phase' = "length" /\ phase = "area"
      BY <1>11, <2>2 DEF Area
    <3> HIDE DEF o
    <3>4. OfList' < OfList
      BY <1>1, <3>2, <3>3
    <3> QED BY <2>1, <3>3, <3>4, Compare DEF Left
  <2>3. CASE ~(o > 0 /\ o < Inv.size)
    <3>1. area' = area + 1
      BY <1>11, <2>3 DEF Area
    <3>2. (5 - area)' < 5 - area
      BY <1>0, <3>1
    <3> QED BY <2>1, <3>2, Compare DEF Left
  <2> QED BY <2>2, <2>3
<1>12. CASE AreaLength
  <2>1. \E n \in Word : BeginRead(start, n)
    BY <1>0, <1>12, LengthBegins
  <2>2. PICK n \in Word : BeginRead(start, n)
    BY <2>1
  <2>3. start' = start /\ length' \in Nat /\ length' < W16
    BY <2>2, InWord DEF BeginRead
  <2>4. phase = "length" /\ phase' = "chunk" /\ UNCHANGED <<walked, todo, area>>
    BY <1>12 DEF AreaLength
  <2>5. Stage' = Stage /\ OfDevice' = OfDevice /\ OfList' = OfList /\ OfArea' < OfArea
    BY <2>3, <2>4
  <2> QED BY <2>4, <2>5, Compare DEF Left
<1>13. ASSUME NEW n \in 1..MaxRead, Chunk(n) PROVE Smaller(Left', Left)
  <2>1. phase = "chunk" /\ UNCHANGED <<phase, walked, todo, area, start>>
    BY <1>13 DEF Chunk
  <2>2. Shorter \subseteq Nat /\ n \in Nat /\ n >= 1
    BY <1>13, Bounds, InByte
  <2>3. n <= readCount
    BY <1>1, <1>13, <2>2 DEF Chunk
  <2>4. readCount <= length
    BY <2>1 DEF FruInv, Reading, ReadExactly
  <2>5. length - n \in Nat /\ length - n < length
    BY <1>1, <2>2, <2>3, <2>4
  <2>6. (length - n) % W16 = length - n
    BY <1>1, <2>5, InWord
  <2>7. length' < length
    BY <1>13, <2>5, <2>6 DEF Chunk
  <2>8. Stage' = Stage /\ OfDevice' = OfDevice /\ OfList' = OfList /\ OfArea' < OfArea
    BY <2>1, <2>7
  <2> QED BY <2>1, <2>8, Compare DEF Left
<1>14. CASE TooLong
  <2>1. CASE readCount = 1
    BY <1>2, <1>14, <2>1 DEF TooLong
  <2>2. CASE readCount # 1
    <3>1. readCount' < readCount /\ UNCHANGED <<phase, walked, todo, area, start, length>>
      BY <1>1, <1>14, <2>2 DEF TooLong
    <3>2. UNCHANGED <<Stage, OfDevice, OfList, OfArea>>
      BY <3>1
    <3> QED BY <3>1, <3>2, Compare DEF Left
  <2> QED BY <2>1, <2>2
<1>15. CASE ReadEnds
  <2>1. CASE size = 0
    BY <1>2, <1>15, <2>1 DEF ReadEnds
  <2>2. CASE size # 0
    <3>1. phase = "chunk" /\ UNCHANGED <<walked, todo, size>>
      BY <1>15, <2>2 DEF ReadEnds
    <3>2. CASE NextArea
      <4>1. \/ Stage' < Stage
            \/ Stage' = Stage /\ OfDevice' = OfDevice /\ area' = area + 1
        BY <3>1, <3>2 DEF NextArea
      <4>2. \/ Stage' < Stage
            \/ Stage' = Stage /\ OfDevice' = OfDevice /\ (5 - area)' < 5 - area
        BY <1>0, <4>1
      <4> QED BY <3>1, <4>2, Compare DEF Left
    <3>3. CASE area = 4 /\ ~NextArea
      <4>0. NextRecord /\ Short(dev)
        BY <1>15, <2>2, <3>3 DEF ReadEnds
      <4>1. PICK m \in DOMAIN Inv.records : AtMultiRecord(m)
        BY <3>1, <3>3, <4>0 DEF FruInv, AreasRead
      <4>2. MoreAt(start) = {m < Len(Inv.records)}
        BY <1>0, <4>1, InHand DEF AtMultiRecord
      <4>3. NextRecord /\ m < Len(Inv.records)
        BY <1>15, <2>2, <3>3, <4>2 DEF ReadEnds
      <4>4. start' = start + size /\ size \in Nat /\ size >= 5
        BY <1>0, <3>1, <4>0, <4>1, <4>3, Onward DEF NextRecord
      <4>5. phase' = "length" /\ area' = area
        BY <4>3 DEF NextRecord
      <4>6. Stage' = Stage /\ OfDevice' = OfDevice
        BY <3>1, <4>5
      <4>7. OfList' < OfList
        BY <1>1, <3>1, <4>4, <4>5
      <4> QED BY <3>1, <4>5, <4>6, <4>7, Compare DEF Left
    <3> QED BY <1>15, <2>2, <3>2, <3>3 DEF ReadEnds
  <2> QED BY <2>1, <2>2
<1> QED BY <1>2, <1>3, <1>5, <1>6, <1>7, <1>8, <1>9, <1>10, <1>11, <1>12, <1>13, <1>14, <1>15
        DEF Next

(* Every step of a call leaves less to do, and there is only so much of it, whatever a BMC
   refuses and however short its answers (the loops of GetFRUs, GetFRU, readFRUDataByLength
   and tryReadFRUData).  The one step that may not is that to the next record of a device
   that has a record of more than 250 bytes before another (cmd_get_frus.go:334): a call
   over devices without makes finitely many exchanges. *)
THEOREM FruCallsAreFinite ==
  Spec => /\ [](Left \in [1..7 -> Nat])
          /\ [][Smaller(Left', Left) \/ (NextRecord /\ ~Short(dev))]_vars
<1>1. FruInv => Left \in [1..7 -> Nat]
  BY LeftType DEF FruInv
<1>2. FruInv /\ [Next]_vars => [Smaller(Left', Left) \/ (NextRecord /\ ~Short(dev))]_vars
  BY LeftStep
<1> QED BY <1>1, <1>2, FruInvariant, PTL DEF Spec
=============================================================================
