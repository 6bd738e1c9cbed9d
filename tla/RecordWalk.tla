----------------------------- MODULE RecordWalk -----------------------------
(***************************************************************************)
(* The loops that walk over a repository of the BMC from record to record: *)
(* GetSELEntries over the System Event Log, GetSDRs, GetSDRsMap,           *)
(* GetDeviceSDRs, GetSDRBySensorID, GetSDRBySensorName and                 *)
(* GetDeviceSDRBySensorID over the Sensor Data Records.  Each answer holds *)
(* one record and the ID of the next; in between the BMC and other         *)
(* management software add and remove records.                             *)
(*                                                                         *)
(* An exchange is one step: what the client does with an answer depends    *)
(* on nothing but the answer, so that the moment in which the BMC looks    *)
(* the record up is the only one that matters.                             *)
(***************************************************************************)
EXTENDS Integers, Sequences, FiniteSets

CONSTANTS
  Ids,        \* record IDs; the repository gives its records in ascending order
  Content,    \* what the record with an ID holds
  Ops,        \* the calls under consideration
  MaxChanges, \* additions and removals during a walk
  FirstID,    \* 0000h, stands for the first record in a request
  LastID      \* FFFFh, for the last; and "no more records" in an answer

(* A record: its type, the owner (GeneratorID) and the number of its sensor. *)
Record == [type: {"full", "compact", "eventonly", "other"}, owner: Nat, number: Nat]

Walks == {"GetSELEntries", "GetSDRs", "GetSDRsMap", "GetDeviceSDRs",
          "GetSDRBySensorID", "GetDeviceSDRBySensorID"}

ASSUME WalkAssumption ==
  /\ Ids \subseteq Nat /\ FirstID \in Nat /\ LastID \in Nat
  /\ FirstID # LastID /\ FirstID \notin Ids /\ LastID \notin Ids
  /\ Content \in [Ids -> Record]
  /\ MaxChanges \in Nat
  /\ \A o \in Ops : o.walk \in Walks /\ o.start \in Ids \cup {FirstID, LastID}

VARIABLES
  repo,     \* the IDs in the repository
  changes,  \* how often it has changed
  op,       \* the call in progress
  phase,    \* where the call is
  at,       \* recordID, the record to ask for next
  out,      \* the records collected
  stayed    \* ghost: the records that were there all the time since the call

walkVars == <<repo, changes, op, phase, at, out, stayed>>

IsSEL == op.walk = "GetSELEntries"
IsSearch == op.walk \in {"GetSDRBySensorID", "GetDeviceSDRBySensorID"}
IsMap == op.walk = "GetSDRsMap"

(* The BMC: the record that an ID in a request stands for, and the ID that comes with
   it in the answer. *)
Addressed(id) == CASE at = FirstID -> \A j \in repo : id <= j
                   [] at = LastID  -> \A j \in repo : j <= id
                   [] OTHER        -> id = at
NextOf(id, next) ==
  \/ next = LastID /\ \A j \in repo : j <= id
  \/ next \in repo /\ next > id /\ \A j \in repo : j > id => next <= j

WalkInit ==
  /\ repo \in SUBSET Ids
  /\ changes = 0
  /\ op \in Ops
  /\ phase = (IF op.walk = "GetSELEntries" THEN "info" ELSE "entry")
  /\ at = (IF op.walk = "GetSELEntries" THEN op.start ELSE FirstID)
  /\ out = <<>>
  /\ stayed = repo

(* The repository changes: a record is added at its end, or one is removed;
   Clear SEL removes all. *)
AddRecord(id) ==
  /\ changes < MaxChanges
  /\ \A j \in repo \cup {out[i] : i \in DOMAIN out} : j < id
  /\ repo' = repo \cup {id} /\ changes' = changes + 1
  /\ UNCHANGED <<op, phase, at, out, stayed>>
RemoveRecord(id) ==
  /\ changes < MaxChanges /\ id \in repo
  /\ repo' = repo \ {id} /\ changes' = changes + 1
  /\ stayed' = stayed \ {id}
  /\ UNCHANGED <<op, phase, at, out>>
ClearRecords ==
  /\ changes < MaxChanges /\ repo # {}
  /\ repo' = {} /\ changes' = changes + 1 /\ stayed' = {}
  /\ UNCHANGED <<op, phase, at, out>>

(* Wrong on purpose: the entry is not asked for but the whole walk again. *)
InfoAsksAgain ==
  /\ phase \in {"info", "entryInfo"}
  /\ phase' = (IF phase = "info" THEN "entryInfo" ELSE "info")
  /\ UNCHANGED <<repo, changes, op, at, out, stayed>>
(* Get SEL Info, once for the call and once more in each GetSELEntry. *)
InfoAnswered ==
  /\ phase \in {"info", "entryInfo"}
  /\ phase' = (IF phase = "info" THEN "entryInfo" ELSE "entry")
  /\ UNCHANGED <<repo, changes, op, at, out, stayed>>

(* The sensor number of a record that describes no sensor is reserved. *)
SensorNumber(id) == IF Content[id].type = "other" THEN 255 ELSE Content[id].number

(* What a call keeps of the records it meets; a search keeps what it looks for. *)
Wanted(id) ==
  CASE IsSEL                     -> TRUE
    [] IsSearch                  -> SensorNumber(id) = op.number
    [] IsMap                     -> Content[id].type \in {"full", "compact"}
    [] OTHER                     -> op.types = {} \/ Content[id].type \in op.types

(* The map of GetSDRsMap has one place for each GeneratorID and SensorNumber: a record
   takes the place of one met before it.  The other walks append to a slice. *)
SameSensor(i, j) ==
  Content[i].owner = Content[j].owner /\ Content[i].number = Content[j].number
Stored(s, id) ==
  IF IsMap /\ \E i \in DOMAIN s : SameSensor(s[i], id)
    THEN [i \in DOMAIN s |-> IF SameSensor(s[i], id) THEN id ELSE s[i]]
    ELSE Append(s, id)

(* Wrong on purpose: the mark of the end is looked at before the record is kept. *)
EntryDropsLast ==
  /\ phase = "entry"
  /\ \E id \in repo, next \in Ids \cup {LastID} :
       /\ Addressed(id) /\ NextOf(id, next)
       /\ at' = next
       /\ IF next = LastID THEN phase' = "collected" /\ UNCHANGED out
          ELSE /\ phase' = (IF IsSEL THEN "entryInfo" ELSE "entry")
               /\ out' = IF Wanted(id) THEN Stored(out, id) ELSE out
  /\ UNCHANGED <<repo, changes, op, stayed>>
(* Wrong on purpose: a search does not stop at what it has found. *)
EntryGoesOn ==
  /\ phase = "entry"
  /\ \E id \in repo, next \in Ids \cup {LastID} :
       /\ Addressed(id) /\ NextOf(id, next)
       /\ out' = IF Wanted(id) THEN Stored(out, id) ELSE out
       /\ at' = next
       /\ phase' = IF next = LastID THEN "collected" ELSE IF IsSEL THEN "entryInfo" ELSE "entry"
  /\ UNCHANGED <<repo, changes, op, stayed>>
(* An answer with a record that parses: it is kept if wanted, and the walk goes on
   with the next ID, unless that is the mark of the end, or the search is over. *)
EntryAnswered ==
  /\ phase = "entry"
  /\ \E id \in repo, next \in Ids \cup {LastID} :
       /\ Addressed(id) /\ NextOf(id, next)
       /\ LET hit == IsSearch /\ Wanted(id)
          IN  /\ out' = IF Wanted(id) THEN Stored(out, id) ELSE out
              /\ at' = IF hit THEN at ELSE next
              /\ phase' = (IF hit THEN "collected"
                           ELSE IF next = LastID
                                  THEN IF IsSearch THEN "failed" ELSE "collected"
                                  ELSE IF IsSEL THEN "entryInfo" ELSE "entry")
  /\ UNCHANGED <<repo, changes, op, stayed>>

(* Wrong on purpose: the walk is tried again from the start, with what it has. *)
WalkStartsOver ==
  /\ phase \in {"info", "entryInfo", "entry"}
  /\ at' = FirstID
  /\ UNCHANGED <<repo, changes, op, phase, out, stayed>>
(* An error, a bad completion code (no such record, erase in progress) or a record
   that its Parse function refuses: everything collected is given up. *)
WalkFails ==
  /\ phase \in {"info", "entryInfo", "entry"}
  /\ phase' = "failed" /\ out' = <<>>
  /\ UNCHANGED <<repo, changes, op, at, stayed>>

Walk == InfoAnswered \/ EntryAnswered \/ WalkFails
Change == \/ \E id \in Ids : AddRecord(id) \/ RemoveRecord(id)
          \/ ClearRecords

=============================================================================
