----------------------------- MODULE OpenDriver -----------------------------
(***************************************************************************)
(* Calls over the Linux IPMI driver: exchangeOpen, openSendRequest and     *)
(* SendCommand on the file that ConnectOpen opens.  The driver queues, for *)
(* the file, the responses to its requests and, because ConnectOpen asks   *)
(* for them, asynchronous events.                                          *)
(*                                                                         *)
(* External, modelled from how the code uses it: the driver; os.File, of   *)
(* which RawConn.Read lets one reader in at a time, tries readMsgFunc at   *)
(* once and then again each time the poller reports the file readable,     *)
(* which it does once for all that has arrived since it last looked; the   *)
(* read deadline belongs to the file.                                      *)
(***************************************************************************)
EXTENDS Integers, Sequences

CONSTANTS
  Calls,       \* calls of Exchange, also stands for their random MsgIDs
  AnswerLen,   \* length of the answer to each call, with its completion code
  Event,       \* an asynchronous event, not a call
  EventLen,
  MaxEvents,
  BufSize,     \* IPMI_BUF_SIZE
  Nobody

ASSUME OpenAssumption ==
  /\ BufSize \in Nat \ {0}
  /\ AnswerLen \in [Calls -> 1..BufSize] /\ EventLen \in 1..BufSize
  /\ Event \notin Calls /\ Nobody \notin Calls
  /\ MaxEvents \in Nat

VARIABLES
  file,      \* c.openipmi.file
  pc,        \* of each call
  room,      \* recv.Msg.DataLen of each call
  result,    \* of each call
  atBmc,     \* requests that the BMC has not answered
  queue,     \* the driver's queue for the file
  arrived,   \* the poller has not yet looked at what has arrived
  ready,     \* the poller has reported the file readable
  reader,    \* the call that is inside of RawConn.Read
  deadline,  \* of the file
  events,    \* events so far
  disturbed  \* ghost: calls that another message or call has come across

driver == <<atBmc, queue, arrived, events>>
vars == <<file, pc, room, result, driver, ready, reader, deadline, disturbed>>

(* The outcome of a call: its kind, and the message that it took. *)
Without(k) == [kind |-> k, len |-> 0, id |-> Nobody]
With(msg) == [kind |-> "data", len |-> msg.len, id |-> msg.id]

(* Wrong on purpose: the buffer does not hold the completion code. *)
InitShort ==
  /\ file = "none"
  /\ pc = [c \in Calls |-> "idle"]
  /\ room = [c \in Calls |-> BufSize - 2]
  /\ result = [c \in Calls |-> Without("none")]
  /\ atBmc = {} /\ queue = <<>> /\ arrived = FALSE /\ events = 0
  /\ ready = FALSE /\ reader = Nobody /\ deadline = "none"
  /\ disturbed = {}
Init ==
  /\ file = "none"
  /\ pc = [c \in Calls |-> "idle"]
  /\ room = [c \in Calls |-> BufSize]
  /\ result = [c \in Calls |-> Without("none")]
  /\ atBmc = {} /\ queue = <<>> /\ arrived = FALSE /\ events = 0
  /\ ready = FALSE /\ reader = Nobody /\ deadline = "none"
  /\ disturbed = {}

Running == {c \in Calls : pc[c] \notin {"idle", "done"}}

(* A call ends; RawConn.Read, if it was inside, is left. *)
Ends(c, r) ==
  /\ pc' = [pc EXCEPT ![c] = "done"]
  /\ result' = [result EXCEPT ![c] = r]
  /\ reader' = IF reader = c THEN Nobody ELSE reader

(* The first device that opens becomes the file, also if the driver then refuses
   to deliver events and Connect returns an error. *)
ConnectOpen ==
  /\ file = "none"
  /\ file' = "open"
  /\ UNCHANGED <<pc, room, result, driver, ready, reader, deadline, disturbed>>

(* Close: the driver forgets the file, and what is waiting on it. *)
CloseOpen ==
  /\ file = "open"
  /\ file' = "closed" /\ queue' = <<>> /\ atBmc' = {} /\ arrived' = FALSE
  /\ UNCHANGED <<pc, room, result, ready, reader, deadline, events, disturbed>>

(* SetReq sends the request; interrupted, it is tried again, without any trace.
   Any other error ends the call, as it does when there is no open file. *)
SetReq(c) ==
  /\ pc[c] = "idle"
  /\ \/ /\ file = "open"
        /\ pc' = [pc EXCEPT ![c] = "sent"] /\ atBmc' = atBmc \cup {c}
        /\ disturbed' = disturbed \cup IF queue = <<>> /\ Running = {} /\ atBmc = {}
                                         THEN {} ELSE Running \cup {c}
        /\ UNCHANGED <<result, reader>>
     \/ Ends(c, Without("error")) /\ UNCHANGED <<atBmc, disturbed>>
  /\ UNCHANGED <<file, room, queue, arrived, events, ready, deadline>>

(* Wrong on purpose: no deadline, one waits until the file is readable. *)
NoReadDeadline(c) ==
  /\ pc[c] = "sent"
  /\ IF file = "open"
       THEN pc' = [pc EXCEPT ![c] = "armed"] /\ UNCHANGED <<result, reader>>
       ELSE Ends(c, Without("error"))
  /\ UNCHANGED <<file, room, driver, ready, deadline, disturbed>>
(* The deadline is one of the file: it moves for all. *)
SetReadDeadline(c) ==
  /\ pc[c] = "sent"
  /\ IF file = "open"
       THEN /\ pc' = [pc EXCEPT ![c] = "armed"] /\ deadline' = "set"
            /\ UNCHANGED <<result, reader>>
       ELSE Ends(c, Without("error")) /\ UNCHANGED deadline
  /\ UNCHANGED <<file, room, driver, ready, disturbed>>

(* Into RawConn.Read, if the deadline is not over: what the poller has reported
   before does not count. *)
EnterRead(c) ==
  /\ pc[c] = "armed" /\ reader = Nobody
  /\ IF file = "open" /\ deadline # "over"
       THEN /\ pc' = [pc EXCEPT ![c] = "reading"] /\ reader' = c /\ ready' = FALSE
            /\ UNCHANGED result
       ELSE Ends(c, Without("timeout")) /\ UNCHANGED ready
  /\ UNCHANGED <<file, room, driver, deadline, disturbed>>

(* readMsgFunc. The driver gives away the first message, cut to the room that the
   caller states, which it sets to the length given. *)
Parked(c) == pc' = [pc EXCEPT ![c] = "parked"] /\ UNCHANGED <<result, reader>>
(* Wrong on purpose: what comes first is taken for the answer. *)
ReadAnyMsg(c) ==
  /\ pc[c] = "reading"
  /\ IF queue = <<>>
       THEN Parked(c) /\ UNCHANGED queue
       ELSE /\ queue' = Tail(queue)
            /\ IF Head(queue).len > room[c] THEN Parked(c) ELSE Ends(c, With(Head(queue)))
  /\ UNCHANGED <<file, room, atBmc, arrived, events, ready, deadline, disturbed>>
ReadMsg(c) ==
  /\ pc[c] = "reading"
  /\ IF queue = <<>>
       THEN Parked(c) /\ UNCHANGED <<queue, room>>
       ELSE LET msg == Head(queue)
                cut == msg.len > room[c]
            IN  /\ queue' = Tail(queue)
                /\ room' = [room EXCEPT ![c] = IF cut THEN @ ELSE msg.len]
                /\ IF cut \/ msg.id # c THEN Parked(c)
                   ELSE IF msg.len >= BufSize THEN Ends(c, Without("error"))
                   ELSE Ends(c, With(msg))
  /\ UNCHANGED <<file, atBmc, arrived, events, ready, deadline, disturbed>>

(* waitRead: the file is readable, or the deadline is over. *)
Wake(c) ==
  /\ pc[c] = "parked"
  /\ IF file # "open" \/ deadline = "over"
       THEN Ends(c, Without("timeout")) /\ UNCHANGED ready
       ELSE /\ ready /\ ready' = FALSE
            /\ pc' = [pc EXCEPT ![c] = "reading"] /\ UNCHANGED <<result, reader>>
  /\ UNCHANGED <<file, room, driver, deadline, disturbed>>

DeadlinePasses ==
  /\ deadline = "set" /\ deadline' = "over"
  /\ UNCHANGED <<file, pc, room, result, driver, ready, reader, disturbed>>

Poll ==
  /\ arrived /\ arrived' = FALSE /\ ready' = TRUE
  /\ UNCHANGED <<file, pc, room, result, atBmc, queue, events, reader, deadline, disturbed>>

Deliver(msg) == queue' = Append(queue, msg) /\ arrived' = TRUE

Answer(c) ==
  /\ c \in atBmc /\ atBmc' = atBmc \ {c}
  /\ Deliver([id |-> c, len |-> AnswerLen[c]])
  /\ disturbed' = disturbed \cup (Running \ {c})
  /\ UNCHANGED <<file, pc, room, result, events, ready, reader, deadline>>

AsyncEvent ==
  /\ file = "open" /\ events < MaxEvents /\ events' = events + 1
  /\ Deliver([id |-> Event, len |-> EventLen])
  /\ disturbed' = disturbed \cup Running
  /\ UNCHANGED <<file, pc, room, result, atBmc, ready, reader, deadline>>

Caller(c) == SetReq(c) \/ SetReadDeadline(c) \/ EnterRead(c) \/ ReadMsg(c) \/ Wake(c)
Next ==
  \/ ConnectOpen \/ CloseOpen \/ DeadlinePasses \/ Poll \/ AsyncEvent
  \/ \E c \in Calls : Caller(c) \/ Answer(c)

Spec == Init /\ [][Next]_vars

(* The goroutines run and time goes by; the BMC owes no answer. *)
FairSpec == Spec /\ (\A c \in Calls : WF_vars(Caller(c))) /\ WF_vars(DeadlinePasses)
-----------------------------------------------------------------------------
(* Types; RawConn.Read is held by the call that is inside of it, and by no other. *)
Message == [id: Calls \cup {Event}, len: 1..BufSize]
Outcome == [kind: {"none", "data", "error", "timeout"}, len: 0..BufSize,
            id: Calls \cup {Event, Nobody}]
OpenTypeOK ==
  /\ file \in {"none", "open", "closed"}
  /\ pc \in [Calls -> {"idle", "sent", "armed", "reading", "parked", "done"}]
  /\ room \in [Calls -> 1..BufSize]
  /\ result \in [Calls -> Outcome]
  /\ atBmc \subseteq Calls
  /\ queue \in Seq(Message)
  /\ arrived \in BOOLEAN /\ ready \in BOOLEAN /\ events \in 0..MaxEvents
  /\ deadline \in {"none", "set", "over"} /\ disturbed \subseteq Calls
  /\ reader \in Calls \cup {Nobody}
  /\ \A c \in Calls : (reader = c) <=> pc[c] \in {"reading", "parked"}

(* A call that returns data returns its own answer and all of it, although it may
   have thrown away answers of calls that timed out, of calls beside it and
   events, which made the room for its own one smaller. *)
WholeOwnAnswer ==
  \A c \in Calls :
    result[c].kind = "data" => result[c].id = c /\ result[c].len = AnswerLen[c]

(* A call that no other message or call comes across gets its answer: it never
   sleeps beside its answer without a wake-up on the way, and does not lose it. *)
NoLostWakeup ==
  \A c \in Calls \ disturbed :
    /\ pc[c] = "parked" /\ queue # <<>> => arrived \/ ready
    /\ pc[c] \in {"sent", "armed", "reading", "parked"} /\ file = "open" =>
         c \in atBmc \/ \E i \in DOMAIN queue : queue[i].id = c

(* Every call returns, with a silent BMC too, and however others move the deadline
   that it waits for. *)
CallsReturn == \A c \in Calls : pc[c] = "sent" ~> pc[c] = "done"

=============================================================================
