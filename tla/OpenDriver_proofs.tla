-------------------------- MODULE OpenDriver_proofs --------------------------
(***************************************************************************)
(* Calls over the kernel driver, for any number of them, any lengths of    *)
(* answers and any events: a call that returns data returns its own        *)
(* answer, whole; and one that nothing disturbs never sleeps beside it.    *)
(*                                                                         *)
(* The argument for the second: as long as a call is not disturbed it is   *)
(* the only one, its answer is at the BMC or alone in the queue, and the   *)
(* room in its buffer is still all of it.                                  *)
(***************************************************************************)
EXTENDS OpenDriver, TLAPS

Own(c) == [id |-> c, len |-> AnswerLen[c]]

(* Messages in the queue are answers or events. *)
Queued == \A i \in DOMAIN queue : queue[i].id \in Calls => queue[i] = Own(queue[i].id)

(* Without an open file the driver has nothing, and before it is opened nobody waits; a
   call that has not begun has all of its buffer. *)
Active(c) == pc[c] \in {"sent", "armed", "reading", "parked"}
Rest ==
  /\ file # "open" => queue = <<>> /\ atBmc = {}
  /\ file = "none" => \A c \in Calls : ~Active(c)
  /\ \A c \in Calls : pc[c] = "idle" => room[c] = BufSize

Alone(c) ==
  /\ \A d \in Calls \ {c} : ~Active(d)
  /\ room[c] = BufSize /\ atBmc \subseteq {c}
  /\ file = "open" => \/ c \in atBmc /\ queue = <<>>
                      \/ c \notin atBmc /\ queue = <<Own(c)>>
  /\ pc[c] = "parked" /\ queue # <<>> => arrived \/ ready
Undisturbed == \A c \in Calls \ disturbed : Active(c) => Alone(c)

DriverInv == OpenTypeOK /\ Queued /\ WholeOwnAnswer /\ Rest /\ Undisturbed
-----------------------------------------------------------------------------
(* The two ways in which a sequence of messages changes. *)
LEMMA AppendMessage ==
  ASSUME NEW S, NEW s \in Seq(S), NEW m \in S
  PROVE  /\ Append(s, m) \in Seq(S)
         /\ \A i \in DOMAIN Append(s, m) :
              Append(s, m)[i] = m \/ (i \in DOMAIN s /\ Append(s, m)[i] = s[i])
  OBVIOUS

LEMMA AppendFirst ==
  ASSUME NEW S, NEW m \in S
  PROVE  Append(<<>>, m) = <<m>>
  OBVIOUS

LEMMA TakeMessage ==
  ASSUME NEW S, NEW s \in Seq(S), s # <<>>
  PROVE  /\ Head(s) \in S /\ Head(s) = s[1] /\ 1 \in DOMAIN s
         /\ Tail(s) \in Seq(S)
         /\ \A i \in DOMAIN Tail(s) : i + 1 \in DOMAIN s /\ Tail(s)[i] = s[i + 1]
  OBVIOUS

LEMMA TakeOnly ==
  ASSUME NEW m
  PROVE  Head(<<m>>) = m /\ Tail(<<m>>) = <<>> /\ <<m>> # <<>>
  OBVIOUS

LEMMA Begins == Init => DriverInv
<1> SUFFICES ASSUME Init PROVE DriverInv
  OBVIOUS
<1>1. OpenTypeOK
  <2>1. <<>> \in Seq(Message) /\ Without("none") \in Outcome
    BY OpenAssumption DEF Without, Outcome
  <2>2. /\ result \in [Calls -> Outcome] /\ queue \in Seq(Message)
        /\ room \in [Calls -> 1 .. BufSize]
    BY <2>1, OpenAssumption DEF Init
  <2>3. /\ pc \in [Calls -> {"idle", "sent", "armed", "reading", "parked", "done"}]
        /\ \A c \in Calls : pc[c] = "idle" /\ reader # c
    BY OpenAssumption DEF Init
  <2>4. /\ atBmc = {} /\ disturbed = {} /\ reader = Nobody /\ file = "none" /\ events = 0
        /\ arrived = FALSE /\ ready = FALSE /\ deadline = "none"
    BY DEF Init
  <2>5. 0 \in 0 .. MaxEvents
    BY OpenAssumption
  <2>6. \A c \in Calls : (reader = c) <=> pc[c] \in {"reading", "parked"}
    BY <2>3
  <2>7. /\ file \in {"none", "open", "closed"} /\ arrived \in BOOLEAN /\ ready \in BOOLEAN
        /\ events \in 0 .. MaxEvents /\ deadline \in {"none", "set", "over"}
        /\ atBmc \subseteq Calls /\ disturbed \subseteq Calls /\ reader \in Calls \cup {Nobody}
    BY <2>4, <2>5
  <2> QED
    BY <2>2, <2>3, <2>6, <2>7 DEF OpenTypeOK
<1>2. Queued /\ WholeOwnAnswer /\ Rest /\ Undisturbed
  BY DEF Init, Queued, WholeOwnAnswer, Rest, Undisturbed, Active, Without
<1> QED
  BY <1>1, <1>2 DEF DriverInv

(* How a call ends, and how it moves on. *)
LEMMA Outcomes ==
  /\ \A k \in {"error", "timeout"} : Without(k) \in Outcome /\ Without(k).kind # "data"
  /\ \A m \in Message : /\ With(m) \in Outcome
                        /\ With(m).id = m.id /\ With(m).len = m.len
  BY OpenAssumption DEF Without, With, Outcome, Message

LEMMA Ending ==
  ASSUME OpenTypeOK, WholeOwnAnswer, NEW c \in Calls, NEW r \in Outcome, Ends(c, r),
         r.kind = "data" => r.id = c /\ r.len = AnswerLen[c]
  PROVE  /\ pc' \in [Calls -> {"idle", "sent", "armed", "reading", "parked", "done"}]
         /\ result' \in [Calls -> Outcome] /\ WholeOwnAnswer'
         /\ reader' \in Calls \cup {Nobody}
         /\ \A d \in Calls : (reader' = d) <=> pc'[d] \in {"reading", "parked"}
         /\ pc'[c] = "done" /\ \A d \in Calls : d # c => pc'[d] = pc[d]
<1>1. /\ pc' = [pc EXCEPT ![c] = "done"] /\ result' = [result EXCEPT ![c] = r]
      /\ reader' = IF reader = c THEN Nobody ELSE reader
  BY DEF Ends
<1>2. /\ pc \in [Calls -> {"idle", "sent", "armed", "reading", "parked", "done"}]
      /\ result \in [Calls -> Outcome] /\ reader \in Calls \cup {Nobody}
      /\ \A d \in Calls : (reader = d) <=> pc[d] \in {"reading", "parked"}
  BY DEF OpenTypeOK
<1>3. /\ pc'[c] = "done" /\ result'[c] = r
      /\ \A d \in Calls : d # c => pc'[d] = pc[d] /\ result'[d] = result[d]
  BY <1>1, <1>2
<1>4. \A d \in Calls : (reader' = d) <=> pc'[d] \in {"reading", "parked"}
  BY <1>1, <1>2, <1>3, OpenAssumption
<1>5. WholeOwnAnswer'
  BY <1>3 DEF WholeOwnAnswer
<1> QED
  BY <1>1, <1>2, <1>3, <1>4, <1>5

LEMMA Moving ==
  ASSUME OpenTypeOK, NEW c \in Calls, NEW x \in {"sent", "armed", "reading", "parked"},
         pc' = [pc EXCEPT ![c] = x],
         IF x \in {"reading", "parked"} THEN reader \in {c, Nobody} /\ reader' = c
                                       ELSE reader # c /\ reader' = reader
  PROVE  /\ pc' \in [Calls -> {"idle", "sent", "armed", "reading", "parked", "done"}]
         /\ reader' \in Calls \cup {Nobody}
         /\ \A d \in Calls : (reader' = d) <=> pc'[d] \in {"reading", "parked"}
         /\ pc'[c] = x /\ \A d \in Calls : d # c => pc'[d] = pc[d]
<1>1. /\ pc \in [Calls -> {"idle", "sent", "armed", "reading", "parked", "done"}]
      /\ reader \in Calls \cup {Nobody}
      /\ \A d \in Calls : (reader = d) <=> pc[d] \in {"reading", "parked"}
  BY DEF OpenTypeOK
<1>2. pc'[c] = x /\ \A d \in Calls : d # c => pc'[d] = pc[d]
  BY <1>1
<1> QED
  BY <1>1, <1>2, OpenAssumption

(* Opening: no call has sent anything before. *)
LEMMA ConnectOpenKeeps ==
  ASSUME DriverInv, ConnectOpen
  PROVE  DriverInv'
<1> USE OpenAssumption
<1>0. OpenTypeOK /\ Queued /\ WholeOwnAnswer /\ Rest /\ Undisturbed
  BY DEF DriverInv
<1>1. OpenTypeOK'
  BY <1>0 DEF OpenTypeOK, ConnectOpen, driver
<1>2. Queued'
  BY <1>0 DEF Queued, Own, ConnectOpen, driver
<1>3. WholeOwnAnswer'
  BY <1>0 DEF WholeOwnAnswer, ConnectOpen, driver
<1>4. Rest'
  BY <1>0 DEF Rest, ConnectOpen, driver
<1>5. Undisturbed'
  <2>1. \A c \in Calls : ~Active(c)'
    BY <1>0 DEF Rest, Active, ConnectOpen
  <2> QED
    BY <2>1 DEF Undisturbed
<1> QED
  BY <1>1, <1>2, <1>3, <1>4, <1>5 DEF DriverInv

(* Closing empties the queue. *)
LEMMA CloseOpenKeeps ==
  ASSUME DriverInv, CloseOpen
  PROVE  DriverInv'
<1> USE OpenAssumption
<1>0. OpenTypeOK /\ Queued /\ WholeOwnAnswer /\ Rest /\ Undisturbed
  BY DEF DriverInv
<1>1. OpenTypeOK'
  <2>1. <<>> \in Seq(Message)
    OBVIOUS
  <2> QED
    BY <2>1, <1>0 DEF OpenTypeOK, CloseOpen
<1>2. Queued'
  BY <1>0 DEF Queued, Own, CloseOpen, driver
<1>3. WholeOwnAnswer'
  BY <1>0 DEF WholeOwnAnswer, CloseOpen, driver
<1>4. Rest'
  BY <1>0 DEF Rest, CloseOpen, driver
<1>5. Undisturbed'
  BY <1>0 DEF OpenTypeOK, Rest, Undisturbed, Alone, Active, Own, Running, CloseOpen, driver
<1> QED
  BY <1>1, <1>2, <1>3, <1>4, <1>5 DEF DriverInv

(* Giving up, with an error or at the deadline. *)
LEMMA GivingUp ==
  ASSUME DriverInv, NEW c \in Calls, NEW k \in {"error", "timeout"}, Ends(c, Without(k)),
         UNCHANGED <<file, room, driver, ready, deadline, disturbed>>
  PROVE  DriverInv'
<1>0. OpenTypeOK /\ Queued /\ WholeOwnAnswer /\ Rest /\ Undisturbed
  BY DEF DriverInv
<1>1. UNCHANGED <<file, room, atBmc, queue, arrived, events, ready, deadline, disturbed>>
  BY DEF driver
<1>2. /\ pc' \in [Calls -> {"idle", "sent", "armed", "reading", "parked", "done"}]
      /\ result' \in [Calls -> Outcome] /\ WholeOwnAnswer'
      /\ reader' \in Calls \cup {Nobody}
      /\ \A d \in Calls : (reader' = d) <=> pc'[d] \in {"reading", "parked"}
      /\ pc'[c] = "done" /\ \A d \in Calls : d # c => pc'[d] = pc[d]
  BY <1>0, Outcomes, Ending
<1>3. OpenTypeOK'
  BY <1>0, <1>1, <1>2 DEF OpenTypeOK
<1>4. Queued'
  BY <1>0, <1>1 DEF Queued, Own
<1>5. \A d \in Calls : Active(d)' => d # c /\ Active(d) /\ pc'[d] = pc[d]
  BY <1>2 DEF Active
<1>6. Rest'
  BY <1>0, <1>1, <1>2, <1>5 DEF Rest
<1>7. Undisturbed'
  BY <1>0, <1>1, <1>2, <1>5 DEF Undisturbed, Alone, Own
<1> QED
  BY <1>2, <1>3, <1>4, <1>6, <1>7 DEF DriverInv

(* A request disturbs the calls beside it, and is disturbed by them. *)
LEMMA SetReqKeeps ==
  ASSUME DriverInv, NEW c \in Calls, SetReq(c)
  PROVE  DriverInv'
<1>0. OpenTypeOK /\ Queued /\ WholeOwnAnswer /\ Rest /\ Undisturbed
  BY DEF DriverInv
<1>1. UNCHANGED <<file, room, queue, arrived, events, ready, deadline>> /\ pc[c] = "idle"
  BY DEF SetReq
<1>2. CASE Ends(c, Without("error")) /\ UNCHANGED <<atBmc, disturbed>>
  BY <1>1, <1>2, GivingUp DEF driver
<1>3. CASE /\ file = "open"
           /\ pc' = [pc EXCEPT ![c] = "sent"] /\ atBmc' = atBmc \cup {c}
           /\ disturbed' = disturbed \cup IF queue = <<>> /\ Running = {} /\ atBmc = {}
                                            THEN {} ELSE Running \cup {c}
           /\ UNCHANGED <<result, reader>>
  <2>1. reader # c
    BY <1>0, <1>1 DEF OpenTypeOK
  <2>2. /\ pc' \in [Calls -> {"idle", "sent", "armed", "reading", "parked", "done"}]
        /\ reader' \in Calls \cup {Nobody}
        /\ \A d \in Calls : (reader' = d) <=> pc'[d] \in {"reading", "parked"}
        /\ pc'[c] = "sent" /\ \A d \in Calls : d # c => pc'[d] = pc[d]
    BY <1>0, <1>3, <2>1, Moving
  <2>3. disturbed \subseteq disturbed' /\ disturbed' \subseteq Calls
    BY <1>0, <1>3 DEF Running, OpenTypeOK
  <2>4. OpenTypeOK'
    BY <1>0, <1>1, <1>3, <2>2, <2>3 DEF OpenTypeOK
  <2>5. Queued' /\ WholeOwnAnswer' /\ Rest'
    BY <1>0, <1>1, <1>3, <2>2 DEF Queued, Own, WholeOwnAnswer, Rest, Active
  <2>6. Undisturbed'
    <3> SUFFICES ASSUME NEW d \in Calls \ disturbed', Active(d)' PROVE Alone(d)'
      BY DEF Undisturbed
    <3>1. queue = <<>> /\ Running = {} /\ atBmc = {}
      <4>1. CASE d = c
        BY <4>1, <1>3
      <4>2. CASE d # c
        <5>1. d \in Running
          BY <4>2, <2>2 DEF Running, Active
        <5> QED BY <5>1, <1>3
      <4> QED BY <4>1, <4>2
    <3>2. \A e \in Calls : e # c => ~Active(e)'
      BY <3>1, <2>2 DEF Running, Active
    <3>3. d = c
      BY <3>2
    <3> QED
      BY <3>1, <3>2, <3>3, <1>0, <1>1, <1>3, <2>2 DEF Alone, Rest
  <2> QED
    BY <2>4, <2>5, <2>6 DEF DriverInv
<1> QED
  BY <1>2, <1>3 DEF SetReq

(* A call moves on by itself, and the queue stays as it is. *)
LEMMA MovesOn ==
  ASSUME DriverInv, NEW c \in Calls, Active(c), NEW x \in {"armed", "reading", "parked"},
         pc' = [pc EXCEPT ![c] = x],
         IF x \in {"reading", "parked"} THEN reader \in {c, Nobody} /\ reader' = c
                                       ELSE reader # c /\ reader' = reader,
         UNCHANGED <<file, room, result, driver, disturbed>>,
         ready' \in BOOLEAN, deadline' \in {"none", "set", "over"},
         x = "parked" => queue = <<>>
  PROVE  DriverInv'
<1>0. OpenTypeOK /\ Queued /\ WholeOwnAnswer /\ Rest /\ Undisturbed
  BY DEF DriverInv
<1>1. UNCHANGED <<file, room, result, atBmc, queue, arrived, events, disturbed>>
  BY DEF driver
<1>2. /\ pc' \in [Calls -> {"idle", "sent", "armed", "reading", "parked", "done"}]
      /\ reader' \in Calls \cup {Nobody}
      /\ \A d \in Calls : (reader' = d) <=> pc'[d] \in {"reading", "parked"}
      /\ pc'[c] = x /\ \A d \in Calls : d # c => pc'[d] = pc[d]
  BY <1>0, Moving
<1>3. OpenTypeOK'
  BY <1>0, <1>1, <1>2 DEF OpenTypeOK
<1>4. Queued' /\ WholeOwnAnswer' /\ Rest'
  BY <1>0, <1>1, <1>2 DEF Queued, Own, WholeOwnAnswer, Rest, Active
<1>5. \A d \in Calls : Active(d)' <=> Active(d)
  BY <1>2 DEF Active
<1>6. Undisturbed'
  <2> SUFFICES ASSUME NEW d \in Calls \ disturbed, Active(d) PROVE Alone(d)'
    BY <1>1, <1>5 DEF Undisturbed
  <2>1. Alone(d) /\ d = c
    BY <1>0 DEF Undisturbed, Alone
  <2> QED
    BY <2>1, <1>1, <1>2, <1>5 DEF Alone, Own
<1> QED
  BY <1>3, <1>4, <1>6 DEF DriverInv

(* The deadline, or an error if the file is gone. *)
LEMMA SetReadDeadlineKeeps ==
  ASSUME DriverInv, NEW c \in Calls, SetReadDeadline(c)
  PROVE  DriverInv'
<1>1. OpenTypeOK /\ pc[c] = "sent" /\ UNCHANGED <<file, room, driver, ready, disturbed>>
  BY DEF DriverInv, SetReadDeadline
<1>2. CASE file = "open"
  <2>1. Active(c) /\ reader # c /\ ready' \in BOOLEAN
    BY <1>1 DEF Active, OpenTypeOK
  <2>2. /\ pc' = [pc EXCEPT ![c] = "armed"] /\ reader' = reader /\ result' = result
        /\ deadline' = "set"
    BY <1>2 DEF SetReadDeadline
  <2> QED
    BY <1>1, <2>1, <2>2, MovesOn
<1>3. CASE file # "open"
  BY <1>1, <1>3, GivingUp DEF SetReadDeadline
<1> QED
  BY <1>2, <1>3

(* Into RawConn.Read. *)
LEMMA EnterReadKeeps ==
  ASSUME DriverInv, NEW c \in Calls, EnterRead(c)
  PROVE  DriverInv'
<1>1. /\ OpenTypeOK /\ pc[c] = "armed" /\ reader = Nobody
      /\ UNCHANGED <<file, room, driver, deadline, disturbed>>
  BY DEF DriverInv, EnterRead
<1>2. CASE file = "open" /\ deadline # "over"
  <2>1. Active(c) /\ deadline' \in {"none", "set", "over"}
    BY <1>1 DEF Active, OpenTypeOK
  <2>2. /\ pc' = [pc EXCEPT ![c] = "reading"] /\ reader' = c /\ result' = result
        /\ ready' = FALSE
    BY <1>2 DEF EnterRead
  <2> QED
    BY <1>1, <2>1, <2>2, MovesOn
<1>3. CASE ~(file = "open" /\ deadline # "over")
  BY <1>1, <1>3, GivingUp DEF EnterRead
<1> QED
  BY <1>2, <1>3

(* The poller or the deadline wakes the reader. *)
LEMMA WakeKeeps ==
  ASSUME DriverInv, NEW c \in Calls, Wake(c)
  PROVE  DriverInv'
<1>1. OpenTypeOK /\ pc[c] = "parked" /\ UNCHANGED <<file, room, driver, deadline, disturbed>>
  BY DEF DriverInv, Wake
<1>2. CASE ~(file # "open" \/ deadline = "over")
  <2>1. Active(c) /\ reader = c /\ deadline' \in {"none", "set", "over"}
    BY <1>1 DEF Active, OpenTypeOK
  <2>2. /\ pc' = [pc EXCEPT ![c] = "reading"] /\ reader' = reader /\ result' = result
        /\ ready' = FALSE
    BY <1>2 DEF Wake
  <2> QED
    BY <1>1, <2>1, <2>2, MovesOn
<1>3. CASE file # "open" \/ deadline = "over"
  BY <1>1, <1>3, GivingUp DEF Wake
<1> QED
  BY <1>2, <1>3

(* The message that comes first: an undisturbed call finds its own or none. *)
LEMMA ReadMsgKeeps ==
  ASSUME DriverInv, NEW c \in Calls, ReadMsg(c)
  PROVE  DriverInv'
<1>0. OpenTypeOK /\ Queued /\ WholeOwnAnswer /\ Rest /\ Undisturbed
  BY DEF DriverInv
<1>1. /\ pc[c] = "reading" /\ reader = c /\ Active(c)
      /\ UNCHANGED <<file, atBmc, arrived, events, ready, deadline, disturbed>>
  BY <1>0 DEF ReadMsg, OpenTypeOK, Active
<1>2. CASE queue = <<>>
  <2>1. /\ pc' = [pc EXCEPT ![c] = "parked"] /\ reader' = reader
        /\ UNCHANGED <<result, queue, room>>
    BY <1>2 DEF ReadMsg, Parked
  <2>2. ready' \in BOOLEAN /\ deadline' \in {"none", "set", "over"}
    BY <1>0, <1>1 DEF OpenTypeOK
  <2> QED
    BY <1>1, <1>2, <2>1, <2>2, MovesOn DEF driver
<1>3. CASE queue # <<>>
  <2> DEFINE msg == Head(queue)
             cut == msg.len > room[c]
  <2>1. /\ msg \in Message /\ msg = queue[1] /\ 1 \in DOMAIN queue /\ Tail(queue) \in Seq(Message)
        /\ \A i \in DOMAIN Tail(queue) : i + 1 \in DOMAIN queue /\ Tail(queue)[i] = queue[i + 1]
    BY <1>0, <1>3, TakeMessage DEF OpenTypeOK
  <2>2. /\ queue' = Tail(queue)
        /\ room' = [room EXCEPT ![c] = IF cut THEN @ ELSE msg.len]
    BY <1>3 DEF ReadMsg
  <2>3. room' \in [Calls -> 1 .. BufSize] /\ \A d \in Calls : d # c => room'[d] = room[d]
    BY <1>0, <2>1, <2>2 DEF OpenTypeOK, Message
  <2>4. Queued'
    BY <1>0, <2>1, <2>2 DEF Queued, Own
  <2>5. file = "open"
    BY <1>0, <1>3 DEF Rest
  <2>6. \/ Parked(c) /\ (cut \/ msg.id # c)
        \/ Ends(c, Without("error"))
        \/ msg.id = c /\ Ends(c, With(msg))
    BY <1>3 DEF ReadMsg
  <2>7. CASE Parked(c) /\ (cut \/ msg.id # c)
    <3>1. /\ pc' \in [Calls -> {"idle", "sent", "armed", "reading", "parked", "done"}]
          /\ reader' \in Calls \cup {Nobody}
          /\ \A d \in Calls : (reader' = d) <=> pc'[d] \in {"reading", "parked"}
          /\ pc'[c] = "parked" /\ \A d \in Calls : d # c => pc'[d] = pc[d]
      BY <1>0, <1>1, <2>7, Moving DEF Parked
    <3>2. OpenTypeOK'
      BY <1>0, <1>1, <2>1, <2>2, <2>3, <2>7, <3>1 DEF OpenTypeOK, Parked
    <3>3. WholeOwnAnswer' /\ Rest'
      BY <1>0, <1>1, <2>3, <2>5, <2>7, <3>1 DEF WholeOwnAnswer, Rest, Parked
    <3>4. c \in disturbed
      <4> SUFFICES ASSUME c \notin disturbed PROVE FALSE
        OBVIOUS
      <4>1. queue = <<Own(c)>> /\ room[c] = BufSize
        BY <1>0, <1>1, <1>3, <2>5 DEF Undisturbed, Alone
      <4>2. msg = Own(c)
        BY <4>1, TakeOnly
      <4>3. msg.id = c /\ msg.len = AnswerLen[c]
        BY <4>2 DEF Own
      <4>4. AnswerLen[c] \in 1 .. BufSize
        BY OpenAssumption
      <4> QED
        BY <2>7, <4>1, <4>3, <4>4, OpenAssumption
    <3>5. \A d \in Calls : Active(d)' <=> Active(d)
      BY <1>1, <3>1 DEF Active
    <3>6. Undisturbed'
      BY <1>0, <1>1, <3>4, <3>5 DEF Undisturbed, Alone
    <3> QED
      BY <2>4, <3>2, <3>3, <3>6 DEF DriverInv
  <2>8. ASSUME NEW r \in Outcome, Ends(c, r), r.kind = "data" => r.id = c /\ r.len = AnswerLen[c]
        PROVE  DriverInv'
    <3>1. /\ pc' \in [Calls -> {"idle", "sent", "armed", "reading", "parked", "done"}]
          /\ result' \in [Calls -> Outcome] /\ WholeOwnAnswer'
          /\ reader' \in Calls \cup {Nobody}
          /\ \A d \in Calls : (reader' = d) <=> pc'[d] \in {"reading", "parked"}
          /\ pc'[c] = "done" /\ \A d \in Calls : d # c => pc'[d] = pc[d]
      BY <1>0, <2>8, Ending
    <3>2. OpenTypeOK'
      BY <1>0, <1>1, <2>1, <2>2, <2>3, <3>1 DEF OpenTypeOK
    <3>3. \A d \in Calls : Active(d)' => d # c /\ Active(d)
      BY <3>1 DEF Active
    <3>4. Rest'
      BY <1>0, <1>1, <2>3, <2>5, <3>1 DEF Rest
    <3>5. Undisturbed'
      BY <1>0, <1>1, <3>3 DEF Undisturbed, Alone
    <3> QED
      BY <2>4, <3>1, <3>2, <3>4, <3>5 DEF DriverInv
  <2>9. CASE Ends(c, Without("error"))
    BY <2>8, <2>9, Outcomes
  <2>10. CASE msg.id = c /\ Ends(c, With(msg))
    <3>1. msg.len = AnswerLen[c]
      BY <1>0, <2>1, <2>10 DEF Queued, Own
    <3> QED
      BY <2>1, <2>8, <2>10, <3>1, Outcomes
  <2> QED
    BY <2>6, <2>7, <2>9, <2>10
<1> QED
  BY <1>2, <1>3

(* Time, and the poller. *)
LEMMA DeadlinePassesKeeps ==
  ASSUME DriverInv, DeadlinePasses
  PROVE  DriverInv'
  BY DEF DriverInv, DeadlinePasses, OpenTypeOK, Queued, Own, WholeOwnAnswer, Rest,
       Undisturbed, Alone, Active, driver

LEMMA PollKeeps ==
  ASSUME DriverInv, Poll
  PROVE  DriverInv'
  BY DEF DriverInv, Poll, OpenTypeOK, Queued, Own, WholeOwnAnswer, Rest,
       Undisturbed, Alone, Active

(* An answer arrives: alone, if it is that of a call that is not disturbed. *)
LEMMA AnswerKeeps ==
  ASSUME DriverInv, NEW c \in Calls, Answer(c)
  PROVE  DriverInv'
<1>0. OpenTypeOK /\ Queued /\ WholeOwnAnswer /\ Rest /\ Undisturbed
  BY DEF DriverInv
<1>1. /\ c \in atBmc /\ atBmc' = atBmc \ {c} /\ arrived' = TRUE
      /\ queue' = Append(queue, Own(c)) /\ disturbed' = disturbed \cup (Running \ {c})
      /\ UNCHANGED <<file, pc, room, result, events, ready, reader, deadline>>
  BY DEF Answer, Deliver, Own
<1>2. Own(c) \in Message /\ Own(c).id = c /\ queue \in Seq(Message)
  BY <1>0, OpenAssumption DEF Own, Message, OpenTypeOK
<1>3. queue' \in Seq(Message) /\ Queued'
  BY <1>0, <1>1, <1>2, AppendMessage DEF Queued, Own
<1>4. OpenTypeOK'
  BY <1>0, <1>1, <1>3 DEF OpenTypeOK, Running
<1>5. file = "open"
  BY <1>0, <1>1 DEF Rest
<1>6. WholeOwnAnswer' /\ Rest'
  BY <1>0, <1>1, <1>5 DEF WholeOwnAnswer, Rest, Active
<1>7. Undisturbed'
  <2> SUFFICES ASSUME NEW d \in Calls \ disturbed', Active(d)' PROVE Alone(d)'
    BY DEF Undisturbed
  <2>1. Active(d) /\ d \in Running /\ d = c /\ d \notin disturbed
    BY <1>1 DEF Active, Running
  <2>2. Alone(d) /\ queue = <<>>
    BY <1>0, <1>1, <1>5, <2>1 DEF Undisturbed, Alone
  <2>3. queue' = <<Own(d)>>
    BY <1>1, <1>2, <2>1, <2>2, AppendFirst
  <2>4. \A e \in Calls : Active(e)' <=> Active(e)
    BY <1>1 DEF Active
  <2> QED
    BY <1>1, <2>1, <2>2, <2>3, <2>4 DEF Alone, Own
<1> QED
  BY <1>3, <1>4, <1>6, <1>7 DEF DriverInv

(* An event disturbs all that wait. *)
LEMMA AsyncEventKeeps ==
  ASSUME DriverInv, AsyncEvent
  PROVE  DriverInv'
<1>0. OpenTypeOK /\ Queued /\ WholeOwnAnswer /\ Rest /\ Undisturbed
  BY DEF DriverInv
<1> DEFINE event == [id |-> Event, len |-> EventLen]
<1>1. /\ file = "open" /\ events' \in 0 .. MaxEvents /\ arrived' = TRUE
      /\ queue' = Append(queue, event) /\ disturbed' = disturbed \cup Running
      /\ UNCHANGED <<file, pc, room, result, atBmc, ready, reader, deadline>>
  BY <1>0, OpenAssumption DEF AsyncEvent, Deliver, OpenTypeOK
<1>2. event \in Message /\ event.id \notin Calls /\ queue \in Seq(Message)
  BY <1>0, OpenAssumption DEF Message, OpenTypeOK
<1>3. queue' \in Seq(Message) /\ Queued'
  <2> HIDE DEF event
  <2> QED
    BY <1>0, <1>1, <1>2, AppendMessage DEF Queued, Own
<1>4. OpenTypeOK'
  BY <1>0, <1>1, <1>3 DEF OpenTypeOK, Running
<1>5. WholeOwnAnswer' /\ Rest'
  BY <1>0, <1>1 DEF WholeOwnAnswer, Rest, Active
<1>6. Undisturbed'
  BY <1>1 DEF Undisturbed, Active, Running
<1> QED
  BY <1>3, <1>4, <1>5, <1>6 DEF DriverInv
-----------------------------------------------------------------------------
LEMMA DriverInvStep == DriverInv /\ [Next]_vars => DriverInv'
<1> SUFFICES ASSUME DriverInv, [Next]_vars PROVE DriverInv'
  OBVIOUS
<1>1. CASE Next
  BY <1>1, ConnectOpenKeeps, CloseOpenKeeps, SetReqKeeps, SetReadDeadlineKeeps, EnterReadKeeps,
     ReadMsgKeeps, WakeKeeps, DeadlinePassesKeeps, PollKeeps, AnswerKeeps, AsyncEventKeeps
     DEF Next, Caller
<1>2. CASE UNCHANGED vars
  BY <1>2 DEF vars, driver, DriverInv, OpenTypeOK, Queued, Own, WholeOwnAnswer, Rest,
       Undisturbed, Alone, Active
<1> QED
  BY <1>1, <1>2

THEOREM DriverInvariant == Spec => []DriverInv
  BY Begins, DriverInvStep, PTL DEF Spec

(* Types, and that RawConn.Read is held by the call that is inside of it alone. *)
THEOREM DriverTypes == Spec => []OpenTypeOK
  BY DriverInvariant, PTL DEF DriverInv

(* A call that returns data returns its own answer and all of it, whatever it threw
   away before (SendCommand: MsgID and DataLen). *)
THEOREM OwnAnswersWhole == Spec => []WholeOwnAnswer
  BY DriverInvariant, PTL DEF DriverInv

(* A call that no other comes across does not sleep beside its answer, and does not
   lose it (readMsgFunc, tried at once and after each report of the poller). *)
THEOREM NoWakeupIsLost == Spec => []NoLostWakeup
<1>1. DriverInv => NoLostWakeup
  <2> SUFFICES ASSUME DriverInv, NEW c \in Calls \ disturbed
               PROVE /\ pc[c] = "parked" /\ queue # <<>> => arrived \/ ready
                     /\ pc[c] \in {"sent", "armed", "reading", "parked"} /\ file = "open" =>
                          c \in atBmc \/ \E i \in DOMAIN queue : queue[i].id = c
    BY DEF NoLostWakeup
  <2>1. Active(c) => Alone(c)
    BY DEF DriverInv, Undisturbed
  <2>2. queue = <<Own(c)>> => 1 \in DOMAIN queue /\ queue[1].id = c
    BY DEF Own
  <2> QED
    BY <2>1, <2>2 DEF Active, Alone
<1> QED
  BY <1>1, DriverInvariant, PTL
=============================================================================
