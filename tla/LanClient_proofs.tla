-------------------------- MODULE LanClient_proofs --------------------------
(***************************************************************************)
(* Theorems of LanClient, for any set of callers: about the two counters   *)
(* that number requests, for any maximum of the requester sequence; about  *)
(* what the session gets of the transport, whose steps its own are         *)
(* (TransportSteps): one operation at a time, and its own answers; and     *)
(* about what Client.Close leaves of the socket and of the program.        *)
(***************************************************************************)
EXTENDS LanClient, UdpExchange_proofs

\* The numbers, and what ties them to the stage of the request.
Numbers ==
    /\ stage \in [Calls -> {"off", "new", "built", "sealed"}]
    /\ ipmiSeq \in 1..IpmiSeqMax
    /\ ipmi \in [Calls -> 0..IpmiSeqMax]
    /\ sequence \in Nat
    /\ seq \in [Calls -> Nat]
    /\ builds \in Nat
    /\ serial \in [Calls -> Nat]
    /\ cl \in [Closes -> {"idle", "session", "udp", "ok", "failed", "panic"}]
    /\ stage[ConnectCall] = "sealed"
    /\ \A c \in Calls : serial[c] <= builds
    /\ \A c \in Calls : stage[c] \in {"off", "new"} => serial[c] = 0
    /\ \A k \in Closes : cl[k] = "idle" => stage[k] = "off"

numberVars == <<stage, ipmiSeq, ipmi, sequence, seq, builds, serial>>

\* A call is entered: it is about to be built.
Enters(c) ==
    /\ stage[c] = "off"
    /\ stage' = [stage EXCEPT ![c] = "new"]
    /\ UNCHANGED <<ipmiSeq, ipmi, sequence, seq, builds, serial>>

\* Seen from the numbers there are only three kinds of steps.
LEMMA NumberSteps ==
    ASSUME Numbers, [LanNext]_allVars
    PROVE  /\ \/ \E c \in Calls : BuildIPMIRequest(c) \/ GenSession(c) \/ Enters(c)
              \/ UNCHANGED numberVars
           /\ cl' \in [Closes -> {"idle", "session", "udp", "ok", "failed", "panic"}]
           /\ \A k \in Closes : cl'[k] = "idle" => stage'[k] = "off"
<1> USE LanAssumption DEF Numbers, numberVars, lanVars, buildVars
<1>1. ASSUME NEW c \in Calls, BuildIPMIRequest(c) PROVE cl' = cl /\ stage' = [stage EXCEPT ![c] = "built"]
  BY <1>1 DEF BuildIPMIRequest
<1>2. ASSUME NEW c \in Calls, GenSession(c) PROVE cl' = cl /\ stage' = [stage EXCEPT ![c] = "sealed"]
  BY <1>2 DEF GenSession
<1>3. ASSUME NEW c \in Calls, UserCall(c) PROVE Enters(c) /\ cl' = cl /\ c \notin Closes
  BY <1>3 DEF UserCall, Enters
<1>4. ASSUME NEW c \in Calls, Tick(c) PROVE Enters(c) /\ cl' = cl /\ c \notin Closes
  BY <1>4 DEF Tick, Enters
<1>5. ASSUME NEW c \in Calls, UdpStep(c) PROVE UNCHANGED <<numberVars, cl>>
  BY <1>5 DEF UdpStep
<1>6. CASE TickReturns \/ KeepaliveStops
  BY <1>6 DEF TickReturns, KeepaliveStops
<1>7. ASSUME NEW k \in Closes, CloseLAN(k)
      PROVE  \/ Enters(k) /\ cl' = [cl EXCEPT ![k] = "session"]
             \/ UNCHANGED numberVars /\ cl' = [cl EXCEPT ![k] = "panic"]
  BY <1>7 DEF CloseLAN, Enters
<1>8. ASSUME NEW k \in Closes, CloseStep(k)
      PROVE  /\ UNCHANGED numberVars
             /\ \E x \in {"udp", "ok", "failed"} : cl' = [cl EXCEPT ![k] = x]
  BY <1>8 DEF CloseStep, CloseFails, CloseUdp, CloseReturns
<1>9. CASE Network
  BY <1>9 DEF Network
<1>10. CASE UNCHANGED allVars
  BY <1>10 DEF allVars
<1>11. QED
  <2>1. ASSUME NEW c \in Calls, Build(c) PROVE \A k \in Closes : cl[k] = "idle" => k # c
    BY <2>1 DEF Build, BuildIPMIRequest, GenSession
  <2>2. CASE \E c \in Calls : Build(c)
    BY <1>1, <1>2, <2>1, <2>2 DEF Build
  <2>3. CASE \E c \in Calls : UserCall(c) \/ Tick(c) \/ UdpStep(c)
    BY <1>3, <1>4, <1>5, <2>3 DEF Enters
  <2>4. CASE \E k \in Closes : CloseLAN(k)
    BY <1>7, <2>4 DEF Enters
  <2>5. CASE \E k \in Closes : CloseStep(k)
    BY <1>8, <2>5
  <2>6. QED
    BY <1>6, <1>9, <1>10, <2>2, <2>3, <2>4, <2>5 DEF LanNext

LEMMA NumbersInvariant == LanSpec => []Numbers
<1>1. LanInit => Numbers
  BY LanAssumption DEF LanInit, Numbers
<1>2. Numbers /\ [LanNext]_allVars => Numbers'
  <2> SUFFICES ASSUME Numbers, [LanNext]_allVars PROVE Numbers'
    OBVIOUS
  <2> USE LanAssumption DEF Numbers
  <2>1. CASE \E c \in Calls : BuildIPMIRequest(c)
    BY <2>1, NumberSteps DEF BuildIPMIRequest
  <2>2. CASE \E c \in Calls : GenSession(c)
    BY <2>2, NumberSteps DEF GenSession
  <2>3. CASE \E c \in Calls : Enters(c)
    BY <2>3, NumberSteps DEF Enters
  <2>4. CASE UNCHANGED numberVars
    BY <2>4, NumberSteps DEF numberVars
  <2>5. QED
    BY <2>1, <2>2, <2>3, <2>4, NumberSteps
<1>3. QED
  BY <1>1, <1>2, PTL DEF LanSpec

-----------------------------------------------------------------------------
(* Counting on from a request that is less than a full round old leads to  *)
(* the next number, modulo the wrap; a linear form of "i-th number = i     *)
(* modulo the maximum".                                                    *)
Window ==
    /\ \A c \in Calls :
           LET age == builds - serial[c]
           IN  serial[c] > 0 /\ age < IpmiSeqMax
                   => ipmi[c] + age + 1 \in {ipmiSeq, ipmiSeq + IpmiSeqMax}
    /\ \A c \in Calls : serial[c] > 0 => ipmi[c] >= 1
    /\ \A c, d \in Calls : serial[c] = serial[d] /\ serial[c] > 0 => c = d
    /\ IpmiSeqWindow

(* Any IpmiSeqMax consecutive requests have different requester sequences  *)
(* (types_ipmi.go:158-168), for every maximum and every number of callers. *)
THEOREM RequesterSequence == LanSpec => []IpmiSeqWindow
<1>1. LanInit => Window
  BY LanAssumption DEF LanInit, Window, IpmiSeqWindow
<1>2. Numbers /\ Window /\ [LanNext]_allVars => Window'
  <2> SUFFICES ASSUME Numbers, Window, [LanNext]_allVars PROVE Window'
    OBVIOUS
  <2> USE LanAssumption
  <2>1. CASE \E c \in Calls : BuildIPMIRequest(c)
    <3> PICK b \in Calls : BuildIPMIRequest(b)
      BY <2>1
    <3>1. /\ builds' = builds + 1
          /\ ipmiSeq' = IF ipmiSeq + 1 > IpmiSeqMax THEN 1 ELSE ipmiSeq + 1
          /\ serial'[b] = builds + 1 /\ ipmi'[b] = ipmiSeq
          /\ \A c \in Calls \ {b} : serial'[c] = serial[c] /\ ipmi'[c] = ipmi[c]
      BY DEF BuildIPMIRequest, Numbers
    <3>2. /\ ipmiSeq \in 1..IpmiSeqMax /\ builds \in Nat
          /\ \A c \in Calls : ipmi[c] \in 0..IpmiSeqMax /\ serial[c] \in 0..builds
      BY DEF Numbers
    <3>3. ASSUME NEW c \in Calls
          PROVE  LET age == builds' - serial'[c]
                 IN  serial'[c] > 0 /\ age < IpmiSeqMax
                         => ipmi'[c] + age + 1 \in {ipmiSeq', ipmiSeq' + IpmiSeqMax}
      BY <3>1, <3>2 DEF Window
    <3>4. ASSUME NEW c \in Calls, serial'[c] > 0 PROVE ipmi'[c] >= 1
      BY <3>1, <3>2, <3>4 DEF Window
    <3>5. ASSUME NEW c \in Calls, NEW d \in Calls, serial'[c] = serial'[d], serial'[c] > 0
          PROVE  c = d
      BY <3>1, <3>2, <3>5 DEF Window
    <3>6. ASSUME NEW c \in Calls, NEW d \in Calls,
                 0 < serial'[c], serial'[c] < serial'[d], ipmi'[c] = ipmi'[d]
          PROVE  serial'[d] - serial'[c] >= IpmiSeqMax
      <4>1. CASE d = b
        BY <3>1, <3>2, <3>6, <4>1 DEF Window
      <4>2. CASE d # b /\ c # b
        BY <3>1, <3>2, <3>6, <4>2 DEF Window, IpmiSeqWindow
      <4>3. CASE d # b /\ c = b
        BY <3>1, <3>2, <3>6, <4>3
      <4>4. QED
        BY <4>1, <4>2, <4>3
    <3>7. QED
      BY <3>3, <3>4, <3>5, <3>6 DEF Window, IpmiSeqWindow
  <2>2. CASE \E c \in Calls : GenSession(c)
    BY <2>2 DEF GenSession, Window, IpmiSeqWindow
  <2>3. CASE \E c \in Calls : Enters(c)
    BY <2>3 DEF Enters, Window, IpmiSeqWindow
  <2>4. CASE UNCHANGED numberVars
    BY <2>4 DEF numberVars, Window, IpmiSeqWindow
  <2>5. QED
    BY <2>1, <2>2, <2>3, <2>4, NumberSteps
<1>3. Window => IpmiSeqWindow
  BY DEF Window
<1>4. QED
  BY <1>1, <1>2, <1>3, NumbersInvariant, PTL DEF LanSpec

-----------------------------------------------------------------------------
(* The packets of the session carry 1 .. sequence, each exactly once       *)
(* (types_session.go:389-390), for any number of concurrent callers.       *)
THEOREM SessionSequence == LanSpec => []SequenceGapFree
<1>1. LanInit => SequenceGapFree
  BY LanAssumption DEF LanInit, SequenceGapFree
<1>2. Numbers /\ SequenceGapFree /\ [LanNext]_allVars => SequenceGapFree'
  <2> SUFFICES ASSUME Numbers, SequenceGapFree, [LanNext]_allVars
               PROVE  SequenceGapFree'
    OBVIOUS
  <2> DEFINE sealed == {c \in Calls \ {ConnectCall} : stage[c] = "sealed"}
  <2> USE LanAssumption
  <2>1. CASE \E c \in Calls : GenSession(c)
    <3> PICK b \in Calls : GenSession(b)
      BY <2>1
    <3>1. /\ b # ConnectCall
          /\ stage[b] = "built"
          /\ sequence' = sequence + 1 /\ sequence \in Nat
          /\ seq'[b] = sequence + 1
          /\ \A c \in Calls \ {b} : seq'[c] = seq[c]
      BY DEF GenSession, Numbers
    <3>2. sealed' = sealed \cup {b} /\ b \notin sealed
      BY <3>1 DEF GenSession, Numbers
    <3>3. {seq[c] : c \in sealed} = 1..sequence
      BY DEF SequenceGapFree
    <3>4. {seq'[c] : c \in sealed'} = {seq[c] : c \in sealed} \cup {sequence + 1}
      BY <3>1, <3>2
    <3>5. \A c \in sealed : seq[c] \in 1..sequence
      BY <3>3
    <3>6. ASSUME NEW c \in sealed', NEW d \in sealed', seq'[c] = seq'[d]
          PROVE  c = d
      BY <3>1, <3>2, <3>5, <3>6 DEF SequenceGapFree
    <3>7. (1..sequence) \cup {sequence + 1} = 1..(sequence + 1)
      BY <3>1
    <3>8. QED
      BY <3>1, <3>3, <3>4, <3>6, <3>7 DEF SequenceGapFree
  <2>2. CASE \E c \in Calls : BuildIPMIRequest(c)
    <3>1. sealed' = sealed /\ seq' = seq /\ sequence' = sequence
      BY <2>2 DEF BuildIPMIRequest, Numbers
    <3>2. QED
      BY <3>1 DEF SequenceGapFree
  <2>3. CASE \E c \in Calls : Enters(c)
    <3>1. sealed' = sealed /\ seq' = seq /\ sequence' = sequence
      BY <2>3 DEF Enters, Numbers
    <3>2. QED
      BY <3>1 DEF SequenceGapFree
  <2>4. CASE UNCHANGED numberVars
    BY <2>4 DEF numberVars, SequenceGapFree
  <2>5. QED
    BY <2>1, <2>2, <2>3, <2>4, NumberSteps
<1>3. QED
  BY <1>1, <1>2, NumbersInvariant, PTL DEF LanSpec

-----------------------------------------------------------------------------
(* Seen from the transport, a step is one of UdpExchange, or the panic of a
   second Close, which touches nothing else there. *)
Panics ==
    /\ crashed' = TRUE
    /\ UNCHANGED <<connVars, callerVars, helperVars, netVars>>

LEMMA TransportSteps ==
    ASSUME [LanNext]_allVars
    PROVE  [Next]_vars \/ Panics
<1> USE DEF vars, connVars, callerVars, helperVars, netVars
<1>1. ASSUME NEW c \in Calls, Build(c) \/ UserCall(c) \/ Tick(c) PROVE UNCHANGED vars
  BY <1>1 DEF Build, BuildIPMIRequest, GenSession, UserCall, Tick
<1>2. ASSUME ~crashed, NEW c \in Calls, UdpStep(c) PROVE Next
  BY <1>2 DEF UdpStep, Next, Caller
<1>3. CASE TickReturns \/ KeepaliveStops
  BY <1>3 DEF TickReturns, KeepaliveStops
<1>4. ASSUME NEW k \in Closes, CloseLAN(k) PROVE UNCHANGED vars \/ Panics
  BY <1>4 DEF CloseLAN, Panics
<1>5. ASSUME ~crashed, NEW k \in Closes, CloseStep(k) PROVE [Next]_vars
  BY <1>5 DEF CloseStep, CloseFails, CloseUdp, CloseReturns, Next
<1>6. ASSUME ~crashed, Network PROVE Next
  BY <1>6 DEF Network, Next
<1>7. CASE UNCHANGED allVars
  BY <1>7 DEF allVars
<1>8. QED
  BY <1>1, <1>2, <1>3, <1>4, <1>5, <1>6, <1>7 DEF LanNext

\* The states of the goroutines that are not calls.
Goroutines == alive \in Ticks \cup {"wait", "stopped"} /\ closedCh \in BOOLEAN

Transport == Typed /\ Control /\ Written

LEMMA TransportInvariant == LanSpec => []Transport
<1>1. LanInit => Transport
  <2> SUFFICES ASSUME LanInit PROVE Transport
    OBVIOUS
  <2> USE CallsAssumption, LanAssumption DEF LanInit
  <2>1. Typed
    <3>1. inbox \in [Calls -> SUBSET Calls] /\ net \subseteq Calls \X Calls
      OBVIOUS
    <3>2. /\ sock \in [Calls -> {"none", "open", "closed"}]
          /\ st \in [Calls -> {"idle", "dial", "wait", "select", "done"}]
          /\ hst \in [Calls -> {"none", "write", "deadline", "read", "reading", "end"}]
          /\ wsock \in [Calls -> Calls \cup {None}]
          /\ hres \in [Calls -> Answers] /\ outcome \in [Calls -> Answers]
      BY DEF Answers
    <3>3. QED
      BY <3>1, <3>2 DEF Typed, TypeOK
  <2>2. Control
    BY DEF Control
  <2>3. Written
    BY DEF Written
  <2>4. QED
    BY <2>1, <2>2, <2>3 DEF Transport
<1>2. Transport /\ [LanNext]_allVars => Transport'
  <2> SUFFICES ASSUME Transport, [LanNext]_allVars PROVE Transport'
    OBVIOUS
  <2>1. CASE [Next]_vars
    BY <2>1, TypedStep, ControlStep, WrittenStep DEF Transport
  <2>2. CASE Panics
    BY <2>2 DEF Transport, Typed, TypeOK, Control, Written, Panics,
         connVars, callerVars, helperVars, netVars
  <2>3. QED
    BY <2>1, <2>2, TransportSteps
<1>3. QED
  BY <1>1, <1>2, PTL DEF LanSpec

LEMMA GoroutinesInvariant == LanSpec => []Goroutines
<1>1. LanInit => Goroutines
  BY DEF LanInit, Goroutines
<1>2. Goroutines /\ [LanNext]_allVars => Goroutines'
  BY DEF Goroutines, LanNext, allVars, lanVars, buildVars, Build, BuildIPMIRequest, GenSession,
     UserCall, Tick, UdpStep, TickReturns, KeepaliveStops, CloseLAN, CloseStep, CloseFails,
     CloseUdp, CloseReturns, Network
<1>3. QED
  BY <1>1, <1>2, PTL DEF LanSpec

(* The counters of the session keep their ranges, 1 .. IpmiSeqMax for the  *)
(* requester sequence (types_ipmi.go:158-168), and everything its type.    *)
THEOREM LanTypes == LanSpec => []LanTypeOK
<1>1. Transport /\ Numbers /\ Goroutines => LanTypeOK
  BY DEF Transport, Typed, Numbers, Goroutines, LanTypeOK
<1>2. QED
  BY <1>1, TransportInvariant, NumbersInvariant, GoroutinesInvariant, PTL

-----------------------------------------------------------------------------
(* What Exchange promises does not depend on who calls it: the panic of a second     *)
(* Close ends the program, and nothing before it does the transport any harm.  Each  *)
(* promise is kept by the steps of UdpExchange, and a panic leaves all it is about.  *)
LEMMA CustodyInLan == LanSpec => [](Custody /\ Own)
<1>1. LanInit => Custody /\ Own
  BY CallsAssumption, LanAssumption DEF LanInit, Custody, Own
<1>2. Transport /\ Custody /\ Own /\ [LanNext]_allVars => (Custody /\ Own)'
  <2> SUFFICES ASSUME Transport, Custody, Own, [LanNext]_allVars PROVE (Custody /\ Own)'
    OBVIOUS
  <2>1. CASE [Next]_vars
    BY <2>1, CustodyStep, OwnStep DEF Transport
  <2>2. CASE Panics
    BY <2>2 DEF Custody, Own, SomeFailure, InProgress, Panics,
         connVars, callerVars, helperVars, netVars
  <2>3. QED
    BY <2>1, <2>2, TransportSteps
<1>3. QED
  BY <1>1, <1>2, TransportInvariant, PTL DEF LanSpec

(* User calls, keep-alive ticks and Closes never have two operations in progress on  *)
(* the socket (udpclient.go:28-29, interface_lan.go:146).                            *)
THEOREM LanIsSerial == LanSpec => []OneInProgress
<1>1. Transport => OneInProgress
  BY SerialWhileTyped, LanAssumption DEF Transport
<1>2. QED
  BY <1>1, TransportInvariant, PTL

(* Up to the first failure each of them gets its own answer (udpclient.go:156).      *)
THEOREM LanAnswersAreOwn == LanSpec => []OwnAnswerUntilFailure
<1>1. Transport /\ Custody /\ Own => OwnAnswerUntilFailure
  BY OwnSuffices DEF Transport
<1>2. QED
  BY <1>1, TransportInvariant, CustodyInLan, PTL

(* What types_ipmi.go:53 says of the requester sequence is so up to the first        *)
(* failure, on a network that does not duplicate; after it, it is not.               *)
THEOREM MatchUntilFailure ==
    LanSpec => [](~Duplicates /\ ~SomeFailure => ResponseMatchesRequest)
<1>1. OwnAnswerUntilFailure => (~Duplicates /\ ~SomeFailure => ResponseMatchesRequest)
  BY CallsAssumption DEF OwnAnswerUntilFailure, ResponseMatchesRequest
<1>2. QED
  BY <1>1, LanAnswersAreOwn, PTL

(* The reads of the session lag behind by no more answers than calls have failed.    *)
THEOREM LanLagIsBounded ==
    ASSUME IsFiniteSet(Calls) PROVE LanSpec => []LagBounded
<1>1. Transport /\ Custody => LagBounded
  BY LagCounted DEF Transport
<1>2. QED
  BY <1>1, TransportInvariant, CustodyInLan, PTL

(* Every step of a connected client is a step of the serial query service or         *)
(* invisible to it: building, ticking, Close and its panic included.  The service    *)
(* has served the last call of Connect already, so only its steps are compared.      *)
THEOREM LanStepsAreQueries == LanSpec => [][SQ!Next]_SQ!vars
<1>1. Transport /\ Custody /\ [LanNext]_allVars => [SQ!Next]_SQ!vars
  <2> SUFFICES ASSUME Transport, Custody, [LanNext]_allVars PROVE [SQ!Next]_SQ!vars
    OBVIOUS
  <2>1. CASE [Next]_vars
    BY <2>1, QueryStep, LanAssumption DEF Transport
  <2>2. CASE Panics
    BY <2>2 DEF Panics, connVars, callerVars, helperVars, netVars, SQ!vars
  <2>3. QED
    BY <2>1, <2>2, TransportSteps
<1>2. QED
  BY <1>1, TransportInvariant, CustodyInLan, PTL DEF LanSpec

-----------------------------------------------------------------------------
\* Until a Close gets as far as the socket, there is one, and it is open; and it
\* gets there with the answer of its Close Session.
Reached(k) == cl[k] \in {"udp", "ok"}
SocketHeld ==
    /\ (\A k \in Closes : ~Reached(k)) => conn \in Calls /\ sock[conn] = "open"
    /\ closing => \E k \in Closes : Reached(k)
    /\ \A k \in Closes : Reached(k) => outcome[k] \in Calls
    /\ DiesOnlyUnderClose

LEMMA SocketHeldStep ==
    Transport /\ Numbers /\ SocketHeld /\ [LanNext]_allVars => SocketHeld'
<1> SUFFICES ASSUME Transport, Numbers, SocketHeld, [LanNext]_allVars PROVE SocketHeld'
  OBVIOUS
<1> USE CallsAssumption, LanAssumption
    DEF SocketHeld, Reached, DiesOnlyUnderClose, connVars, callerVars, helperVars, netVars
<1>1. /\ conn \in Calls \cup {None} /\ sock \in [Calls -> {"none", "open", "closed"}]
      /\ outcome \in [Calls -> Answers]
      /\ cl \in [Closes -> {"idle", "session", "udp", "ok", "failed", "panic"}]
      /\ \A c \in Calls : outcome[c] \in Calls => st[c] = "done"
  BY DEF Transport, Typed, TypeOK, Control, Written, Numbers
<1>2. ASSUME UNCHANGED <<conn, sock, closing, crashed, cl>>,
             \A k \in Closes : Reached(k) => outcome'[k] = outcome[k]
      PROVE  SocketHeld'
  BY <1>2
<1>3. CASE \E c \in Calls : Build(c) \/ UserCall(c) \/ Tick(c)
  BY <1>2, <1>3 DEF Build, BuildIPMIRequest, GenSession, UserCall, Tick, vars
<1>4. CASE TickReturns \/ KeepaliveStops
  BY <1>2, <1>4 DEF TickReturns, KeepaliveStops, vars
<1>5. ASSUME NEW c \in Calls, UdpStep(c) PROVE SocketHeld'
  <2>1. cl' = cl
    BY <1>5 DEF UdpStep, lanVars
  <2>2. CASE Start(c) \/ Acquire(c) \/ WriteFail(c) \/ SetReadDeadline(c) \/ Read(c)
              \/ Receive(c) \/ ReadFail(c)
    BY <1>2, <2>1, <2>2 DEF Start, Acquire, WriteFail, SetReadDeadline, Read, Receive, ReadFail
  <2>3. CASE DialFail(c) \/ Return(c)
    <3>1. st[c] # "done" /\ \A d \in Calls \ {c} : outcome'[d] = outcome[d]
      BY <1>1, <2>3 DEF DialFail, Return
    <3>2. \A k \in Closes : Reached(k) => k # c
      BY <1>1, <3>1
    <3>3. UNCHANGED <<conn, sock, closing, crashed>>
      BY <2>3 DEF DialFail, Return
    <3>4. QED
      BY <1>2, <2>1, <3>1, <3>2, <3>3
  <2>4. CASE Dial(c)
    BY <1>1, <2>1, <2>4 DEF Dial
  <2>5. CASE NilConn(c)
    BY <1>1, <2>1, <2>5 DEF NilConn
  <2>6. CASE Write(c)
    BY <1>1, <2>1, <2>6 DEF Write
  <2>7. QED
    BY <1>5, <2>2, <2>3, <2>4, <2>5, <2>6 DEF UdpStep, Helper
<1>6. ASSUME NEW k \in Closes, CloseLAN(k) PROVE SocketHeld'
  BY <1>1, <1>6 DEF CloseLAN
<1>7. ASSUME NEW k \in Closes, CloseFails(k) PROVE SocketHeld'
  BY <1>1, <1>7 DEF CloseFails, vars
<1>8. ASSUME NEW k \in Closes, CloseUdp(k) PROVE SocketHeld'
  BY <1>1, <1>8 DEF CloseUdp, CloseSocket
<1>9. ASSUME NEW k \in Closes, CloseReturns(k) PROVE SocketHeld'
  BY <1>1, <1>9 DEF CloseReturns, ClearConn
<1>10. CASE Network
  BY <1>2, <1>10 DEF Network, Reply, Lose, Duplicate, lanVars
<1>11. CASE UNCHANGED allVars
  BY <1>2, <1>11 DEF allVars, vars, lanVars
<1>12. QED
  BY <1>3, <1>4, <1>5, <1>6, <1>7, <1>8, <1>9, <1>10, <1>11 DEF LanNext, CloseStep

LEMMA SocketHeldInvariant == LanSpec => []SocketHeld
<1>1. LanInit => SocketHeld
  BY CallsAssumption, LanAssumption DEF LanInit, SocketHeld, Reached, DiesOnlyUnderClose
<1>2. QED
  BY <1>1, SocketHeldStep, TransportInvariant, NumbersInvariant, PTL DEF LanSpec

(* No interleaving of calls, ticks and Closes meets a nil conn before a    *)
(* Close has got as far as the socket (udpclient.go:140-156,               *)
(* interface_lan.go:314, 330).                                             *)
THEOREM DeathsNeedClose == LanSpec => []DiesOnlyUnderClose
<1>1. SocketHeld => DiesOnlyUnderClose
  BY DEF SocketHeld
<1>2. QED
  BY <1>1, SocketHeldInvariant, PTL

(* The socket is closed only with an answer to Close Session in hand, its  *)
(* own until something fails, and by a Close that succeeds alone           *)
(* (interface_lan.go:326-332).                                             *)
THEOREM SocketsOutliveSessions == LanSpec => []SocketOutlivesSession
<1>1. Transport /\ SocketHeld /\ OwnAnswerUntilFailure => SocketOutlivesSession
  <2> SUFFICES ASSUME Transport, SocketHeld, OwnAnswerUntilFailure, NEW k \in Closes
               PROVE  /\ cl[k] \in {"udp", "ok"} =>
                             /\ wsock[k] # None
                             /\ outcome[k] \in Calls
                             /\ wsock[outcome[k]] # None
                             /\ ~Duplicates /\ ~SomeFailure => outcome[k] = k
                      /\ cl[k] = "failed" /\ (\A j \in Closes : cl[j] \in {"idle", "failed"})
                             => conn # None /\ sock[conn] = "open"
    BY DEF SocketOutlivesSession
  <2>1. k \in Calls
    BY LanAssumption
  <2>2. CASE cl[k] \in {"udp", "ok"}
    <3>1. outcome[k] \in Calls
      BY <2>2 DEF SocketHeld, Reached
    <3>2. hres[k] = outcome[k]
      BY <2>1, <3>1 DEF Transport, Control
    <3>3. wsock[k] # None /\ wsock[outcome[k]] # None
      BY <2>1, <3>1, <3>2 DEF Transport, Written
    <3>4. ~Duplicates /\ ~SomeFailure => outcome[k] = k
      BY <2>1, <3>1, CallsAssumption DEF OwnAnswerUntilFailure
    <3>5. QED
      BY <2>2, <3>1, <3>3, <3>4
  <2>3. CASE cl[k] \notin {"udp", "ok"}
    BY <2>3, CallsAssumption DEF SocketHeld, Reached
  <2>4. QED
    BY <2>2, <2>3
<1>2. QED
  BY <1>1, SocketHeldInvariant, TransportInvariant, LanAnswersAreOwn, PTL
=============================================================================
