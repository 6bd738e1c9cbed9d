----------------------------- MODULE LanClient -----------------------------
(***************************************************************************)
(* A connected client (client.go, interface_lan.go): user goroutines that  *)
(* call Exchange, the keep-alive goroutine of interface_lan.go:338-355 and *)
(* Client.Close, over one UDPClient (module UdpExchange).                  *)
(*                                                                         *)
(* A call is first built: BuildIPMIRequest and genSession20 (genSession15) *)
(* each take the client's mutex and release it, so each is one action;     *)
(* then it goes through UDPClient.Exchange, which has a lock of its own.   *)
(* The session is active throughout: what happens before is the subject of *)
(* RmcpPlusSession.                                                        *)
(***************************************************************************)
EXTENDS UdpExchange

CONSTANTS Users,        \* calls made by user goroutines, each one by its own
          Ticks,        \* calls made by the keep-alive goroutine, in any order
          Closes,       \* the Close Session calls, one for each Client.Close
          ConnectCall,  \* the last call of Connect, which has returned
          IpmiSeqMax    \* IPMIRequesterSequenceMax

ASSUME LanAssumption ==
    /\ Calls = Users \cup Ticks \cup Closes \cup {ConnectCall}
    /\ ConnectCall \notin Users \cup Ticks \cup Closes
    /\ Users \cap (Ticks \cup Closes) = {} /\ Ticks \cap Closes = {}
    /\ Cancellable = {}     \* interface_lan.go:146 uses context.Background()
    /\ ConcurrentClose      \* nothing makes Client.Close wait
    /\ IpmiSeqMax \in Nat \ {0}

VARIABLES stage,     \* [Calls -> how far the request is built]
          ipmiSeq,   \* session.ipmiSeq, the next number to use
          ipmi,      \* [Calls -> RequesterSequence of the request, 0 before]
          sequence,  \* session.v20.sequence, the last number used
          seq,       \* [Calls -> session sequence of the packet, 0 before]
          builds,    \* how many requests were built
          serial,    \* [Calls -> which of them the request is, 0 before]
          alive,     \* the keep-alive goroutine: "wait", a tick, or "stopped"
          closedCh,  \* closedCh is closed
          cl         \* [Closes -> where Client.Close is]

lanVars   == <<stage, ipmiSeq, ipmi, sequence, seq, builds, serial, alive, closedCh, cl>>
buildVars == <<stage, ipmiSeq, ipmi, sequence, seq, builds, serial>>
allVars   == <<vars, lanVars>>

\* Connect has just returned nil: it used the socket and started the keep-alive.
LanInit ==
    /\ conn = ConnectCall
    /\ sock = [c \in Calls |-> IF c = ConnectCall THEN "open" ELSE "none"]
    /\ lock = None
    /\ st = [c \in Calls |-> IF c = ConnectCall THEN "done" ELSE "idle"]
    /\ hst = [c \in Calls |-> IF c = ConnectCall THEN "end" ELSE "none"]
    /\ rsock = [c \in Calls |-> None]
    /\ wsock = [c \in Calls |-> IF c = ConnectCall THEN c ELSE None]
    /\ hres = [c \in Calls |-> IF c = ConnectCall THEN c ELSE None]
    /\ outcome = [c \in Calls |-> IF c = ConnectCall THEN c ELSE None]
    /\ net = {}
    /\ inbox = [c \in Calls |-> {}]
    /\ closing = FALSE
    /\ crashed = FALSE
    /\ stage = [c \in Calls |-> IF c = ConnectCall THEN "sealed" ELSE "off"]
    /\ ipmiSeq = 1
    /\ ipmi = [c \in Calls |-> 0]
    /\ sequence = 0
    /\ seq = [c \in Calls |-> 0]
    /\ builds = 0
    /\ serial = [c \in Calls |-> 0]
    /\ alive = "wait"
    /\ closedCh = FALSE
    /\ cl = [k \in Closes |-> "idle"]

-----------------------------------------------------------------------------
(* Building a request.                                                     *)

\* Wrong on purpose: the number is compared before it is incremented.
BuildWrapsLate(c) ==
    /\ stage[c] = "new"
    /\ ipmi' = [ipmi EXCEPT ![c] = ipmiSeq]
    /\ ipmiSeq' = IF ipmiSeq > IpmiSeqMax THEN 1 ELSE ipmiSeq + 1
    /\ builds' = builds + 1
    /\ serial' = [serial EXCEPT ![c] = builds + 1]
    /\ stage' = [stage EXCEPT ![c] = "built"]
    /\ UNCHANGED <<sequence, seq, alive, closedCh, cl, vars>>

\* Wrong on purpose: the maximum is never used.
BuildWrapsEarly(c) ==
    /\ stage[c] = "new"
    /\ ipmi' = [ipmi EXCEPT ![c] = ipmiSeq]
    /\ ipmiSeq' = IF ipmiSeq + 1 >= IpmiSeqMax THEN 1 ELSE ipmiSeq + 1
    /\ builds' = builds + 1
    /\ serial' = [serial EXCEPT ![c] = builds + 1]
    /\ stage' = [stage EXCEPT ![c] = "built"]
    /\ UNCHANGED <<sequence, seq, alive, closedCh, cl, vars>>

\* BuildIPMIRequest, under the client's mutex.
BuildIPMIRequest(c) ==
    /\ stage[c] = "new"
    /\ ipmi' = [ipmi EXCEPT ![c] = ipmiSeq]
    /\ ipmiSeq' = IF ipmiSeq + 1 > IpmiSeqMax THEN 1 ELSE ipmiSeq + 1
    /\ builds' = builds + 1
    /\ serial' = [serial EXCEPT ![c] = builds + 1]
    /\ stage' = [stage EXCEPT ![c] = "built"]
    /\ UNCHANGED <<sequence, seq, alive, closedCh, cl, vars>>

\* Wrong on purpose: the number is used before it is incremented.
GenSessionStale(c) ==
    /\ stage[c] = "built"
    /\ sequence' = sequence + 1
    /\ seq' = [seq EXCEPT ![c] = sequence]
    /\ stage' = [stage EXCEPT ![c] = "sealed"]
    /\ UNCHANGED <<ipmiSeq, ipmi, builds, serial, alive, closedCh, cl, vars>>

\* genSession20, under the client's mutex, taken a second time.
GenSession(c) ==
    /\ stage[c] = "built"
    /\ sequence' = sequence + 1
    /\ seq' = [seq EXCEPT ![c] = sequence + 1]
    /\ stage' = [stage EXCEPT ![c] = "sealed"]
    /\ UNCHANGED <<ipmiSeq, ipmi, builds, serial, alive, closedCh, cl, vars>>

\* A user goroutine calls Client.Exchange.
UserCall(c) ==
    /\ c \in Users
    /\ stage[c] = "off"
    /\ stage' = [stage EXCEPT ![c] = "new"]
    /\ UNCHANGED <<ipmiSeq, ipmi, sequence, seq, builds, serial, alive, closedCh, cl, vars>>

-----------------------------------------------------------------------------
(* The keep-alive goroutine.  Its select picks either branch when both are *)
(* ready, so a tick may still be taken after closedCh was closed.          *)

Tick(c) ==
    /\ c \in Ticks
    /\ alive = "wait"
    /\ stage[c] = "off"
    /\ alive' = c
    /\ stage' = [stage EXCEPT ![c] = "new"]
    /\ UNCHANGED <<ipmiSeq, ipmi, sequence, seq, builds, serial, closedCh, cl, vars>>

\* Wrong on purpose: after an error the goroutine does not go on.
TickSucceeds ==
    /\ alive \in Ticks
    /\ outcome[alive] \in Calls
    /\ alive' = "wait"
    /\ UNCHANGED <<buildVars, closedCh, cl, vars>>

\* GetCurrentSessionInfo returns; an error is only logged.
TickReturns ==
    /\ alive \in Ticks
    /\ st[alive] = "done"
    /\ alive' = "wait"
    /\ UNCHANGED <<buildVars, closedCh, cl, vars>>

KeepaliveStops ==
    /\ alive = "wait"
    /\ closedCh
    /\ alive' = "stopped"
    /\ UNCHANGED <<buildVars, closedCh, cl, vars>>

-----------------------------------------------------------------------------
(* Client.Close (closeLAN).                                                *)

\* close(closedCh); a second one panics.
CloseLAN(k) ==
    /\ k \in Closes
    /\ cl[k] = "idle"
    /\ IF closedCh
       THEN /\ crashed' = TRUE
            /\ cl' = [cl EXCEPT ![k] = "panic"]
            /\ UNCHANGED <<closedCh, stage>>
       ELSE /\ closedCh' = TRUE
            /\ cl' = [cl EXCEPT ![k] = "session"]
            /\ stage' = [stage EXCEPT ![k] = "new"]
            /\ UNCHANGED crashed
    /\ UNCHANGED <<ipmiSeq, ipmi, sequence, seq, builds, serial, alive,
                   connVars, callerVars, helperVars, netVars>>

\* Wrong on purpose: conn is cleared although CloseSession failed.
CloseFailsClears(k) ==
    /\ k \in Closes
    /\ cl[k] = "session"
    /\ st[k] = "done"
    /\ cl' = [cl EXCEPT ![k] = "failed"]
    /\ conn' = None
    /\ UNCHANGED <<buildVars, alive, closedCh, sock, closing, callerVars,
                   helperVars, netVars, crashed>>

\* Wrong on purpose: an error of the exchange is waited out.
CloseFailsOnCode(k) ==
    /\ k \in Closes
    /\ cl[k] = "session"
    /\ outcome[k] \in Calls
    /\ cl' = [cl EXCEPT ![k] = "failed"]
    /\ UNCHANGED <<buildVars, alive, closedCh, vars>>

\* CloseSession failed, in the exchange or with a completion code: Close
\* returns the error and leaves the socket alone.
CloseFails(k) ==
    /\ k \in Closes
    /\ cl[k] = "session"
    /\ st[k] = "done"
    /\ cl' = [cl EXCEPT ![k] = "failed"]
    /\ UNCHANGED <<buildVars, alive, closedCh, vars>>

\* Wrong on purpose: the error of CloseSession is ignored.
CloseUdpIgnoresError(k) ==
    /\ k \in Closes
    /\ cl[k] = "session"
    /\ st[k] = "done"
    /\ CloseSocket
    /\ cl' = [cl EXCEPT ![k] = "udp"]
    /\ UNCHANGED <<buildVars, alive, closedCh>>

\* CloseSession returned nil; udpClient.Close closes the socket.  conn is
\* not nil here: only a Close clears it, and a second Close has panicked.
CloseUdp(k) ==
    /\ k \in Closes
    /\ cl[k] = "session"
    /\ outcome[k] \in Calls
    /\ CloseSocket
    /\ cl' = [cl EXCEPT ![k] = "udp"]
    /\ UNCHANGED <<buildVars, alive, closedCh>>

\* conn = nil, and Close returns nil.
CloseReturns(k) ==
    /\ k \in Closes
    /\ cl[k] = "udp"
    /\ ClearConn
    /\ cl' = [cl EXCEPT ![k] = "ok"]
    /\ UNCHANGED <<buildVars, alive, closedCh>>

-----------------------------------------------------------------------------
(* The steps of UDPClient.Exchange, for requests that are built.           *)

UdpStep(c) ==
    /\ stage[c] = "sealed"
    /\ \/ Start(c) \/ Dial(c) \/ DialFail(c) \/ Acquire(c) \/ Return(c)
       \/ Helper(c)
    /\ UNCHANGED lanVars

Network == (Reply \/ Lose \/ Duplicate) /\ UNCHANGED lanVars

Build(c) == BuildIPMIRequest(c) \/ GenSession(c)

CloseStep(k) == CloseFails(k) \/ CloseUdp(k) \/ CloseReturns(k)

LanNext ==
    /\ ~crashed
    /\ \/ \E c \in Calls : Build(c) \/ UserCall(c) \/ Tick(c) \/ UdpStep(c)
       \/ TickReturns \/ KeepaliveStops
       \/ \E k \in Closes : CloseLAN(k) \/ CloseStep(k)
       \/ Network

LanSpec == LanInit /\ [][LanNext]_allVars

(* As in UdpExchange, plus: a call that was begun is built, a Close that   *)
(* was begun goes on.  Go's select chooses among ready branches at random, *)
(* so the branch of closedCh is taken eventually even if the ticker fires  *)
(* each time: strong fairness of KeepaliveStops.                           *)
LanFairness ==
    /\ \A c \in Calls :
          /\ WF_allVars(~crashed /\ Build(c))
          /\ WF_allVars(~crashed /\ UdpStep(c))
          /\ SF_allVars(~crashed /\ Acquire(c) /\ UdpStep(c))
    /\ \A k \in Closes : WF_allVars(~crashed /\ CloseStep(k))
    /\ WF_allVars(~crashed /\ TickReturns)
    /\ SF_allVars(~crashed /\ KeepaliveStops)

LanFairSpec == LanSpec /\ LanFairness

-----------------------------------------------------------------------------
(* The types of the session's counters (types_ipmi.go:158-168: the         *)
(* requester sequence is 1..0x3f, never 0) and of the goroutines' states.  *)
LanTypeOK ==
    /\ TypeOK
    /\ stage \in [Calls -> {"off", "new", "built", "sealed"}]
    /\ ipmiSeq \in 1..IpmiSeqMax
    /\ ipmi \in [Calls -> 0..IpmiSeqMax]
    /\ sequence \in Nat
    /\ seq \in [Calls -> Nat]
    /\ builds \in Nat
    /\ serial \in [Calls -> Nat]
    /\ alive \in Ticks \cup {"wait", "stopped"}
    /\ closedCh \in BOOLEAN
    /\ cl \in [Closes -> {"idle", "session", "udp", "ok", "failed", "panic"}]

(* The packets of a session carry each of its sequence numbers exactly     *)
(* once (types_session.go:389-390), whoever builds them: user goroutines,  *)
(* keep-alive and Close, which interleave between the two critical         *)
(* sections of BuildRmcpRequest.                                           *)
SequenceGapFree ==
    LET sealed == {c \in Calls \ {ConnectCall} : stage[c] = "sealed"}
    IN  /\ {seq[c] : c \in sealed} = 1..sequence
        /\ \A c, d \in sealed : seq[c] = seq[d] => c = d

(* The 6-bit requester sequence (types_ipmi.go:158-168) wraps from its     *)
(* maximum to 1, and tells any IpmiSeqMax consecutive requests apart.      *)
IpmiSeqWindow ==
    \A c, d \in Calls :
        0 < serial[c] /\ serial[c] < serial[d] /\ ipmi[c] = ipmi[d]
            => serial[d] - serial[c] >= IpmiSeqMax

(* The client dies only of a Close that got as far as the socket           *)
(* (udpclient.go:140-156, interface_lan.go:330) or of a second Close       *)
(* (interface_lan.go:314): before, and after a Close that failed, no       *)
(* interleaving of user, keep-alive and Close calls meets a nil conn.      *)
DiesOnlyUnderClose ==
    crashed => \E k \in Closes : cl[k] \in {"udp", "ok", "panic"}

(* The socket is closed only after Close Session was written and its       *)
(* exchange answered (interface_lan.go:326-332): by its own answer, or,    *)
(* once an exchange has failed, by that of some request written before.  A *)
(* Close that timed out leaves conn open.                                  *)
SocketOutlivesSession ==
    \A k \in Closes :
        /\ cl[k] \in {"udp", "ok"} =>
               /\ wsock[k] # None
               /\ outcome[k] \in Calls
               /\ wsock[outcome[k]] # None
               /\ ~Duplicates /\ ~SomeFailure => outcome[k] = k
        /\ cl[k] = "failed" /\ (\A j \in Closes : cl[j] \in {"idle", "failed"})
               => conn # None /\ sock[conn] = "open"

(* types_ipmi.go:53: "Sequence number. This field is used to verify that a *)
(* response is for a particular instance of a request."                    *)
ResponseMatchesRequest ==
    \A c \in Calls : outcome[c] \in Calls => ipmi[outcome[c]] = ipmi[c]

(* After closedCh is closed the keep-alive goroutine ends                  *)
(* (interface_lan.go:350-352), whether or not its last exchange succeeds.  *)
KeepaliveEnds == closedCh ~> alive = "stopped" \/ crashed

(* Client.Close returns, with or without an error, however many calls are  *)
(* before it at the lock (interface_lan.go:312-335).                       *)
CloseEnds ==
    \A k \in Closes : cl[k] = "session" ~> cl[k] \in {"ok", "failed"} \/ crashed
=============================================================================
