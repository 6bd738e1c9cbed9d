---------------------------- MODULE UdpExchange ----------------------------
(***************************************************************************)
(* UDPClient (udpclient.go): one UDP socket shared by every goroutine that *)
(* talks to the BMC.                                                       *)
(*                                                                         *)
(* An element of Calls is one invocation of Exchange, made by whatever     *)
(* goroutine; calls may overlap.  A call runs in two goroutines: the one   *)
(* that called Exchange (st) and the helper that it spawns for the I/O     *)
(* (hst).  A socket is named by the call that dialled it.                  *)
(*                                                                         *)
(* Field conn is read without the lock by initConn and Close, and read     *)
(* again by each of the three I/O steps of the helper, as in the code.     *)
(***************************************************************************)
EXTENDS Naturals, FiniteSets

CONSTANTS Calls,            \* invocations of Exchange
          None, Err,        \* "no call", "ended with an error"
          Cancellable,      \* the calls whose context may be cancelled
          Duplicates,       \* whether the network may duplicate a datagram
          ConcurrentClose   \* whether Close may run while calls are running

ASSUME CallsAssumption ==
    /\ None \notin Calls
    /\ Err \notin Calls \cup {None}
    /\ Cancellable \subseteq Calls
    /\ Duplicates \in BOOLEAN
    /\ ConcurrentClose \in BOOLEAN

VARIABLES conn,     \* UDPClient.conn: a socket or None (nil)
          sock,     \* [Calls -> state of the socket the call dialled]
          lock,     \* UDPClient.lock: the call that holds it, or None
          st,       \* [Calls -> where the calling goroutine is]
          hst,      \* [Calls -> where the helper goroutine is]
          rsock,    \* [Calls -> socket the helper is blocked reading, or None]
          wsock,    \* [Calls -> socket the request was written to, or None]
          hres,     \* [Calls -> what the helper puts on doneChan/recvChan]
          outcome,  \* [Calls -> what Exchange returned, None before]
          net,      \* requests and socket they came from, not yet answered
          inbox,    \* [Calls -> replies in the receive buffer of the socket]
          closing,  \* Close has closed the socket and not yet cleared conn
          crashed   \* the program died of a nil pointer dereference

connVars   == <<conn, sock, closing>>
callerVars == <<lock, st, outcome>>
helperVars == <<hst, rsock, wsock, hres>>
netVars    == <<net, inbox>>
vars == <<conn, sock, lock, st, hst, rsock, wsock, hres, outcome, net, inbox,
          closing, crashed>>

Answers == Calls \cup {None, Err}

Init ==
    /\ conn = None
    /\ sock = [c \in Calls |-> "none"]
    /\ lock = None
    /\ st = [c \in Calls |-> "idle"]
    /\ hst = [c \in Calls |-> "none"]
    /\ rsock = [c \in Calls |-> None]
    /\ wsock = [c \in Calls |-> None]
    /\ hres = [c \in Calls |-> None]
    /\ outcome = [c \in Calls |-> None]
    /\ net = {}
    /\ inbox = [c \in Calls |-> {}]
    /\ closing = FALSE
    /\ crashed = FALSE

-----------------------------------------------------------------------------
(* The calling goroutine.                                                  *)

\* No call is between its start and its end and no helper is alive.
Quiet == \A c \in Calls : st[c] \in {"idle", "done"} /\ hst[c] \in {"none", "end"}

\* Wrong on purpose: initConn dials once and never looks at conn again.
DialsOnce(c) ==
    /\ st[c] = "idle"
    /\ ConcurrentClose \/ ~closing
    /\ st' = [st EXCEPT ![c] = IF \A d \in Calls : sock[d] = "none" THEN "dial" ELSE "wait"]
    /\ UNCHANGED <<lock, outcome, connVars, helperVars, netVars, crashed>>

\* Exchange is called; initConn looks at conn, without the lock.
Start(c) ==
    /\ st[c] = "idle"
    /\ ConcurrentClose \/ ~closing
    /\ st' = [st EXCEPT ![c] = IF conn = None THEN "dial" ELSE "wait"]
    /\ UNCHANGED <<lock, outcome, connVars, helperVars, netVars, crashed>>

\* initConn dials and assigns conn, still without the lock.
Dial(c) ==
    /\ st[c] = "dial"
    /\ sock' = [sock EXCEPT ![c] = "open"]
    /\ conn' = c
    /\ st' = [st EXCEPT ![c] = "wait"]
    /\ UNCHANGED <<lock, outcome, closing, helperVars, netVars, crashed>>

\* initConn fails (resolve, proxy or dial error): Exchange returns the error.
DialFail(c) ==
    /\ st[c] = "dial"
    /\ st' = [st EXCEPT ![c] = "done"]
    /\ outcome' = [outcome EXCEPT ![c] = Err]
    /\ UNCHANGED <<lock, connVars, helperVars, netVars, crashed>>

\* Wrong on purpose: Exchange does not take the lock.
AcquireUnlocked(c) ==
    /\ st[c] = "wait"
    /\ lock' = c
    /\ st' = [st EXCEPT ![c] = "select"]
    /\ hst' = [hst EXCEPT ![c] = "write"]
    /\ UNCHANGED <<outcome, connVars, rsock, wsock, hres, netVars, crashed>>

\* Exchange takes the lock, spawns the helper and waits in the select.
Acquire(c) ==
    /\ st[c] = "wait"
    /\ lock = None
    /\ lock' = c
    /\ st' = [st EXCEPT ![c] = "select"]
    /\ hst' = [hst EXCEPT ![c] = "write"]
    /\ UNCHANGED <<outcome, connVars, rsock, wsock, hres, netVars, crashed>>

\* Wrong on purpose: the value of doneChan is returned, not that of recvChan.
ReturnDone(c) ==
    /\ st[c] = "select"
    /\ hst[c] = "end"
    /\ st' = [st EXCEPT ![c] = "done"]
    /\ outcome' = [outcome EXCEPT ![c] = hst[c]]
    /\ lock' = None
    /\ UNCHANGED <<connVars, helperVars, netVars, crashed>>

\* The select receives from doneChan (and recvChan); the lock is released.
Return(c) ==
    /\ st[c] = "select"
    /\ hst[c] = "end"
    /\ st' = [st EXCEPT ![c] = "done"]
    /\ outcome' = [outcome EXCEPT ![c] = hres[c]]
    /\ lock' = None
    /\ UNCHANGED <<connVars, helperVars, netVars, crashed>>

\* Wrong on purpose: this return forgets to unlock.
CancelKeepsLock(c) ==
    /\ c \in Cancellable
    /\ st[c] = "select"
    /\ st' = [st EXCEPT ![c] = "done"]
    /\ outcome' = [outcome EXCEPT ![c] = Err]
    /\ UNCHANGED <<lock, connVars, helperVars, netVars, crashed>>

\* The select sees the context cancelled: the lock is released, the helper
\* is left running.
Cancel(c) ==
    /\ c \in Cancellable
    /\ st[c] = "select"
    /\ st' = [st EXCEPT ![c] = "done"]
    /\ outcome' = [outcome EXCEPT ![c] = Err]
    /\ lock' = None
    /\ UNCHANGED <<connVars, helperVars, netVars, crashed>>

-----------------------------------------------------------------------------
(* The helper goroutine.                                                   *)

\* The helper ends with v on its channels (both have capacity 1).
HelperEnds(c, v) ==
    /\ hst' = [hst EXCEPT ![c] = "end"]
    /\ hres' = [hres EXCEPT ![c] = v]
    /\ rsock' = [rsock EXCEPT ![c] = None]

\* A method is called on the nil conn: the whole program dies.
NilConn(c) ==
    /\ hst[c] \in {"write", "deadline", "read"}
    /\ conn = None
    /\ crashed' = TRUE
    /\ UNCHANGED <<connVars, callerVars, helperVars, netVars>>

\* io.Copy(c.conn, reader): the request goes out on the current socket.
Write(c) ==
    /\ hst[c] = "write"
    /\ conn # None
    /\ sock[conn] = "open"
    /\ hst' = [hst EXCEPT ![c] = "deadline"]
    /\ wsock' = [wsock EXCEPT ![c] = conn]
    /\ net' = net \cup {<<c, conn>>}
    /\ UNCHANGED <<rsock, hres, inbox, connVars, callerVars, crashed>>

\* The write fails: closed socket, or an ICMP error met by the kernel.
WriteFail(c) ==
    /\ hst[c] = "write"
    /\ conn # None
    /\ HelperEnds(c, Err)
    /\ UNCHANGED <<wsock, connVars, callerVars, netVars, crashed>>

\* SetReadDeadline on the current socket; it fails on a closed one.
SetReadDeadline(c) ==
    /\ hst[c] = "deadline"
    /\ conn # None
    /\ IF sock[conn] = "open"
       THEN /\ hst' = [hst EXCEPT ![c] = "read"]
            /\ UNCHANGED <<rsock, hres>>
       ELSE HelperEnds(c, Err)
    /\ UNCHANGED <<wsock, connVars, callerVars, netVars, crashed>>

\* Read is called on the current socket and blocks.
Read(c) ==
    /\ hst[c] = "read"
    /\ conn # None
    /\ hst' = [hst EXCEPT ![c] = "reading"]
    /\ rsock' = [rsock EXCEPT ![c] = conn]
    /\ UNCHANGED <<wsock, hres, connVars, callerVars, netVars, crashed>>

\* Wrong on purpose: the datagram is looked at and stays in the buffer.
ReceivePeeks(c) ==
    /\ hst[c] = "reading"
    /\ sock[rsock[c]] = "open"
    /\ \E d \in inbox[rsock[c]] : HelperEnds(c, d)
    /\ UNCHANGED <<wsock, net, inbox, connVars, callerVars, crashed>>

\* Read returns a datagram: whichever is in the buffer, nobody looks at it.
Receive(c) ==
    /\ hst[c] = "reading"
    /\ sock[rsock[c]] = "open"
    /\ \E d \in inbox[rsock[c]] :
          /\ inbox' = [inbox EXCEPT ![rsock[c]] = @ \ {d}]
          /\ HelperEnds(c, d)
    /\ UNCHANGED <<wsock, net, connVars, callerVars, crashed>>

\* Wrong on purpose: there is no deadline, only Close ends a Read.
ReadFailClosed(c) ==
    /\ hst[c] = "reading"
    /\ sock[rsock[c]] = "closed"
    /\ HelperEnds(c, Err)
    /\ UNCHANGED <<wsock, connVars, callerVars, netVars, crashed>>

\* Read fails: the deadline passed, the socket was closed, an ICMP error.
ReadFail(c) ==
    /\ hst[c] = "reading"
    /\ HelperEnds(c, Err)
    /\ UNCHANGED <<wsock, connVars, callerVars, netVars, crashed>>

-----------------------------------------------------------------------------
(* UDPClient.Close, never called by two goroutines at a time.              *)

\* conn.Close(): the receive buffer is gone.
CloseSocket ==
    /\ ~closing
    /\ conn # None
    /\ ConcurrentClose \/ Quiet
    /\ sock[conn] = "open"
    /\ sock' = [sock EXCEPT ![conn] = "closed"]
    /\ inbox' = [inbox EXCEPT ![conn] = {}]
    /\ closing' = TRUE
    /\ UNCHANGED <<conn, net, callerVars, helperVars, crashed>>

\* c.conn = nil
ClearConn ==
    /\ closing
    /\ closing' = FALSE
    /\ conn' = None
    /\ UNCHANGED <<sock, callerVars, helperVars, netVars, crashed>>

-----------------------------------------------------------------------------
(* The network and the BMC (external): a request is answered at most once  *)
(* unless datagrams are duplicated; it may be lost; replies come in any    *)
(* order, and one that finds its socket closed is dropped.                 *)

Arrive(c, s) ==
    inbox' = IF sock[s] = "open"
             THEN [inbox EXCEPT ![s] = @ \cup {c}]
             ELSE inbox

Reply ==
    /\ \E r \in net :
          /\ net' = net \ {r}
          /\ Arrive(r[1], r[2])
    /\ UNCHANGED <<connVars, callerVars, helperVars, crashed>>

Lose ==
    /\ \E r \in net : net' = net \ {r}
    /\ UNCHANGED <<inbox, connVars, callerVars, helperVars, crashed>>

Duplicate ==
    /\ Duplicates
    /\ \E c \in Calls :
          /\ wsock[c] # None
          /\ Arrive(c, wsock[c])
    /\ UNCHANGED <<net, connVars, callerVars, helperVars, crashed>>

-----------------------------------------------------------------------------
Caller(c) == Start(c) \/ Dial(c) \/ DialFail(c) \/ Acquire(c) \/ Return(c) \/ Cancel(c)

Helper(c) == \/ NilConn(c) \/ Write(c) \/ WriteFail(c) \/ SetReadDeadline(c)
             \/ Read(c) \/ Receive(c) \/ ReadFail(c)

Next ==
    /\ ~crashed
    /\ \/ \E c \in Calls : Caller(c) \/ Helper(c)
       \/ CloseSocket \/ ClearConn
       \/ Reply \/ Lose \/ Duplicate

Spec == Init /\ [][Next]_vars

(* Goroutines are scheduled, dialling and writing end, a blocked Read ends *)
(* at its deadline.  sync.Mutex hands the lock to a starving waiter, hence *)
(* strong fairness of Acquire.  Nothing is assumed of the network, of the  *)
(* goroutines that have not called Exchange or of the one that closes.     *)
Fairness ==
    \A c \in Calls :
        /\ WF_vars(~crashed /\ (Dial(c) \/ DialFail(c) \/ Return(c)))
        /\ SF_vars(~crashed /\ Acquire(c))
        /\ WF_vars(~crashed /\ Helper(c))

FairSpec == Spec /\ Fairness

-----------------------------------------------------------------------------
(* The types of the fields of UDPClient and of the locals of Exchange      *)
(* (udpclient.go:16-31, 122-176); what Exchange returns is an answer, an   *)
(* error or nothing yet.                                                   *)
TypeOK ==
    /\ conn \in Calls \cup {None}
    /\ sock \in [Calls -> {"none", "open", "closed"}]
    /\ lock \in Calls \cup {None}
    /\ st \in [Calls -> {"idle", "dial", "wait", "select", "done"}]
    /\ hst \in [Calls -> {"none", "write", "deadline", "read", "reading", "end"}]
    /\ rsock \in [Calls -> Calls \cup {None}]
    /\ wsock \in [Calls -> Calls \cup {None}]
    /\ hres \in [Calls -> Answers]
    /\ outcome \in [Calls -> Answers]
    /\ net \subseteq Calls \X Calls
    /\ inbox \in [Calls -> SUBSET Calls]
    /\ closing \in BOOLEAN
    /\ crashed \in BOOLEAN

\* The helper of c is in its send/receive operation.
InProgress(c) == hst[c] \in {"write", "deadline", "read", "reading"}

(* The comment at udpclient.go:28-29: the lock prevents another            *)
(* send/receive operation from occurring while one is in progress.  It     *)
(* holds as long as no context is cancelled, which is how exchangeLAN      *)
(* calls Exchange (interface_lan.go:146).                                  *)
OneInProgress == \A c, d \in Calls : InProgress(c) /\ InProgress(d) => c = d

(* No helper calls a method of a nil conn (udpclient.go:140, 150, 156), as *)
(* long as Close waits until every call has returned: what a call found or *)
(* dialled in initConn, before the lock, is still there after it.          *)
NoNilConn == ~crashed

\* Some call has failed, or its helper has and the call will return that.
SomeFailure == \E c \in Calls : hres[c] = Err \/ outcome[c] = Err

(* Exchange hands the answer of another call's request to its caller only  *)
(* after a failure: a timeout leaves the late answer in the socket, and    *)
(* the next read takes it (udpclient.go:156).  On a network that does not  *)
(* duplicate, calls that overlap in any way get their own answers until    *)
(* the first failure.                                                      *)
OwnAnswerUntilFailure ==
    ~Duplicates /\ ~SomeFailure => \A c \in Calls : outcome[c] \in {None, c}

\* Requests whose answer may still come, or waits in the socket.
Unread == {r[1] : r \in net} \cup UNION {inbox[s] : s \in Calls}

(* Every answer that is late is owed to a failure of its own: the socket   *)
(* never holds more foreign answers than calls have failed, so the reads   *)
(* lag behind the writes by at most that many (udpclient.go:140-156).      *)
LagBounded ==
    ~Duplicates =>
        LET failed == {c \in Calls : hres[c] = Err \/ outcome[c] = Err}
            open   == {c \in Calls : InProgress(c)}
        IN Cardinality(Unread) <= Cardinality(failed) + Cardinality(open)

(* The promise of the method (udpclient.go:118-121) as a specification of  *)
(* its own: without cancellation, what callers see is a serial query       *)
(* service, however the goroutines interleave and whenever Close runs.     *)
SQ == INSTANCE SyncQuery WITH busy <- lock,
                              sent <- {c \in Calls : wsock[c] # None},
                              result <- outcome
ImplementsSyncQuery == SQ!Spec

(* Every call returns: the read deadline (udpclient.go:149-150) bounds the *)
(* time the lock is held, so neither a silent BMC nor a queue of callers   *)
(* blocks a call for ever.                                                 *)
EveryCallReturns ==
    \A c \in Calls : st[c] # "idle" ~> st[c] = "done" \/ crashed

(* No helper goroutine leaks, also when its caller was cancelled and       *)
(* nobody receives from its channels (udpclient.go:132-134).               *)
EveryHelperEnds ==
    \A c \in Calls : hst[c] # "none" ~> hst[c] = "end" \/ crashed
=============================================================================
