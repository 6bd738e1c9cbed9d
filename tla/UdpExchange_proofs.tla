------------------------- MODULE UdpExchange_proofs -------------------------
(***************************************************************************)
(* Theorems of UdpExchange, for every set of calls.                        *)
(*                                                                         *)
(* The argument has three layers: the types; Control, which ties the two   *)
(* goroutines of a call and the lock together; and Custody, which follows  *)
(* an answer from the wire to the caller and says that on a network that   *)
(* does not duplicate it is in one place at a time.                        *)
(***************************************************************************)
EXTENDS UdpExchange, FiniteSetTheorems, TLAPS

\* A blocked read knows its socket; otherwise the types are inductive.
Typed ==
    /\ TypeOK
    /\ \A c \in Calls : hst[c] = "reading" => rsock[c] \in Calls

LEMMA TypedStep == Typed /\ [Next]_vars => Typed'
<1> SUFFICES ASSUME Typed, [Next]_vars PROVE Typed'
  OBVIOUS
<1> USE CallsAssumption DEF Typed, TypeOK, Answers, connVars, callerVars, helperVars, netVars
<1>1. ASSUME NEW c \in Calls, Start(c) PROVE Typed'
  BY <1>1 DEF Start
<1>2. ASSUME NEW c \in Calls, Dial(c) PROVE Typed'
  BY <1>2 DEF Dial
<1>3. ASSUME NEW c \in Calls, DialFail(c) PROVE Typed'
  BY <1>3 DEF DialFail
<1>4. ASSUME NEW c \in Calls, Acquire(c) PROVE Typed'
  BY <1>4 DEF Acquire
<1>5. ASSUME NEW c \in Calls, Return(c) PROVE Typed'
  BY <1>5 DEF Return
<1>6. ASSUME NEW c \in Calls, Cancel(c) PROVE Typed'
  BY <1>6 DEF Cancel
<1>7. ASSUME NEW c \in Calls, NilConn(c) PROVE Typed'
  BY <1>7 DEF NilConn
<1>8. ASSUME NEW c \in Calls, Write(c) PROVE Typed'
  BY <1>8 DEF Write
<1>9. ASSUME NEW c \in Calls, WriteFail(c) PROVE Typed'
  BY <1>9 DEF WriteFail, HelperEnds
<1>10. ASSUME NEW c \in Calls, SetReadDeadline(c) PROVE Typed'
  BY <1>10 DEF SetReadDeadline, HelperEnds
<1>11. ASSUME NEW c \in Calls, Read(c) PROVE Typed'
  BY <1>11 DEF Read
<1>12. ASSUME NEW c \in Calls, Receive(c) PROVE Typed'
  BY <1>12 DEF Receive, HelperEnds
<1>13. ASSUME NEW c \in Calls, ReadFail(c) PROVE Typed'
  BY <1>13 DEF ReadFail, HelperEnds
<1>14. CASE CloseSocket
  BY <1>14 DEF CloseSocket
<1>15. CASE ClearConn
  BY <1>15 DEF ClearConn
<1>16. CASE Reply
  BY <1>16 DEF Reply, Arrive
<1>17. CASE Lose
  BY <1>17 DEF Lose
<1>18. CASE Duplicate
  BY <1>18 DEF Duplicate, Arrive
<1>19. CASE UNCHANGED vars
  BY <1>19 DEF vars
<1>20. QED
  BY <1>1, <1>2, <1>3, <1>4, <1>5, <1>6, <1>7, <1>8, <1>9, <1>10, <1>11,
     <1>12, <1>13, <1>14, <1>15, <1>16, <1>17, <1>18, <1>19
     DEF Next, Caller, Helper

LEMMA TypedInvariant == Spec => []Typed
<1>1. Init => Typed
  <2> SUFFICES ASSUME Init PROVE Typed
    OBVIOUS
  <2> USE DEF Init, TypeOK, Answers
  <2>1. inbox \in [Calls -> SUBSET Calls]
    OBVIOUS
  <2>2. net \subseteq Calls \X Calls
    OBVIOUS
  <2>3. QED
    BY <2>1, <2>2 DEF Typed
<1>2. QED
  BY <1>1, TypedStep, PTL DEF Spec

(* Every variable keeps its type (udpclient.go:16-31, 122-176).            *)
THEOREM TypeCorrect == Spec => []TypeOK
<1>1. Typed => TypeOK
  BY DEF Typed
<1>2. QED
  BY <1>1, TypedInvariant, PTL

-----------------------------------------------------------------------------
\* How the two goroutines of a call, the lock and the results go together.
Control ==
    /\ \A c \in Calls : st[c] = "select" <=> lock = c
    /\ \A c \in Calls : st[c] \in {"idle", "dial", "wait"} => hst[c] = "none"
    /\ \A c \in Calls : st[c] = "select" => hst[c] # "none"
    /\ \A c \in Calls : st[c] = "done" <=> outcome[c] # None
    /\ \A c \in Calls : outcome[c] \in Calls => hst[c] = "end" /\ hres[c] = outcome[c]
    /\ \A c \in Calls : hst[c] = "end" <=> hres[c] # None
    /\ Cancellable = {} => \A c \in Calls : st[c] = "done" => hst[c] \in {"none", "end"}

LEMMA ControlStep == Typed /\ Control /\ [Next]_vars => Control'
<1> SUFFICES ASSUME Typed, Control, [Next]_vars PROVE Control'
  OBVIOUS
<1> USE CallsAssumption DEF Control, Typed, TypeOK, Answers, connVars, callerVars, helperVars, netVars
<1>1. ASSUME NEW c \in Calls, Start(c) PROVE Control'
  BY <1>1 DEF Start
<1>2. ASSUME NEW c \in Calls, Dial(c) PROVE Control'
  BY <1>2 DEF Dial
<1>3. ASSUME NEW c \in Calls, DialFail(c) PROVE Control'
  BY <1>3 DEF DialFail
<1>4. ASSUME NEW c \in Calls, Acquire(c) PROVE Control'
  BY <1>4 DEF Acquire
<1>5. ASSUME NEW c \in Calls, Return(c) PROVE Control'
  BY <1>5 DEF Return
<1>6. ASSUME NEW c \in Calls, Cancel(c) PROVE Control'
  BY <1>6 DEF Cancel
<1>7. ASSUME NEW c \in Calls, NilConn(c) PROVE Control'
  BY <1>7 DEF NilConn
<1>8. ASSUME NEW c \in Calls, Write(c) PROVE Control'
  BY <1>8 DEF Write
<1>9. ASSUME NEW c \in Calls, WriteFail(c) PROVE Control'
  BY <1>9 DEF WriteFail, HelperEnds
<1>10. ASSUME NEW c \in Calls, SetReadDeadline(c) PROVE Control'
  BY <1>10 DEF SetReadDeadline, HelperEnds
<1>11. ASSUME NEW c \in Calls, Read(c) PROVE Control'
  BY <1>11 DEF Read
<1>12. ASSUME NEW c \in Calls, Receive(c) PROVE Control'
  BY <1>12 DEF Receive, HelperEnds
<1>13. ASSUME NEW c \in Calls, ReadFail(c) PROVE Control'
  BY <1>13 DEF ReadFail, HelperEnds
<1>14. CASE CloseSocket
  BY <1>14 DEF CloseSocket
<1>15. CASE ClearConn
  BY <1>15 DEF ClearConn
<1>16. CASE Reply
  BY <1>16 DEF Reply, Arrive
<1>17. CASE Lose
  BY <1>17 DEF Lose
<1>18. CASE Duplicate
  BY <1>18 DEF Duplicate, Arrive
<1>19. CASE UNCHANGED vars
  BY <1>19 DEF vars
<1>20. QED
  BY <1>1, <1>2, <1>3, <1>4, <1>5, <1>6, <1>7, <1>8, <1>9, <1>10, <1>11,
     <1>12, <1>13, <1>14, <1>15, <1>16, <1>17, <1>18, <1>19
     DEF Next, Caller, Helper

LEMMA ControlInvariant == Spec => []Control
<1>1. Init => Control
  BY CallsAssumption DEF Init, Control
<1>2. QED
  BY <1>1, ControlStep, TypedInvariant, PTL DEF Spec

\* The lock and the two goroutines of a call leave one operation in progress.
LEMMA SerialWhileTyped ==
    ASSUME Cancellable = {} PROVE Typed /\ Control => OneInProgress
<1> SUFFICES ASSUME Typed, Control,
                    NEW c \in Calls, NEW d \in Calls, InProgress(c), InProgress(d)
             PROVE  c = d
  BY DEF OneInProgress
<1>1. st[c] = "select" /\ st[d] = "select"
  BY Cancellable = {} DEF Typed, TypeOK, Control, InProgress
<1>2. QED
  BY <1>1 DEF Control

(* At most one send/receive operation at a time (udpclient.go:28-29, 127), *)
(* for callers that never cancel, as exchangeLAN (interface_lan.go:146).   *)
THEOREM SerialOperations ==
    ASSUME Cancellable = {} PROVE Spec => []OneInProgress
<1>1. Typed /\ Control => OneInProgress
  BY SerialWhileTyped
<1>2. QED
  BY <1>1, TypedInvariant, ControlInvariant, PTL

-----------------------------------------------------------------------------
\* A call that has passed initConn finds conn set for as long as it runs.
ConnHeld ==
    ~ConcurrentClose =>
        /\ ~crashed
        /\ \A c \in Calls : st[c] \in {"wait", "select"} \/ InProgress(c) => conn # None
        /\ closing => Quiet

LEMMA ConnHeldInvariant == Spec => []ConnHeld
<1>1. Init => ConnHeld
  BY CallsAssumption DEF Init, ConnHeld, InProgress
<1>2. Typed /\ Control /\ ConnHeld /\ [Next]_vars => ConnHeld'
  <2> SUFFICES ASSUME Typed, Control, ConnHeld, [Next]_vars PROVE ConnHeld'
    OBVIOUS
  <2> USE CallsAssumption DEF ConnHeld, InProgress, Quiet, Control, Typed, TypeOK, Answers, connVars, callerVars, helperVars, netVars
  <2>1. ASSUME NEW c \in Calls, Start(c) PROVE ConnHeld'
    BY <2>1 DEF Start
  <2>2. ASSUME NEW c \in Calls, Dial(c) PROVE ConnHeld'
    BY <2>2 DEF Dial
  <2>3. ASSUME NEW c \in Calls, DialFail(c) PROVE ConnHeld'
    BY <2>3 DEF DialFail
  <2>4. ASSUME NEW c \in Calls, Acquire(c) PROVE ConnHeld'
    BY <2>4 DEF Acquire
  <2>5. ASSUME NEW c \in Calls, Return(c) PROVE ConnHeld'
    BY <2>5 DEF Return
  <2>6. ASSUME NEW c \in Calls, Cancel(c) PROVE ConnHeld'
    BY <2>6 DEF Cancel
  <2>7. ASSUME NEW c \in Calls, NilConn(c) PROVE ConnHeld'
    BY <2>7 DEF NilConn
  <2>8. ASSUME NEW c \in Calls, Write(c) PROVE ConnHeld'
    BY <2>8 DEF Write
  <2>9. ASSUME NEW c \in Calls, WriteFail(c) PROVE ConnHeld'
    BY <2>9 DEF WriteFail, HelperEnds
  <2>10. ASSUME NEW c \in Calls, SetReadDeadline(c) PROVE ConnHeld'
    BY <2>10 DEF SetReadDeadline, HelperEnds
  <2>11. ASSUME NEW c \in Calls, Read(c) PROVE ConnHeld'
    BY <2>11 DEF Read
  <2>12. ASSUME NEW c \in Calls, Receive(c) PROVE ConnHeld'
    BY <2>12 DEF Receive, HelperEnds
  <2>13. ASSUME NEW c \in Calls, ReadFail(c) PROVE ConnHeld'
    BY <2>13 DEF ReadFail, HelperEnds
  <2>14. CASE CloseSocket
    BY <2>14 DEF CloseSocket
  <2>15. CASE ClearConn
    BY <2>15 DEF ClearConn
  <2>16. CASE Reply
    BY <2>16 DEF Reply, Arrive
  <2>17. CASE Lose
    BY <2>17 DEF Lose
  <2>18. CASE Duplicate
    BY <2>18 DEF Duplicate, Arrive
  <2>19. CASE UNCHANGED vars
    BY <2>19 DEF vars
  <2>20. QED
    BY <2>1, <2>2, <2>3, <2>4, <2>5, <2>6, <2>7, <2>8, <2>9, <2>10, <2>11,
       <2>12, <2>13, <2>14, <2>15, <2>16, <2>17, <2>18, <2>19
       DEF Next, Caller, Helper
<1>3. QED
  BY <1>1, <1>2, TypedInvariant, ControlInvariant, PTL DEF Spec

(* If Close waits for the calls to return, no helper dereferences a nil    *)
(* conn (udpclient.go:105-116 against 140, 150, 156).                      *)
THEOREM QuietCloseIsSafe ==
    ASSUME ~ConcurrentClose PROVE Spec => []NoNilConn
<1>1. ConnHeld => NoNilConn
  BY ~ConcurrentClose DEF ConnHeld, NoNilConn
<1>2. QED
  BY <1>1, ConnHeldInvariant, PTL

-----------------------------------------------------------------------------
\* Only what was written is answered, on the socket it was written to.
Written ==
    /\ \A c \in Calls : hst[c] \in {"none", "write"} => wsock[c] = None
    /\ \A c \in Calls : hst[c] \in {"deadline", "read", "reading"} => wsock[c] # None
    /\ \A d, s \in Calls : <<d, s>> \in net \/ d \in inbox[s] => wsock[d] = s
    /\ \A c \in Calls : hres[c] \in Calls => wsock[c] # None /\ wsock[hres[c]] # None

LEMMA WrittenStep == Typed /\ Control /\ Written /\ [Next]_vars => Written'
<1> SUFFICES ASSUME Typed, Control, Written, [Next]_vars PROVE Written'
  OBVIOUS
<1> USE CallsAssumption DEF Written, Control, Typed, TypeOK, Answers, connVars, callerVars, helperVars, netVars
<1>1. ASSUME NEW c \in Calls, Start(c) PROVE Written'
  BY <1>1 DEF Start
<1>2. ASSUME NEW c \in Calls, Dial(c) PROVE Written'
  BY <1>2 DEF Dial
<1>3. ASSUME NEW c \in Calls, DialFail(c) PROVE Written'
  BY <1>3 DEF DialFail
<1>4. ASSUME NEW c \in Calls, Acquire(c) PROVE Written'
  BY <1>4 DEF Acquire
<1>5. ASSUME NEW c \in Calls, Return(c) PROVE Written'
  BY <1>5 DEF Return
<1>6. ASSUME NEW c \in Calls, Cancel(c) PROVE Written'
  BY <1>6 DEF Cancel
<1>7. ASSUME NEW c \in Calls, NilConn(c) PROVE Written'
  BY <1>7 DEF NilConn
<1>8. ASSUME NEW c \in Calls, Write(c) PROVE Written'
  BY <1>8 DEF Write
<1>9. ASSUME NEW c \in Calls, WriteFail(c) PROVE Written'
  BY <1>9 DEF WriteFail, HelperEnds
<1>10. ASSUME NEW c \in Calls, SetReadDeadline(c) PROVE Written'
  BY <1>10 DEF SetReadDeadline, HelperEnds
<1>11. ASSUME NEW c \in Calls, Read(c) PROVE Written'
  BY <1>11 DEF Read
<1>12. ASSUME NEW c \in Calls, Receive(c) PROVE Written'
  <2>1. PICK d \in Calls :
            /\ d \in inbox[rsock[c]]
            /\ inbox' = [inbox EXCEPT ![rsock[c]] = @ \ {d}]
            /\ HelperEnds(c, d)
    BY <1>12 DEF Receive
  <2>2. rsock[c] \in Calls /\ d \in Calls /\ hst[c] = "reading"
    BY <1>12 DEF Receive
  <2>3. wsock[d] = rsock[c]
    BY <2>1, <2>2
  <2>4. hres' = [hres EXCEPT ![c] = d] /\ hres[c] = None
    BY <2>1, <2>2 DEF HelperEnds
  <2>5. \A x, s \in Calls : x \in inbox'[s] => x \in inbox[s] /\ <<x, s>> # <<d, rsock[c]>>
    BY <2>1, <2>2
  <2>6. wsock' = wsock /\ net' = net /\ hst' = [hst EXCEPT ![c] = "end"]
    BY <1>12, <2>1 DEF Receive, HelperEnds
  <2>7. QED
    BY <2>2, <2>3, <2>4, <2>5, <2>6
<1>13. ASSUME NEW c \in Calls, ReadFail(c) PROVE Written'
  BY <1>13 DEF ReadFail, HelperEnds
<1>14. CASE CloseSocket
  BY <1>14 DEF CloseSocket
<1>15. CASE ClearConn
  BY <1>15 DEF ClearConn
<1>16. CASE Reply
  BY <1>16 DEF Reply, Arrive
<1>17. CASE Lose
  BY <1>17 DEF Lose
<1>18. CASE Duplicate
  BY <1>18 DEF Duplicate, Arrive
<1>19. CASE UNCHANGED vars
  BY <1>19 DEF vars
<1>20. QED
  BY <1>1, <1>2, <1>3, <1>4, <1>5, <1>6, <1>7, <1>8, <1>9, <1>10, <1>11,
     <1>12, <1>13, <1>14, <1>15, <1>16, <1>17, <1>18, <1>19
     DEF Next, Caller, Helper

LEMMA WrittenInvariant == Spec => []Written
<1>1. Init => Written
  BY CallsAssumption DEF Init, Written
<1>2. QED
  BY <1>1, WrittenStep, TypedInvariant, ControlInvariant, PTL DEF Spec

\* Without duplication, an answer is on its way, in a socket, or consumed once.
Custody ==
    ~Duplicates =>
        /\ \A d, s \in Calls : ~(<<d, s>> \in net /\ d \in inbox[s])
        /\ \A c, d, s \in Calls :
               <<d, s>> \in net \/ d \in inbox[s] => hres[c] # d
        /\ \A c, d \in Calls : hres[c] = hres[d] /\ hres[c] \in Calls => c = d

LEMMA CustodyStep == Typed /\ Control /\ Written /\ Custody /\ [Next]_vars => Custody'
<1> SUFFICES ASSUME Typed, Control, Written, Custody, [Next]_vars PROVE Custody'
  OBVIOUS
<1> USE CallsAssumption DEF Custody, Written, Control, Typed, TypeOK, Answers, connVars, callerVars, helperVars, netVars
<1>1. ASSUME NEW c \in Calls, Start(c) PROVE Custody'
  BY <1>1 DEF Start
<1>2. ASSUME NEW c \in Calls, Dial(c) PROVE Custody'
  BY <1>2 DEF Dial
<1>3. ASSUME NEW c \in Calls, DialFail(c) PROVE Custody'
  BY <1>3 DEF DialFail
<1>4. ASSUME NEW c \in Calls, Acquire(c) PROVE Custody'
  BY <1>4 DEF Acquire
<1>5. ASSUME NEW c \in Calls, Return(c) PROVE Custody'
  BY <1>5 DEF Return
<1>6. ASSUME NEW c \in Calls, Cancel(c) PROVE Custody'
  BY <1>6 DEF Cancel
<1>7. ASSUME NEW c \in Calls, NilConn(c) PROVE Custody'
  BY <1>7 DEF NilConn
<1>8. ASSUME NEW c \in Calls, Write(c) PROVE Custody'
  BY <1>8 DEF Write
<1>9. ASSUME NEW c \in Calls, WriteFail(c) PROVE Custody'
  BY <1>9 DEF WriteFail, HelperEnds
<1>10. ASSUME NEW c \in Calls, SetReadDeadline(c) PROVE Custody'
  BY <1>10 DEF SetReadDeadline, HelperEnds
<1>11. ASSUME NEW c \in Calls, Read(c) PROVE Custody'
  BY <1>11 DEF Read
<1>12. ASSUME NEW c \in Calls, Receive(c) PROVE Custody'
  <2>1. PICK d \in Calls :
            /\ d \in inbox[rsock[c]]
            /\ inbox' = [inbox EXCEPT ![rsock[c]] = @ \ {d}]
            /\ HelperEnds(c, d)
    BY <1>12 DEF Receive
  <2>2. rsock[c] \in Calls /\ d \in Calls /\ hst[c] = "reading"
    BY <1>12 DEF Receive
  <2>3. /\ wsock[d] = rsock[c]
        /\ \A e, s \in Calls : <<e, s>> \in net \/ e \in inbox[s] => wsock[e] = s
    BY <2>1, <2>2
  <2>4. \A x \in Calls : hres'[x] = IF x = c THEN d ELSE hres[x]
    BY <2>1, <2>2 DEF HelperEnds
  <2>5. \A x, s \in Calls : x \in inbox'[s] => x \in inbox[s] /\ <<x, s>> # <<d, rsock[c]>>
    BY <2>1, <2>2
  <2>6. wsock' = wsock /\ net' = net /\ hst' = [hst EXCEPT ![c] = "end"]
    BY <1>12, <2>1 DEF Receive, HelperEnds
  <2> HIDE DEF Typed, TypeOK, Control, Written
  <2>7. ASSUME ~Duplicates
        PROVE  \A x, y, s \in Calls : <<y, s>> \in net \/ y \in inbox'[s] => hres'[x] # y
    <3>1. TAKE x, y, s \in Calls
    <3>2. HAVE <<y, s>> \in net \/ y \in inbox'[s]
    <3>3. hres[x] # y
      BY <2>5, <2>7, <3>2
    <3>4. CASE x = c
      <4>1. <<d, s>> \in net => s = rsock[c]
        BY <2>2, <2>3
      <4>2. d \in inbox'[s] => s = rsock[c]
        BY <2>2, <2>3, <2>5
      <4>3. <<d, rsock[c]>> \notin net
        <5>1. \A e, z \in Calls : ~(<<e, z>> \in net /\ e \in inbox[z])
          BY <2>7
        <5>2. QED
          BY <2>1, <2>2, <5>1
      <4>4. y # d
        BY <2>2, <2>5, <3>2, <4>1, <4>2, <4>3
      <4>5. QED
        BY <2>4, <3>4, <4>4
    <3>5. CASE x # c
      BY <2>4, <3>3, <3>5
    <3>6. QED
      BY <3>4, <3>5
  <2>8. ASSUME ~Duplicates, NEW x \in Calls
        PROVE  hres[x] # d
    <3>1. \A e, s \in Calls : e \in inbox[s] => hres[x] # e
      BY <2>8
    <3>2. QED
      BY <2>1, <2>2, <3>1
  <2>9. ASSUME ~Duplicates
        PROVE  \A x, y \in Calls : hres'[x] = hres'[y] /\ hres'[x] \in Calls => x = y
    <3>1. \A x \in Calls : hres[x] # d
      BY <2>8, <2>9
    <3>2. \A x, y \in Calls : hres[x] = hres[y] /\ hres[x] \in Calls => x = y
      BY <2>9
    <3>3. QED
      BY <2>4, <3>1, <3>2
  <2>10. ASSUME ~Duplicates
         PROVE  \A x, s \in Calls : ~(<<x, s>> \in net' /\ x \in inbox'[s])
    BY <2>5, <2>6, <2>10
  <2>11. QED
    BY <2>6, <2>7, <2>9, <2>10 DEF Custody
<1>13. ASSUME NEW c \in Calls, ReadFail(c) PROVE Custody'
  BY <1>13 DEF ReadFail, HelperEnds
<1>14. CASE CloseSocket
  BY <1>14 DEF CloseSocket
<1>15. CASE ClearConn
  BY <1>15 DEF ClearConn
<1>16. CASE Reply
  BY <1>16 DEF Reply, Arrive
<1>17. CASE Lose
  BY <1>17 DEF Lose
<1>18. CASE Duplicate
  BY <1>18 DEF Duplicate, Arrive
<1>19. CASE UNCHANGED vars
  BY <1>19 DEF vars
<1>20. QED
  BY <1>1, <1>2, <1>3, <1>4, <1>5, <1>6, <1>7, <1>8, <1>9, <1>10, <1>11,
     <1>12, <1>13, <1>14, <1>15, <1>16, <1>17, <1>18, <1>19
     DEF Next, Caller, Helper

LEMMA CustodyInvariant == Spec => []Custody
<1>1. Init => Custody
  BY CallsAssumption DEF Init, Custody
<1>2. QED
  BY <1>1, CustodyStep, TypedInvariant, ControlInvariant, WrittenInvariant, PTL DEF Spec

-----------------------------------------------------------------------------
\* Before the first failure only the call in progress is owed an answer.
Own ==
    ~Duplicates /\ ~SomeFailure =>
        /\ \A c \in Calls : hres[c] \in {None, c}
        /\ \A d, s \in Calls : <<d, s>> \in net \/ d \in inbox[s] => InProgress(d)

LEMMA OwnStep == Typed /\ Control /\ Written /\ Custody /\ Own /\ [Next]_vars => Own'
<1> SUFFICES ASSUME Typed, Control, Written, Custody, Own, [Next]_vars PROVE Own'
  OBVIOUS
<1> USE CallsAssumption DEF Own, SomeFailure, InProgress, Custody, Written, Control, Typed, TypeOK, Answers, connVars, callerVars, helperVars, netVars
<1>1. ASSUME NEW c \in Calls, Start(c) PROVE Own'
  BY <1>1 DEF Start
<1>2. ASSUME NEW c \in Calls, Dial(c) PROVE Own'
  BY <1>2 DEF Dial
<1>3. ASSUME NEW c \in Calls, DialFail(c) PROVE Own'
  BY <1>3 DEF DialFail
<1>4. ASSUME NEW c \in Calls, Acquire(c) PROVE Own'
  BY <1>4 DEF Acquire
<1>5. ASSUME NEW c \in Calls, Return(c) PROVE Own'
  BY <1>5 DEF Return
<1>6. ASSUME NEW c \in Calls, Cancel(c) PROVE Own'
  BY <1>6 DEF Cancel
<1>7. ASSUME NEW c \in Calls, NilConn(c) PROVE Own'
  BY <1>7 DEF NilConn
<1>8. ASSUME NEW c \in Calls, Write(c) PROVE Own'
  BY <1>8 DEF Write
<1>9. ASSUME NEW c \in Calls, WriteFail(c) PROVE Own'
  BY <1>9 DEF WriteFail, HelperEnds
<1>10. ASSUME NEW c \in Calls, SetReadDeadline(c) PROVE Own'
  BY <1>10 DEF SetReadDeadline, HelperEnds
<1>11. ASSUME NEW c \in Calls, Read(c) PROVE Own'
  BY <1>11 DEF Read
<1>12. ASSUME NEW c \in Calls, Receive(c) PROVE Own'
  <2> SUFFICES ASSUME ~Duplicates, ~SomeFailure' PROVE Own'
    OBVIOUS
  <2>1. PICK d \in Calls :
            /\ d \in inbox[rsock[c]]
            /\ inbox' = [inbox EXCEPT ![rsock[c]] = @ \ {d}]
            /\ HelperEnds(c, d)
    BY <1>12 DEF Receive
  <2>2. /\ rsock[c] \in Calls
        /\ hst[c] = "reading"
        /\ net' = net
    BY <1>12 DEF Receive
  <2>3. ~SomeFailure
    BY <1>12, <2>1, <2>2 DEF Receive, HelperEnds
  <2>4. InProgress(d)
    BY <2>1, <2>2, <2>3
  <2>5. st[c] = "select" /\ st[d] = "select"
    BY <2>2, <2>3, <2>4
  <2>6. c = d
    BY <2>5
  <2>7. \A x, s \in Calls : <<x, s>> \in net \/ x \in inbox[s] => wsock[x] = s /\ InProgress(x)
    BY <2>3
  <2>8. \A x, s \in Calls : <<x, s>> \in net' \/ x \in inbox'[s] => x # d
    <3> HIDE DEF Own, SomeFailure, InProgress, Custody, Written, Control, Typed, TypeOK, Answers
    <3>1. wsock[d] = rsock[c]
      BY <2>1, <2>2, <2>7, Zenon
    <3>2. <<d, rsock[c]>> \notin net
      BY <2>1, <2>2 DEF Custody
    <3>3. d \notin inbox'[rsock[c]]
      <4>1. inbox'[rsock[c]] = inbox[rsock[c]] \ {d}
        BY <2>1, <2>2 DEF Typed, TypeOK
      <4>2. QED
        BY <4>1
    <3>4. ASSUME NEW s \in Calls, <<d, s>> \in net' \/ d \in inbox'[s] PROVE s = rsock[c]
      <4>1. inbox'[s] \subseteq inbox[s]
        BY <2>1
      <4>2. <<d, s>> \in net \/ d \in inbox[s]
        BY <2>2, <3>4, <4>1, Zenon
      <4>3. QED
        BY <2>7, <3>1, <4>2, Zenon
    <3>5. ASSUME NEW s \in Calls PROVE ~ (<<d, s>> \in net' \/ d \in inbox'[s])
      <4>1. <<d, rsock[c]>> \notin net' /\ d \notin inbox'[rsock[c]]
        BY <2>2, <3>2, <3>3, Zenon
      <4>2. QED
        BY <3>4, <4>1, Zenon
    <3>6. QED
      BY <3>5, Zenon
  <2>9. \A x \in Calls \ {c} : hst'[x] = hst[x] /\ hres'[x] = hres[x]
    BY <2>1 DEF HelperEnds
  <2>10. \A x, s \in Calls : x \in inbox'[s] => x \in inbox[s]
    BY <2>1, <2>2
  <2>11. \A x, s \in Calls : <<x, s>> \in net' \/ x \in inbox'[s] => InProgress(x)'
    BY <2>2, <2>6, <2>7, <2>8, <2>9, <2>10
  <2>12. \A x \in Calls : hres'[x] \in {None, x}
    BY <2>1, <2>3, <2>6, <2>9 DEF HelperEnds
  <2>13. QED
    BY <2>11, <2>12
<1>13. ASSUME NEW c \in Calls, ReadFail(c) PROVE Own'
  BY <1>13 DEF ReadFail, HelperEnds
<1>14. CASE CloseSocket
  BY <1>14 DEF CloseSocket
<1>15. CASE ClearConn
  BY <1>15 DEF ClearConn
<1>16. CASE Reply
  BY <1>16 DEF Reply, Arrive
<1>17. CASE Lose
  BY <1>17 DEF Lose
<1>18. CASE Duplicate
  BY <1>18 DEF Duplicate, Arrive
<1>19. CASE UNCHANGED vars
  BY <1>19 DEF vars
<1>20. QED
  BY <1>1, <1>2, <1>3, <1>4, <1>5, <1>6, <1>7, <1>8, <1>9, <1>10, <1>11,
     <1>12, <1>13, <1>14, <1>15, <1>16, <1>17, <1>18, <1>19
     DEF Next, Caller, Helper

LEMMA OwnInvariant == Spec => []Own
<1>1. Init => Own
  BY CallsAssumption DEF Init, Own
<1>2. QED
  BY <1>1, OwnStep, TypedInvariant, ControlInvariant, WrittenInvariant,
     CustodyInvariant, PTL DEF Spec

\* What is owed until the first failure is what the callers get.
LEMMA OwnSuffices == Control /\ Own /\ Typed => OwnAnswerUntilFailure
<1> SUFFICES ASSUME Control, Own, Typed, ~Duplicates, ~SomeFailure,
                    NEW c \in Calls
             PROVE  outcome[c] \in {None, c}
  BY DEF OwnAnswerUntilFailure
<1>1. outcome[c] # Err /\ outcome[c] \in Answers
  BY DEF SomeFailure, Typed, TypeOK
<1>2. outcome[c] \in Calls => hres[c] = outcome[c]
  BY DEF Control
<1>3. hres[c] \in {None, c}
  BY DEF Own
<1>4. QED
  BY <1>1, <1>2, <1>3, CallsAssumption DEF Answers

(* However calls overlap, they get their own answers until the first       *)
(* failure (udpclient.go:127, 156: the reply is matched to the request by  *)
(* nothing but the lock).                                                  *)
THEOREM OwnAnswers == Spec => []OwnAnswerUntilFailure
<1>1. QED
  BY OwnSuffices, TypedInvariant, ControlInvariant, OwnInvariant, PTL

-----------------------------------------------------------------------------
(* How far the reads lag behind the writes.  Of the requests written, as many have  *)
(* been answered as calls have received something: no answer is received twice.     *)
(* The answers that are still to come, or unread, are among those of the others,    *)
(* and these others have failed or are in progress.                                 *)
Sent == {c \in Calls : wsock[c] # None}
Receivers == {c \in Calls : hres[c] \in Calls}
Received == {hres[c] : c \in Receivers}

LEMMA ReceivedOnce ==
    ASSUME IsFiniteSet(Calls), Typed, Written, Custody, ~Duplicates
    PROVE  /\ Received \subseteq Sent /\ Receivers \subseteq Sent
           /\ IsFiniteSet(Sent) /\ IsFiniteSet(Received) /\ IsFiniteSet(Receivers)
           /\ Cardinality(Receivers) <= Cardinality(Received)
<1>1. Received \subseteq Sent /\ Receivers \subseteq Sent /\ Sent \subseteq Calls
  BY DEF Received, Receivers, Sent, Written
<1>2. IsFiniteSet(Sent) /\ IsFiniteSet(Received) /\ IsFiniteSet(Receivers)
  BY <1>1, FS_Subset
<1>3. [c \in Receivers |-> hres[c]] \in Injection(Receivers, Received)
  BY DEF Injection, IsInjective, Received, Receivers, Custody
<1>4. Cardinality(Receivers) <= Cardinality(Received)
  BY <1>2, <1>3, FS_Injection
<1>5. QED
  BY <1>1, <1>2, <1>4

LEMMA UnreadOrReceived ==
    ASSUME Typed, Written, Custody, ~Duplicates
    PROVE  Unread \subseteq Sent \ Received
<1>1. ASSUME NEW d \in Unread PROVE \E s \in Calls : <<d, s>> \in net \/ d \in inbox[s]
  <2>1. CASE \E r \in net : d = r[1]
    <3>1. PICK r \in net : d = r[1]
      BY <2>1
    <3>2. r \in Calls \X Calls
      BY <3>1 DEF Typed, TypeOK
    <3>3. r = <<r[1], r[2]>> /\ r[2] \in Calls
      BY <3>2
    <3>4. QED
      BY <3>1, <3>3
  <2>2. CASE \E s \in Calls : d \in inbox[s]
    BY <2>2
  <2>3. QED
    BY <2>1, <2>2 DEF Unread
<1>2. Unread \subseteq Calls
  BY <1>1 DEF Typed, TypeOK
<1>3. ASSUME NEW d \in Unread PROVE d \in Sent \ Received
  <2> d \in Calls
    BY <1>2
  <2>1. PICK s \in Calls : <<d, s>> \in net \/ d \in inbox[s]
    BY <1>1
  <2>2. wsock[d] = s /\ wsock[d] # None
    BY <2>1, CallsAssumption DEF Written
  <2>3. \A c \in Calls : hres[c] # d
    BY <2>1 DEF Custody
  <2>4. QED
    BY <2>1, <2>2, <2>3 DEF Sent, Received, Receivers
<1>4. QED
  BY <1>3

\* The bound on the lag, from what is known of each answer.
LEMMA LagCounted ==
    ASSUME IsFiniteSet(Calls) PROVE Typed /\ Control /\ Written /\ Custody => LagBounded
<1> DEFINE failed == {c \in Calls : hres[c] = Err \/ outcome[c] = Err}
           open   == {c \in Calls : InProgress(c)}
<1> SUFFICES ASSUME Typed, Control, Written, Custody, ~Duplicates
             PROVE  Cardinality(Unread) <= Cardinality(failed) + Cardinality(open)
  BY DEF LagBounded
<1>1. Sent \ Receivers \subseteq failed \cup open
  BY CallsAssumption DEF Sent, Receivers, Typed, TypeOK, Answers, Control, Written, InProgress
<1>2. IsFiniteSet(failed) /\ IsFiniteSet(open)
  BY FS_Subset
<1> HIDE DEF failed, open
<1>3. /\ IsFiniteSet(failed \cup open)
      /\ Cardinality(failed \cup open) <= Cardinality(failed) + Cardinality(open)
  <2>1. /\ IsFiniteSet(failed \cup open)
        /\ Cardinality(failed \cup open) =
             Cardinality(failed) + Cardinality(open) - Cardinality(failed \cap open)
    BY <1>2, FS_Union
  <2>2. Cardinality(failed \cap open) \in Nat
    BY <1>2, FS_Intersection, FS_CardinalityType
  <2>3. Cardinality(failed) \in Nat /\ Cardinality(open) \in Nat
    BY <1>2, FS_CardinalityType
  <2>4. QED
    BY <2>1, <2>2, <2>3
<1>4. /\ Received \subseteq Sent /\ Receivers \subseteq Sent
      /\ IsFiniteSet(Sent) /\ IsFiniteSet(Received) /\ IsFiniteSet(Receivers)
      /\ Cardinality(Receivers) <= Cardinality(Received)
  BY ReceivedOnce
<1>5. /\ IsFiniteSet(Sent \ Received)
      /\ Cardinality(Sent \ Received) = Cardinality(Sent) - Cardinality(Received)
  <2>1. Sent \cap Received = Received
    BY <1>4
  <2>2. QED
    BY <1>4, <2>1, FS_Difference
<1>6. Cardinality(Sent \ Receivers) = Cardinality(Sent) - Cardinality(Receivers)
  <2>1. Sent \cap Receivers = Receivers
    BY <1>4
  <2>2. QED
    BY <1>4, <2>1, FS_Difference
<1>7. Cardinality(Unread) <= Cardinality(Sent \ Received) /\ IsFiniteSet(Unread)
  BY <1>5, UnreadOrReceived, FS_Subset
<1>8. Cardinality(Sent \ Receivers) <= Cardinality(failed \cup open)
  BY <1>1, <1>3, FS_Subset
<1>9. /\ Cardinality(Sent) \in Nat /\ Cardinality(Received) \in Nat
      /\ Cardinality(Receivers) \in Nat /\ Cardinality(Unread) \in Nat
      /\ Cardinality(failed) \in Nat /\ Cardinality(open) \in Nat
      /\ Cardinality(failed \cup open) \in Nat
  BY <1>2, <1>3, <1>4, <1>7, FS_CardinalityType
<1>10. QED
  BY <1>3, <1>4, <1>5, <1>6, <1>7, <1>8, <1>9

(* What a failure leaves behind is all that the reads can lag behind by: the unread *)
(* answers are at most as many as the calls that have failed or are in progress     *)
(* (udpclient.go:140-156).  Calls are finitely many, as those of any run so far.    *)
THEOREM LagIsBounded ==
    ASSUME IsFiniteSet(Calls) PROVE Spec => []LagBounded
<1>1. Typed /\ Control /\ Written /\ Custody => LagBounded
  BY LagCounted
<1>2. QED
  BY <1>1, TypedInvariant, ControlInvariant, WrittenInvariant, CustodyInvariant, PTL

-----------------------------------------------------------------------------
\* Each step of Exchange is one of the serial query or invisible to it.
LEMMA QueryStep ==
    ASSUME Cancellable = {}
    PROVE  Typed /\ Control /\ Written /\ Custody /\ [Next]_vars => [SQ!Next]_SQ!vars
<1> SUFFICES ASSUME Typed, Control, Written, Custody, [Next]_vars
             PROVE  [SQ!Next]_SQ!vars
  OBVIOUS
<1> USE CallsAssumption
    DEF Typed, TypeOK, Answers, connVars, callerVars, helperVars, netVars, SQ!vars
<1>1. ASSUME NEW c \in Calls, Start(c) PROVE UNCHANGED SQ!vars
  BY <1>1 DEF Start
<1>2. ASSUME NEW c \in Calls, Dial(c) PROVE UNCHANGED SQ!vars
  BY <1>2 DEF Dial
<1>3. ASSUME NEW c \in Calls, DialFail(c) PROVE SQ!Fail(c)
  BY <1>3 DEF DialFail, Control, SQ!Fail
<1>4. ASSUME NEW c \in Calls, Acquire(c) PROVE SQ!Begin(c)
  BY <1>4 DEF Acquire, Control, SQ!Begin
<1>5. ASSUME NEW c \in Calls, Return(c)
      PROVE  SQ!Fail(c) \/ \E d \in Calls : SQ!Answer(c, d)
  <2>1. hres[c] # None /\ lock = c /\ outcome[c] = None
    BY <1>5 DEF Return, Control
  <2>2. CASE hres[c] = Err
    BY <1>5, <2>1, <2>2 DEF Return, SQ!Fail
  <2>3. CASE hres[c] \in Calls
    <3>1. wsock[c] # None /\ wsock[hres[c]] # None
      BY <2>3 DEF Written
    <3>2. ~Duplicates => \A x \in Calls : outcome[x] # hres[c]
      BY <2>1, <2>3 DEF Control, Custody
    <3>3. SQ!Answer(c, hres[c])
      BY <1>5, <2>1, <2>3, <3>1, <3>2 DEF Return, SQ!Answer
    <3>4. QED
      BY <2>3, <3>3
  <2>4. QED
    BY <2>1, <2>2, <2>3
<1>6. ASSUME NEW c \in Calls, Cancel(c) PROVE FALSE
  BY <1>6, Cancellable = {} DEF Cancel
<1>7. ASSUME NEW c \in Calls, NilConn(c) PROVE UNCHANGED SQ!vars
  BY <1>7 DEF NilConn
<1>8. ASSUME NEW c \in Calls, Write(c) PROVE SQ!Transmit(c)
  <2>1. lock = c
    BY <1>8, Cancellable = {} DEF Write, Control
  <2>2. wsock[c] = None /\ conn \in Calls
    BY <1>8 DEF Write, Written
  <2>3. QED
    BY <1>8, <2>1, <2>2 DEF Write, SQ!Transmit
<1>9. ASSUME NEW c \in Calls, WriteFail(c) PROVE UNCHANGED SQ!vars
  BY <1>9 DEF WriteFail
<1>10. ASSUME NEW c \in Calls, SetReadDeadline(c) PROVE UNCHANGED SQ!vars
  BY <1>10 DEF SetReadDeadline
<1>11. ASSUME NEW c \in Calls, Read(c) PROVE UNCHANGED SQ!vars
  BY <1>11 DEF Read
<1>12. ASSUME NEW c \in Calls, Receive(c) PROVE UNCHANGED SQ!vars
  BY <1>12 DEF Receive
<1>13. ASSUME NEW c \in Calls, ReadFail(c) PROVE UNCHANGED SQ!vars
  BY <1>13 DEF ReadFail
<1>14. CASE CloseSocket
  BY <1>14 DEF CloseSocket
<1>15. CASE ClearConn
  BY <1>15 DEF ClearConn
<1>16. CASE Reply
  BY <1>16 DEF Reply
<1>17. CASE Lose
  BY <1>17 DEF Lose
<1>18. CASE Duplicate
  BY <1>18 DEF Duplicate
<1>19. CASE UNCHANGED vars
  BY <1>19 DEF vars
<1>20. QED
  BY <1>1, <1>2, <1>3, <1>4, <1>5, <1>6, <1>7, <1>8, <1>9, <1>10, <1>11,
     <1>12, <1>13, <1>14, <1>15, <1>16, <1>17, <1>18, <1>19
     DEF Next, Caller, Helper, SQ!Next

(* Exchange keeps the promise of SyncQuery (udpclient.go:118-176): taking  *)
(* the lock begins the query, the write transmits the request, the end of  *)
(* the select or a failed dial ends it; every other step is invisible.     *)
THEOREM Implementation ==
    ASSUME Cancellable = {} PROVE Spec => ImplementsSyncQuery
<1>1. Init => SQ!Init
  BY CallsAssumption DEF Init, SQ!Init
<1>2. Typed /\ Control /\ Written /\ Custody /\ [Next]_vars => [SQ!Next]_SQ!vars
  BY QueryStep
<1>3. QED
  BY <1>1, <1>2, TypedInvariant, ControlInvariant, WrittenInvariant,
     CustodyInvariant, PTL DEF Spec, SQ!Spec, ImplementsSyncQuery
=============================================================================
