----------------------- MODULE RmcpPlusSession_proofs -----------------------
(***************************************************************************)
(* Agreement of client and BMC in RmcpPlusSession, for every set of        *)
(* session IDs, every suite list, any number of Connects, with and without *)
(* faults; what a first Connect20 settles for; and that each of them ends. *)
(*                                                                         *)
(* Server says what the BMC's records are and what its replies, however    *)
(* old, still say about them; Client what the client knows in each         *)
(* exchange.  A record evolves: its suite is fixed when it is created and  *)
(* its keying material once it was active (Evolves), so what an old reply  *)
(* said stays true.                                                        *)
(***************************************************************************)
EXTENDS RmcpPlusSession, FiniteSetTheorems, SequenceTheorems, TLAPS

Records == [st : {"none", "opened", "rakp2", "active", "gone"},
            suite : StandardSuites, crand : Nat, brand : Nat]

\* An Open Session Response names a session and its suite.
Granted(r) ==
    r.type = "os" /\ r.ok =>
        r.sid \in Sids /\ sessions[r.sid].st # "none" /\ sessions[r.sid].suite = r.suite

\* A RAKP Message 4 names a session that was activated, and its material.
Activated(r) ==
    r.type = "rakp4" /\ r.ok =>
        /\ r.sid \in Sids
        /\ sessions[r.sid].st \in {"active", "gone"}
        /\ LET b == sessions[r.sid]
           IN  r.code = Rakp4Code(SIK(password, b.suite, b.crand, b.brand), b.suite, r.sid, b.crand)

Server ==
    /\ bmcList \in Lists
    /\ sessions \in [Sids -> Records]
    /\ drawn \in Nat
    /\ \A q \in sent : q.crand \in Nat
    /\ \A r \in replies : Granted(r) /\ Activated(r)

Client ==
    /\ crand \in Nat
    /\ phase \in {"open", "rakp1", "rakp3"} => state # "Active"
    /\ phase \in {"rakp1", "rakp3"} =>
          sid = Garbage \/ (sid \in Sids /\ sessions[sid].st # "none" /\ sessions[sid].suite = algs)
    /\ phase = "rakp3" => AuthSupported(algs) /\ sik = SIK("right", algs, crand, brand)

IInv == Server /\ Client /\ Agreement

-----------------------------------------------------------------------------
\* The step leaves every session what old replies said of it.
Evolves ==
    \A k \in Sids :
        /\ sessions[k].st # "none" =>
              sessions'[k].st # "none" /\ sessions'[k].suite = sessions[k].suite
        /\ sessions[k].st \in {"active", "gone"} =>
              /\ sessions'[k].st \in {"active", "gone"}
              /\ sessions'[k].crand = sessions[k].crand
              /\ sessions'[k].brand = sessions[k].brand

LEMMA OldReplies ==
    ASSUME Evolves, password' = password, NEW r, Granted(r), Activated(r)
    PROVE  Granted(r)' /\ Activated(r)'
<1>1. Granted(r)'
  BY DEF Granted, Evolves
<1>2. Activated(r)'
  BY DEF Activated, Evolves
<1>3. QED
  BY <1>1, <1>2

\* The steps of the client: no reply is added, no record changed.
LEMMA ClientSide ==
    ASSUME Server, UNCHANGED bmcVars, replies' \subseteq replies,
           \A q \in sent' : q.crand \in Nat
    PROVE  Server'
<1>1. Evolves
  BY DEF bmcVars, Evolves, Server, Records
<1>2. \A r \in replies' : Granted(r)' /\ Activated(r)'
  BY <1>1, OldReplies DEF bmcVars, Server
<1>3. QED
  BY <1>2 DEF Server, bmcVars

\* The steps of the BMC: the client is where it was.
LEMMA BmcSide ==
    ASSUME IInv, Evolves, UNCHANGED <<bmcList, password, explicit, connectVars, v20Vars, sent>>,
           sessions' \in [Sids -> Records], drawn' \in Nat,
           \A r \in replies' \ replies : Granted(r)' /\ Activated(r)'
    PROVE  IInv'
<1>1. \A r \in replies' : Granted(r)' /\ Activated(r)'
  BY OldReplies DEF IInv, Server
<1>2. Server'
  BY <1>1 DEF IInv, Server
<1>3. Client'
  BY DEF IInv, Client, Evolves, connectVars, v20Vars
<1>4. Agreement'
  BY DEF IInv, Agreement, Evolves, connectVars, v20Vars
<1>5. QED
  BY <1>2, <1>3, <1>4 DEF IInv

\* Connect20 goes on with the next suite or gives up.
LEMMA NextTry ==
    ASSUME IInv, UNCHANGED bmcVars, replies' \subseteq replies,
           NEW list, TryNext(list), phase = "rakp1" \/ UNCHANGED brand
    PROVE  IInv'
<1>1. \A q \in sent' : q.crand \in Nat
  BY DEF IInv, Server, TryNext, OpenSession, Send
<1>2. Server'
  BY <1>1, ClientSide DEF IInv
<1>3. CASE list = <<>>
  <2>1. Client' /\ Agreement'
    BY <1>3 DEF IInv, TryNext, Client, Agreement, v20Vars, bmcVars
  <2>2. QED
    BY <1>2, <2>1 DEF IInv
<1>4. CASE list # <<>>
  <2>1. Client' /\ Agreement'
    BY <1>4 DEF IInv, TryNext, OpenSession, Client, Agreement, bmcVars
  <2>2. QED
    BY <1>2, <2>1 DEF IInv
<1>5. QED
  BY <1>3, <1>4

\* Connect20 returns, or waits in an exchange outside of the handshake.
LEMMA OutsideHandshake ==
    ASSUME IInv, UNCHANGED <<bmcVars, v20Vars>>, replies' \subseteq replies,
           \A q \in sent' : q.crand \in Nat,
           phase' \in {"idle", "caps", "suites"}
    PROVE  IInv'
<1>1. Server'
  BY ClientSide DEF IInv
<1>2. Client' /\ Agreement'
  BY DEF IInv, Client, Agreement, v20Vars, bmcVars
<1>3. QED
  BY <1>1, <1>2 DEF IInv

LEMMA Taken == ASSUME NEW r, Take(r) PROVE r \in replies /\ replies' \subseteq replies
BY DEF Take

-----------------------------------------------------------------------------
LEMMA InitIInv == Init => IInv
<1> SUFFICES ASSUME Init PROVE IInv
  OBVIOUS
<1>1. Server
  BY DEF Init, Server, NoSession, Records, StandardSuites
<1>2. Client
  BY DEF Init, Client
<1>3. Agreement
  BY DEF Init, Agreement
<1>4. QED
  BY <1>1, <1>2, <1>3 DEF IInv

LEMMA ConnectStep == ASSUME IInv, Connect20 PROVE IInv'
<1>1. \A q \in sent' : q.crand \in Nat
  BY DEF IInv, Server, Connect20, Send
<1>2. QED
  BY <1>1, OutsideHandshake DEF Connect20

LEMMA CapsStep == ASSUME IInv, NEW r, CapsReply(r) PROVE IInv'
<1>1. \A q \in sent' : q.crand \in Nat
  BY DEF IInv, Server, CapsReply, Send, Ends
<1>2. phase' \in {"idle", "suites"} /\ UNCHANGED <<bmcVars, v20Vars>> /\ replies' \subseteq replies
  BY Taken DEF CapsReply, Ends
<1>3. QED
  BY <1>1, <1>2, OutsideHandshake

LEMMA SuitesStep == ASSUME IInv, NEW r, SuitesReply(r) PROVE IInv'
<1>1. UNCHANGED bmcVars /\ replies' \subseteq replies
  BY Taken DEF SuitesReply
<1>2. UNCHANGED brand /\ \E list : TryNext(list)
  BY DEF SuitesReply
<1>3. QED
  BY <1>1, <1>2, NextTry

\* What OpenSession stores is true of a session of the BMC, or garbage.
LEMMA OpenStep == ASSUME IInv, NEW r, OpenReply(r) PROVE IInv'
<1>1. UNCHANGED <<brand, bmcVars>> /\ r \in replies /\ replies' \subseteq replies
  BY Taken DEF OpenReply
<1>2. CASE TryNext(tries)
  BY <1>1, <1>2, NextTry
<1>3. ASSUME NEW k, NEW s, Opened(k, s),
             k = Garbage \/ (k \in Sids /\ sessions[k].st # "none" /\ sessions[k].suite = s)
      PROVE  IInv'
  <2>1. /\ crand' \in Nat
        /\ \A q \in sent' : q.crand \in Nat
    BY <1>3 DEF IInv, Server, Client, Opened, RAKPMessage1, Send
  <2>2. Server'
    BY <1>1, <2>1, ClientSide DEF IInv
  <2>3. Client' /\ Agreement'
    BY <1>1, <1>3, <2>1 DEF Opened, RAKPMessage1, Client, Agreement, bmcVars
  <2>4. QED
    BY <2>2, <2>3 DEF IInv
<1>4. CASE r.ok /\ r.type = "os" /\ Opened(r.sid, r.suite)
  <2>1. Granted(r)
    BY <1>1 DEF IInv, Server
  <2>2. QED
    BY <1>3, <1>4, <2>1 DEF Granted
<1>5. QED
  BY <1>2, <1>3, <1>4 DEF OpenReply

LEMMA Rakp2Step == ASSUME IInv, NEW r, Rakp2Reply(r) PROVE IInv'
<1>1. UNCHANGED bmcVars /\ r \in replies /\ replies' \subseteq replies /\ phase = "rakp1"
  BY Taken DEF Rakp2Reply
<1>2. CASE TryNext(tries)
  BY <1>1, <1>2, NextTry
<1>3. CASE ~TryNext(tries)
  <2>1. /\ ValidRakp2(r) /\ brand' = r.brand /\ RAKPMessage3(r.brand)
        /\ UNCHANGED <<algs, sid, crand>>
    BY <1>3 DEF Rakp2Reply
  <2>2. \A q \in sent' : q.crand \in Nat
    BY <2>1 DEF IInv, Server, RAKPMessage3, Send
  <2>3. Server'
    BY <1>1, <2>2, ClientSide DEF IInv
  <2>4. AuthSupported(algs)' /\ sik' = SIK("right", algs', crand', brand')
    BY <2>1 DEF ValidRakp2, RAKPMessage3, AuthSupported
  <2>5. Client' /\ Agreement'
    BY <1>1, <2>1, <2>4 DEF IInv, Client, Agreement, RAKPMessage3, bmcVars
  <2>6. QED
    BY <2>3, <2>5 DEF IInv
<1>4. QED
  BY <1>2, <1>3

\* The code of a RAKP Message 4 that validates names the session, the
\* password and both random numbers.
LEMMA Rakp4Step == ASSUME IInv, NEW r, Rakp4Reply(r) PROVE IInv'
<1>1. UNCHANGED bmcVars /\ r \in replies /\ replies' \subseteq replies /\ phase = "rakp3"
  BY Taken DEF Rakp4Reply
<1>2. CASE TryNext(tries) /\ UNCHANGED brand
  BY <1>1, <1>2, NextTry
<1>3. CASE ~(TryNext(tries) /\ UNCHANGED brand)
  <2>1. /\ r.ok /\ r.type = "rakp4" /\ ValidRakp4(r)
        /\ state' = "Active" /\ phase' = "priv"
        /\ Send("priv", sid, 0, 0, <<>>)
        /\ UNCHANGED <<algs, sid, crand, brand, sik>>
    BY <1>3 DEF Rakp4Reply
  <2>2. \A q \in sent' : q.crand \in Nat
    BY <2>1 DEF IInv, Server, Send
  <2>3. Server'
    BY <1>1, <2>2, ClientSide DEF IInv
  <2> DEFINE b == sessions[r.sid]
  <2>4. /\ r.sid \in Sids
        /\ b.st \in {"active", "gone"}
        /\ r.code = Rakp4Code(SIK(password, b.suite, b.crand, b.brand), b.suite, r.sid, b.crand)
    BY <1>1, <2>1 DEF IInv, Server, Activated
  <2>5. /\ r.sid = sid /\ b.crand = crand
        /\ SIK(password, b.suite, b.crand, b.brand) = sik
    BY <2>1, <2>4 DEF ValidRakp4, Rakp4Code
  <2>6. sid \in Sids /\ sessions[sid].suite = algs
    BY <1>1, <2>4, <2>5, RmcpAssumption DEF IInv, Client
  <2>7. sik = SIK("right", algs, crand, brand)
    BY <1>1 DEF IInv, Client
  <2>8. password = "right" /\ b.brand = brand
    BY <2>5, <2>7 DEF SIK
  <2>9. Usable(algs)
    BY <1>1, <2>1 DEF IInv, Client, ValidRakp4, Usable
  <2>10. Agreement'
    BY <1>1, <2>1, <2>4, <2>5, <2>6, <2>7, <2>8, <2>9 DEF Agreement, bmcVars
  <2>11. Client'
    BY <2>1 DEF IInv, Client
  <2>12. QED
    BY <2>3, <2>10, <2>11 DEF IInv
<1>4. QED
  BY <1>2, <1>3

LEMMA PrivStep == ASSUME IInv, NEW r, PrivReply(r) PROVE IInv'
<1>1. /\ phase' = "idle" /\ sent' = sent
      /\ UNCHANGED <<bmcVars, v20Vars>> /\ replies' \subseteq replies
  BY Taken DEF PrivReply, Ends
<1>2. QED
  BY <1>1, OutsideHandshake DEF IInv, Server

LEMMA TimeoutStep == ASSUME IInv, Timeout PROVE IInv'
<1>1. UNCHANGED <<brand, bmcVars>> /\ replies' \subseteq replies
  BY DEF Timeout
<1>2. CASE \E list : TryNext(list)
  BY <1>1, <1>2, NextTry
<1>3. CASE ~ \E list : TryNext(list)
  <2>1. phase' = "idle" /\ sent' = sent /\ UNCHANGED v20Vars
    BY <1>3 DEF Timeout, Ends
  <2>2. QED
    BY <1>1, <2>1, OutsideHandshake DEF IInv, Server
<1>4. QED
  BY <1>2, <1>3

-----------------------------------------------------------------------------
\* A refusal says nothing of any session.
LEMMA Refusal ==
    ASSUME NEW q, Refuse(q)
    PROVE  \A r \in replies' \ replies : Granted(r)' /\ Activated(r)'
BY DEF Refuse, Reply, Granted, Activated

LEMMA Stays ==
    ASSUME IInv, UNCHANGED sessions PROVE Evolves /\ sessions' \in [Sids -> Records]
BY DEF Evolves, IInv, Server, Records

LEMMA CommandStep ==
    ASSUME IInv, NEW q, BmcCommand(q), UNCHANGED <<connectVars, v20Vars, sent>> PROVE IInv'
<1>1. \A r \in replies' \ replies : Granted(r)' /\ Activated(r)'
  BY Refusal DEF BmcCommand, Reply, Granted, Activated
<1>2. QED
  BY <1>1, Stays, BmcSide DEF BmcCommand, IInv, Server

LEMMA OpenSide ==
    ASSUME IInv, NEW q, BmcOpen(q), UNCHANGED <<connectVars, v20Vars, sent>> PROVE IInv'
<1>1. drawn' \in Nat /\ UNCHANGED <<bmcList, password, explicit>>
  BY DEF BmcOpen, IInv, Server
<1>2. q.type = "open"
  BY DEF BmcOpen
<1>3. ASSUME NEW k \in Sids, q.suite \in ToSet(bmcList), sessions[k].st = "none",
             sessions' = [sessions EXCEPT ![k] =
                [st |-> "opened", suite |-> q.suite, crand |-> 0, brand |-> 0]],
             Reply(q, TRUE, k, q.suite, 0, <<>>)
      PROVE  IInv'
  <2>1. q.suite \in StandardSuites
    BY <1>3, RmcpAssumption DEF IInv, Server, ToSet
  <2>2. sessions' \in [Sids -> Records]
    BY <1>3, <2>1 DEF IInv, Server, Records
  <2>3. Evolves
    BY <1>3 DEF IInv, Server, Evolves
  <2>4. \A r \in replies' \ replies : Granted(r)' /\ Activated(r)'
    BY <1>2, <1>3 DEF IInv, Server, Reply, Granted, Activated
  <2>5. QED
    BY <1>1, <2>2, <2>3, <2>4, BmcSide
<1>4. ASSUME NEW k \in Sids, sessions[k].st \notin {"none", "gone"},
             Reply(q, TRUE, k, sessions[k].suite, 0, <<>>), UNCHANGED sessions
      PROVE  IInv'
  <2>1. \A r \in replies' \ replies : Granted(r)' /\ Activated(r)'
    BY <1>2, <1>4 DEF Reply, Granted, Activated
  <2>2. QED
    BY <1>1, <1>4, <2>1, Stays, BmcSide
<1>5. CASE Refuse(q) /\ UNCHANGED sessions
  BY <1>1, <1>5, Refusal, Stays, BmcSide
<1>6. QED
  BY <1>3, <1>4, <1>5 DEF BmcOpen

LEMMA Rakp1Side ==
    ASSUME IInv, NEW q, BmcRakp1(q), UNCHANGED <<connectVars, v20Vars, sent>> PROVE IInv'
<1>1. q.type = "rakp1" /\ q.crand \in Nat /\ UNCHANGED <<bmcList, password, explicit>>
  BY DEF BmcRakp1, Fresh, IInv, Server
<1>2. ASSUME NEW b, Rakp2(q, b)
      PROVE  \A r \in replies' \ replies : Granted(r)' /\ Activated(r)'
  BY <1>1, <1>2 DEF Rakp2, Reply, Granted, Activated
<1>3. CASE UNCHANGED <<sessions, drawn>>
  <2>1. \A r \in replies' \ replies : Granted(r)' /\ Activated(r)'
    <3>1. CASE Refuse(q)
      BY <3>1, Refusal
    <3>2. CASE \E b : Rakp2(q, b)
      BY <3>2, <1>2
    <3>3. QED
      BY <3>1, <3>2 DEF BmcRakp1
  <2>2. QED
    BY <1>1, <1>3, <2>1, Stays, BmcSide DEF IInv, Server
<1>4. CASE ~UNCHANGED <<sessions, drawn>>
  <2> DEFINE b == [st |-> "rakp2", suite |-> sessions[q.sid].suite,
                  crand |-> q.crand, brand |-> drawn + 1]
  <2>1. /\ q.sid \in Sids
        /\ sessions[q.sid].st \in {"opened", "rakp2"}
        /\ sessions' = [sessions EXCEPT ![q.sid] = b]
        /\ Rakp2(q, b)
        /\ drawn' = drawn + 1
    BY <1>4 DEF BmcRakp1
  <2>2. b \in Records /\ b.suite = sessions[q.sid].suite /\ b.st = "rakp2" /\ drawn' \in Nat
    BY <1>1, <2>1 DEF IInv, Server, Records
  <2>3. sessions' \in [Sids -> Records]
    BY <2>1, <2>2 DEF IInv, Server
  <2>4. Evolves
    BY <2>1, <2>2 DEF Evolves, IInv, Server
  <2>5. QED
    BY <1>1, <1>2, <2>1, <2>2, <2>3, <2>4, BmcSide
<1>5. QED
  BY <1>3, <1>4

LEMMA Rakp3Side ==
    ASSUME IInv, NEW q, BmcRakp3(q), UNCHANGED <<connectVars, v20Vars, sent>> PROVE IInv'
<1> DEFINE known == q.sid \in Sids /\ sessions[q.sid].st \in {"rakp2", "active"}
           b     == sessions[q.sid]
           good  == known /\ q.code = Rakp3Code(password, b.suite, b.brand)
<1>1. /\ q.type = "rakp3" /\ drawn' \in Nat /\ UNCHANGED <<bmcList, password, explicit>>
      /\ sessions' = IF known
                     THEN [sessions EXCEPT ![q.sid].st = IF good THEN "active" ELSE "gone"]
                     ELSE sessions
  BY DEF BmcRakp3, IInv, Server
<1>2. sessions' \in [Sids -> Records] /\ Evolves
  BY <1>1 DEF IInv, Server, Records, Evolves
<1>3. \A r \in replies' \ replies : Granted(r)' /\ Activated(r)'
  <2>1. CASE ~good
    BY <2>1, Refusal DEF BmcRakp3
  <2>2. CASE good
    <3>1. Reply(q, TRUE, q.sid, 0, 0,
                Rakp4Code(SIK(password, b.suite, b.crand, b.brand), b.suite, q.sid, b.crand))
      BY <2>2 DEF BmcRakp3
    <3>2. /\ sessions'[q.sid].st = "active"
          /\ sessions'[q.sid].suite = b.suite
          /\ sessions'[q.sid].crand = b.crand
          /\ sessions'[q.sid].brand = b.brand
      BY <1>1, <2>2 DEF IInv, Server, Records
    <3>3. QED
      BY <1>1, <2>2, <3>1, <3>2 DEF Reply, Granted, Activated
  <2>3. QED
    BY <2>1, <2>2
<1>4. QED
  BY <1>1, <1>2, <1>3, BmcSide

LEMMA ForgetStep == ASSUME IInv, BmcForgets PROVE IInv'
<1>1. PICK k \in Sids : /\ sessions[k].st \notin {"none", "gone"}
                        /\ sessions' = [sessions EXCEPT ![k].st = "gone"]
  BY DEF BmcForgets
<1>2. sessions' \in [Sids -> Records] /\ Evolves
  BY <1>1 DEF IInv, Server, Records, Evolves
<1>3. QED
  BY <1>2, BmcSide DEF BmcForgets, IInv, Server

-----------------------------------------------------------------------------
LEMMA InductiveStep == IInv /\ [Next]_vars => IInv'
<1> SUFFICES ASSUME IInv, [Next]_vars PROVE IInv'
  OBVIOUS
<1>1. CASE Connect20
  BY <1>1, ConnectStep
<1>2. ASSUME NEW r \in replies, Response(r) PROVE IInv'
  BY <1>2, CapsStep, SuitesStep, OpenStep, Rakp2Step, Rakp4Step, PrivStep DEF Response
<1>3. CASE Timeout
  BY <1>3, TimeoutStep
<1>4. ASSUME NEW q \in sent, Bmc(q) PROVE IInv'
  BY <1>4, CommandStep, OpenSide, Rakp1Side, Rakp3Side DEF Bmc
<1>5. CASE BmcForgets
  BY <1>5, ForgetStep
<1>6. CASE UNCHANGED vars
  <2>1. Server'
    BY <1>6, ClientSide DEF vars, bmcVars, IInv, Server
  <2>2. Client' /\ Agreement'
    BY <1>6 DEF vars, IInv, Client, Agreement
  <2>3. QED
    BY <2>1, <2>2 DEF IInv
<1>7. QED
  BY <1>1, <1>2, <1>3, <1>4, <1>5, <1>6 DEF Next

(* Client and BMC agree on the session, its algorithms and its keys        *)
(* whenever the client's session is active (cmd_rakp_message_1_2.go:       *)
(* 156-173, cmd_rakp_message_3_4.go:156-177), although no reply is matched *)
(* with its request: the codes do that.                                    *)
THEOREM KeysAgree == Spec => []Agreement
<1>1. IInv => Agreement
  BY DEF IInv
<1>2. QED
  BY InitIInv, InductiveStep, <1>1, PTL DEF Spec

-----------------------------------------------------------------------------
\* With a suite set by the user, every request, record and try is of it.
OneSuite ==
    explicit # Reserved =>
        /\ suite = explicit
        /\ tries = <<>>
        /\ \A q \in sent : q.type = "open" => q.suite = AlgorithmsOf(explicit)
        /\ \A k \in Sids : sessions[k].st # "none" => sessions[k].suite = AlgorithmsOf(explicit)

LEMMA OneSuiteTry ==
    ASSUME OneSuite, UNCHANGED bmcVars, NEW list, TryNext(list),
           explicit # Reserved => list \in {<<>>, <<suite>>}
    PROVE  OneSuite'
<1> SUFFICES ASSUME explicit # Reserved PROVE OneSuite'
  BY DEF OneSuite, bmcVars
<1>1. CASE list = <<>>
  BY <1>1 DEF OneSuite, TryNext, v20Vars, bmcVars
<1>2. CASE list # <<>>
  <2>1. list = <<explicit>>
    BY <1>2 DEF OneSuite
  <2>2. Head(list) = explicit /\ Tail(list) = <<>>
    BY <2>1
  <2>3. QED
    BY <1>2, <2>2 DEF OneSuite, TryNext, OpenSession, Send, bmcVars
<1>3. QED
  BY <1>1, <1>2

LEMMA OneSuiteResponse ==
    ASSUME OneSuite, NEW r, Response(r) PROVE OneSuite'
<1>1. CASE CapsReply(r)
  BY <1>1 DEF OneSuite, CapsReply, Send, Ends, bmcVars, v20Vars
<1>2. CASE SuitesReply(r)
  <2>1. \E list : TryNext(Chosen(list))
    BY <1>2 DEF SuitesReply
  <2>2. QED
    BY <1>2, <2>1, OneSuiteTry DEF SuitesReply, Chosen, OneSuite
<1>3. CASE OpenReply(r)
  <2>1. CASE TryNext(tries)
    BY <1>3, <2>1, OneSuiteTry DEF OpenReply, OneSuite
  <2>2. CASE \E k, s : Opened(k, s)
    BY <1>3, <2>2 DEF OpenReply, OneSuite, Opened, RAKPMessage1, Send, bmcVars
  <2>3. QED
    BY <1>3, <2>1, <2>2 DEF OpenReply
<1>4. CASE Rakp2Reply(r)
  <2>1. CASE TryNext(tries)
    BY <1>4, <2>1, OneSuiteTry DEF Rakp2Reply, OneSuite
  <2>2. CASE ~TryNext(tries)
    BY <1>4, <2>2 DEF Rakp2Reply, OneSuite, RAKPMessage3, Send, bmcVars
  <2>3. QED
    BY <2>1, <2>2
<1>5. CASE Rakp4Reply(r)
  <2>1. CASE TryNext(tries)
    BY <1>5, <2>1, OneSuiteTry DEF Rakp4Reply, OneSuite
  <2>2. CASE ~TryNext(tries)
    BY <1>5, <2>2 DEF Rakp4Reply, OneSuite, Send, bmcVars
  <2>3. QED
    BY <2>1, <2>2
<1>6. CASE PrivReply(r)
  BY <1>6 DEF OneSuite, PrivReply, Ends, bmcVars, v20Vars
<1>7. QED
  BY <1>1, <1>2, <1>3, <1>4, <1>5, <1>6 DEF Response

LEMMA OneSuiteBmc ==
    ASSUME Server, OneSuite, NEW q \in sent, Bmc(q) PROVE OneSuite'
<1> USE DEF connectVars, v20Vars
<1>1. UNCHANGED <<explicit, suite, tries, sent>>
  BY DEF Bmc, BmcCommand, BmcOpen, BmcRakp1, BmcRakp3
<1>2. \A k \in Sids : sessions'[k].st # "none" =>
            \/ sessions[k].st # "none" /\ sessions'[k].suite = sessions[k].suite
            \/ q.type = "open" /\ sessions'[k].suite = q.suite
  <2>1. CASE BmcCommand(q)
    BY <2>1 DEF BmcCommand
  <2>2. CASE BmcOpen(q)
    <3>1. CASE UNCHANGED sessions
      BY <3>1
    <3>2. CASE \E k \in Sids : sessions' = [sessions EXCEPT ![k] =
                [st |-> "opened", suite |-> q.suite, crand |-> 0, brand |-> 0]]
      BY <2>2, <3>2 DEF BmcOpen, Server
    <3>3. QED
      BY <2>2, <3>1, <3>2 DEF BmcOpen
  <2>3. CASE BmcRakp1(q)
    BY <2>3 DEF BmcRakp1, Server
  <2>4. CASE BmcRakp3(q)
    BY <2>4 DEF BmcRakp3, Server, Records
  <2>5. QED
    BY <2>1, <2>2, <2>3, <2>4 DEF Bmc
<1>3. QED
  BY <1>1, <1>2 DEF OneSuite

(* The suite set with WithCipherSuiteID is the one a session is activated  *)
(* with (client.go:164-171, interface_lan.go:228-231), in spite of retries *)
(* and of late and duplicated replies.                                     *)
THEOREM ExplicitSuite == Spec => []ExplicitSuiteUsed
<1>1. Init => OneSuite
  BY DEF Init, OneSuite, NoSession
<1>2. Server /\ OneSuite /\ [Next]_vars => OneSuite'
  <2> SUFFICES ASSUME Server, OneSuite, [Next]_vars PROVE OneSuite'
    OBVIOUS
  <2>1. CASE Connect20
    BY <2>1 DEF Connect20, OneSuite, Send, v20Vars, bmcVars
  <2>2. ASSUME NEW r \in replies, Response(r) PROVE OneSuite'
    BY <2>2, OneSuiteResponse
  <2>3. CASE Timeout
    <3>1. CASE \E list : TryNext(list) /\ (explicit # Reserved => list \in {<<>>, <<suite>>})
      BY <2>3, <3>1, OneSuiteTry DEF Timeout
    <3>2. CASE UNCHANGED <<suite, tries, sent>>
      BY <2>3, <3>2 DEF Timeout, OneSuite, bmcVars
    <3>3. QED
      BY <2>3, <3>1, <3>2 DEF Timeout, Ends, v20Vars, OneSuite, Chosen
  <2>4. ASSUME NEW q \in sent, Bmc(q) PROVE OneSuite'
    BY <2>4, OneSuiteBmc
  <2>5. CASE BmcForgets
    BY <2>5 DEF BmcForgets, OneSuite, Server, Records, connectVars, v20Vars
  <2>6. CASE UNCHANGED vars
    BY <2>6 DEF vars, OneSuite
  <2>7. QED
    BY <2>1, <2>2, <2>3, <2>4, <2>5, <2>6 DEF Next
<1>3. OneSuite /\ Agreement => ExplicitSuiteUsed
  BY DEF OneSuite, Agreement, ExplicitSuiteUsed
<1>4. IInv => Server
  BY DEF IInv
<1>5. IInv /\ [Next]_vars => IInv'
  BY InductiveStep
<1>6. IInv => Agreement
  BY DEF IInv
<1>7. QED
  BY InitIInv, <1>1, <1>2, <1>3, <1>4, <1>5, <1>6, PTL DEF Spec
-----------------------------------------------------------------------------
(***************************************************************************)
(* What sortCipherSuites returns for every list (SortedSuites).            *)
(***************************************************************************)
LEMMA Below == \E R : IsWellFoundedOn(R, Nat) /\ \A n, m \in Nat : n < m => <<n, m>> \in R
<1> DEFINE R == OpToRel(<, Nat)
<1>1. \A n, m \in Nat : n < m => <<n, m>> \in R
  BY DEF OpToRel
<1>2. IsWellFoundedOn(R, Nat)
  BY NatLessThanWellFounded
<1> HIDE DEF R
<1> QED BY <1>1, <1>2, Zenon

LEMMA LeastOf == ASSUME NEW T, T \subseteq Nat, T # {} PROVE \E m \in T : \A n \in T : m <= n
<1>1. PICK R : IsWellFoundedOn(R, Nat) /\ \A n, m \in Nat : n < m => <<n, m>> \in R
  BY Below, Zenon
<1> DEFINE minimal(x) == \A y \in T : ~ (<<y, x>> \in R)
<1>2. \E x \in T : minimal(x)
  <2>1. IsWellFoundedOn(R, Nat)
    BY <1>1
  <2> QED BY <2>1, WFMin
<1>3. PICK m \in T : minimal(m)
  BY <1>2
<1>4. \A n \in T : ~ (<<n, m>> \in R)
  BY <1>3
<1>5. ASSUME NEW n \in T PROVE m <= n
  <2>1. <<n, m>> \notin R /\ n \in Nat /\ m \in Nat
    BY <1>4
  <2>2. ~(n < m)
    BY <1>1, <2>1, Zenon
  <2> QED BY <2>1, <2>2
<1> QED BY <1>5

LEMMA Preferred ==
    /\ DOMAIN preferredCiphers = 1..11 /\ Len(preferredCiphers) = 11
    /\ \A i \in 1..11 : preferredCiphers[i] \in StandardSuites
    /\ \A i, k \in 1..11 : preferredCiphers[i] = preferredCiphers[k] => i = k
<1>1. /\ DOMAIN preferredCiphers = 1..11 /\ Len(preferredCiphers) = 11
      /\ \A i \in 1..11 : preferredCiphers[i] \in StandardSuites
  BY DEF preferredCiphers, StandardSuites
<1>2. \A i, k \in 1..11 : preferredCiphers[i] = preferredCiphers[k] => i = k
  BY DEF preferredCiphers
<1>3. QED
  BY <1>1, <1>2

LEMMA EntriesCount ==
    ASSUME NEW S, NEW l \in Seq(S)
    PROVE  /\ \A n \in 0..11 : Entries(l, n) \in Nat
           /\ Entries(l, 0) = 0
           /\ \A m, n \in 0..11 : m <= n => Entries(l, m) <= Entries(l, n)
           /\ \A n \in 1..11 :
                 Entries(l, n - 1) < Entries(l, n) <=> \E j \in DOMAIN l : l[j] = preferredCiphers[n]
<1> DEFINE P(n) == {j \in DOMAIN l : \E i \in 1..n : l[j] = preferredCiphers[i]}
<1>1. DOMAIN l = 1..Len(l) /\ Len(l) \in Nat /\ IsFiniteSet(DOMAIN l)
  BY FS_Interval
<1>2. \A n : Entries(l, n) = Cardinality(P(n)) /\ P(n) \subseteq DOMAIN l
  BY DEF Entries
<1>3. \A n : IsFiniteSet(P(n)) /\ Cardinality(P(n)) \in Nat
  BY <1>1, <1>2, FS_Subset, FS_CardinalityType
<1>4. P(0) = {}
  OBVIOUS
<1>5. \A m, n \in 0..11 : m <= n => P(m) \subseteq P(n)
  OBVIOUS
<1>6. ASSUME NEW n \in 1..11
      PROVE  P(n - 1) = P(n) <=> ~\E j \in DOMAIN l : l[j] = preferredCiphers[n]
  <2>1. ASSUME NEW j \in DOMAIN l, l[j] = preferredCiphers[n] PROVE j \in P(n) /\ j \notin P(n - 1)
    <3>1. j \in P(n)
      BY <2>1
    <3>2. ASSUME NEW i \in 1..(n - 1), l[j] = preferredCiphers[i] PROVE FALSE
      <4>1. i \in 1..11 /\ i # n
        OBVIOUS
      <4>2. QED
        BY <2>1, <3>2, <4>1, Preferred
    <3>3. QED
      BY <3>1, <3>2
  <2>2. ASSUME NEW j \in P(n), j \notin P(n - 1) PROVE l[j] = preferredCiphers[n]
    BY <2>2
  <2>3. P(n - 1) \subseteq P(n)
    OBVIOUS
  <2> HIDE DEF P
  <2>4. P(n) \subseteq DOMAIN l
    BY <1>2
  <2>5. QED
    BY <2>1, <2>2, <2>3, <2>4
<1> HIDE DEF P
<1>7. \A m, n \in 0..11 : m <= n => Cardinality(P(m)) <= Cardinality(P(n))
  BY <1>3, <1>5, FS_Subset
<1>8. ASSUME NEW n \in 1..11
      PROVE  Cardinality(P(n - 1)) < Cardinality(P(n)) <=> P(n - 1) # P(n)
  <2>1. n - 1 \in 0..11 /\ n \in 0..11 /\ n - 1 <= n
    OBVIOUS
  <2>2. Cardinality(P(n)) = Cardinality(P(n - 1)) => P(n) = P(n - 1)
    BY <1>3, <1>5, <2>1, FS_Subset
  <2>3. QED
    <3>1. Cardinality(P(n)) \in Nat /\ Cardinality(P(n - 1)) \in Nat
      BY <1>3
    <3>2. Cardinality(P(n - 1)) <= Cardinality(P(n))
      BY <1>7, <2>1
    <3>3. QED
      BY <2>2, <3>1, <3>2
<1>9. Cardinality(P(0)) = 0
  BY <1>4, FS_EmptySet
<1>10. (\A n \in 0..11 : Entries(l, n) \in Nat) /\ Entries(l, 0) = 0
  BY <1>2, <1>3, <1>9, Zenon
<1>11. \A m, n \in 0..11 : m <= n => Entries(l, m) <= Entries(l, n)
  BY <1>2, <1>7, Zenon
<1>12. ASSUME NEW n \in 1..11
       PROVE  Entries(l, n - 1) < Entries(l, n) <=> \E j \in DOMAIN l : l[j] = preferredCiphers[n]
  BY <1>2, <1>6, <1>8, Zenon
<1>13. QED
  BY <1>10, <1>11, <1>12, Zenon

\* Where the k-th of things counted up comes in.
LEMMA Met ==
    ASSUME NEW e \in [0..11 -> Nat], e[0] = 0, NEW k \in 1..e[11]
    PROVE  \E i \in 1..11 : e[i - 1] < k /\ k <= e[i]
<1> DEFINE T == {i \in 0..11 : k <= e[i]}
<1>1. 11 \in T /\ 0 \notin T /\ T \subseteq Nat
  OBVIOUS
<1>2. PICK i \in T : \A n \in T : i <= n
  BY <1>1, LeastOf
<1>3. i \in 1..11 /\ i - 1 \in 0..11 /\ i - 1 \notin T
  BY <1>1, <1>2
<1>4. e[i - 1] < k /\ k <= e[i]
  BY <1>2, <1>3
<1>5. QED
  BY <1>3, <1>4

\* Counts of the entries up to each rank, and the list that they give: the k-th entry
\* is the suite of the rank with which k are met.
Counting(e) ==
    /\ e \in [0..11 -> Nat] /\ e[0] = 0
    /\ \A m, n \in 0..11 : m <= n => e[m] <= e[n]
CountsOf(e, l) ==
    \A n \in 1..11 : e[n - 1] < e[n] <=> \E j \in DOMAIN l : l[j] = preferredCiphers[n]
Placed(s, e) ==
    \A k \in 1..e[11] : \E i \in 1..11 :
       s[k] = preferredCiphers[i] /\ e[i - 1] < k /\ k <= e[i]

Ranked(s, e) ==
    /\ \A k \in 1..e[11] : \E i \in 1..11 : s[k] = preferredCiphers[i] /\ e[i - 1] < e[i]
    /\ \A i \in 1..11 : e[i - 1] < e[i] => \E k \in 1..e[11] : s[k] = preferredCiphers[i]
    /\ \A k, m \in 1..e[11], i, j \in 1..11 :
          k < m /\ s[k] = preferredCiphers[i] /\ s[m] = preferredCiphers[j] => i <= j

LEMMA Counted ==
    ASSUME NEW e, Counting(e), NEW s, Placed(s, e)
    PROVE  Ranked(s, e)
<1>1. \A k \in 1..e[11] : \E i \in 1..11 :
         s[k] = preferredCiphers[i] /\ e[i - 1] < k /\ k <= e[i]
  BY DEF Placed
<1>2. \A i \in 1..11 : i - 1 \in 0..11 /\ i \in 0..11
  OBVIOUS
<1>3. \A i \in 1..11 : e[i - 1] \in Nat /\ e[i] \in Nat /\ e[i] <= e[11]
  BY <1>2 DEF Counting
<1>4. ASSUME NEW i \in 1..11, NEW j \in 1..11, NEW k \in Nat, NEW m \in Nat,
             e[i - 1] < k, m <= e[j], k <= m
      PROVE  i <= j
  <2>1. SUFFICES ASSUME j <= i - 1 PROVE FALSE
    OBVIOUS
  <2>2. e[j] <= e[i - 1]
    BY <1>2, <2>1 DEF Counting
  <2>3. QED
    BY <1>3, <1>4, <2>2
<1>5. ASSUME NEW k \in 1..e[11], NEW m \in 1..e[11], NEW i \in 1..11, NEW j \in 1..11,
             k < m, s[k] = preferredCiphers[i], s[m] = preferredCiphers[j]
      PROVE  i <= j
  <2>1. e[i - 1] < k
    BY <1>1, <1>5, Preferred
  <2>2. m <= e[j]
    BY <1>1, <1>5, Preferred
  <2>3. k <= m /\ k \in Nat /\ m \in Nat
    BY <1>5
  <2>4. QED
    BY <1>4, <2>1, <2>2, <2>3
<1>6. ASSUME NEW i \in 1..11, e[i - 1] < e[i] PROVE \E k \in 1..e[11] : s[k] = preferredCiphers[i]
  <2> DEFINE k == e[i]
  <2>1. k \in 1..e[11]
    BY <1>3, <1>6
  <2>2. PICK h \in 1..11 : s[k] = preferredCiphers[h] /\ e[h - 1] < k /\ k <= e[h]
    BY <1>1, <2>1
  <2> e[i - 1] < k /\ k \in Nat /\ k <= k /\ k <= e[i]
    BY <1>3, <1>6
  <2> HIDE DEF k
  <2>3. h <= i
    BY <1>4, <2>2, Zenon
  <2>4. i <= h
    BY <1>4, <2>2, Zenon
  <2> USE DEF k
  <2>5. h = i
    BY <2>3, <2>4
  <2>6. QED
    BY <2>1, <2>2, <2>5
<1>7. ASSUME NEW k \in 1..e[11] PROVE \E i \in 1..11 : s[k] = preferredCiphers[i] /\ e[i - 1] < e[i]
  <2>1. PICK i \in 1..11 : s[k] = preferredCiphers[i] /\ e[i - 1] < k /\ k <= e[i]
    BY <1>1
  <2>2. QED
    BY <1>3, <2>1
<1>8. QED
  BY <1>5, <1>6, <1>7 DEF Ranked

\* What a sorted list is: the suites of the list that are preferred, in the order of
\* preference.
SortOf(s, l) ==
    /\ s \in Seq(StandardSuites)
    /\ \A k \in DOMAIN s : \E j \in DOMAIN l : s[k] = l[j]
    /\ \A k \in DOMAIN s : \E i \in 1..11 : s[k] = preferredCiphers[i]
    /\ \A j \in DOMAIN l, i \in 1..11 :
          l[j] = preferredCiphers[i] => \E k \in DOMAIN s : s[k] = l[j]
    /\ \A k, m \in DOMAIN s, i, j \in 1..11 :
          k < m /\ s[k] = preferredCiphers[i] /\ s[m] = preferredCiphers[j] => i <= j

LEMMA CountedList ==
    ASSUME NEW l, NEW e, Counting(e), CountsOf(e, l),
           NEW s, s \in Seq(StandardSuites), DOMAIN s = 1..e[11], Placed(s, e)
    PROVE  SortOf(s, l)
<1>0. Ranked(s, e)
  BY Counted
<1>1. \A k \in DOMAIN s : \E i \in 1..11 : s[k] = preferredCiphers[i] /\ e[i - 1] < e[i]
  BY <1>0, Zenon DEF Ranked
<1>2. \A i \in 1..11 : e[i - 1] < e[i] => \E k \in DOMAIN s : s[k] = preferredCiphers[i]
  BY <1>0, Zenon DEF Ranked
<1>3. \A k, m \in DOMAIN s, i, j \in 1..11 :
         k < m /\ s[k] = preferredCiphers[i] /\ s[m] = preferredCiphers[j] => i <= j
  BY <1>0, Zenon DEF Ranked
<1>4. ASSUME NEW k \in DOMAIN s PROVE \E j \in DOMAIN l : s[k] = l[j]
  <2>1. PICK i \in 1..11 : s[k] = preferredCiphers[i] /\ e[i - 1] < e[i]
    BY <1>1, Zenon
  <2>2. PICK j \in DOMAIN l : l[j] = preferredCiphers[i]
    BY <2>1, Zenon DEF CountsOf
  <2>3. QED
    BY <2>1, <2>2, Zenon
<1>5. ASSUME NEW j \in DOMAIN l, NEW i \in 1..11, l[j] = preferredCiphers[i]
      PROVE  \E k \in DOMAIN s : s[k] = l[j]
  <2>1. e[i - 1] < e[i]
    BY <1>5, Zenon DEF CountsOf
  <2>2. QED
    BY <1>2, <1>5, <2>1, Zenon
<1>6. QED
  BY <1>1, <1>3, <1>4, <1>5, Zenon DEF SortOf

LEMMA SortedSuites ==
    ASSUME NEW S, NEW l \in Seq(S) PROVE SortOf(sortCipherSuites(l), l)
<1> DEFINE s == sortCipherSuites(l)
           e == [n \in 0..11 |-> Entries(l, n)]
<1>1. Counting(e) /\ CountsOf(e, l)
  <2>1. \A n \in 1..11 : n - 1 \in 0..11 /\ n \in 0..11
    OBVIOUS
  <2>2. \A n \in 0..11 : e[n] = Entries(l, n)
    OBVIOUS
  <2>3. e \in [0..11 -> Nat]
    BY EntriesCount, Zenon
  <2>4. e[0] = 0
    BY <2>2, EntriesCount
  <2> HIDE DEF e
  <2>5. \A m, n \in 0..11 : m <= n => e[m] <= e[n]
    <3>1. \A m, n \in 0..11 : m <= n => Entries(l, m) <= Entries(l, n)
      BY EntriesCount
    <3> QED BY <2>2, <3>1, Zenon
  <2>6. \A n \in 1..11 : e[n - 1] < e[n] <=> \E j \in DOMAIN l : l[j] = preferredCiphers[n]
    <3>1. \A n \in 1..11 :
            Entries(l, n - 1) < Entries(l, n) <=> \E j \in DOMAIN l : l[j] = preferredCiphers[n]
      BY EntriesCount
    <3> QED BY <2>1, <2>2, <3>1, Zenon
  <2>7. QED
    BY <2>3, <2>4, <2>5, <2>6 DEF Counting, CountsOf
<1>2. /\ s \in Seq(StandardSuites) /\ DOMAIN s = 1..e[11]
      /\ Placed(s, e)
  <2> DEFINE n == Len(preferredCiphers)
             c(k) == CHOOSE i \in 1..n : Entries(l, i - 1) < k /\ k <= Entries(l, i)
  <2>1. s = [k \in 1..Entries(l, n) |-> preferredCiphers[c(k)]]
    BY Zenon DEF sortCipherSuites
  <2>2. n = 11
    BY Preferred
  <2>3. e[11] = Entries(l, 11) /\ \A i \in 1..11 : e[i - 1] = Entries(l, i - 1) /\ e[i] = Entries(l, i)
    OBVIOUS
  <2> HIDE DEF s, e, n
  <2>4. ASSUME NEW k \in 1..e[11] PROVE c(k) \in 1..11 /\ e[c(k) - 1] < k /\ k <= e[c(k)]
    <3>1. \E i \in 1..11 : e[i - 1] < k /\ k <= e[i]
      BY <1>1, Met, Zenon DEF Counting
    <3>2. \E i \in 1..n : Entries(l, i - 1) < k /\ k <= Entries(l, i)
      BY <2>2, <2>3, <3>1, Zenon
    <3>3. c(k) \in 1..n /\ Entries(l, c(k) - 1) < k /\ k <= Entries(l, c(k))
      BY <3>2, Zenon
    <3>4. QED
      BY <2>2, <2>3, <3>3, Zenon
  <2> HIDE DEF c
  <2>5. s = [k \in 1..e[11] |-> preferredCiphers[c(k)]]
    BY <2>1, <2>2, <2>3
  <2>6. \A k \in 1..e[11] : s[k] = preferredCiphers[c(k)] /\ preferredCiphers[c(k)] \in StandardSuites
    BY <2>4, <2>5, Preferred
  <2>7. s \in [1..e[11] -> StandardSuites]
    BY <2>5, <2>6
  <2>8. e[11] \in Nat /\ DOMAIN s = 1..e[11]
    BY <1>1, <2>5 DEF Counting
  <2>9. s \in Seq(StandardSuites)
    BY <2>7, <2>8
  <2>10. QED
    BY <2>4, <2>6, <2>8, <2>9 DEF Placed
<1> HIDE DEF s, e
<1>3. SortOf(s, l)
  BY <1>1, <1>2, CountedList
<1>4. QED
  BY <1>3 DEF s
-----------------------------------------------------------------------------
(***************************************************************************)
(* The types.  What is stored as it comes is the list of suites to try,    *)
(* out of sortCipherSuites, and a random number out of a reply.            *)
(***************************************************************************)
Suites == 0..255

\* Where the client is in its handshake.
Waiting ==
    /\ phase \in Phases
    /\ result \in {"none", "ok", "error"}
    /\ state \in States
    /\ phase = "open" => state = "OpenSessionSent"
    /\ phase = "rakp1" => state = "Rakp1Sent"
    /\ phase = "rakp3" => state = "Rakp3Sent"
    /\ phase = "priv" => state = "Active"

\* What it has stored.
Holding ==
    /\ suite \in Suites /\ algs \in StandardSuites
    /\ sid \in Sids \cup {NoSid, Garbage}
    /\ crand \in Nat /\ brand \in 0..drawn
    /\ tries \in Seq(Suites)

\* What the BMC has, and has said.
Offering ==
    /\ bmcList \in Lists
    /\ password \in {"right", "wrong"}
    /\ explicit \in Explicits
    /\ \A k \in Sids : sessions[k].brand \in 0..drawn
    /\ \A r \in replies : r.brand \in 0..drawn

Typed ==
    /\ Waiting /\ Holding /\ Offering
    /\ connects \in 0..MaxConnects[explicit]
    /\ handled \subseteq sent

LEMMA TypedIsTypeOK == ASSUME Typed, Server PROVE RmcpTypeOK
BY DEF Server, Records, Typed, RmcpTypeOK, Waiting, Holding, Offering, Suites

LEMMA PreferredList == preferredCiphers \in Seq(StandardSuites)
BY DEF preferredCiphers, StandardSuites

LEMMA ChosenTyped ==
    ASSUME Holding, NEW list \in Seq(StandardSuites) PROVE Chosen(list) \in Seq(Suites)
<1>1. list \in Seq(Suites)
  BY DEF StandardSuites, Suites
<1>2. suite \in Suites /\ MaxTries \in Nat
  BY RmcpAssumption DEF Holding
<1> DEFINE n == IF Len(list) < MaxTries THEN Len(list) ELSE MaxTries
<1>3. n \in Nat /\ n <= Len(list)
  BY <1>2
<1> HIDE DEF n
<1>4. SubSeq(list, 1, n) \in Seq(Suites)
  BY <1>1, <1>3
<1>5. QED
  BY <1>2, <1>4 DEF Chosen, n

LEMMA ReadableTyped ==
    ASSUME bmcList \in Lists, NEW S PROVE Readable(S) \in Seq(Suites)
<1>1. bmcList \in Seq(StandardSuites)
  BY RmcpAssumption
<1>2. bmcList \in Seq(Suites)
  BY <1>1 DEF StandardSuites, Suites
<1>3. Reserved \in Suites
  BY DEF Reserved, Suites
<1>4. Readable(S) = [i \in 1..Len(bmcList) |-> IF bmcList[i] \in S THEN bmcList[i] ELSE Reserved]
  BY <1>2 DEF Readable
<1>5. Len(bmcList) \in Nat /\ \A i \in 1..Len(bmcList) : bmcList[i] \in Suites
  BY <1>2
<1>6. QED
  BY <1>3, <1>4, <1>5

\* The list that Connect20 tries, whichever of the walk's replies it goes by.
LEMMA TriedTyped ==
    ASSUME Holding, bmcList \in Lists, NEW r, SuitesReply(r)
    PROVE  \E list \in Seq(Suites) : TryNext(list)
<1>1. bmcList \in Seq(StandardSuites)
  BY RmcpAssumption
<1>2. ASSUME NEW S, NEW l \in Seq(S), TryNext(Chosen(sortCipherSuites(l)))
      PROVE  \E list \in Seq(Suites) : TryNext(list)
  <2>1. sortCipherSuites(l) \in Seq(StandardSuites)
    BY SortedSuites DEF SortOf
  <2>2. QED
    BY <1>2, <2>1, ChosenTyped
<1>3. CASE TryNext(Chosen(preferredCiphers))
  BY <1>3, PreferredList, ChosenTyped
<1>4. CASE TryNext(Chosen(sortCipherSuites(bmcList)))
  BY <1>1, <1>2, <1>4
<1>5. ASSUME NEW S \in SUBSET ToSet(bmcList), TryNext(Chosen(sortCipherSuites(Readable(S))))
      PROVE  \E list \in Seq(Suites) : TryNext(list)
  BY <1>2, <1>5, ReadableTyped
<1>6. QED
  BY <1>3, <1>4, <1>5 DEF SuitesReply

\* What the client does leaves the BMC alone and unsends nothing.
LEMMA TypedClient ==
    ASSUME Typed, UNCHANGED bmcVars, replies' \subseteq replies, sent \subseteq sent',
           connects' \in 0..MaxConnects[explicit], Waiting', Holding'
    PROVE  Typed'
<1>1. Offering'
  BY DEF Typed, Offering, bmcVars
<1>2. handled' \subseteq sent' /\ explicit' = explicit
  BY DEF Typed, bmcVars
<1>3. QED
  BY <1>1, <1>2 DEF Typed

\* Connect20 goes on with a suite of the list, or gives up.
LEMMA TypedTry ==
    ASSUME Typed, UNCHANGED bmcVars, replies' \subseteq replies,
           NEW list \in Seq(Suites), TryNext(list), brand' \in 0..drawn
    PROVE  Typed'
<1>1. CASE list = <<>>
  <2>1. /\ phase' = "idle" /\ result' = "error"
        /\ UNCHANGED <<connects, state, suite, sent, algs, sid, crand, sik, tries>>
    BY <1>1 DEF TryNext
  <2>2. Waiting' /\ Holding'
    BY <2>1 DEF Typed, Waiting, Holding, bmcVars, Phases
  <2>3. QED
    BY <2>1, <2>2, TypedClient DEF Typed
<1>2. CASE list # <<>>
  <2>1. Head(list) \in Suites /\ Tail(list) \in Seq(Suites)
    BY <1>2
  <2>2. /\ phase' = "open" /\ state' = "OpenSessionSent" /\ suite' = Head(list)
        /\ tries' = Tail(list) /\ sent \subseteq sent'
        /\ UNCHANGED <<connects, result, algs, sid, crand>>
    BY <1>2 DEF TryNext, OpenSession, Send
  <2>3. Waiting' /\ Holding'
    BY <2>1, <2>2 DEF Typed, Waiting, Holding, bmcVars, Phases, States
  <2>4. QED
    BY <2>2, <2>3, TypedClient DEF Typed
<1>3. QED
  BY <1>1, <1>2

LEMMA TypedResponse ==
    ASSUME IInv, Typed, NEW r, Response(r) PROVE Typed'
<1>1. UNCHANGED bmcVars /\ r \in replies /\ replies' \subseteq replies
  BY Taken DEF Response, CapsReply, SuitesReply, OpenReply, Rakp2Reply, Rakp4Reply, PrivReply
<1>2. /\ r.brand \in 0..drawn /\ brand \in 0..drawn
      /\ Holding /\ tries \in Seq(Suites) /\ bmcList \in Lists
      /\ connects \in 0..MaxConnects[explicit]
  BY <1>1 DEF Typed, Offering, Holding
<1>3. CASE CapsReply(r)
  <2>1. /\ UNCHANGED <<connects, tries, v20Vars>> /\ sent \subseteq sent'
        /\ \/ phase' = "suites" /\ result' = result
           \/ phase' = "idle" /\ result' = "error"
    BY <1>3 DEF CapsReply, Ends, Send
  <2>2. Waiting' /\ Holding'
    BY <1>1, <2>1 DEF Typed, Waiting, Holding, v20Vars, bmcVars, Phases
  <2>3. QED
    BY <1>1, <1>2, <2>1, <2>2, TypedClient
<1>4. CASE SuitesReply(r)
  <2>1. PICK list \in Seq(Suites) : TryNext(list)
    BY <1>2, <1>4, TriedTyped
  <2>2. UNCHANGED brand
    BY <1>4 DEF SuitesReply
  <2>3. QED
    BY <1>1, <1>2, <2>1, <2>2, TypedTry
<1>5. CASE OpenReply(r)
  <2>1. UNCHANGED brand
    BY <1>5 DEF OpenReply
  <2>2. ASSUME NEW k \in Sids \cup {NoSid, Garbage}, NEW s \in StandardSuites, Opened(k, s)
        PROVE  Typed'
    <3>1. /\ sid' = k /\ algs' = s /\ crand' \in Nat
          /\ state' = "Rakp1Sent" /\ phase' = "rakp1" /\ sent \subseteq sent'
          /\ UNCHANGED <<connects, tries, result, suite>>
      BY <1>2, <2>2 DEF Opened, RAKPMessage1, Send, Holding
    <3>2. Waiting' /\ Holding'
      BY <1>1, <2>1, <3>1 DEF Typed, Waiting, Holding, bmcVars, Phases, States
    <3>3. QED
      BY <1>1, <1>2, <3>1, <3>2, TypedClient
  <2>3. r.ok /\ r.type = "os" => r.sid \in Sids /\ r.suite \in StandardSuites
    BY <1>1 DEF IInv, Server, Granted, Records
  <2>4. CASE TryNext(tries)
    BY <1>1, <1>2, <2>1, <2>4, TypedTry
  <2>5. CASE r.ok /\ r.type = "os" /\ Opened(r.sid, r.suite)
    BY <2>2, <2>3, <2>5
  <2>6. CASE \E s \in GarbageSuites : Opened(Garbage, s)
    BY <2>2, <2>6, RmcpAssumption
  <2>7. QED
    BY <1>5, <2>4, <2>5, <2>6 DEF OpenReply
<1>6. CASE Rakp2Reply(r)
  <2>1. brand' \in 0..drawn
    BY <1>2, <1>6 DEF Rakp2Reply
  <2>2. CASE TryNext(tries)
    BY <1>1, <1>2, <2>1, <2>2, TypedTry
  <2>3. CASE ~TryNext(tries)
    <3>1. /\ state' = "Rakp3Sent" /\ phase' = "rakp3" /\ sent \subseteq sent'
          /\ UNCHANGED <<connects, tries, result, suite, algs, sid, crand>>
      BY <1>6, <2>3 DEF Rakp2Reply, RAKPMessage3, Send
    <3>2. Waiting' /\ Holding'
      BY <1>1, <2>1, <3>1 DEF Typed, Waiting, Holding, bmcVars, Phases, States
    <3>3. QED
      BY <1>1, <1>2, <3>1, <3>2, TypedClient
  <2>4. QED
    BY <2>2, <2>3
<1>7. CASE Rakp4Reply(r)
  <2>1. CASE TryNext(tries) /\ UNCHANGED brand
    BY <1>1, <1>2, <2>1, TypedTry
  <2>2. CASE ~(TryNext(tries) /\ UNCHANGED brand)
    <3>1. /\ state' = "Active" /\ phase' = "priv" /\ sent \subseteq sent'
          /\ UNCHANGED <<connects, tries, result, suite, algs, sid, crand, brand>>
      BY <1>7, <2>2 DEF Rakp4Reply, Send
    <3>2. Waiting' /\ Holding'
      BY <1>1, <3>1 DEF Typed, Waiting, Holding, bmcVars, Phases, States
    <3>3. QED
      BY <1>1, <1>2, <3>1, <3>2, TypedClient
  <2>3. QED
    BY <2>1, <2>2
<1>8. CASE PrivReply(r)
  <2>1. /\ phase' = "idle" /\ result' \in {"ok", "error"} /\ sent' = sent
        /\ UNCHANGED <<connects, tries, v20Vars>>
    BY <1>8 DEF PrivReply, Ends
  <2>2. Waiting' /\ Holding'
    BY <1>1, <2>1 DEF Typed, Waiting, Holding, v20Vars, bmcVars, Phases
  <2>3. QED
    BY <1>1, <1>2, <2>1, <2>2, TypedClient
<1>9. QED
  BY <1>3, <1>4, <1>5, <1>6, <1>7, <1>8, Zenon DEF Response

LEMMA TypedTimeout == ASSUME Typed, Timeout PROVE Typed'
<1>1. UNCHANGED <<brand, bmcVars>> /\ replies' \subseteq replies
  BY DEF Timeout
<1>2. /\ Holding /\ tries \in Seq(Suites) /\ brand \in 0..drawn
      /\ connects \in 0..MaxConnects[explicit]
  BY DEF Typed, Holding
<1>3. CASE TryNext(Chosen(preferredCiphers))
  BY <1>1, <1>2, <1>3, PreferredList, ChosenTyped, TypedTry
<1>4. CASE TryNext(tries)
  BY <1>1, <1>2, <1>4, TypedTry
<1>5. CASE Ends("error") /\ UNCHANGED v20Vars
  <2>1. Waiting' /\ Holding'
    BY <1>1, <1>5 DEF Ends, Typed, Waiting, Holding, v20Vars, bmcVars, Phases
  <2>2. QED
    BY <1>1, <1>2, <1>5, <2>1, TypedClient DEF Ends
<1>6. QED
  BY <1>3, <1>4, <1>5 DEF Timeout

\* What the BMC does leaves the client alone.
LEMMA TypedBmc ==
    ASSUME Typed, UNCHANGED <<bmcList, password, explicit, connectVars, v20Vars, sent>>,
           handled' \subseteq sent, drawn \in Nat, drawn' \in {drawn, drawn + 1},
           \A k \in Sids : sessions'[k].brand \in 0..drawn',
           \A r \in replies' \ replies : r.brand \in 0..drawn'
    PROVE  Typed'
<1>1. 0..drawn \subseteq 0..drawn'
  OBVIOUS
<1>2. Waiting' /\ Holding' /\ Offering'
  BY <1>1 DEF Typed, Waiting, Holding, Offering, connectVars, v20Vars
<1>3. QED
  BY <1>2 DEF Typed, connectVars

LEMMA TypedBmcStep ==
    ASSUME Server, Typed, NEW q \in sent, Bmc(q) PROVE Typed'
<1>1. /\ UNCHANGED <<bmcList, password, explicit, connectVars, v20Vars, sent>>
      /\ drawn \in Nat /\ \A k \in Sids : sessions[k].brand \in 0..drawn
      /\ sessions \in [Sids -> Records]
  BY DEF Server, Typed, Offering, Bmc, BmcCommand, BmcOpen, BmcRakp1, BmcRakp3
<1>2. ASSUME NEW ok, NEW id, NEW s, NEW rm, NEW code, Reply(q, ok, id, s, rm, code)
      PROVE  handled' \subseteq sent /\ \A r \in replies' \ replies : r.brand = rm
  BY <1>2 DEF Reply, Typed
<1>3. Refuse(q) => handled' \subseteq sent /\ \A r \in replies' \ replies : r.brand = 0
  BY <1>2 DEF Refuse
<1>4. CASE BmcCommand(q)
  <2>1. handled' \subseteq sent /\ \A r \in replies' \ replies : r.brand = 0
    BY <1>2, <1>3, <1>4 DEF BmcCommand
  <2>2. QED
    BY <1>1, <1>4, <2>1, TypedBmc DEF BmcCommand
<1>5. CASE BmcOpen(q)
  <2>1. handled' \subseteq sent /\ \A r \in replies' \ replies : r.brand = 0
    BY <1>2, <1>3, <1>5 DEF BmcOpen
  <2>2. \A k \in Sids : sessions'[k].brand \in 0..drawn
    <3>1. CASE UNCHANGED sessions
      BY <1>1, <3>1
    <3>2. ASSUME NEW k \in Sids, sessions' = [sessions EXCEPT ![k] =
                    [st |-> "opened", suite |-> q.suite, crand |-> 0, brand |-> 0]]
          PROVE  \A m \in Sids : sessions'[m].brand \in 0..drawn
      BY <1>1, <3>2
    <3>3. QED
      BY <1>5, <3>1, <3>2 DEF BmcOpen
  <2>3. QED
    BY <1>1, <1>5, <2>1, <2>2, TypedBmc DEF BmcOpen
<1>6. CASE BmcRakp1(q)
  <2>1. ASSUME NEW b, b.brand \in 0..drawn', Rakp2(q, b)
        PROVE  handled' \subseteq sent /\ \A r \in replies' \ replies : r.brand \in 0..drawn'
    <3>1. handled' \subseteq sent /\ \A r \in replies' \ replies : r.brand = b.brand
      <4>1. \E code : Reply(q, TRUE, q.sid, 0, b.brand, code)
        BY <2>1, Zenon DEF Rakp2
      <4>2. QED
        BY <1>2, <4>1
    <3>2. QED
      BY <2>1, <3>1
  <2>2. CASE UNCHANGED <<sessions, drawn>>
    <3>1. \/ q.sid \in Sids /\ Rakp2(q, sessions[q.sid])
          \/ Refuse(q)
      BY <1>1, <1>6, <2>2 DEF BmcRakp1
    <3>2. handled' \subseteq sent /\ \A r \in replies' \ replies : r.brand \in 0..drawn'
      BY <1>1, <1>3, <2>1, <2>2, <3>1
    <3>3. QED
      BY <1>1, <2>2, <3>2, TypedBmc
  <2>3. CASE ~UNCHANGED <<sessions, drawn>>
    <3> DEFINE b == [st |-> "rakp2", suite |-> sessions[q.sid].suite,
                    crand |-> q.crand, brand |-> drawn + 1]
    <3>1. /\ sessions' = [sessions EXCEPT ![q.sid] = b]
          /\ Rakp2(q, b) /\ drawn' = drawn + 1
      BY <1>6, <2>3 DEF BmcRakp1
    <3>2. b.brand \in 0..drawn' /\ 0..drawn \subseteq 0..drawn'
      BY <1>1, <3>1
    <3> HIDE DEF b
    <3>3. \A k \in Sids : sessions'[k].brand \in 0..drawn'
      BY <1>1, <3>1, <3>2
    <3>4. handled' \subseteq sent /\ \A r \in replies' \ replies : r.brand \in 0..drawn'
      BY <2>1, <3>1, <3>2
    <3>5. QED
      BY <1>1, <3>1, <3>3, <3>4, TypedBmc
  <2>4. QED
    BY <2>2, <2>3
<1>7. CASE BmcRakp3(q)
  <2>1. handled' \subseteq sent /\ \A r \in replies' \ replies : r.brand = 0
    <3>1. \/ Refuse(q)
          \/ \E code : Reply(q, TRUE, q.sid, 0, 0, code)
      BY <1>7 DEF BmcRakp3
    <3>2. QED
      BY <1>2, <1>3, <3>1
  <2>2. \A k \in Sids : sessions'[k].brand \in 0..drawn
    BY <1>1, <1>7 DEF BmcRakp3, Records
  <2>3. QED
    BY <1>1, <1>7, <2>1, <2>2, TypedBmc DEF BmcRakp3
<1>8. QED
  BY <1>4, <1>5, <1>6, <1>7 DEF Bmc

LEMMA TypedInit == Init => Typed
<1> SUFFICES ASSUME Init PROVE Typed
  OBVIOUS
<1>1. explicit \in Suites /\ <<>> \in Seq(Suites) /\ 0 \in 0..MaxConnects[explicit]
  BY RmcpAssumption DEF Init, Suites
<1>2. Waiting
  BY DEF Init, Waiting, Phases, States
<1>3. Holding
  BY <1>1 DEF Init, Holding, StandardSuites
<1>4. Offering
  BY DEF Init, Offering, NoSession
<1>5. QED
  BY <1>1, <1>2, <1>3, <1>4 DEF Init, Typed

LEMMA TypedStep == IInv /\ Typed /\ [Next]_vars => Typed'
<1> SUFFICES ASSUME IInv, Typed, [Next]_vars PROVE Typed'
  OBVIOUS
<1>1. CASE Connect20
  <2>1. connects' \in 0..MaxConnects[explicit]
    BY <1>1, RmcpAssumption DEF Connect20, Typed, Offering
  <2>2. Waiting' /\ Holding' /\ sent \subseteq sent'
    BY <1>1 DEF Connect20, Typed, Waiting, Holding, Send, v20Vars, bmcVars, Phases
  <2>3. QED
    BY <1>1, <2>1, <2>2, TypedClient DEF Connect20
<1>2. ASSUME NEW r \in replies, Response(r) PROVE Typed'
  BY <1>2, TypedResponse
<1>3. CASE Timeout
  BY <1>3, TypedTimeout
<1>4. ASSUME NEW q \in sent, Bmc(q) PROVE Typed'
  BY <1>4, TypedBmcStep DEF IInv
<1>5. CASE BmcForgets
  <2>1. \A k \in Sids : sessions'[k].brand = sessions[k].brand
    BY <1>5 DEF BmcForgets, IInv, Server, Records
  <2>2. QED
    BY <1>5, <2>1, TypedBmc DEF BmcForgets, IInv, Server, Typed, Offering
<1>6. CASE UNCHANGED vars
  BY <1>6 DEF vars, Typed, Waiting, Holding, Offering
<1>7. QED
  BY <1>1, <1>2, <1>3, <1>4, <1>5, <1>6 DEF Next

(* The fields of the session, the BMC's records and the phases are what    *)
(* the handshake makes of them: every suite that is tried is one byte, the *)
(* random number that is kept is one that the BMC has drawn, and           *)
(* session.v20.state goes with the exchange (cmd_open_session.go:166,      *)
(* cmd_rakp_message_1_2.go:195, cmd_rakp_message_3_4.go:140, 151).         *)
THEOREM RmcpTypes == Spec => []RmcpTypeOK
<1>1. Typed /\ IInv => RmcpTypeOK
  BY TypedIsTypeOK DEF IInv
<1>2. QED
  BY InitIInv, InductiveStep, TypedInit, TypedStep, <1>1, PTL DEF Spec
-----------------------------------------------------------------------------
(***************************************************************************)
(* The first Connect20 without faults: one request or its answer is under  *)
(* way (OneAtATime), the BMC's record is what the exchange makes of it     *)
(* (InCaps to InPriv), and what is left to try has every suite that could  *)
(* still do, best first (Ahead).                                           *)
(***************************************************************************)
Unseen == sent \ handled

\* A command of a session in which the BMC reads none.
NoAnswer(q) == q.type = "priv" /\ q.sid \in Sids /\ WrongKey(sessions[q.sid].suite)

OneAtATime ==
    /\ \A p, q \in Unseen : p = q
    /\ \A p, r \in replies : p = r
    /\ replies = {} \/ Unseen = {}
    /\ phase = "idle" => replies = {} /\ \A q \in Unseen : NoAnswer(q)

InCaps ==
    /\ \A q \in Unseen : q.type = "caps" /\ q.sid = NoSid
    /\ \A r \in replies : r.type = "caps" /\ r.ok

InSuites ==
    /\ \A q \in Unseen : q.type = "suites" /\ q.sid = NoSid
    /\ \A r \in replies : r.type = "suites" /\ r.ok

InOpen ==
    /\ \A q \in Unseen : q.type = "open" /\ q.suite = AlgorithmsOf(suite)
    /\ \A r \in replies :
          /\ r.type = "os"
          /\ ~r.ok => AlgorithmsOf(suite) \notin ToSet(bmcList)
          /\ r.ok => /\ r.suite = AlgorithmsOf(suite) /\ r.suite \in ToSet(bmcList)
                     /\ r.sid \in Sids
                     /\ sessions[r.sid].st = "opened" /\ sessions[r.sid].suite = r.suite

\* The session that was granted is one of the suite that is being tried.
OfTheTry ==
    /\ sid \in Sids /\ sessions[sid].suite = algs
    /\ algs = AlgorithmsOf(suite) /\ algs \in ToSet(bmcList)

InRakp1 ==
    /\ OfTheTry
    /\ \A q \in Unseen : /\ q.type = "rakp1" /\ q.sid = sid /\ q.crand = crand
                         /\ sessions[sid].st = "opened"
    /\ \A r \in replies :
          /\ r.type = "rakp2" /\ r.ok
          /\ sessions[sid].st = "rakp2"
          /\ sessions[sid].crand = crand /\ sessions[sid].brand = r.brand
          /\ r.code = Rakp2Code(password, algs, sid, crand, r.brand)

InRakp3 ==
    /\ OfTheTry
    /\ password = "right" /\ AuthSupported(algs) /\ sik = SIK("right", algs, crand, brand)
    /\ sessions[sid].crand = crand /\ sessions[sid].brand = brand
    /\ \A q \in Unseen : /\ q.type = "rakp3" /\ q.sid = sid
                         /\ q.code = Rakp3Code("right", algs, brand)
                         /\ sessions[sid].st = "rakp2"
    /\ \A r \in replies :
          /\ r.type = "rakp4" /\ r.ok /\ r.code = Rakp4Code(sik, algs, sid, crand)
          /\ sessions[sid].st = "active"

InPriv ==
    /\ OfTheTry
    /\ password = "right" /\ Usable(algs)
    /\ \A q \in Unseen : q.type = "priv" /\ q.sid = sid /\ sessions[sid].st = "active"
    /\ \A r \in replies : r.ok /\ r.sid = sid /\ ~WrongKey(algs)

\* A list of suites that still has every one that could do, best first.
Ahead(list) ==
    /\ \A k \in DOMAIN list : \E i \in DOMAIN Wanted : AlgorithmsOf(list[k]) = Wanted[i]
    /\ password = "right" =>
          \A i \in DOMAIN Wanted :
             Candidate(Wanted[i]) => \E k \in DOMAIN list : AlgorithmsOf(list[k]) = Wanted[i]
    /\ \A k, m \in DOMAIN list, i, j \in DOMAIN Wanted :
          k < m /\ AlgorithmsOf(list[k]) = Wanted[i] /\ AlgorithmsOf(list[m]) = Wanted[j] => i <= j

\* The suite at hand and those after it.
Path == <<suite>> \o tries

Handshake == {"open", "rakp1", "rakp3", "priv"}

Settled ==
    /\ result = "ok" <=>
          password = "right" /\ \E i \in DOMAIN Wanted : Best(i) /\ ~WrongKey(Wanted[i])
    /\ result = "ok" => \E i \in DOMAIN Wanted : Best(i) /\ algs = Wanted[i]

Course ==
    /\ OneAtATime
    /\ connects = 0 => phase = "idle" /\ Unseen = {}
    /\ connects = 0 \/ phase \in {"caps", "suites"} => suite = explicit /\ state = "PreSession"
    /\ phase = "caps" => InCaps
    /\ phase = "suites" => InSuites
    /\ phase = "open" => InOpen
    /\ phase = "rakp1" => InRakp1
    /\ phase = "rakp3" => InRakp3
    /\ phase = "priv" => InPriv
    /\ phase \in Handshake => Ahead(Path)
    /\ connects = 1 /\ phase = "idle" => Settled

FirstCourse == ~Faults /\ connects <= 1 => Course

LEMMA WantedOnce ==
    /\ DOMAIN Wanted = 1..1 \/ DOMAIN Wanted = 1..11
    /\ \A i, j \in DOMAIN Wanted : Wanted[i] = Wanted[j] => i = j
<1>1. CASE explicit = Reserved
  BY <1>1, Preferred DEF Wanted
<1>2. CASE explicit # Reserved
  BY <1>2 DEF Wanted
<1>3. QED
  BY <1>1, <1>2

\* Putting an element in front of a list moves the list by one.
LEMMA InFront ==
    ASSUME NEW list \in Seq(Suites), NEW h \in Suites
    PROVE  LET l == <<h>> \o list
           IN  /\ l \in Seq(Suites) /\ Len(list) \in Nat
               /\ DOMAIN list = 1..Len(list) /\ DOMAIN l = 1..(Len(list) + 1)
               /\ l[1] = h /\ \A k \in 1..Len(list) : l[k + 1] = list[k]
OBVIOUS

LEMMA HeadAndTail ==
    ASSUME NEW list \in Seq(Suites), list # <<>>
    PROVE  /\ Head(list) \in Suites /\ Tail(list) \in Seq(Suites)
           /\ <<Head(list)>> \o Tail(list) = list
OBVIOUS

LEMMA AheadStays ==
    ASSUME NEW l, Ahead(l), Path' = l, UNCHANGED <<bmcList, password, explicit>>
    PROVE  Ahead(Path)'
<1>1. Ahead(l)'
  BY Zenon DEF Ahead, Wanted, Candidate
<1>2. QED
  BY <1>1 DEF Ahead

\* A suite that could not do is given up.
LEMMA AheadTail ==
    ASSUME NEW list \in Seq(Suites), NEW h \in Suites, Ahead(<<h>> \o list),
           ~(password = "right" /\ Candidate(AlgorithmsOf(h)))
    PROVE  Ahead(list)
<1> DEFINE l == <<h>> \o list
<1>1. /\ DOMAIN list = 1..Len(list) /\ DOMAIN l = 1..(Len(list) + 1) /\ Len(list) \in Nat
      /\ l[1] = h /\ \A k \in 1..Len(list) : l[k + 1] = list[k]
  BY InFront
<1>2. \A k \in DOMAIN list : k + 1 \in DOMAIN l
  BY <1>1
<1>3. \A k \in DOMAIN l : k = 1 \/ (k - 1 \in DOMAIN list /\ l[k] = list[k - 1])
  BY <1>1
<1>4. Ahead(l)
  OBVIOUS
<1> HIDE DEF l
<1>5. \A k \in DOMAIN list : \E i \in DOMAIN Wanted : AlgorithmsOf(list[k]) = Wanted[i]
  BY <1>1, <1>2, <1>4 DEF Ahead
<1>6. ASSUME password = "right", NEW i \in DOMAIN Wanted, Candidate(Wanted[i])
      PROVE  \E k \in DOMAIN list : AlgorithmsOf(list[k]) = Wanted[i]
  <2>1. PICK k \in DOMAIN l : AlgorithmsOf(l[k]) = Wanted[i]
    BY <1>4, <1>6, Zenon DEF Ahead
  <2>2. k # 1
    BY <1>1, <1>6, <2>1, Zenon
  <2>3. k - 1 \in DOMAIN list /\ l[k] = list[k - 1]
    BY <1>3, <2>1, <2>2
  <2>4. QED
    BY <2>1, <2>3, Zenon
<1>7. ASSUME NEW k \in DOMAIN list, NEW m \in DOMAIN list,
             NEW i \in DOMAIN Wanted, NEW j \in DOMAIN Wanted,
             k < m, AlgorithmsOf(list[k]) = Wanted[i], AlgorithmsOf(list[m]) = Wanted[j]
      PROVE  i <= j
  <2>1. k + 1 \in DOMAIN l /\ m + 1 \in DOMAIN l /\ l[k + 1] = list[k] /\ l[m + 1] = list[m]
    BY <1>1, <1>2, Zenon
  <2>2. k + 1 < m + 1
    BY <1>1, <1>7
  <2>3. ASSUME NEW k1 \in DOMAIN l, NEW m1 \in DOMAIN l, k1 < m1,
               AlgorithmsOf(l[k1]) = Wanted[i], AlgorithmsOf(l[m1]) = Wanted[j]
        PROVE  i <= j
    BY <1>4, <2>3, Zenon DEF Ahead
  <2>4. AlgorithmsOf(l[k + 1]) = Wanted[i] /\ AlgorithmsOf(l[m + 1]) = Wanted[j]
    BY <1>7, <2>1
  <2>5. QED
    BY <2>1, <2>2, <2>3, <2>4, Zenon
<1>8. QED
  BY <1>5, <1>6, <1>7, Zenon DEF Ahead

\* An empty list means that none could do.
LEMMA AheadNone ==
    ASSUME Ahead(<<>>)
    PROVE  ~(password = "right" /\ \E i \in DOMAIN Wanted : Candidate(Wanted[i]))
BY DEF Ahead

\* The first of the list, if it could do, is the best that could.
LEMMA AheadBest ==
    ASSUME NEW list \in Seq(Suites), NEW h \in Suites, Ahead(<<h>> \o list), password = "right"
    PROVE  \E i \in DOMAIN Wanted :
              AlgorithmsOf(h) = Wanted[i] /\ \A j \in 1..(i - 1) : ~Candidate(Wanted[j])
<1> DEFINE l == <<h>> \o list
<1>1. DOMAIN l = 1..(Len(list) + 1) /\ Len(list) \in Nat /\ l[1] = h
  BY InFront
<1>2. Ahead(l)
  OBVIOUS
<1> HIDE DEF l
<1>3. 1 \in DOMAIN l
  BY <1>1
<1>4. PICK i \in DOMAIN Wanted : AlgorithmsOf(h) = Wanted[i]
  BY <1>1, <1>2, <1>3, Zenon DEF Ahead
<1>5. ASSUME NEW j \in 1..(i - 1), Candidate(Wanted[j]) PROVE FALSE
  <2>1. j \in DOMAIN Wanted /\ j < i /\ j # i /\ ~(i <= j)
    BY WantedOnce
  <2>2. PICK k \in DOMAIN l : AlgorithmsOf(l[k]) = Wanted[j]
    BY <1>2, <1>5, <2>1, Zenon DEF Ahead
  <2>3. k # 1
    BY <1>1, <1>4, <2>1, <2>2, WantedOnce, Zenon
  <2>4. 1 < k
    BY <1>1, <2>2, <2>3
  <2>5. QED
    BY <1>1, <1>2, <1>3, <1>4, <2>1, <2>2, <2>4, Zenon DEF Ahead
<1>6. QED
  BY <1>4, <1>5

\* The bound cuts no list that a BMC has.
AllTried == \A l \in Lists : Len(sortCipherSuites(l)) <= MaxTries

LEMMA ChosenAll ==
    ASSUME NEW list \in Seq(StandardSuites), Len(list) <= MaxTries, explicit = suite
    PROVE  Chosen(list) = IF explicit # Reserved THEN <<explicit>> ELSE list
<1>1. MaxTries \in Nat
  BY RmcpAssumption
<1>2. SubSeq(list, 1, Len(list)) = list
  OBVIOUS
<1>3. (IF Len(list) < MaxTries THEN Len(list) ELSE MaxTries) = Len(list)
  BY <1>1
<1>4. QED
  BY <1>2, <1>3, Zenon DEF Chosen

\* What Connect20 starts with.
LEMMA AheadAtFirst ==
    ASSUME AllTried, Holding, bmcList \in Lists, explicit = suite
    PROVE  /\ Chosen(sortCipherSuites(bmcList)) \in Seq(Suites)
           /\ Ahead(Chosen(sortCipherSuites(bmcList)))
<1> DEFINE s == sortCipherSuites(bmcList)
<1>1. bmcList \in Seq(StandardSuites)
  BY RmcpAssumption
<1>2. SortOf(s, bmcList)
  BY <1>1, SortedSuites
<1> HIDE DEF s
<1>3. s \in Seq(StandardSuites) /\ Chosen(s) \in Seq(Suites)
  BY <1>2, ChosenTyped DEF SortOf
<1>4. Len(s) <= MaxTries
  BY DEF AllTried, s
<1>5. Chosen(s) = IF explicit # Reserved THEN <<explicit>> ELSE s
  BY <1>3, <1>4, ChosenAll
<1>6. CASE explicit # Reserved
  <2>1. Wanted = <<AlgorithmsOf(explicit)>> /\ Chosen(s) = <<explicit>>
    BY <1>5, <1>6, Zenon DEF Wanted
  <2>2. DOMAIN Wanted = {1} /\ DOMAIN <<explicit>> = {1}
    BY <2>1
  <2>3. Wanted[1] = AlgorithmsOf(<<explicit>>[1])
    BY <2>1
  <2>4. Ahead(<<explicit>>)
    BY <2>2, <2>3 DEF Ahead
  <2>5. QED
    BY <1>3, <2>1, <2>4 DEF s
<1>7. CASE explicit = Reserved
  <2>1. Wanted = preferredCiphers /\ Chosen(s) = s /\ DOMAIN Wanted = 1..11
    BY <1>5, <1>7, Preferred, Zenon DEF Wanted
  <2>2. \A k \in DOMAIN s : AlgorithmsOf(s[k]) = s[k]
    BY <1>3 DEF AlgorithmsOf
  <2>3. \A i \in DOMAIN Wanted : Candidate(Wanted[i]) => \E j \in DOMAIN bmcList : Wanted[i] = bmcList[j]
    BY DEF Candidate, ToSet
  <2>4. \A k \in DOMAIN s : \E i \in DOMAIN Wanted : AlgorithmsOf(s[k]) = Wanted[i]
    <3>1. \A k \in DOMAIN s : \E i \in 1..11 : s[k] = preferredCiphers[i]
      BY <1>2 DEF SortOf
    <3> QED BY <2>1, <2>2, <3>1, Zenon
  <2>5. ASSUME NEW i \in DOMAIN Wanted, Candidate(Wanted[i])
        PROVE  \E k \in DOMAIN s : AlgorithmsOf(s[k]) = Wanted[i]
    <3>1. PICK j \in DOMAIN bmcList : Wanted[i] = bmcList[j]
      BY <2>3, <2>5, Zenon
    <3>2. PICK k \in DOMAIN s : s[k] = bmcList[j]
      BY <1>2, <2>1, <3>1, Zenon DEF SortOf
    <3>3. QED
      BY <2>2, <3>1, <3>2, Zenon
  <2>6. ASSUME NEW k \in DOMAIN s, NEW m \in DOMAIN s,
               NEW i \in DOMAIN Wanted, NEW j \in DOMAIN Wanted,
               k < m, AlgorithmsOf(s[k]) = Wanted[i], AlgorithmsOf(s[m]) = Wanted[j]
        PROVE  i <= j
    <3>1. \A x, y \in DOMAIN s, a, b \in 1..11 :
            x < y /\ s[x] = preferredCiphers[a] /\ s[y] = preferredCiphers[b] => a <= b
      BY <1>2, Zenon DEF SortOf
    <3>2. s[k] = preferredCiphers[i] /\ s[m] = preferredCiphers[j] /\ i \in 1..11 /\ j \in 1..11
      BY <2>1, <2>2, <2>6, Zenon
    <3> QED BY <2>6, <3>1, <3>2, Zenon
  <2>7. Ahead(s)
    BY <2>4, <2>5, <2>6, Zenon DEF Ahead
  <2>8. QED
    BY <1>3, <2>1, <2>7 DEF s
<1>8. QED
  BY <1>6, <1>7

\* Connect20 takes the one reply there is: nothing is under way.
LEMMA TakenAlone ==
    ASSUME ~Faults, OneAtATime, NEW r, Take(r)
    PROVE  r \in replies /\ replies' = {} /\ Unseen = {} /\ phase # "idle"
BY DEF Take, OneAtATime

\* The request it sends next is the only one under way.
LEMMA NewRequest ==
    ASSUME Unseen = {}, UNCHANGED handled,
           NEW type, NEW id, NEW s, NEW rc, NEW code, Send(type, id, s, rc, code)
    PROVE  /\ \A p, q \in Unseen' : p = q
           /\ \A q \in Unseen' : q.type = type /\ q.sid = id /\ q.suite = s /\ q.crand = rc /\ q.code = code
<1> DEFINE q0 == [n |-> Cardinality(sent), type |-> type, sid |-> id,
                  suite |-> s, crand |-> rc, code |-> code]
<1>1. sent' = sent \cup {q0}
  BY DEF Send
<1>2. q0.type = type /\ q0.sid = id /\ q0.suite = s /\ q0.crand = rc /\ q0.code = code
  OBVIOUS
<1> HIDE DEF q0
<1>3. \A q \in Unseen' : q = q0
  BY <1>1 DEF Unseen
<1>4. QED
  BY <1>2, <1>3

\* It goes on with what is left to try, or gives up.
LEMMA CourseTry ==
    ASSUME OneAtATime, UNCHANGED bmcVars, replies' = {}, Unseen = {}, connects = 1,
           NEW list \in Seq(Suites), Ahead(list), TryNext(list)
    PROVE  Course'
<1>1. UNCHANGED <<connects, handled, bmcList, password, explicit, sessions>>
  BY DEF bmcVars, TryNext, OpenSession
<1>2. CASE list = <<>>
  <2>1. phase' = "idle" /\ result' = "error" /\ sent' = sent
    BY <1>2 DEF TryNext
  <2>2. ~(password = "right" /\ \E i \in DOMAIN Wanted : Candidate(Wanted[i]))
    BY <1>2, AheadNone
  <2>3. Settled'
    BY <1>1, <2>1, <2>2 DEF Settled, Best, Wanted, Candidate
  <2>4. OneAtATime'
    BY <1>1, <2>1 DEF OneAtATime, Unseen
  <2>5. QED
    BY <1>1, <2>1, <2>3, <2>4 DEF Course, Handshake
<1>3. CASE list # <<>>
  <2>1. /\ phase' = "open" /\ suite' = Head(list) /\ tries' = Tail(list)
        /\ Send("open", NoSid, AlgorithmsOf(Head(list)), 0, <<>>)
    BY <1>3 DEF TryNext, OpenSession
  <2>2. /\ \A p, q \in Unseen' : p = q
        /\ \A q \in Unseen' : q.type = "open" /\ q.suite = AlgorithmsOf(suite')
    BY <1>1, <2>1, NewRequest
  <2>3. Path' = list
    BY <1>3, <2>1, HeadAndTail DEF Path
  <2>4. Ahead(Path)'
    BY <1>1, <2>3, AheadStays
  <2>5. OneAtATime' /\ InOpen'
    BY <2>1, <2>2 DEF OneAtATime, InOpen
  <2>6. QED
    BY <1>1, <2>1, <2>4, <2>5 DEF Course
<1>4. QED
  BY <1>2, <1>3

\* The suite at hand did not do.
LEMMA CourseNext ==
    ASSUME OneAtATime, UNCHANGED bmcVars, replies' = {}, Unseen = {}, connects = 1,
           Holding, Ahead(Path),
           ~(password = "right" /\ Candidate(AlgorithmsOf(suite))), TryNext(tries)
    PROVE  Course'
<1>1. suite \in Suites /\ tries \in Seq(Suites)
  BY DEF Holding
<1>2. Ahead(tries)
  BY <1>1, AheadTail DEF Path
<1>3. QED
  BY <1>1, <1>2, CourseTry

LEMMA CourseCaps ==
    ASSUME ~Faults, Course, connects = 1, NEW r, CapsReply(r) PROVE Course'
<1>1. /\ phase = "caps" /\ Take(r) /\ InCaps /\ OneAtATime /\ UNCHANGED bmcVars
      /\ suite = explicit /\ state = "PreSession"
  BY DEF CapsReply, Course
<1>2. r \in replies /\ replies' = {} /\ Unseen = {}
  BY <1>1, TakenAlone
<1>3. r.type = "caps" /\ r.ok
  BY <1>1, <1>2 DEF InCaps
<1>4. /\ Send("suites", NoSid, 0, 0, <<>>) /\ phase' = "suites"
      /\ UNCHANGED <<connects, v20Vars>>
  BY <1>1, <1>3 DEF CapsReply, InSession
<1>5. /\ \A p, q \in Unseen' : p = q
      /\ \A q \in Unseen' : q.type = "suites" /\ q.sid = NoSid
  BY <1>1, <1>2, <1>4, NewRequest DEF bmcVars
<1>6. OneAtATime' /\ InSuites'
  BY <1>2, <1>4, <1>5 DEF OneAtATime, InSuites
<1>7. QED
  BY <1>1, <1>4, <1>6 DEF Course, Handshake, bmcVars, v20Vars

LEMMA CourseSuites ==
    ASSUME ~Faults, AllTried, Typed, Course, connects = 1, NEW r, SuitesReply(r) PROVE Course'
<1>1. /\ phase = "suites" /\ Take(r) /\ InSuites /\ OneAtATime /\ UNCHANGED bmcVars
      /\ suite = explicit /\ Holding /\ bmcList \in Lists
  BY DEF SuitesReply, Course, Typed, Offering
<1>2. r \in replies /\ replies' = {} /\ Unseen = {}
  BY <1>1, TakenAlone
<1>3. TryNext(Chosen(sortCipherSuites(bmcList)))
  BY <1>1, <1>2 DEF InSuites, SuitesReply
<1>4. QED
  BY <1>1, <1>2, <1>3, AheadAtFirst, CourseTry

LEMMA CourseOpen ==
    ASSUME ~Faults, Typed, Course, connects = 1, NEW r, OpenReply(r) PROVE Course'
<1>1. /\ phase = "open" /\ Take(r) /\ InOpen /\ OneAtATime /\ UNCHANGED <<brand, bmcVars>>
      /\ Ahead(Path) /\ Holding
  BY DEF OpenReply, Course, Handshake, Typed
<1>2. r \in replies /\ replies' = {} /\ Unseen = {}
  BY <1>1, TakenAlone
<1>3. r.type = "os"
  BY <1>1, <1>2 DEF InOpen
<1>4. CASE ~r.ok
  <2>1. ~Candidate(AlgorithmsOf(suite))
    BY <1>1, <1>2, <1>4 DEF InOpen, Candidate
  <2>2. TryNext(tries)
    BY <1>3, <1>4 DEF OpenReply
  <2>3. QED
    BY <1>1, <1>2, <2>1, <2>2, CourseNext
<1>5. CASE r.ok
  <2>1. Opened(r.sid, r.suite)
    BY <1>3, <1>5 DEF OpenReply
  <2>2. PICK rc : crand' = rc /\ Send("rakp1", r.sid, 0, rc, <<>>)
    BY <2>1 DEF Opened, RAKPMessage1
  <2>3. /\ sid' = r.sid /\ algs' = r.suite /\ phase' = "rakp1"
        /\ UNCHANGED <<connects, tries, suite>>
    BY <2>1 DEF Opened, RAKPMessage1
  <2>4. /\ r.suite = AlgorithmsOf(suite) /\ r.suite \in ToSet(bmcList) /\ r.sid \in Sids
        /\ sessions[r.sid].st = "opened" /\ sessions[r.sid].suite = r.suite
    BY <1>1, <1>2, <1>5 DEF InOpen
  <2>5. /\ \A p, q \in Unseen' : p = q
        /\ \A q \in Unseen' : q.type = "rakp1" /\ q.sid = sid' /\ q.crand = crand'
    BY <1>1, <1>2, <2>2, <2>3, NewRequest DEF bmcVars
  <2>6. UNCHANGED <<bmcList, password, explicit, sessions>>
    BY <1>1 DEF bmcVars
  <2>7. OneAtATime'
    BY <1>2, <2>3, <2>5 DEF OneAtATime
  <2>8. OfTheTry' /\ InRakp1'
    BY <1>2, <2>3, <2>4, <2>5, <2>6 DEF OfTheTry, InRakp1
  <2>9. Ahead(Path)'
    BY <1>1, <2>3, <2>6, AheadStays DEF Path
  <2>10. QED
    BY <2>3, <2>7, <2>8, <2>9 DEF Course
<1>6. QED
  BY <1>4, <1>5

\* The codes agree if the passwords do.
LEMMA CourseRakp2 ==
    ASSUME ~Faults, Typed, Course, connects = 1, NEW r, Rakp2Reply(r) PROVE Course'
<1>1. /\ phase = "rakp1" /\ Take(r) /\ InRakp1 /\ OneAtATime /\ UNCHANGED bmcVars
      /\ Ahead(Path) /\ Holding
  BY DEF Rakp2Reply, Course, Handshake, Typed
<1>2. r \in replies /\ replies' = {} /\ Unseen = {}
  BY <1>1, TakenAlone
<1>3. /\ r.type = "rakp2" /\ r.ok
      /\ sessions[sid].st = "rakp2" /\ sessions[sid].crand = crand /\ sessions[sid].brand = r.brand
      /\ r.code = Rakp2Code(password, algs, sid, crand, r.brand)
      /\ OfTheTry
  BY <1>1, <1>2 DEF InRakp1
<1>4. ValidRakp2(r) <=> AuthSupported(algs) /\ password = "right"
  BY <1>3 DEF ValidRakp2, Rakp2Code
<1>5. CASE ~ValidRakp2(r)
  <2>1. ~(password = "right" /\ Candidate(AlgorithmsOf(suite)))
    BY <1>3, <1>4, <1>5, Zenon DEF Candidate, Usable, OfTheTry
  <2>2. TryNext(tries)
    BY <1>5, Zenon DEF Rakp2Reply
  <2>3. QED
    BY <1>1, <1>2, <2>1, <2>2, CourseNext
<1>6. CASE ValidRakp2(r)
  <2>1. /\ brand' = r.brand /\ RAKPMessage3(r.brand)
        /\ UNCHANGED <<connects, tries, suite, algs, sid, crand>>
    BY <1>3, <1>6, Zenon DEF Rakp2Reply
  <2>2. /\ sik' = SIK("right", algs, crand, r.brand) /\ phase' = "rakp3"
        /\ Send("rakp3", sid, 0, 0, Rakp3Code("right", algs, r.brand))
    BY <2>1, Zenon DEF RAKPMessage3
  <2>3. /\ \A p, q \in Unseen' : p = q
        /\ \A q \in Unseen' : q.type = "rakp3" /\ q.sid = sid /\ q.code = Rakp3Code("right", algs, r.brand)
    BY <1>1, <1>2, <2>2, NewRequest DEF bmcVars
  <2>4. UNCHANGED <<bmcList, password, explicit, sessions>>
    BY <1>1 DEF bmcVars
  <2>5. OneAtATime'
    BY <1>2, <2>2, <2>3 DEF OneAtATime
  <2>6. OfTheTry'
    BY <1>3, <2>1, <2>4 DEF OfTheTry
  <2>7. InRakp3'
    BY <1>2, <1>3, <1>4, <1>6, <2>1, <2>2, <2>3, <2>4, <2>6 DEF InRakp3, SIK, Rakp3Code, AuthSupported
  <2>8. Ahead(Path)'
    BY <1>1, <2>1, <2>4, AheadStays DEF Path
  <2>9. QED
    BY <2>1, <2>2, <2>5, <2>7, <2>8 DEF Course
<1>7. QED
  BY <1>5, <1>6

LEMMA CourseRakp4 ==
    ASSUME ~Faults, Typed, Course, connects = 1, NEW r, Rakp4Reply(r) PROVE Course'
<1>1. /\ phase = "rakp3" /\ Take(r) /\ InRakp3 /\ OneAtATime /\ UNCHANGED bmcVars
      /\ Ahead(Path) /\ Holding
  BY DEF Rakp4Reply, Course, Handshake, Typed
<1>2. r \in replies /\ replies' = {} /\ Unseen = {}
  BY <1>1, TakenAlone
<1>3. /\ r.type = "rakp4" /\ r.ok /\ r.code = Rakp4Code(sik, algs, sid, crand)
      /\ OfTheTry /\ password = "right" /\ AuthSupported(algs) /\ sessions[sid].st = "active"
  BY <1>1, <1>2 DEF InRakp3
<1>4. ValidRakp4(r) <=> IntegritySupported(algs)
  BY <1>3, Zenon DEF ValidRakp4
<1>5. CASE ~ValidRakp4(r)
  <2>1. ~Candidate(AlgorithmsOf(suite))
    BY <1>3, <1>4, <1>5, Zenon DEF Candidate, Usable, OfTheTry
  <2>2. TryNext(tries)
    BY <1>5, Zenon DEF Rakp4Reply
  <2>3. QED
    BY <1>1, <1>2, <2>1, <2>2, CourseNext
<1>6. CASE ValidRakp4(r)
  <2>1. /\ phase' = "priv" /\ Send("priv", sid, 0, 0, <<>>)
        /\ UNCHANGED <<connects, tries, suite, algs, sid>>
    BY <1>3, <1>6, Zenon DEF Rakp4Reply
  <2>2. /\ \A p, q \in Unseen' : p = q
        /\ \A q \in Unseen' : q.type = "priv" /\ q.sid = sid
    BY <1>1, <1>2, <2>1, NewRequest DEF bmcVars
  <2>3. UNCHANGED <<bmcList, password, explicit, sessions>>
    BY <1>1 DEF bmcVars
  <2>4. OneAtATime'
    BY <1>2, <2>1, <2>2 DEF OneAtATime
  <2>5. OfTheTry'
    BY <1>3, <2>1, <2>3 DEF OfTheTry
  <2>6. Usable(algs)'
    BY <1>3, <1>4, <1>6, <2>1, Zenon DEF Usable
  <2>7. InPriv'
    BY <1>2, <1>3, <2>1, <2>2, <2>3, <2>5, <2>6 DEF InPriv
  <2>8. Ahead(Path)'
    BY <1>1, <2>1, <2>3, AheadStays DEF Path
  <2>9. QED
    BY <2>1, <2>4, <2>7, <2>8 DEF Course
<1>7. QED
  BY <1>5, <1>6

\* The suite of the session is the best.
LEMMA TriedBest ==
    ASSUME InPriv, Ahead(Path), Holding
    PROVE  \E i \in DOMAIN Wanted : Best(i) /\ algs = Wanted[i]
<1>1. OfTheTry /\ password = "right" /\ Usable(algs)
  BY DEF InPriv
<1>2. PICK i \in DOMAIN Wanted :
         AlgorithmsOf(suite) = Wanted[i] /\ \A j \in 1..(i - 1) : ~Candidate(Wanted[j])
  BY <1>1, AheadBest DEF Holding, Path
<1>3. algs = Wanted[i] /\ Candidate(Wanted[i])
  BY <1>1, <1>2, Zenon DEF OfTheTry, Candidate
<1>4. QED
  BY <1>2, <1>3, Zenon DEF Best

LEMMA BestOnce ==
    ASSUME NEW i \in DOMAIN Wanted, NEW k \in DOMAIN Wanted, Best(i), Best(k)
    PROVE  k = i
<1>1. i \in Nat /\ k \in Nat /\ i >= 1 /\ k >= 1
  BY WantedOnce
<1>2. ASSUME k < i PROVE FALSE
  <2>1. k \in 1..(i - 1)
    BY <1>1, <1>2
  <2>2. QED
    BY <2>1, Zenon DEF Best
<1>3. ASSUME i < k PROVE FALSE
  <2>1. i \in 1..(k - 1)
    BY <1>1, <1>3
  <2>2. QED
    BY <2>1, Zenon DEF Best
<1>4. QED
  BY <1>1, <1>2, <1>3

LEMMA CoursePriv ==
    ASSUME ~Faults, Typed, Course, connects = 1, NEW r, PrivReply(r) PROVE Course'
<1>1. /\ phase = "priv" /\ Take(r) /\ InPriv /\ OneAtATime /\ UNCHANGED <<v20Vars, bmcVars>>
      /\ Ahead(Path) /\ Holding
  BY DEF PrivReply, Course, Handshake, Typed
<1>2. r \in replies /\ replies' = {} /\ Unseen = {}
  BY <1>1, TakenAlone
<1>3. r.ok /\ r.sid = sid /\ OfTheTry /\ password = "right" /\ Usable(algs) /\ ~WrongKey(algs)
  BY <1>1, <1>2 DEF InPriv
<1>4. phase' = "idle" /\ result' = "ok" /\ UNCHANGED <<connects, sent>>
  BY <1>3 DEF PrivReply, Ends
<1>5. /\ UNCHANGED <<bmcList, password, explicit, algs, handled>>
  BY <1>1 DEF bmcVars, v20Vars
<1>6. PICK i \in DOMAIN Wanted : Best(i) /\ algs = Wanted[i]
  BY <1>1, TriedBest
<1>7. Settled'
  BY <1>3, <1>4, <1>5, <1>6, Zenon DEF Settled, Best, Wanted, Candidate
<1>8. OneAtATime'
  BY <1>2, <1>4, <1>5 DEF OneAtATime, Unseen
<1>9. QED
  BY <1>1, <1>4, <1>7, <1>8 DEF Course, Handshake

\* The exchange in which the BMC does not read the request.
LEMMA CourseTimeout ==
    ASSUME ~Faults, Typed, Course, connects = 1, Timeout PROVE Course'
<1>1. state = "Active" /\ WrongKey(algs)
  BY DEF Timeout, Unreadable
<1>2. phase = "priv"
  BY <1>1 DEF Timeout, Course, Typed, Waiting
<1>3. /\ phase' = "idle" /\ result' = "error" /\ UNCHANGED <<connects, sent, replies, algs>>
      /\ UNCHANGED <<bmcList, password, explicit, sessions, handled>>
  BY <1>2 DEF Timeout, Ends, v20Vars, bmcVars
<1>4. InPriv /\ Ahead(Path) /\ Holding /\ OneAtATime
  BY <1>2 DEF Course, Handshake, Typed
<1>5. replies = {} /\ OfTheTry /\ \A q \in Unseen : q.type = "priv" /\ q.sid = sid
  BY <1>1, <1>4 DEF InPriv
<1>6. PICK i \in DOMAIN Wanted : Best(i) /\ algs = Wanted[i]
  BY <1>4, TriedBest
<1>7. ASSUME NEW k \in DOMAIN Wanted, Best(k) PROVE WrongKey(Wanted[k])
  <2>1. k = i
    BY <1>6, <1>7, BestOnce
  <2>2. QED
    BY <1>1, <1>6, <2>1
<1>8. Settled'
  <2>1. ~ \E k \in DOMAIN Wanted : Best(k) /\ ~WrongKey(Wanted[k])
    BY <1>7
  <2>2. (~ \E k \in DOMAIN Wanted : Best(k) /\ ~WrongKey(Wanted[k]))'
    BY <1>3, <2>1, Zenon DEF Best, Wanted, Candidate
  <2>3. QED
    BY <1>3, <2>2 DEF Settled
<1>9. OneAtATime'
  <2>1. \A q \in Unseen : NoAnswer(q)
    BY <1>1, <1>5 DEF OfTheTry, NoAnswer
  <2>2. (\A q \in Unseen : NoAnswer(q))'
    BY <1>3, <2>1 DEF Unseen, NoAnswer
  <2>3. QED
    BY <1>3, <1>4, <1>5, <2>2 DEF OneAtATime, Unseen
<1>10. QED
  BY <1>3, <1>8, <1>9 DEF Course, Handshake

\* The step leaves only replies to q, with this content.
Says(q, ok, id, s, rm, code) ==
    \A r \in replies' :
       /\ r.ok = ok /\ r.sid = id /\ r.suite = s /\ r.brand = rm /\ r.code = code
       /\ q.type = "open" => r.type = "os"
       /\ q.type = "rakp1" => r.type = "rakp2"
       /\ q.type = "rakp3" => r.type = "rakp4"
       /\ q.type \in {"caps", "suites", "priv"} => r.type = q.type

\* The BMC answers the one request under way.
LEMMA Answered ==
    ASSUME OneAtATime, NEW q \in Unseen, phase # "idle", UNCHANGED <<sent, phase>>,
           NEW ok, NEW id, NEW s, NEW rm, NEW code, Reply(q, ok, id, s, rm, code)
    PROVE  OneAtATime' /\ Unseen' = {} /\ Says(q, ok, id, s, rm, code)
<1> DEFINE r0 == [n |-> q.n, type |-> IF q.type = "open" THEN "os"
                                      ELSE IF q.type = "rakp1" THEN "rakp2"
                                      ELSE IF q.type = "rakp3" THEN "rakp4" ELSE q.type,
                  ok |-> ok, sid |-> id, suite |-> s, brand |-> rm, code |-> code]
<1>1. handled' = handled \cup {q} /\ replies' = replies \cup {r0}
  BY DEF Reply
<1>2. /\ r0.ok = ok /\ r0.sid = id /\ r0.suite = s /\ r0.brand = rm /\ r0.code = code
      /\ q.type = "open" => r0.type = "os"
      /\ q.type = "rakp1" => r0.type = "rakp2"
      /\ q.type = "rakp3" => r0.type = "rakp4"
      /\ q.type \in {"caps", "suites", "priv"} => r0.type = q.type
  OBVIOUS
<1> HIDE DEF r0
<1>3. replies = {} /\ \A p \in Unseen : p = q
  BY DEF OneAtATime
<1>4. Unseen' = {} /\ \A r \in replies' : r = r0
  BY <1>1, <1>3 DEF Unseen
<1>5. OneAtATime'
  BY <1>3, <1>4 DEF OneAtATime
<1>6. QED
  BY <1>2, <1>4, <1>5 DEF Says

LEMMA CourseBmc ==
    ASSUME ~Faults, Server, Typed, Course, connects = 0 \/ connects = 1, NEW q \in sent, Bmc(q)
    PROVE  Course'
<1>1. q \in Unseen /\ Fresh(q)
  BY DEF Bmc, BmcCommand, BmcOpen, BmcRakp1, BmcRakp3, Fresh, Unseen
<1>2. /\ OneAtATime /\ phase # "idle" /\ connects = 1
      /\ phase \in Phases /\ sessions \in [Sids -> Records]
  <2>1. /\ OneAtATime /\ connects = 1
        /\ phase \in Phases /\ sessions \in [Sids -> Records]
    BY <1>1 DEF Course, Typed, Waiting, Server
  <2>2. ~NoAnswer(q)
    BY DEF NoAnswer, Bmc, BmcCommand, BmcOpen, BmcRakp1, BmcRakp3
  <2>3. QED
    BY <1>1, <2>1, <2>2 DEF OneAtATime
<1>3. /\ UNCHANGED <<connects, phase, result, tries, state, suite, algs, sid, crand, brand, sik, sent>>
      /\ UNCHANGED <<bmcList, password, explicit>>
  BY DEF Bmc, BmcCommand, BmcOpen, BmcRakp1, BmcRakp3, connectVars, v20Vars
<1>4. Ahead(Path) => Ahead(Path)'
  BY <1>3, AheadStays DEF Path
<1>5. CASE phase = "caps"
  <2>1. q.type = "caps" /\ q.sid = NoSid
    BY <1>1, <1>5 DEF Course, InCaps
  <2>2. Reply(q, TRUE, q.sid, 0, 0, <<>>)
    BY <2>1 DEF Bmc, BmcCommand, BmcOpen, BmcRakp1, BmcRakp3
  <2>3. OneAtATime' /\ Unseen' = {} /\ Says(q, TRUE, q.sid, 0, 0, <<>>)
    BY <1>1, <1>2, <1>3, <2>2, Answered, Zenon
  <2>4. InCaps'
    BY <2>1, <2>3 DEF InCaps, Says
  <2>5. QED
    BY <1>2, <1>3, <1>5, <2>3, <2>4 DEF Course, Handshake
<1>6. CASE phase = "suites"
  <2>1. q.type = "suites" /\ q.sid = NoSid
    BY <1>1, <1>6 DEF Course, InSuites
  <2>2. Reply(q, TRUE, q.sid, 0, 0, <<>>)
    BY <2>1 DEF Bmc, BmcCommand, BmcOpen, BmcRakp1, BmcRakp3
  <2>3. OneAtATime' /\ Unseen' = {} /\ Says(q, TRUE, q.sid, 0, 0, <<>>)
    BY <1>1, <1>2, <1>3, <2>2, Answered, Zenon
  <2>4. InSuites'
    BY <2>1, <2>3 DEF InSuites, Says
  <2>5. QED
    BY <1>2, <1>3, <1>6, <2>3, <2>4 DEF Course, Handshake
<1>7. CASE phase = "open"
  <2>1. q.type = "open" /\ q.suite = AlgorithmsOf(suite)
    BY <1>1, <1>7 DEF Course, InOpen
  <2>2. BmcOpen(q)
    BY <2>1 DEF Bmc, BmcCommand, BmcRakp1, BmcRakp3
  <2>3. CASE q.suite \notin ToSet(bmcList)
    <3>1. Reply(q, FALSE, NoSid, 0, 0, <<>>)
      BY <2>2, <2>3 DEF BmcOpen, Refuse
    <3>2. OneAtATime' /\ Unseen' = {} /\ Says(q, FALSE, NoSid, 0, 0, <<>>)
      BY <1>1, <1>2, <1>3, <3>1, Answered, Zenon
    <3>3. InOpen'
      BY <1>3, <2>1, <2>3, <3>2 DEF InOpen, Says
    <3>4. QED
      BY <1>2, <1>3, <1>4, <1>7, <3>2, <3>3 DEF Course, Handshake
  <2>4. CASE q.suite \in ToSet(bmcList)
    <3>1. PICK k \in Sids :
             /\ sessions' = [sessions EXCEPT ![k] =
                    [st |-> "opened", suite |-> q.suite, crand |-> 0, brand |-> 0]]
             /\ Reply(q, TRUE, k, q.suite, 0, <<>>)
      BY <2>2, <2>4 DEF BmcOpen
    <3>2. sessions'[k].st = "opened" /\ sessions'[k].suite = q.suite
      BY <1>2, <3>1
    <3>3. OneAtATime' /\ Unseen' = {} /\ Says(q, TRUE, k, q.suite, 0, <<>>)
      BY <1>1, <1>2, <1>3, <3>1, Answered, Zenon
    <3>4. InOpen'
      BY <1>3, <2>1, <2>4, <3>2, <3>3 DEF InOpen, Says
    <3>5. QED
      BY <1>2, <1>3, <1>4, <1>7, <3>3, <3>4 DEF Course, Handshake
  <2>5. QED
    BY <2>3, <2>4
<1>8. CASE phase = "rakp1"
  <2>1. /\ q.type = "rakp1" /\ q.sid = sid /\ q.crand = crand
        /\ OfTheTry /\ sessions[sid].st = "opened"
    BY <1>1, <1>8 DEF Course, InRakp1
  <2>2. BmcRakp1(q)
    BY <2>1 DEF Bmc, BmcCommand, BmcOpen, BmcRakp3
  <2> DEFINE b == [st |-> "rakp2", suite |-> sessions[q.sid].suite,
                  crand |-> q.crand, brand |-> drawn + 1]
  <2>3. sessions' = [sessions EXCEPT ![q.sid] = b] /\ Rakp2(q, b)
    BY <2>1, <2>2 DEF BmcRakp1, OfTheTry
  <2>4. b.st = "rakp2" /\ b.suite = algs /\ b.crand = crand
    BY <2>1 DEF OfTheTry
  <2> HIDE DEF b
  <2>5. sessions'[sid] = b /\ sid \in Sids
    BY <1>2, <2>1, <2>3 DEF OfTheTry
  <2>6. Reply(q, TRUE, sid, 0, b.brand, Rakp2Code(password, algs, sid, crand, b.brand))
    BY <2>1, <2>3, <2>4, Zenon DEF Rakp2
  <2>7. /\ OneAtATime' /\ Unseen' = {}
        /\ Says(q, TRUE, sid, 0, b.brand, Rakp2Code(password, algs, sid, crand, b.brand))
    BY <1>1, <1>2, <1>3, <2>6, Answered, Zenon
  <2>8. \A r \in replies' : /\ r.type = "rakp2" /\ r.ok /\ r.brand = b.brand
                            /\ r.code = Rakp2Code(password, algs, sid, crand, b.brand)
    BY <2>1, <2>7 DEF Says
  <2>9. OfTheTry'
    BY <1>3, <2>1, <2>4, <2>5 DEF OfTheTry
  <2>10. InRakp1'
    BY <1>3, <2>4, <2>5, <2>7, <2>8, <2>9 DEF InRakp1, Rakp2Code
  <2>11. QED
    BY <1>2, <1>3, <1>4, <1>8, <2>7, <2>10 DEF Course, Handshake
<1>9. CASE phase = "rakp3"
  <2>1. /\ q.type = "rakp3" /\ q.sid = sid /\ q.code = Rakp3Code("right", algs, brand)
        /\ OfTheTry /\ sessions[sid].st = "rakp2"
        /\ sessions[sid].crand = crand /\ sessions[sid].brand = brand
        /\ password = "right" /\ AuthSupported(algs) /\ sik = SIK("right", algs, crand, brand)
    BY <1>1, <1>9 DEF Course, InRakp3
  <2>2. BmcRakp3(q)
    BY <2>1 DEF Bmc, BmcCommand, BmcOpen, BmcRakp1
  <2>3. q.sid \in Sids /\ sessions[q.sid].suite = algs
    BY <2>1 DEF OfTheTry
  <2>4. q.code = Rakp3Code(password, sessions[q.sid].suite, sessions[q.sid].brand)
    BY <2>1, <2>3, Zenon
  <2>5. /\ sessions' = [sessions EXCEPT ![q.sid].st = "active"]
        /\ Reply(q, TRUE, q.sid, 0, 0,
                 Rakp4Code(SIK(password, sessions[q.sid].suite, sessions[q.sid].crand, sessions[q.sid].brand),
                           sessions[q.sid].suite, q.sid, sessions[q.sid].crand))
    BY <2>1, <2>2, <2>3, <2>4 DEF BmcRakp3
  <2>6. Rakp4Code(SIK(password, sessions[q.sid].suite, sessions[q.sid].crand, sessions[q.sid].brand),
                  sessions[q.sid].suite, q.sid, sessions[q.sid].crand)
          = Rakp4Code(sik, algs, sid, crand)
    BY <2>1, <2>3, Zenon
  <2>7. Reply(q, TRUE, sid, 0, 0, Rakp4Code(sik, algs, sid, crand))
    BY <2>1, <2>5, <2>6, Zenon
  <2>8. /\ sessions'[sid].st = "active" /\ sessions'[sid].suite = algs
        /\ sessions'[sid].crand = crand /\ sessions'[sid].brand = brand
    BY <1>2, <2>1, <2>3, <2>5 DEF Records
  <2>9. /\ OneAtATime' /\ Unseen' = {}
        /\ Says(q, TRUE, sid, 0, 0, Rakp4Code(sik, algs, sid, crand))
    BY <1>1, <1>2, <1>3, <2>7, Answered, Zenon
  <2>10. \A r \in replies' : r.type = "rakp4" /\ r.ok /\ r.code = Rakp4Code(sik, algs, sid, crand)
    BY <2>1, <2>9 DEF Says
  <2>11. OfTheTry'
    BY <1>3, <2>1, <2>8 DEF OfTheTry
  <2>12. InRakp3'
    BY <1>3, <2>1, <2>8, <2>9, <2>10, <2>11, Zenon DEF InRakp3, Rakp4Code, AuthSupported, SIK
  <2>13. QED
    BY <1>2, <1>3, <1>4, <1>9, <2>9, <2>12 DEF Course, Handshake
<1>10. CASE phase = "priv"
  <2>1. q.type = "priv" /\ q.sid = sid /\ OfTheTry /\ password = "right" /\ Usable(algs)
    BY <1>1, <1>10 DEF Course, InPriv
  <2>2. Reply(q, TRUE, sid, 0, 0, <<>>) /\ UNCHANGED sessions /\ ~WrongKey(sessions[sid].suite)
    BY <2>1 DEF Bmc, BmcCommand, BmcOpen, BmcRakp1, BmcRakp3, OfTheTry
  <2>3. OneAtATime' /\ Unseen' = {} /\ Says(q, TRUE, sid, 0, 0, <<>>)
    BY <1>1, <1>2, <1>3, <2>2, Answered, Zenon
  <2>4. OfTheTry' /\ ~WrongKey(algs)
    BY <1>3, <2>1, <2>2 DEF OfTheTry
  <2>5. InPriv'
    <3>1. \A r \in replies' : r.ok /\ r.sid = sid
      BY <2>3 DEF Says
    <3>2. QED
      BY <1>3, <2>1, <2>3, <2>4, <3>1, Zenon DEF InPriv, Usable
  <2>6. QED
    BY <1>2, <1>3, <1>4, <1>10, <2>3, <2>5 DEF Course, Handshake
<1>11. QED
  BY <1>2, <1>5, <1>6, <1>7, <1>8, <1>9, <1>10 DEF Phases

LEMMA CourseConnect ==
    ASSUME Typed, Course, connects = 0, Connect20 PROVE Course'
<1>1. /\ OneAtATime /\ phase = "idle" /\ suite = explicit /\ state = "PreSession"
      /\ Unseen = {}
  BY DEF Course
<1>2. replies = {} /\ Unseen = {}
  BY <1>1 DEF OneAtATime
<1>3. /\ connects' = 1 /\ phase' = "caps" /\ Send("caps", NoSid, 0, 0, <<>>)
      /\ UNCHANGED <<suite, explicit, state, replies, handled>>
  BY <1>1 DEF Connect20, InSession, v20Vars, bmcVars
<1>4. /\ \A p, q \in Unseen' : p = q
      /\ \A q \in Unseen' : q.type = "caps" /\ q.sid = NoSid
  BY <1>2, <1>3, NewRequest
<1>5. OneAtATime' /\ InCaps'
  BY <1>2, <1>3, <1>4 DEF OneAtATime, InCaps
<1>6. QED
  BY <1>1, <1>3, <1>5 DEF Course, Handshake

LEMMA CourseStep ==
    ASSUME ~Faults, AllTried, Server, Typed, Next, FirstCourse PROVE FirstCourse'
<1> SUFFICES ASSUME connects' <= 1 PROVE Course'
  BY DEF FirstCourse
<1>1. connects \in Nat
  BY RmcpAssumption DEF Typed
<1>2. CASE Connect20
  <2>1. connects = 0
    BY <1>1, <1>2 DEF Connect20
  <2>2. QED
    BY <1>2, <2>1, CourseConnect DEF FirstCourse
<1>3. ASSUME NEW r \in replies, Response(r) PROVE Course'
  <2>1. UNCHANGED connects
    BY <1>3 DEF Response, CapsReply, SuitesReply, OpenReply, Rakp2Reply, Rakp4Reply, PrivReply,
                Opened, TryNext, Ends
  <2>2. Course /\ (connects = 0 \/ connects = 1)
    BY <1>1, <2>1 DEF FirstCourse
  <2>3. connects = 1
    BY <1>3, <2>2 DEF Course, OneAtATime
  <2>4. QED
    BY <1>3, <2>2, <2>3, CourseCaps, CourseSuites, CourseOpen, CourseRakp2, CourseRakp4, CoursePriv,
       Zenon DEF Response
<1>4. ASSUME NEW q \in sent, Bmc(q) PROVE Course'
  <2>1. UNCHANGED connects
    BY <1>4 DEF Bmc, connectVars
  <2>2. Course /\ (connects = 0 \/ connects = 1)
    BY <1>1, <2>1 DEF FirstCourse
  <2>3. QED
    BY <1>4, <2>2, CourseBmc
<1>5. CASE Timeout
  <2>1. UNCHANGED connects /\ phase # "idle"
    BY <1>5 DEF Timeout, TryNext, Ends
  <2>2. Course /\ (connects = 0 \/ connects = 1)
    BY <1>1, <2>1 DEF FirstCourse
  <2>3. connects = 1
    BY <2>1, <2>2 DEF Course
  <2>4. QED
    BY <1>5, <2>2, <2>3, CourseTimeout
<1>6. ~BmcForgets
  BY DEF BmcForgets
<1>7. QED
  BY <1>2, <1>3, <1>4, <1>5, <1>6 DEF Next

(* Where nothing else goes wrong, the first Connect20 returns without an   *)
(* error exactly if the password is right and the best suite that the BMC  *)
(* offers and the client has the codes for does not use xRC4, and then     *)
(* with that suite (interface_lan.go:228-273): for every list of suites a  *)
(* BMC may have, with duplicates or suites that are not preferred in it,   *)
(* and every suite the user may have set.  The hypothesis says that the    *)
(* bound on the tries is no limit.                                         *)
THEOREM ConnectsIfPossible ==
    ASSUME ~Faults, AllTried PROVE Spec => []ConnectsWhenPossible
<1>1. Init => FirstCourse
  BY DEF Init, FirstCourse, Course, OneAtATime, Unseen, Handshake
<1>2. Server /\ Typed /\ FirstCourse /\ [Next]_vars => FirstCourse'
  <2> SUFFICES ASSUME Server, Typed, FirstCourse, [Next]_vars PROVE FirstCourse'
    OBVIOUS
  <2>1. CASE Next
    BY <2>1, CourseStep
  <2>2. CASE UNCHANGED vars
    <3>1. /\ Ahead(Path) => Ahead(Path)'
          /\ UNCHANGED Unseen
      BY <2>2, AheadStays DEF vars, Path, Unseen
    <3>2. QED
      BY <2>2, <3>1 DEF vars, FirstCourse, Course, OneAtATime, InCaps, InSuites, InOpen,
                        InRakp1, InRakp3, InPriv, OfTheTry, NoAnswer, Settled, Best, Candidate,
                        Wanted
  <2>3. QED
    BY <2>1, <2>2
<1>3. FirstCourse => ConnectsWhenPossible
  BY DEF FirstCourse, Course, Settled, ConnectsWhenPossible
<1>4. IInv => Server
  BY DEF IInv
<1>5. QED
  BY InitIInv, InductiveStep, TypedInit, TypedStep, <1>1, <1>2, <1>3, <1>4, PTL DEF Spec
-----------------------------------------------------------------------------
(***************************************************************************)
(* Why a Connect20 ends, with and without faults: no exchange puts a suite *)
(* back on the list, and with one suite the exchanges go in one direction. *)
(* The list of the last Connect20 is left behind, so it counts only after  *)
(* the new one has been made, in Get Channel Cipher Suites.                *)
(***************************************************************************)
Stage == CASE phase = "caps"                       -> 4
           [] phase = "suites"                     -> 3
           [] phase \in {"open", "rakp1", "rakp3"} -> 2
           [] phase = "priv"                       -> 1
           [] OTHER                                -> 0
OfSuite == CASE phase = "open"  -> 3
             [] phase = "rakp1" -> 2
             [] phase = "rakp3" -> 1
             [] OTHER           -> 0
Left == <<Stage, Len(tries), OfSuite>>

Smaller(m, n) == \E i \in DOMAIN n : m[i] < n[i] /\ \A j \in 1..(i - 1) : m[j] = n[j]

LEMMA Compare ==
    ASSUME NEW a, NEW b, NEW c, NEW d, NEW e, NEW f,
           \/ d < a
           \/ d = a /\ e < b
           \/ d = a /\ e = b /\ f < c
    PROVE  Smaller(<<d, e, f>>, <<a, b, c>>)
BY DEF Smaller

LEMMA LeftType == ASSUME Typed PROVE Left \in [1..3 -> Nat]
<1>1. Len(tries) \in Nat
  BY DEF Typed, Holding
<1>2. Stage \in Nat /\ OfSuite \in Nat
  BY DEF Stage, OfSuite
<1>3. QED
  BY <1>1, <1>2 DEF Left

\* A suite less, or none left.
LEMMA LeftTry ==
    ASSUME Typed, NEW list \in Seq(Suites), TryNext(list),
           \/ phase = "suites"
           \/ phase \in {"open", "rakp1", "rakp3"} /\ list = tries
    PROVE  Smaller(Left', Left)
<1>1. CASE list = <<>>
  <2>1. Stage' < Stage
    BY <1>1 DEF TryNext, Stage
  <2>2. QED
    BY <2>1, Compare DEF Left
<1>2. CASE list # <<>>
  <2>1. phase' = "open" /\ tries' = Tail(list)
    BY <1>2 DEF TryNext, OpenSession
  <2>2. Len(tries') < Len(list)
    BY <1>2, <2>1
  <2>3. \/ Stage' < Stage
        \/ Stage' = Stage /\ Len(tries)' < Len(tries)
    BY <2>1, <2>2 DEF Stage
  <2>4. QED
    BY <2>3, Compare DEF Left
<1>3. QED
  BY <1>1, <1>2

\* An exchange that ends well is followed by the next.
LEMMA LeftOnward ==
    ASSUME \/ phase = "caps" /\ phase' \in {"suites", "idle"}
           \/ phase = "open" /\ phase' = "rakp1" /\ tries' = tries
           \/ phase = "rakp1" /\ phase' = "rakp3" /\ tries' = tries
           \/ phase = "rakp3" /\ phase' = "priv"
           \/ phase = "priv" /\ phase' = "idle"
    PROVE  Smaller(Left', Left)
<1>1. \/ Stage' < Stage
      \/ Stage' = Stage /\ Len(tries)' = Len(tries) /\ OfSuite' < OfSuite
  BY DEF Stage, OfSuite
<1>2. QED
  BY <1>1, Compare DEF Left

LEMMA LeftResponse == ASSUME Typed, NEW r, Response(r) PROVE Smaller(Left', Left)
<1>1. tries \in Seq(Suites)
  BY DEF Typed, Holding
<1>2. CASE CapsReply(r)
  BY <1>2, LeftOnward DEF CapsReply, Ends
<1>3. CASE SuitesReply(r)
  <2>1. PICK list \in Seq(Suites) : TryNext(list)
    BY <1>3, TriedTyped DEF Typed, Holding, Offering
  <2>2. QED
    BY <1>3, <2>1, LeftTry DEF SuitesReply
<1>4. CASE OpenReply(r)
  <2>1. ASSUME NEW id, NEW s, Opened(id, s) PROVE Smaller(Left', Left)
    BY <1>4, <2>1, LeftOnward DEF OpenReply, Opened, RAKPMessage1
  <2>2. ASSUME TryNext(tries) PROVE Smaller(Left', Left)
    BY <1>1, <1>4, <2>2, LeftTry DEF OpenReply
  <2>3. QED
    BY <1>4, <2>1, <2>2 DEF OpenReply
<1>5. CASE Rakp2Reply(r)
  <2>1. ASSUME RAKPMessage3(r.brand), tries' = tries PROVE Smaller(Left', Left)
    BY <1>5, <2>1, LeftOnward DEF Rakp2Reply, RAKPMessage3
  <2>2. ASSUME TryNext(tries) PROVE Smaller(Left', Left)
    BY <1>1, <1>5, <2>2, LeftTry DEF Rakp2Reply
  <2>3. QED
    BY <1>5, <2>1, <2>2 DEF Rakp2Reply
<1>6. CASE Rakp4Reply(r)
  <2>1. ASSUME phase' = "priv" PROVE Smaller(Left', Left)
    BY <1>6, <2>1, LeftOnward DEF Rakp4Reply
  <2>2. ASSUME TryNext(tries) PROVE Smaller(Left', Left)
    BY <1>1, <1>6, <2>2, LeftTry DEF Rakp4Reply
  <2>3. QED
    BY <1>6, <2>1, <2>2 DEF Rakp4Reply
<1>7. CASE PrivReply(r)
  BY <1>7, LeftOnward DEF PrivReply, Ends
<1>8. QED
  BY <1>2, <1>3, <1>4, <1>5, <1>6, <1>7 DEF Response

LEMMA LeftTimeout == ASSUME Typed, Timeout PROVE Smaller(Left', Left)
<1>1. tries \in Seq(Suites) /\ Chosen(preferredCiphers) \in Seq(Suites)
  BY ChosenTyped, PreferredList DEF Typed, Holding
<1>2. CASE phase \in {"caps", "priv"} /\ Ends("error")
  BY <1>2, LeftOnward DEF Ends
<1>3. CASE phase = "suites" /\ TryNext(Chosen(preferredCiphers))
  BY <1>1, <1>3, LeftTry
<1>4. CASE phase \in {"open", "rakp1", "rakp3"} /\ TryNext(tries)
  BY <1>1, <1>4, LeftTry
<1>5. QED
  BY <1>2, <1>3, <1>4 DEF Timeout

(* A call of Connect20 makes finitely many exchanges, whatever replies of  *)
(* earlier attempts it takes for current ones and whatever fails           *)
(* (interface_lan.go:211-281): each that ends leaves less to do, and what  *)
(* the BMC does meanwhile leaves the client where it was.                  *)
THEOREM ConnectsAreFinite ==
    Spec => /\ [](Left \in [1..3 -> Nat])
            /\ [][\/ Connect20
                  \/ Smaller(Left', Left)
                  \/ UNCHANGED <<connectVars, v20Vars, sent>>]_vars
<1>1. Typed => Left \in [1..3 -> Nat]
  BY LeftType
<1>2. Typed /\ [Next]_vars =>
        [\/ Connect20
         \/ Smaller(Left', Left)
         \/ UNCHANGED <<connectVars, v20Vars, sent>>]_vars
  <2> SUFFICES ASSUME Typed, Next
               PROVE  \/ Connect20
                      \/ Smaller(Left', Left)
                      \/ UNCHANGED <<connectVars, v20Vars, sent>>
    OBVIOUS
  <2>1. ASSUME NEW q, Bmc(q) PROVE UNCHANGED <<connectVars, v20Vars, sent>>
    BY <2>1 DEF Bmc
  <2>2. QED
    BY <2>1, LeftResponse, LeftTimeout DEF Next, BmcForgets
<1>3. QED
  BY InitIInv, InductiveStep, TypedInit, TypedStep, <1>1, <1>2, PTL DEF Spec
=============================================================================
