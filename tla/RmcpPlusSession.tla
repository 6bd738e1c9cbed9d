--------------------------- MODULE RmcpPlusSession ---------------------------
(***************************************************************************)
(* Connect20 (interface_lan.go:211-281): the client tries one cipher suite *)
(* after the other, each with OpenSession, RAKPMessage1 and RAKPMessage3,  *)
(* until the session is active, then sets the privilege level.             *)
(*                                                                         *)
(* phase names the exchange the client waits in.  Nothing in a response is *)
(* compared with the request (ParseRmcpResponse, types_rmcp.go:337-433),   *)
(* so an exchange ends with any reply that is still around: late ones of   *)
(* this attempt, of earlier attempts and of earlier Connects.  What a      *)
(* reply of another kind does is what its bytes do to the Unpack of the    *)
(* response that is expected.                                              *)
(*                                                                         *)
(* Authentication codes are the tuples of what they are computed from: two *)
(* codes are equal only if all that is equal.  The console session ID, the *)
(* BMC's GUID, role and user name never change and are left out.           *)
(***************************************************************************)
EXTENDS CipherSuites, FiniteSets

CONSTANTS Sids,          \* session IDs the BMC assigns
          Garbage,       \* a session ID read from bytes that are none
          NoSid,         \* session ID 0: outside of a session
          Explicits,     \* suites that WithCipherSuiteID may have set; Reserved: none
          Lists,         \* suite lists a BMC may have
          MaxConnects,   \* bound: calls of Connect20, for each of Explicits
          MaxTries,      \* bound: suites that one Connect20 tries
          GarbageSuites, \* bound: suites that garbage may be read as
          Faults         \* whether the network and the BMC may misbehave

ASSUME RmcpAssumption ==
    /\ Garbage \notin Sids /\ NoSid \notin Sids /\ NoSid # Garbage
    /\ Explicits \subseteq 0..255
    /\ Lists \subseteq Seq(StandardSuites)
    /\ MaxConnects \in [Explicits -> Nat] /\ MaxTries \in Nat
    /\ GarbageSuites \subseteq StandardSuites
    /\ Faults \in BOOLEAN

VARIABLES bmcList,    \* the suites the BMC offers (never changes)
          password,   \* the password the BMC knows: "right" is the client's
          explicit,   \* the suite the user has set (never changes)
          sessions,   \* [Sids -> the BMC's record of the session]
          drawn,      \* random numbers the BMC has drawn
          connects,   \* calls of Connect20 so far
          phase,      \* the exchange the client waits in, or "idle"
          tries,      \* suites still to be tried
          result,     \* what the last Connect20 returned
          state,      \* session.v20.state
          suite,      \* session.v20.cipherSuiteID
          algs,       \* session.v20.authAlg, integrityAlg, cryptAlg
          sid,        \* session.v20.bmcSessionID
          crand,      \* session.v20.consoleRand
          brand,      \* session.v20.bmcRand
          sik,        \* session.v20.sik (k1 and k2 are functions of it)
          sent,       \* the requests sent so far
          handled,    \* those the BMC has seen
          replies     \* the replies that may still reach the client

bmcVars     == <<bmcList, password, explicit, sessions, drawn, handled>>
connectVars == <<connects, phase, tries, result>>
v20Vars     == <<state, suite, algs, sid, crand, brand, sik>>
vars == <<bmcList, password, explicit, sessions, drawn, connects, phase, tries, result,
          state, suite, algs, sid, crand, brand, sik, sent, handled, replies>>

NoSession == [st |-> "none", suite |-> 0, crand |-> 0, brand |-> 0]

\* What is computed with the password pw, or with the session key k.
Rakp2Code(pw, s, id, rc, rm) == <<pw, AuthAlg(s), id, rc, rm>>
Rakp3Code(pw, s, rm)         == <<pw, AuthAlg(s), rm>>
SIK(pw, s, rc, rm)           == <<pw, AuthAlg(s), rc, rm>>
Rakp4Code(k, s, id, rc)      == <<k, IntegrityAlg(s), id, rc>>

Init ==
    /\ bmcList \in Lists
    /\ password \in {"right", "wrong"}
    /\ explicit \in Explicits
    /\ sessions = [k \in Sids |-> NoSession]
    /\ drawn = 0
    /\ connects = 0
    /\ phase = "idle"
    /\ tries = <<>>
    /\ result = "none"
    /\ state = "PreSession"
    /\ suite = explicit
    /\ algs = 0
    /\ sid = NoSid
    /\ crand = 0
    /\ brand = 0
    /\ sik = <<>>
    /\ sent = {}
    /\ handled = {}
    /\ replies = {}

-----------------------------------------------------------------------------
(* The requests of the client; their message tag is always 0.              *)

Send(type, id, s, rc, code) ==
    sent' = sent \cup {[n |-> Cardinality(sent), type |-> type, sid |-> id,
                        suite |-> s, crand |-> rc, code |-> code]}

\* genSession20: the session an IPMI request goes into.
InSession == IF state = "Active" THEN sid ELSE NoSid

\* OpenSession, up to its exchange.
OpenSession(s) ==
    /\ suite' = s
    /\ state' = "OpenSessionSent"
    /\ Send("open", NoSid, AlgorithmsOf(s), 0, <<>>)
    /\ phase' = "open"

\* Wrong on purpose: the state is not set.
RAKPMessage1NoState(id) ==
    \E rc \in {crand, crand + 1} \ {0} :
        /\ crand' = rc
        /\ Send("rakp1", id, 0, rc, <<>>)
        /\ state' = state
        /\ phase' = "rakp1"

\* RAKPMessage1 with session id, up to its exchange.  randomBytes is seeded
\* with the Unix time in seconds: within a second it repeats itself.
RAKPMessage1(id) ==
    \E rc \in {crand, crand + 1} \ {0} :
        /\ crand' = rc
        /\ Send("rakp1", id, 0, rc, <<>>)
        /\ state' = "Rakp1Sent"
        /\ phase' = "rakp1"

\* RAKPMessage3 with the BMC's random number rm, up to its exchange.
RAKPMessage3(rm) ==
    /\ sik' = SIK("right", algs, crand, rm)
    /\ Send("rakp3", sid, 0, 0, Rakp3Code("right", algs, rm))
    /\ state' = "Rakp3Sent"
    /\ phase' = "rakp3"

\* Connect20 goes on with the first suite of list, or gives up; of the BMC's
\* random number the caller has to say.
TryNext(list) ==
    /\ UNCHANGED <<algs, sid, crand, sik>>
    /\ IF list = <<>>
       THEN /\ phase' = "idle"
            /\ result' = "error"
            /\ UNCHANGED <<connects, tries, state, suite, sent>>
       ELSE /\ OpenSession(Head(list))
            /\ tries' = Tail(list)
            /\ UNCHANGED <<connects, result>>

\* Connect20 returns res.
Ends(res) ==
    /\ phase' = "idle"
    /\ result' = res
    /\ UNCHANGED <<connects, tries, sent>>

-----------------------------------------------------------------------------
(* The steps of Connect20.                                                 *)

Connect20 ==
    /\ phase = "idle"
    /\ connects < MaxConnects[explicit]
    /\ connects' = connects + 1
    /\ result' = "none"
    /\ Send("caps", InSession, 0, 0, <<>>)
    /\ phase' = "caps"
    /\ UNCHANGED <<tries, v20Vars, bmcVars, replies>>

\* Exchange returns a reply: whichever comes.  With Faults a duplicate of it
\* may come later (and any reply may as well never come).
Take(r) ==
    /\ r \in replies
    /\ replies' = IF Faults THEN replies ELSE replies \ {r}

\* Get Channel Authentication Capabilities; a reply of another kind may be
\* too short, or not decrypt.  Only the error matters in v2.0.
CapsReply(r) ==
    /\ phase = "caps"
    /\ Take(r)
    /\ \/ /\ r.ok \/ r.type \in {"os", "rakp2", "rakp4"}
          /\ Send("suites", InSession, 0, 0, <<>>)
          /\ phase' = "suites"
          /\ UNCHANGED <<connects, tries, result, v20Vars>>
       \/ /\ ~r.ok \/ r.type # "caps"
          /\ Ends("error")
          /\ UNCHANGED v20Vars
    /\ UNCHANGED bmcVars

\* Wrong on purpose: the suite that the user has set is ignored.
ChosenAnyway(list) == SubSeq(list, 1, IF Len(list) < MaxTries THEN Len(list) ELSE MaxTries)

\* The suites to try, when findBestCipherSuites has found those of list.
Chosen(list) ==
    IF suite # Reserved THEN <<suite>>
    ELSE SubSeq(list, 1, IF Len(list) < MaxTries THEN Len(list) ELSE MaxTries)

\* The BMC's list, when only the suites in S are found in the bytes.
Readable(S) == [i \in DOMAIN bmcList |-> IF bmcList[i] \in S THEN bmcList[i] ELSE Reserved]

\* The walk over the channel's suite list, one exchange here.  A reply of
\* another kind in it makes the bytes unreadable or leaves out a part.
SuitesReply(r) ==
    /\ phase = "suites"
    /\ Take(r)
    /\ IF r.type = "suites" /\ r.ok
       THEN TryNext(Chosen(sortCipherSuites(bmcList)))
       ELSE \/ TryNext(Chosen(preferredCiphers))
            \/ \E S \in SUBSET ToSet(bmcList) : TryNext(Chosen(sortCipherSuites(Readable(S))))
    /\ UNCHANGED <<brand, bmcVars>>

\* OpenSession returns nil: what the response says is stored as it is.
Opened(id, s) ==
    /\ sid' = id
    /\ algs' = s
    /\ RAKPMessage1(id)
    /\ UNCHANGED <<connects, tries, result, suite, sik>>

\* A RAKP Message 2 is long enough to pass for an Open Session Response:
\* its random number is read as session ID and algorithms.
OpenReply(r) ==
    /\ phase = "open"
    /\ Take(r)
    /\ IF r.ok /\ r.type = "os" THEN Opened(r.sid, r.suite)
       ELSE IF r.ok /\ r.type = "rakp2" THEN \E s \in GarbageSuites : Opened(Garbage, s)
       ELSE TryNext(tries)
    /\ UNCHANGED <<brand, bmcVars>>

\* ValidateRAKP2.
ValidRakp2(r) ==
    /\ AuthSupported(algs)
    /\ r.code = Rakp2Code("right", algs, sid, crand, r.brand)

\* RAKPMessage1 returns; every other kind of reply is too short.  Of a RAKP
\* Message 2 that does not validate the random number is kept all the same,
\* unless its code was too short for the algorithm.
Rakp2Reply(r) ==
    /\ phase = "rakp1"
    /\ Take(r)
    /\ IF r.ok /\ r.type = "rakp2" /\ ValidRakp2(r)
       THEN /\ brand' = r.brand
            /\ RAKPMessage3(r.brand)
            /\ UNCHANGED <<connects, tries, result, suite, algs, sid, crand>>
       ELSE /\ TryNext(tries)
            /\ brand' \in {brand} \cup {b \in {r.brand} : r.ok /\ r.type = "rakp2"}
    /\ UNCHANGED bmcVars

\* Wrong on purpose: the code is not compared.
ValidRakp4Unchecked(r) == IntegritySupported(algs)

\* ValidateRAKP4.
ValidRakp4(r) ==
    /\ IntegritySupported(algs)
    /\ r.code = Rakp4Code(sik, algs, sid, crand)

\* Wrong on purpose: return where the loop has continue.
Rakp4ReplyReturns(r) ==
    /\ phase = "rakp3"
    /\ Take(r)
    /\ IF r.ok /\ r.type = "rakp4" /\ ValidRakp4(r)
       THEN /\ state' = "Active"
            /\ Send("priv", sid, 0, 0, <<>>)
            /\ phase' = "priv"
            /\ UNCHANGED <<connects, tries, result, suite, algs, sid, crand, brand, sik>>
       ELSE Ends("error") /\ UNCHANGED v20Vars
    /\ UNCHANGED bmcVars

\* RAKPMessage3 returns; no other kind of reply has the code.
Rakp4Reply(r) ==
    /\ phase = "rakp3"
    /\ Take(r)
    /\ IF r.ok /\ r.type = "rakp4" /\ ValidRakp4(r)
       THEN /\ state' = "Active"
            /\ Send("priv", sid, 0, 0, <<>>)
            /\ phase' = "priv"
            /\ UNCHANGED <<connects, tries, result, suite, algs, sid, crand, brand, sik>>
       ELSE TryNext(tries) /\ UNCHANGED brand
    /\ UNCHANGED bmcVars

\* Set Session Privilege Level: one byte of whatever reply is enough.
PrivReply(r) ==
    /\ phase = "priv"
    /\ Take(r)
    /\ \/ /\ r.ok \/ r.type \in {"os", "rakp2", "rakp4"}
          /\ Ends("ok")
       \/ /\ ~r.ok \/ r.sid # sid
          /\ Ends("error")
    /\ UNCHANGED <<v20Vars, bmcVars>>

\* The commands of a session in which they are encrypted with a key of its own.
Unreadable == state = "Active" /\ WrongKey(algs)

\* Wrong on purpose: there is no deadline in the first exchange.
TimeoutBefore ==
    /\ Faults \/ Unreadable
    /\ \/ phase = "priv" /\ Ends("error") /\ UNCHANGED v20Vars
       \/ phase = "suites" /\ TryNext(Chosen(preferredCiphers))
       \/ phase \in {"open", "rakp1", "rakp3"} /\ TryNext(tries)
    /\ UNCHANGED <<brand, bmcVars, replies>>

\* The exchange fails, by the read deadline or another error of the socket.
Timeout ==
    /\ Faults \/ Unreadable
    /\ \/ phase \in {"caps", "priv"} /\ Ends("error") /\ UNCHANGED v20Vars
       \/ phase = "suites" /\ TryNext(Chosen(preferredCiphers))
       \/ phase \in {"open", "rakp1", "rakp3"} /\ TryNext(tries)
    /\ UNCHANGED <<brand, bmcVars, replies>>

-----------------------------------------------------------------------------
(* The BMC (external).  It follows the standard; a request with the tag of *)
(* an earlier one it may take for a retry of that one.                     *)

Reply(q, ok, id, s, rm, code) ==
    /\ handled' = handled \cup {q}
    /\ replies' = replies \cup {[n |-> q.n, type |-> IF q.type = "open" THEN "os"
                                        ELSE IF q.type = "rakp1" THEN "rakp2"
                                        ELSE IF q.type = "rakp3" THEN "rakp4" ELSE q.type,
                                 ok |-> ok, sid |-> id, suite |-> s, brand |-> rm, code |-> code]}

Refuse(q) == Reply(q, FALSE, NoSid, 0, 0, <<>>)

Fresh(q) == q \in sent \ handled

\* Requests that are no part of the handshake; in a session that is gone
\* there is no answer, nor to what does not decrypt.  With a suite without
\* encryption the BMC overlooks that the header says "encrypted"
\* (types_session.go:386).
BmcCommand(q) ==
    /\ Fresh(q)
    /\ q.type \in {"caps", "suites", "priv"}
    /\ q.sid \in Sids =>
          sessions[q.sid].st = "active" /\ ~WrongKey(sessions[q.sid].suite)
    /\ \/ Reply(q, TRUE, q.sid, 0, 0, <<>>)
       \/ Faults /\ Refuse(q)
    /\ UNCHANGED <<bmcList, password, explicit, sessions, drawn>>

BmcOpen(q) ==
    /\ Fresh(q)
    /\ q.type = "open"
    /\ \/ /\ q.suite \in ToSet(bmcList)
          /\ \E k \in Sids :
                /\ sessions[k].st = "none"
                /\ sessions' = [sessions EXCEPT ![k] =
                                   [st |-> "opened", suite |-> q.suite, crand |-> 0, brand |-> 0]]
                /\ Reply(q, TRUE, k, q.suite, 0, <<>>)
       \/ /\ Faults
          /\ \E k \in Sids :
                /\ sessions[k].st \notin {"none", "gone"}
                /\ Reply(q, TRUE, k, sessions[k].suite, 0, <<>>)
          /\ UNCHANGED sessions
       \/ /\ q.suite \in ToSet(bmcList) => Faults
          /\ Refuse(q)
          /\ UNCHANGED sessions
    /\ UNCHANGED <<bmcList, password, explicit, drawn>>

\* The reply to RAKP Message 1 of a session with record b.
Rakp2(q, b) ==
    Reply(q, TRUE, q.sid, 0, b.brand, Rakp2Code(password, b.suite, q.sid, b.crand, b.brand))

BmcRakp1(q) ==
    /\ Fresh(q)
    /\ q.type = "rakp1"
    /\ \/ /\ q.sid \in Sids
          /\ sessions[q.sid].st = "opened" \/ (Faults /\ sessions[q.sid].st = "rakp2")
          /\ LET b == [st |-> "rakp2", suite |-> sessions[q.sid].suite,
                       crand |-> q.crand, brand |-> drawn + 1]
             IN  sessions' = [sessions EXCEPT ![q.sid] = b] /\ Rakp2(q, b)
          /\ drawn' = drawn + 1
       \/ /\ q.sid \in Sids
          /\ sessions[q.sid].st = "rakp2"
          /\ Rakp2(q, sessions[q.sid])
          /\ UNCHANGED <<sessions, drawn>>
       \/ /\ q.sid \in Sids => sessions[q.sid].st \notin {"opened", "rakp2"}
          /\ Refuse(q)
          /\ UNCHANGED <<sessions, drawn>>
    /\ UNCHANGED <<bmcList, password, explicit>>

BmcRakp3(q) ==
    /\ Fresh(q)
    /\ q.type = "rakp3"
    /\ LET known == q.sid \in Sids /\ sessions[q.sid].st \in {"rakp2", "active"}
           b     == sessions[q.sid]
           good  == known /\ q.code = Rakp3Code(password, b.suite, b.brand)
       IN  /\ sessions' = IF known
                          THEN [sessions EXCEPT ![q.sid].st = IF good THEN "active" ELSE "gone"]
                          ELSE sessions
           /\ IF good
              THEN Reply(q, TRUE, q.sid, 0, 0,
                         Rakp4Code(SIK(password, b.suite, b.crand, b.brand), b.suite, q.sid, b.crand))
              ELSE Refuse(q)
    /\ UNCHANGED <<bmcList, password, explicit, drawn>>

\* The BMC drops a session: it timed out, or the BMC was restarted.
BmcForgets ==
    /\ Faults
    /\ \E k \in Sids :
          /\ sessions[k].st \notin {"none", "gone"}
          /\ sessions' = [sessions EXCEPT ![k].st = "gone"]
    /\ UNCHANGED <<bmcList, password, explicit, drawn, handled, connectVars, v20Vars, sent, replies>>

-----------------------------------------------------------------------------
Response(r) == \/ CapsReply(r) \/ SuitesReply(r) \/ OpenReply(r)
               \/ Rakp2Reply(r) \/ Rakp4Reply(r) \/ PrivReply(r)

Bmc(q) == /\ BmcCommand(q) \/ BmcOpen(q) \/ BmcRakp1(q) \/ BmcRakp3(q)
          /\ UNCHANGED <<connectVars, v20Vars, sent>>

Next == \/ Connect20
        \/ \E r \in replies : Response(r)
        \/ Timeout
        \/ \E q \in sent : Bmc(q)
        \/ BmcForgets

Spec == Init /\ [][Next]_vars

(* An exchange ends, at the latest by the read deadline; the BMC and the   *)
(* network owe nothing.                                                    *)
FairSpec == Spec /\ WF_vars((\E r \in replies : Response(r)) \/ Timeout)

-----------------------------------------------------------------------------
Phases == {"idle", "caps", "suites", "open", "rakp1", "rakp3", "priv"}

States == {"PreSession", "OpenSessionSent", "Rakp1Sent", "Rakp3Sent", "Active"}

(* The types of the session's fields; session.v20.state follows the        *)
(* exchanges (cmd_open_session.go:166, cmd_rakp_message_1_2.go:195,        *)
(* cmd_rakp_message_3_4.go:140, 151).                                      *)
RmcpTypeOK ==
    /\ bmcList \in Lists
    /\ password \in {"right", "wrong"}
    /\ explicit \in Explicits
    /\ \A k \in Sids :
          /\ sessions[k].st \in {"none", "opened", "rakp2", "active", "gone"}
          /\ sessions[k].suite \in StandardSuites
          /\ sessions[k].crand \in Nat /\ sessions[k].brand \in 0..drawn
    /\ connects \in 0..MaxConnects[explicit]
    /\ phase \in Phases
    /\ result \in {"none", "ok", "error"}
    /\ state \in States
    /\ suite \in 0..255 /\ algs \in StandardSuites
    /\ sid \in Sids \cup {NoSid, Garbage}
    /\ crand \in Nat /\ brand \in 0..drawn
    /\ handled \subseteq sent
    /\ phase = "open" => state = "OpenSessionSent"
    /\ phase = "rakp1" => state = "Rakp1Sent"
    /\ phase = "rakp3" => state = "Rakp3Sent"
    /\ phase = "priv" => state = "Active"

(* A session that is active for the client was activated by the BMC, and   *)
(* both hold the same keying material and use the same algorithms          *)
(* (ValidateRAKP2, ValidateRAKP4), whatever replies of earlier attempts    *)
(* are taken for current ones.  It has an integrity algorithm.             *)
Agreement ==
    state = "Active" =>
        /\ sid \in Sids
        /\ password = "right"
        /\ sessions[sid].st \in {"active", "gone"}
        /\ sessions[sid].suite = algs
        /\ sessions[sid].crand = crand
        /\ sessions[sid].brand = brand
        /\ sik = SIK(password, algs, crand, brand)
        /\ Usable(algs)

\* The suites Connect20 may settle for, best first.
Wanted == IF explicit # Reserved THEN <<AlgorithmsOf(explicit)>> ELSE preferredCiphers
Candidate(s) == Usable(s) /\ s \in ToSet(bmcList)
Best(i) == Candidate(Wanted[i]) /\ \A j \in 1..(i - 1) : ~Candidate(Wanted[j])

(* Without faults the first Connect20 activates a session of the best      *)
(* suite that the BMC offers and that the client has the codes for, if the *)
(* password is right: an attempt that breaks off half way                  *)
(* (interface_lan.go:244-260) never spoils the next one.  It succeeds      *)
(* exactly if that suite is not one with xRC4: then the first command of   *)
(* the session cannot be read (types_session.go:566-577), and there is no  *)
(* way on to the next suite (interface_lan.go:271-273).                    *)
ConnectsWhenPossible ==
    ~Faults /\ connects = 1 /\ phase = "idle" =>
        /\ result = "ok" <=>
              password = "right" /\ \E i \in DOMAIN Wanted : Best(i) /\ ~WrongKey(Wanted[i])
        /\ result = "ok" => \E i \in DOMAIN Wanted : Best(i) /\ algs = Wanted[i]

(* client.go:164-166: a suite set with WithCipherSuiteID is the one that   *)
(* is used, also when replies are late, duplicated or those of a retry.    *)
ExplicitSuiteUsed ==
    explicit # Reserved /\ state = "Active" => algs = AlgorithmsOf(explicit)

(* Every call of Connect20 returns: a list of suites is finite and no      *)
(* failure puts one back on it (interface_lan.go:239-266).                 *)
ConnectReturns == phase # "idle" ~> phase = "idle"
=============================================================================
