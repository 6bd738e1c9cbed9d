----------------------------- MODULE Session15 -----------------------------
(***************************************************************************)
(* IPMI v1.5: Connect15, the packets of genSession15 before, during and    *)
(* after the activation, and the commands of an active session.            *)
(*                                                                         *)
(* An exchange is one step: the request may be lost or be refused by the   *)
(* BMC, its reply may be lost or come too late, and is then the first that *)
(* the next exchange finds (UdpExchange).  Of the sequence numbers, which  *)
(* have 32 bits, SeqMod are modelled.  The BMC is external; it drops what  *)
(* does not belong to a session, is badly sealed or out of its window.     *)
(***************************************************************************)
EXTENDS Integers, Sequences, FiniteSets

CONSTANTS
  Offers,       \* sets of authentication types that a BMC may offer
  Passwords,    \* whether the password of the client is the right one
  SeqMod,
  Window,       \* how far ahead a sequence number may be
  MaxConnects,
  MaxCommands,
  MaxFaults     \* lost or late packets

ASSUME S15Assumption ==
  /\ \A o \in Offers : o # {} /\ o \subseteq {"md2", "md5", "password", "oem", "none"}
  /\ Passwords \subseteq BOOLEAN /\ SeqMod \in Nat \ {0} /\ Window \in 1..(SeqMod - 1)
  /\ {MaxConnects, MaxCommands, MaxFaults} \subseteq Nat

VARIABLES
  pc,        \* where Connect15 is
  keeps,     \* a keep-alive goroutine has been started
  authType, preSession, active, sessionID, challenge, inSeq,   \* c.session
  offer, password,  \* of this BMC, of this client
  last,      \* ghost: the last command, and whether the BMC took its packet
  temp,      \* BMC: the ID and challenge of the last Get Session Challenge
  sess,      \* BMC: its session, with the last sequence number
  ids,       \* BMC: IDs given so far
  late,      \* replies in the socket
  mixed,     \* ghost: Connect15 took a late reply for that of its command
  connects, commands, faults

Numbers == 0..(SeqMod - 1)

client == <<authType, preSession, active, sessionID, challenge, inSeq>>
bmc == <<temp, sess, ids>>
count == <<connects, commands, faults>>
vars == <<pc, client, keeps, offer, password, last, bmc, late, mixed, count>>

NoSession == [id |-> 0, auth |-> "none", seq |-> 0]
NoTemp == [id |-> 0, auth |-> "none"]

Init ==
  /\ pc = "idle" /\ keeps = FALSE
  /\ authType = "none" /\ preSession = FALSE /\ active = FALSE
  /\ sessionID = 0 /\ challenge = 0 /\ inSeq = 0
  /\ offer \in Offers /\ password \in Passwords
  /\ last = [cmd |-> "none", taken |-> FALSE]
  /\ temp = NoTemp /\ sess = NoSession /\ ids = 0
  /\ late = <<>> /\ mixed = FALSE
  /\ connects = 0 /\ commands = 0 /\ faults = 0

(* chooseAuthType *)
ChooseAuthType(o) ==
  IF "md2" \in o THEN "md2"
  ELSE IF "md5" \in o THEN "md5"
  ELSE IF "password" \in o THEN "password"
  ELSE IF "oem" \in o THEN "oem" ELSE "none"

(* AuthCode: what it is made of.  That of MD2 is the first 16 bytes of its input,
   which are the password, since Sum appends; for OEM there is none to cut. *)
AuthCode(type, id, seq) ==
  IF type \in {"password", "md2"} THEN <<password>>
  ELSE IF type = "md5" THEN <<password, id, seq>> ELSE <<>>

(* Wrong on purpose: the challenge is answered in clear. *)
GenSessionActive(cmd, seq) ==
  [auth |-> IF active THEN authType ELSE "none", id |-> IF active THEN sessionID ELSE 0,
   seq |-> IF active THEN seq ELSE 0,
   seal |-> IF active THEN AuthCode(authType, sessionID, seq) ELSE <<>>,
   cmd |-> cmd]
(* genSession15: the header, and the sequence number that the next packet follows. *)
GenSession(cmd, seq) ==
  LET auth == IF preSession \/ active THEN authType ELSE "none"
      id == IF preSession \/ active THEN sessionID ELSE 0
  IN  [auth |-> auth, id |-> id, seq |-> IF active THEN seq ELSE 0,
       seal |-> AuthCode(auth, id, seq),
       cmd |-> cmd]
NextSeq == IF active THEN (inSeq + 1) % SeqMod ELSE inSeq
Packet(cmd) == GenSession(cmd, NextSeq)

(* The BMC takes a packet: in clear before a session, sealed by the temporary or the
   active one.  The first packet of the session may have the initial number. *)
Seal(p) ==
  IF p.auth = "none" THEN <<>>
  ELSE IF p.auth = "password" THEN <<TRUE>> ELSE <<TRUE, p.id, p.seq>>
Ahead(p) == (p.seq - sess.seq + SeqMod) % SeqMod
InSession(p) == sess.id # 0 /\ p.id = sess.id /\ p.auth = sess.auth /\ Ahead(p) \in 1..Window
Takes(p) ==
  /\ p.seal = Seal(p)
  /\ \/ p.id = 0 /\ p.auth = "none" /\ p.cmd \in {"caps", "challenge"}
     \/ InSession(p)
     \/ p.cmd = "activate" /\ temp.id # 0 /\ p.id = temp.id /\ p.auth = temp.auth /\ p.seq = 0
          /\ challenge = temp.id

(* What it answers: ID and sequence number where the reply has them. *)
Reply(p, seq) ==
  [cmd |-> p.cmd, id |-> IF p.cmd \in {"challenge", "activate"} THEN ids + 1 ELSE 0,
   seq |-> IF p.cmd = "activate" THEN seq ELSE 0]
Handle(p, seq) ==
  /\ ids' = IF p.cmd \in {"challenge", "activate"} THEN ids + 1 ELSE ids
  /\ temp' = (IF p.cmd = "challenge" THEN [id |-> ids + 1, auth |-> authType]
              ELSE IF p.cmd = "activate" THEN NoTemp ELSE temp)
  /\ sess' = (IF p.cmd = "activate" THEN [id |-> ids + 1, auth |-> p.auth, seq |-> seq]
              ELSE IF InSession(p) THEN [sess EXCEPT !.seq = p.seq] ELSE sess)

(* The library takes a part of the authentication code: for OEM there is none. *)
Panics ==
  /\ Packet("any").auth = "oem"
  /\ pc' = "panic"
  /\ UNCHANGED <<client, keeps, offer, password, last, bmc, late, mixed, count>>

(* What the socket gives from this queue of replies: the first of them, of which Unpack
   only looks at the length. *)
Size(cmd) == IF cmd = "caps" THEN 8 ELSE IF cmd = "challenge" THEN 20
             ELSE IF cmd = "activate" THEN 10 ELSE 1
NoAnswer == [cmd |-> "none", id |-> 0, seq |-> 0]
Received(cmd, queue, r) ==
  IF queue = <<>> THEN r = NoAnswer /\ late' = queue /\ UNCHANGED mixed
  ELSE /\ late' = Tail(queue)
       /\ IF Size(Head(queue).cmd) < Size(cmd) THEN r = NoAnswer /\ UNCHANGED mixed
          ELSE r = Head(queue) /\ mixed' = (mixed \/ (late # <<>> /\ Size(cmd) > 1))

(* One exchange of cmd: the packet, the BMC, and the answer that the caller gets. *)
Answers(cmd) ==
  {NoAnswer} \cup {late[i] : i \in DOMAIN late} \cup {Reply(Packet(cmd), seq) : seq \in Numbers}
Fault == faults < MaxFaults /\ faults' = faults + 1
Exchange(cmd, r) ==
  /\ Packet(cmd).auth # "oem"
  /\ UNCHANGED <<offer, password, connects>>
  /\ last' = [cmd |-> cmd, taken |-> Takes(Packet(cmd))]
  /\ \/ ~Takes(Packet(cmd)) /\ Received(cmd, late, r) /\ UNCHANGED <<bmc, faults>>
     \/ Fault /\ Received(cmd, late, r) /\ UNCHANGED bmc                    \* not arrived
     \/ /\ Takes(Packet(cmd))
        /\ \E seq \in Numbers :
             LET queue == Append(late, Reply(Packet(cmd), seq))
             IN  /\ seq > 0 => cmd = "activate"
                 /\ Handle(Packet(cmd), seq)
                 /\ \/ Received(cmd, queue, r) /\ UNCHANGED faults
                    \/ Fault /\ Received(cmd, late, r)                      \* lost
                    \/ Fault /\ r = NoAnswer /\ late' = queue /\ UNCHANGED mixed  \* too late

(* Wrong on purpose: an attempt that failed is not left. *)
GivesUpNot ==
  /\ inSeq' = NextSeq
  /\ UNCHANGED <<pc, authType, preSession, active, sessionID, challenge, keeps, commands>>
(* c.session keeps what it has; the sequence number has moved. *)
GivesUp ==
  /\ pc' = "idle" /\ inSeq' = NextSeq
  /\ UNCHANGED <<authType, preSession, active, sessionID, challenge, keeps, commands>>

Connect15 ==
  /\ pc \in {"idle", "connected"} /\ connects < MaxConnects
  /\ pc' = "caps" /\ connects' = connects + 1
  /\ UNCHANGED <<client, keeps, offer, password, last, bmc, late, mixed, commands, faults>>

(* A late reply of another command gives random bits for the types: any offer. *)
GetChannelAuthenticationCapabilities ==
  pc = "caps" /\ \E r \in Answers("caps") :
    /\ Exchange("caps", r)
    /\ IF r = NoAnswer THEN GivesUp
       ELSE /\ pc' = "challenge" /\ inSeq' = NextSeq
            /\ \E o \in IF r.cmd = "caps" THEN {offer} ELSE Offers :
                 authType' = ChooseAuthType(o)
            /\ UNCHANGED <<preSession, active, sessionID, challenge, keeps, commands>>

GetSessionChallenge ==
  pc = "challenge" /\ \E r \in Answers("challenge") :
    /\ Exchange("challenge", r)
    /\ IF r = NoAnswer THEN GivesUp
       ELSE /\ pc' = "activate" /\ inSeq' = NextSeq /\ preSession' = TRUE
            /\ sessionID' = r.id /\ challenge' = r.id
            /\ UNCHANGED <<authType, active, keeps, commands>>

(* Wrong on purpose: the session goes on with the temporary ID. *)
ActivateSessionOldID ==
  pc = "activate" /\ \E r \in Answers("activate") :
    /\ Exchange("activate", r)
    /\ IF r = NoAnswer THEN GivesUp
       ELSE /\ pc' = "privilege"
            /\ active' = TRUE /\ preSession' = FALSE /\ inSeq' = r.seq
            /\ UNCHANGED <<authType, sessionID, challenge, keeps, commands>>
ActivateSession ==
  pc = "activate" /\ \E r \in Answers("activate") :
    /\ Exchange("activate", r)
    /\ IF r = NoAnswer THEN GivesUp
       ELSE /\ pc' = "privilege"
            /\ active' = TRUE /\ preSession' = FALSE
            /\ sessionID' = r.id /\ inSeq' = r.seq
            /\ UNCHANGED <<authType, challenge, keeps, commands>>

SetSessionPrivilegeLevel ==
  pc = "privilege" /\ \E r \in Answers("privilege") :
    /\ Exchange("privilege", r)
    /\ IF r = NoAnswer THEN GivesUp
       ELSE /\ pc' = "connected" /\ keeps' = TRUE /\ inSeq' = NextSeq
            /\ UNCHANGED <<authType, preSession, active, sessionID, challenge, commands>>

(* Any command of the session; the keep-alive's are sent during a later Connect15 too. *)
SessionCommand ==
  /\ keeps /\ pc # "panic" /\ commands < MaxCommands
  /\ \/ Panics
     \/ /\ \E r \in Answers("command") : Exchange("command", r)
        /\ inSeq' = NextSeq /\ commands' = commands + 1
        /\ UNCHANGED <<pc, authType, preSession, active, sessionID, challenge, keeps>>

Step ==
  \/ pc \in {"caps", "challenge", "activate", "privilege"} /\ Panics
  \/ GetChannelAuthenticationCapabilities \/ GetSessionChallenge \/ ActivateSession
  \/ SetSessionPrivilegeLevel
Next == Connect15 \/ Step \/ SessionCommand

Spec == Init /\ [][Next]_vars
FairSpec == Spec /\ WF_vars(Step)
-----------------------------------------------------------------------------
(* Every command of an active session is one that the BMC takes: type, ID, number and
   seal are those of the BMC's session, as long as fewer packets than the window is
   wide were lost and Connect15 mistook no late reply.  It ends when a second Connect gets
   its challenge: the ID that comes with it replaces that of the active session. *)
SessionAccepted ==
  active /\ ~preSession /\ ~mixed /\ faults < Window /\ last.cmd \in {"privilege", "command"}
    => last.taken

(* Without faults a first Connect15 neither fails nor panics, if the password is right
   or not asked for, unless the type that chooseAuthType takes is MD2, whose code is
   wrong, or OEM, which has none to cut (client_auth_code.go:77-90).  OEM is taken even
   if the BMC offers "none" as well
   (cmd_get_channel_authentication_capabilities.go:144-161). *)
ConnectsUnlessMD2OrOEM ==
  connects = 1 /\ faults = 0 /\ pc \in {"idle", "panic"} =>
    ChooseAuthType(offer) \in {"md2", "oem"} \/ (~password /\ offer # {"none"})

(* Connect15 returns. *)
Connect15Returns == pc = "caps" ~> pc \in {"idle", "connected", "panic"}
=============================================================================
