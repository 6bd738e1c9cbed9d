-------------------------- MODULE Session15_proofs --------------------------
(***************************************************************************)
(* The sessions of IPMI v1.5, for every BMC, window, modulus of sequence   *)
(* numbers and number of calls and faults.                                 *)
(*                                                                         *)
(* The argument: the client's session and the BMC's agree in ID, type and  *)
(* seal from the activation on (InStep), and the client's number is ahead  *)
(* of the BMC's by no more than the faults that there were.  The first     *)
(* Connect15 without faults is followed exchange by exchange (FirstTry).   *)
(***************************************************************************)
EXTENDS Session15, SequenceTheorems, TLAPS

Types == {"md2", "md5", "password", "oem", "none"}
Commands == {"caps", "challenge", "activate", "privilege", "command"}

Replies == [cmd: Commands, id: Nat, seq: Numbers]

SessionTypeOK ==
  /\ pc \in {"idle", "caps", "challenge", "activate", "privilege", "connected", "panic"}
  /\ keeps \in BOOLEAN /\ preSession \in BOOLEAN /\ active \in BOOLEAN /\ mixed \in BOOLEAN
  /\ authType \in Types /\ offer \in Offers /\ password \in BOOLEAN
  /\ sessionID \in Nat /\ challenge \in Nat /\ inSeq \in Numbers
  /\ temp \in [id: Nat, auth: Types]
  /\ sess \in [id: Nat, auth: Types, seq: Numbers]
  /\ late \in Seq(Replies)
  /\ ids \in Nat /\ connects \in Nat /\ commands \in Nat /\ faults \in Nat

(* How far the client's number is ahead of the BMC's. *)
Lag == IF inSeq >= sess.seq THEN inSeq - sess.seq ELSE inSeq - sess.seq + SeqMod

(* The session of the client is that of the BMC. *)
Trusted == active /\ ~preSession /\ ~mixed /\ faults < Window
InStep ==
  Trusted =>
    /\ sess.id # 0 /\ sess.id = sessionID /\ sess.auth = authType
    /\ authType = "none" \/ (password /\ authType \in {"password", "md5"})
    /\ Lag <= faults

(* The type is that which the BMC's offer asks for, once there is one, and nobody
   sends Activate Session without a challenge. *)
Chosen ==
  /\ ~mixed => \/ authType = ChooseAuthType(offer)
               \/ ~active /\ ~preSession /\ pc \in {"idle", "caps"}
  /\ pc = "activate" => preSession
  /\ ~active => inSeq = 0

(* The first Connect15, while nothing is lost. *)
FirstTry ==
  connects <= 1 /\ faults = 0 =>
    /\ late = <<>> /\ ~mixed
    /\ connects = 0 => pc = "idle" /\ ~preSession
    /\ pc \in {"idle", "caps", "challenge"} => ~active /\ ~keeps
    /\ pc \in {"caps", "challenge"} => ~preSession
    /\ pc = "activate" => ~active /\ ~keeps /\ temp = [id |-> sessionID, auth |-> authType]
                            /\ challenge = sessionID /\ sessionID # 0
    /\ pc \in {"privilege", "connected"} => active /\ ~preSession
    /\ pc = "privilege" => ~keeps

SessionInv ==
  SessionTypeOK /\ InStep /\ Chosen /\ FirstTry /\ SessionAccepted /\ ConnectsUnlessMD2OrOEM
-----------------------------------------------------------------------------
LEMMA QueueTyped ==
  ASSUME NEW S, NEW s \in Seq(S)
  PROVE  /\ s # <<>> => Head(s) \in S /\ Tail(s) \in Seq(S)
         /\ \A r \in S : /\ Append(s, r) \in Seq(S) /\ Append(s, r) # <<>>
                         /\ Tail(Append(s, r)) \in Seq(S)
                         /\ s # <<>> => Head(Append(s, r)) = Head(s)
                         /\ s = <<>> => Head(Append(s, r)) = r /\ Tail(Append(s, r)) = <<>>
<1>1. s # <<>> => Head(s) \in S /\ Tail(s) \in Seq(S)
  BY HeadTailProperties
<1>2. ASSUME NEW r \in S
      PROVE  /\ Append(s, r) \in Seq(S) /\ Append(s, r) # <<>>
             /\ Tail(Append(s, r)) \in Seq(S)
             /\ s # <<>> => Head(Append(s, r)) = Head(s)
             /\ s = <<>> => Head(Append(s, r)) = r /\ Tail(Append(s, r)) = <<>>
  BY AppendProperties, HeadTailAppend, HeadTailProperties
<1> QED
  BY <1>1, <1>2

(* Numbers wrap around once at most. *)
LEMMA Wraps ==
  ASSUME NEW x \in 0..(2 * SeqMod - 1)
  PROVE  x % SeqMod = (IF x < SeqMod THEN x ELSE x - SeqMod)
<1>1. CASE x \in 0..(SeqMod - 1)
  BY <1>1, S15Assumption
<1>2. CASE x \in SeqMod..(2 * SeqMod - 1)
  <2>1. x % SeqMod = x - SeqMod
    BY <1>2, S15Assumption
  <2> QED BY <2>1, <1>2, S15Assumption
<1> QED
  BY <1>1, <1>2, S15Assumption

LEMMA PacketIs ==
  ASSUME SessionTypeOK, NEW cmd
  PROVE  /\ Packet(cmd).cmd = cmd
         /\ Packet(cmd).auth = IF preSession \/ active THEN authType ELSE "none"
         /\ Packet(cmd).id = IF preSession \/ active THEN sessionID ELSE 0
         /\ Packet(cmd).seq = IF active THEN NextSeq ELSE 0
         /\ Packet(cmd).seal = AuthCode(Packet(cmd).auth, Packet(cmd).id, NextSeq)
         /\ NextSeq \in Numbers
         /\ active => NextSeq = IF inSeq + 1 < SeqMod THEN inSeq + 1 ELSE 0
<1>1. NextSeq \in Numbers /\ (active => NextSeq = IF inSeq + 1 < SeqMod THEN inSeq + 1 ELSE 0)
  <2>1. inSeq + 1 \in 0..(2 * SeqMod - 1) /\ inSeq + 1 <= SeqMod /\ inSeq \in Numbers
    BY S15Assumption DEF SessionTypeOK, Numbers
  <2>2. (inSeq + 1) % SeqMod = IF inSeq + 1 < SeqMod THEN inSeq + 1 ELSE inSeq + 1 - SeqMod
    <3>1. \A y \in 0..(2 * SeqMod - 1) : y % SeqMod = IF y < SeqMod THEN y ELSE y - SeqMod
      BY Wraps
    <3>2. inSeq + 1 \in 0..(2 * SeqMod - 1)
      BY <2>1
    <3> QED BY <3>1, <3>2, <2>1, S15Assumption DEF Numbers
  <2>3. NextSeq = IF active THEN (IF inSeq + 1 < SeqMod THEN inSeq + 1 ELSE inSeq + 1 - SeqMod)
                            ELSE inSeq
    BY <2>2 DEF NextSeq
  <2>4. inSeq + 1 < SeqMod \/ inSeq + 1 - SeqMod = 0
    BY <2>1, S15Assumption DEF Numbers
  <2> QED BY <2>1, <2>3, <2>4, S15Assumption DEF Numbers
<1>2. /\ Packet(cmd).cmd = cmd
      /\ Packet(cmd).auth = IF preSession \/ active THEN authType ELSE "none"
      /\ Packet(cmd).id = IF preSession \/ active THEN sessionID ELSE 0
      /\ Packet(cmd).seq = IF active THEN NextSeq ELSE 0
  BY DEF Packet, GenSession
<1>3. Packet(cmd).seal = AuthCode(Packet(cmd).auth, Packet(cmd).id, NextSeq)
  BY DEF Packet, GenSession
<1> QED
  BY <1>1, <1>2, <1>3

LEMMA RepliesTyped ==
  ASSUME SessionTypeOK, NEW cmd \in Commands, NEW seq \in Numbers
  PROVE  Reply(Packet(cmd), seq) \in Replies
  BY PacketIs, S15Assumption DEF SessionTypeOK, Reply, Replies, Numbers

-----------------------------------------------------------------------------
(* What an exchange does to the BMC, which answer it may give, and when it gives none. *)
Served(cmd) ==
  \/ /\ Takes(Packet(cmd))
     /\ \E seq \in Numbers : (seq > 0 => cmd = "activate") /\ Handle(Packet(cmd), seq)
  \/ UNCHANGED bmc /\ (Takes(Packet(cmd)) => faults' = faults + 1)
Turn(cmd) ==
  /\ Packet(cmd).auth # "oem"
  /\ UNCHANGED <<offer, password, connects>>
  /\ last' = [cmd |-> cmd, taken |-> Takes(Packet(cmd))]
  /\ faults' \in {faults, faults + 1}
  /\ late' \in Seq(Replies) /\ mixed' \in BOOLEAN
  /\ late = <<>> /\ faults' = faults => late' = <<>>
  /\ mixed => mixed'
  /\ Served(cmd)
Found(cmd, r) ==
  \/ r = NoAnswer /\ mixed' = mixed
       /\ (Takes(Packet(cmd)) /\ late = <<>> => faults' = faults + 1)
  \/ late # <<>> /\ r \in Replies /\ mixed' = (mixed \/ Size(cmd) > 1)
  \/ /\ late = <<>> /\ mixed' = mixed /\ Takes(Packet(cmd)) /\ faults' = faults
     /\ \E seq \in Numbers : Handle(Packet(cmd), seq) /\ r = Reply(Packet(cmd), seq)

LEMMA ExchangeIsTurn ==
  ASSUME SessionTypeOK, NEW cmd \in Commands, NEW r, Exchange(cmd, r)
  PROVE  Turn(cmd) /\ Found(cmd, r)
<1> DEFINE p == Packet(cmd)
<1>1. /\ late \in Seq(Replies) /\ mixed \in BOOLEAN /\ faults \in Nat
      /\ p.auth # "oem" /\ UNCHANGED <<offer, password, connects>>
      /\ last' = [cmd |-> cmd, taken |-> Takes(p)]
  BY DEF SessionTypeOK, Exchange
<1>2. ASSUME Received(cmd, late, r)
      PROVE  /\ late' \in Seq(Replies) /\ mixed' \in BOOLEAN /\ (late = <<>> => late' = <<>>)
             /\ \/ r = NoAnswer /\ mixed' = mixed
                \/ late # <<>> /\ r \in Replies /\ mixed' = (mixed \/ Size(cmd) > 1)
  BY <1>1, <1>2, QueueTyped DEF Received
<1>3. ASSUME NEW seq \in Numbers, Received(cmd, Append(late, Reply(p, seq)), r)
      PROVE  /\ late' \in Seq(Replies) /\ mixed' \in BOOLEAN /\ (late = <<>> => late' = <<>>)
             /\ \/ r = NoAnswer /\ mixed' = mixed /\ late # <<>>
                \/ late # <<>> /\ r \in Replies /\ mixed' = (mixed \/ Size(cmd) > 1)
                \/ late = <<>> /\ mixed' = mixed /\ r = Reply(p, seq)
  <2>1. Reply(p, seq) \in Replies /\ Reply(p, seq).cmd = cmd
    BY RepliesTyped, PacketIs DEF Reply
  <2>2. /\ Append(late, Reply(p, seq)) # <<>> /\ Tail(Append(late, Reply(p, seq))) \in Seq(Replies)
        /\ late # <<>> => Head(Append(late, Reply(p, seq))) \in Replies
        /\ late = <<>> => /\ Head(Append(late, Reply(p, seq))) = Reply(p, seq)
                          /\ Tail(Append(late, Reply(p, seq))) = <<>>
    BY <1>1, <2>1, QueueTyped
  <2>3. ~(Size(cmd) < Size(cmd))
    BY DEF Size
  <2> QED
    BY <1>1, <1>3, <2>1, <2>2, <2>3 DEF Received
<1>4. CASE ~Takes(p) /\ Received(cmd, late, r) /\ UNCHANGED <<bmc, faults>>
  BY <1>1, <1>2, <1>4 DEF Turn, Found, Served
<1>5. CASE Fault /\ Received(cmd, late, r) /\ UNCHANGED bmc
  BY <1>1, <1>2, <1>5 DEF Turn, Found, Served, Fault
<1>6. CASE /\ Takes(p)
           /\ \E seq \in Numbers :
                LET queue == Append(late, Reply(p, seq))
                IN  /\ seq > 0 => cmd = "activate"
                    /\ Handle(p, seq)
                    /\ \/ Received(cmd, queue, r) /\ UNCHANGED faults
                       \/ Fault /\ Received(cmd, late, r)
                       \/ Fault /\ r = NoAnswer /\ late' = queue /\ UNCHANGED mixed
  <2>1. PICK seq \in Numbers :
          /\ seq > 0 => cmd = "activate"
          /\ Handle(p, seq)
          /\ \/ Received(cmd, Append(late, Reply(p, seq)), r) /\ UNCHANGED faults
             \/ Fault /\ Received(cmd, late, r)
             \/ Fault /\ r = NoAnswer /\ late' = Append(late, Reply(p, seq)) /\ UNCHANGED mixed
    BY <1>6
  <2>2. Served(cmd) /\ Takes(p)
    BY <1>6, <2>1 DEF Served
  <2>3. CASE Received(cmd, Append(late, Reply(p, seq)), r) /\ UNCHANGED faults
    BY <1>1, <1>3, <2>1, <2>2, <2>3 DEF Turn, Found
  <2>4. CASE Fault /\ Received(cmd, late, r)
    BY <1>1, <1>2, <2>2, <2>4 DEF Turn, Found, Fault
  <2>5. CASE Fault /\ r = NoAnswer /\ late' = Append(late, Reply(p, seq)) /\ UNCHANGED mixed
    <3>1. late' \in Seq(Replies)
      BY <1>1, <2>5, QueueTyped, RepliesTyped
    <3> QED
      BY <1>1, <2>2, <2>5, <3>1 DEF Turn, Found, Fault
  <2> QED
    BY <2>1, <2>3, <2>4, <2>5
<1> QED
  BY <1>4, <1>5, <1>6 DEF Exchange

-----------------------------------------------------------------------------
LEMMA TurnTyped ==
  ASSUME SessionTypeOK, NEW cmd \in Commands, Turn(cmd)
  PROVE  /\ offer' \in Offers /\ password' \in BOOLEAN /\ mixed' \in BOOLEAN
         /\ late' \in Seq(Replies) /\ connects' \in Nat /\ faults' \in Nat
         /\ temp' \in [id: Nat, auth: Types] /\ ids' \in Nat
         /\ sess' \in [id: Nat, auth: Types, seq: Numbers]
         /\ NextSeq \in Numbers
<1>1. /\ Packet(cmd).cmd = cmd /\ NextSeq \in Numbers /\ Packet(cmd).auth \in Types
      /\ Packet(cmd).seq \in Numbers /\ 0 \in Numbers
  BY PacketIs, S15Assumption DEF SessionTypeOK, Types, Numbers
<1>2. /\ temp \in [id: Nat, auth: Types] /\ ids \in Nat /\ faults \in Nat /\ authType \in Types
      /\ sess \in [id: Nat, auth: Types, seq: Numbers]
  BY DEF SessionTypeOK
<1>3. CASE UNCHANGED bmc
  BY <1>1, <1>2, <1>3 DEF Turn, SessionTypeOK, bmc
<1>4. ASSUME NEW seq \in Numbers, Handle(Packet(cmd), seq)
      PROVE  /\ temp' \in [id: Nat, auth: Types] /\ ids' \in Nat
             /\ sess' \in [id: Nat, auth: Types, seq: Numbers]
  BY <1>1, <1>2, <1>4 DEF Handle, NoTemp, Types
<1> QED
  BY <1>1, <1>2, <1>3, <1>4 DEF Turn, Served, SessionTypeOK

(* The packets of a session in step are taken, and leave it in step. *)
LEMMA TakenInStep ==
  ASSUME SessionTypeOK, InStep, Trusted, NEW cmd
  PROVE  Takes(Packet(cmd)) /\ InSession(Packet(cmd))
<1>1. /\ sess.id # 0 /\ sess.id = sessionID /\ sess.auth = authType
      /\ authType = "none" \/ (password = TRUE /\ authType \in {"password", "md5"})
      /\ Lag <= faults /\ faults < Window /\ active
  BY DEF InStep, Trusted, SessionTypeOK
<1>2. /\ Packet(cmd).auth = authType /\ Packet(cmd).id = sessionID /\ Packet(cmd).seq = NextSeq
      /\ Packet(cmd).seal = AuthCode(authType, sessionID, NextSeq)
      /\ NextSeq = IF inSeq + 1 < SeqMod THEN inSeq + 1 ELSE 0
  BY <1>1, PacketIs
<1>3. Packet(cmd).seal = Seal(Packet(cmd))
  BY <1>1, <1>2 DEF AuthCode, Seal
<1>4. /\ inSeq \in 0..(SeqMod - 1) /\ sess.seq \in 0..(SeqMod - 1) /\ Window \in 1..(SeqMod - 1)
      /\ SeqMod \in Nat \ {0} /\ faults \in Nat
  BY S15Assumption DEF SessionTypeOK, Numbers
<1>5. Ahead(Packet(cmd)) = Lag + 1
  <2>1. NextSeq - sess.seq + SeqMod \in 0..(2 * SeqMod - 1)
    BY <1>2, <1>4
  <2>2. \A y \in 0..(2 * SeqMod - 1) : y % SeqMod = IF y < SeqMod THEN y ELSE y - SeqMod
    BY Wraps
  <2>3. (NextSeq - sess.seq + SeqMod) % SeqMod =
          IF NextSeq - sess.seq + SeqMod < SeqMod THEN NextSeq - sess.seq + SeqMod
          ELSE NextSeq - sess.seq
    BY <2>1, <2>2, <1>2, <1>4
  <2>4. Ahead(Packet(cmd)) = (NextSeq - sess.seq + SeqMod) % SeqMod
    BY <1>2 DEF Ahead
  <2> QED
    BY <2>3, <2>4, <1>1, <1>2, <1>4 DEF Lag
<1>6. Ahead(Packet(cmd)) \in 1..Window
  BY <1>1, <1>4, <1>5 DEF Lag
<1> QED
  BY <1>1, <1>2, <1>3, <1>6 DEF InSession, Takes

LEMMA TurnInStep ==
  ASSUME SessionTypeOK, InStep, NEW cmd \in Commands \ {"activate"}, Turn(cmd),
         Trusted', inSeq' = NextSeq,
         UNCHANGED <<active, preSession, authType, sessionID>>
  PROVE  InStep' /\ Takes(Packet(cmd))
<1>1. Trusted /\ faults' < Window /\ UNCHANGED password
  <2>1. faults' \in {faults, faults + 1} /\ faults' < Window /\ faults \in Nat
    BY DEF Trusted, Turn, SessionTypeOK
  <2>2. faults < Window /\ faults' < Window
    BY <2>1, S15Assumption
  <2>3. active /\ ~preSession /\ ~mixed /\ UNCHANGED password
    BY Zenon DEF Trusted, Turn
  <2> QED BY <2>2, <2>3 DEF Trusted
<1>2. Takes(Packet(cmd)) /\ InSession(Packet(cmd))
  BY <1>1, TakenInStep
<1>3. /\ sess.id # 0 /\ sess.id = sessionID /\ sess.auth = authType
      /\ authType = "none" \/ (password /\ authType \in {"password", "md5"})
      /\ Lag <= faults /\ active
  BY <1>1 DEF InStep, Trusted
<1>4. /\ inSeq \in 0..(SeqMod - 1) /\ sess.seq \in 0..(SeqMod - 1) /\ Window \in 1..(SeqMod - 1)
      /\ SeqMod \in Nat \ {0} /\ faults \in Nat
      /\ sess \in [id: Nat, auth: Types, seq: Numbers]
      /\ NextSeq = IF inSeq + 1 < SeqMod THEN inSeq + 1 ELSE 0
      /\ Packet(cmd).cmd = cmd /\ Packet(cmd).seq = NextSeq
  BY <1>3, PacketIs, S15Assumption DEF SessionTypeOK, Numbers
<1>5. CASE sess' = [sess EXCEPT !.seq = Packet(cmd).seq]
  <2>1. sess'.id = sess.id /\ sess'.auth = sess.auth /\ sess'.seq = inSeq'
    BY <1>4, <1>5
  <2>2. Lag' = 0 /\ faults' \in Nat
    BY <2>1, <1>4 DEF Lag, Turn
  <2> QED
    BY <1>1, <1>2, <1>3, <2>1, <2>2 DEF InStep
<1>6. CASE UNCHANGED bmc /\ faults' = faults + 1
  <2>1. sess' = sess
    BY <1>6 DEF bmc
  <2>2. Lag' <= faults'
    BY <2>1, <1>1, <1>3, <1>4, <1>6 DEF Lag
  <2> QED
    BY <1>1, <1>2, <1>3, <2>1, <2>2 DEF InStep
<1> QED
  BY <1>2, <1>4, <1>5, <1>6 DEF Turn, Served, Handle

(* With the type that the offer asks for, the BMC takes what the first Connect15 sends,
   but for Activate Session with a wrong password or MD2. *)
Refused == "md2" \in offer \/ (~password /\ offer # {"none"})

LEMMA TakenFirst ==
  ASSUME SessionTypeOK, Chosen, FirstTry, InStep, connects <= 1, faults = 0, ~Refused
  PROVE  /\ pc \in {"caps", "challenge"} => Takes(Packet(pc))
         /\ pc = "activate" /\ authType # "oem" => Takes(Packet(pc))
         /\ pc = "privilege" => Takes(Packet(pc))
<1>1. CASE pc \in {"caps", "challenge"}
  BY <1>1, PacketIs DEF FirstTry, AuthCode, Seal, Takes
<1>2. CASE pc = "activate" /\ authType # "oem"
  <2>1. /\ authType = ChooseAuthType(offer) /\ preSession /\ ~active /\ inSeq = 0 /\ NextSeq = 0
        /\ temp = [id |-> sessionID, auth |-> authType] /\ challenge = sessionID /\ sessionID # 0
    BY <1>2 DEF FirstTry, Chosen, NextSeq
  <2>2. offer # {} /\ offer \subseteq Types
    BY S15Assumption DEF SessionTypeOK, Types
  <2>3. \/ authType = "none"
        \/ password = TRUE /\ authType \in {"md5", "password"}
    BY <1>2, <2>1, <2>2 DEF ChooseAuthType, Types, Refused, SessionTypeOK
  <2>4. /\ Packet(pc).cmd = "activate" /\ Packet(pc).auth = authType
        /\ Packet(pc).id = sessionID /\ Packet(pc).seq = 0
        /\ Packet(pc).seal = AuthCode(authType, sessionID, 0)
    BY <1>2, <2>1, PacketIs
  <2>5. Packet(pc).seal = Seal(Packet(pc))
    BY <2>3, <2>4 DEF AuthCode, Seal
  <2> QED
    BY <2>1, <2>4, <2>5 DEF Takes
<1>3. CASE pc = "privilege"
  BY <1>3, TakenInStep, S15Assumption DEF FirstTry, Trusted
<1> QED
  BY <1>1, <1>2, <1>3

-----------------------------------------------------------------------------
LEMMA SessionInvInit == Init => SessionInv
<1> SUFFICES ASSUME Init PROVE SessionInv
  OBVIOUS
<1>1. /\ temp \in [id: Nat, auth: Types] /\ sess \in [id: Nat, auth: Types, seq: Numbers]
      /\ late \in Seq(Replies) /\ inSeq \in Numbers
  BY S15Assumption DEF Init, NoTemp, NoSession, Types, Numbers
<1>2. SessionTypeOK
  BY <1>1, S15Assumption DEF Init, SessionTypeOK, Types
<1> QED
  BY <1>2 DEF Init, SessionInv, InStep, Trusted, Chosen, FirstTry, SessionAccepted, ConnectsUnlessMD2OrOEM

LEMMA Connect15Keeps == SessionInv /\ Connect15 => SessionInv'
  BY DEF Connect15, client, bmc, SessionInv, SessionTypeOK, InStep, Trusted, Lag, Chosen, FirstTry,
     SessionAccepted, ConnectsUnlessMD2OrOEM

LEMMA PanicKeeps == SessionInv /\ Panics => SessionInv'
<1> SUFFICES ASSUME SessionInv, Panics PROVE SessionInv'
  OBVIOUS
<1>1. SessionTypeOK /\ InStep /\ Chosen /\ FirstTry /\ SessionAccepted
  BY DEF SessionInv
<1>2. /\ pc' = "panic" /\ UNCHANGED <<client, keeps, offer, password, last, bmc, late, mixed, count>>
      /\ preSession \/ active
  BY <1>1, PacketIs DEF Panics
<1>3. SessionTypeOK' /\ InStep'
  BY <1>1, <1>2 DEF client, bmc, count, SessionTypeOK, InStep, Trusted, Lag
<1>4. Chosen' /\ FirstTry'
  BY <1>1, <1>2 DEF client, bmc, count, Chosen, FirstTry
<1>5. SessionAccepted'
  BY <1>1, <1>2 DEF client, bmc, count, SessionAccepted
<1>6. ConnectsUnlessMD2OrOEM'
  <2> SUFFICES ASSUME connects' = 1, faults' = 0 PROVE ChooseAuthType(offer') = "oem"
    BY DEF ConnectsUnlessMD2OrOEM
  <2>1. ~mixed /\ offer' = offer
    BY <1>1, <1>2 DEF count, FirstTry
  <2>2. authType = "oem"
    BY <1>1, <1>2, PacketIs DEF Panics
  <2> QED
    BY <1>1, <1>2, <2>1, <2>2 DEF Chosen
<1> QED
  BY <1>3, <1>4, <1>5, <1>6 DEF SessionInv

-----------------------------------------------------------------------------
(* A turn that changes nothing of the session but the number. *)
LEMMA QuietTurn ==
  ASSUME SessionInv, NEW cmd \in Commands, Turn(cmd), cmd = "activate" => preSession,
         inSeq' = NextSeq, UNCHANGED <<authType, preSession, active, sessionID, challenge>>,
         pc' \in {"idle", "caps", "challenge", "activate", "privilege", "connected", "panic"},
         keeps' \in BOOLEAN, commands' \in Nat
  PROVE  SessionTypeOK' /\ InStep' /\ SessionAccepted' /\ (~active' => inSeq' = 0)
<1>1. SessionTypeOK /\ InStep /\ Chosen
  BY DEF SessionInv
<1>2. SessionTypeOK'
  BY <1>1, TurnTyped DEF SessionTypeOK
<1>3. ~active' => inSeq' = 0
  BY <1>1 DEF Chosen, NextSeq
<1>4. CASE Trusted'
  <2>1. cmd # "activate"
    BY <1>4 DEF Trusted
  <2>2. InStep' /\ Takes(Packet(cmd))
    BY <1>1, <1>4, <2>1, TurnInStep
  <2>3. last' = [cmd |-> cmd, taken |-> Takes(Packet(cmd))]
    BY DEF Turn
  <2> QED
    BY <1>2, <1>3, <2>2, <2>3 DEF SessionAccepted
<1>5. CASE ~Trusted'
  BY <1>2, <1>3, <1>5 DEF Trusted, InStep, SessionAccepted
<1> QED
  BY <1>4, <1>5

(* An attempt that fails. *)
LEMMA GivesUpKeeps ==
  ASSUME SessionInv, pc \in {"caps", "challenge", "activate", "privilege"},
         Exchange(pc, NoAnswer), GivesUp
  PROVE  SessionInv'
<1>1. SessionTypeOK /\ InStep /\ Chosen /\ FirstTry /\ pc \in Commands
  BY DEF SessionInv, Commands
<1>2. Turn(pc) /\ Found(pc, NoAnswer)
  BY <1>1, ExchangeIsTurn
<1>3. SessionTypeOK' /\ InStep' /\ SessionAccepted' /\ (~active' => inSeq' = 0)
  BY <1>1, <1>2, QuietTurn DEF GivesUp, SessionTypeOK, Chosen
<1>4. Chosen'
  <2>1. mixed => mixed'
    BY <1>2 DEF Turn
  <2>2. UNCHANGED <<offer, authType, active, preSession>> /\ pc' = "idle"
    BY <1>2 DEF Turn, GivesUp
  <2> QED
    BY <1>1, <1>3, <2>1, <2>2 DEF Chosen
<1>5. CASE ~(connects' <= 1 /\ faults' = 0)
  BY <1>3, <1>4, <1>5 DEF SessionInv, FirstTry, ConnectsUnlessMD2OrOEM
<1>6. CASE connects' <= 1 /\ faults' = 0
  <2>1. /\ faults \in Nat /\ faults' \in {faults, faults + 1} /\ UNCHANGED <<offer, password, connects>>
    BY <1>1, <1>2 DEF Turn, SessionTypeOK
  <2>2. connects <= 1 /\ faults = 0 /\ faults' = faults
    BY <1>6, <2>1
  <2>3. late = <<>> /\ ~mixed /\ connects # 0
    BY <1>1, <2>2 DEF FirstTry
  <2>4. NoAnswer \notin Replies
    BY DEF NoAnswer, Replies, Commands
  <2>5. \A seq \in Numbers : NoAnswer # Reply(Packet(pc), seq)
    BY <1>1, <2>4, RepliesTyped
  <2>6. ~Takes(Packet(pc)) /\ mixed' = mixed /\ late' = <<>>
    BY <1>2, <2>2, <2>3, <2>4, <2>5 DEF Found, Turn
  <2>7. Packet(pc).auth # "oem"
    BY <1>2 DEF Turn
  <2>8. pc = "activate" => authType # "oem"
    BY <1>1, <2>7, PacketIs DEF Chosen
  <2>9. Refused
    BY <1>1, <2>2, <2>6, <2>8, TakenFirst
  <2>10. pc # "privilege"
    BY <1>1, <2>2, <2>3, <2>6, TakenInStep, S15Assumption DEF FirstTry, Trusted
  <2>11. FirstTry'
    BY <1>1, <2>1, <2>2, <2>3, <2>6, <2>10 DEF FirstTry, GivesUp
  <2>12. ConnectsUnlessMD2OrOEM'
    <3>1. "md2" \in offer => ChooseAuthType(offer) = "md2"
      BY DEF ChooseAuthType
    <3> QED BY <2>1, <2>9, <3>1 DEF ConnectsUnlessMD2OrOEM, Refused
  <2> QED
    BY <1>3, <1>4, <2>11, <2>12 DEF SessionInv
<1> QED
  BY <1>5, <1>6

(* The answers: without faults and late replies, those of the BMC. *)
LEMMA CapsKeeps == SessionInv /\ GetChannelAuthenticationCapabilities => SessionInv'
<1> SUFFICES ASSUME SessionInv, GetChannelAuthenticationCapabilities PROVE SessionInv'
  OBVIOUS
<1>1. PICK r \in Answers("caps") :
        /\ Exchange("caps", r)
        /\ IF r = NoAnswer THEN GivesUp
           ELSE /\ pc' = "challenge" /\ inSeq' = NextSeq
                /\ \E o \in IF r.cmd = "caps" THEN {offer} ELSE Offers : authType' = ChooseAuthType(o)
                /\ UNCHANGED <<preSession, active, sessionID, challenge, keeps, commands>>
  BY DEF GetChannelAuthenticationCapabilities
<1>2. pc = "caps" /\ SessionTypeOK /\ InStep /\ Chosen /\ FirstTry
  BY DEF GetChannelAuthenticationCapabilities, SessionInv
<1>3. CASE r = NoAnswer
  BY <1>1, <1>2, <1>3, GivesUpKeeps
<1>4. CASE r # NoAnswer
  <2>1. Turn("caps") /\ Found("caps", r)
    BY <1>1, <1>2, ExchangeIsTurn DEF Commands
  <2>2. /\ pc' = "challenge" /\ inSeq' = NextSeq
        /\ \E o \in IF r.cmd = "caps" THEN {offer} ELSE Offers : authType' = ChooseAuthType(o)
        /\ UNCHANGED <<preSession, active, sessionID, challenge, keeps, commands>>
        /\ UNCHANGED <<offer, password, connects>>
    BY <1>1, <1>4, <2>1 DEF Turn
  <2>3. ~mixed' => authType' = ChooseAuthType(offer)
    <3> SUFFICES ASSUME ~mixed' PROVE authType' = ChooseAuthType(offer)
      OBVIOUS
    <3>0. Size("caps") > 1
      BY DEF Size
    <3>1. \E seq \in Numbers : r = Reply(Packet("caps"), seq)
      BY <1>4, <2>1, <3>0, Zenon DEF Found
    <3>2. r.cmd = "caps"
      BY <1>2, <3>1, PacketIs DEF Reply
    <3> QED
      BY <2>2, <3>2
  <2>4. Chosen'
    BY <1>2, <2>2, <2>3 DEF Chosen, NextSeq
  <2>5. SessionTypeOK'
    <3>1. authType' \in Types
      <4>1. PICK o : authType' = ChooseAuthType(o)
        BY <2>2
      <4> QED BY <4>1 DEF ChooseAuthType, Types
    <3> QED
      BY <1>2, <2>1, <2>2, <3>1, TurnTyped DEF SessionTypeOK, Commands
  <2>6. InStep'
    <3> SUFFICES ASSUME Trusted' PROVE InStep'
      BY DEF InStep
    <3>1. ~mixed' /\ ~mixed /\ active
      BY <2>1, <2>2 DEF Trusted, Turn
    <3>2. authType' = authType
      BY <1>2, <2>3, <3>1 DEF Chosen
    <3> QED
      BY <1>2, <2>1, <2>2, <3>2, TurnInStep DEF Commands
  <2>7. SessionAccepted' /\ ConnectsUnlessMD2OrOEM'
    BY <2>1, <2>2 DEF SessionAccepted, ConnectsUnlessMD2OrOEM, Turn
  <2>8. FirstTry'
    <3> SUFFICES ASSUME connects' <= 1, faults' = 0 PROVE FirstTry'
      BY DEF FirstTry
    <3>1. faults = 0 /\ faults' = faults /\ connects <= 1
      BY <1>2, <2>1, <2>2 DEF Turn, SessionTypeOK
    <3>2. late = <<>> /\ ~mixed /\ connects # 0 /\ ~active /\ ~preSession /\ ~keeps
      BY <1>2, <3>1 DEF FirstTry
    <3>3. late' = <<>> /\ ~mixed'
      BY <2>1, <3>1, <3>2 DEF Turn, Found
    <3> QED
      BY <2>2, <3>2, <3>3 DEF FirstTry
  <2> QED
    BY <2>4, <2>5, <2>6, <2>7, <2>8 DEF SessionInv
<1> QED
  BY <1>3, <1>4

LEMMA ChallengeKeeps == SessionInv /\ GetSessionChallenge => SessionInv'
<1> SUFFICES ASSUME SessionInv, GetSessionChallenge PROVE SessionInv'
  OBVIOUS
<1>1. PICK r \in Answers("challenge") :
        /\ Exchange("challenge", r)
        /\ IF r = NoAnswer THEN GivesUp
           ELSE /\ pc' = "activate" /\ inSeq' = NextSeq /\ preSession' = TRUE
                /\ sessionID' = r.id /\ challenge' = r.id
                /\ UNCHANGED <<authType, active, keeps, commands>>
  BY DEF GetSessionChallenge
<1>2. pc = "challenge" /\ SessionTypeOK /\ InStep /\ Chosen /\ FirstTry
  BY DEF GetSessionChallenge, SessionInv
<1>3. CASE r = NoAnswer
  BY <1>1, <1>2, <1>3, GivesUpKeeps
<1>4. CASE r # NoAnswer
  <2>1. Turn("challenge") /\ Found("challenge", r)
    BY <1>1, <1>2, ExchangeIsTurn DEF Commands
  <2>2. /\ pc' = "activate" /\ inSeq' = NextSeq /\ preSession' = TRUE
        /\ sessionID' = r.id /\ challenge' = r.id
        /\ UNCHANGED <<authType, active, keeps, commands>>
        /\ UNCHANGED <<offer, password, connects>>
    BY <1>1, <1>4, <2>1 DEF Turn
  <2>3. r \in Replies
    BY <1>2, <1>4, <2>1, RepliesTyped DEF Found, Commands
  <2>4. SessionTypeOK'
    BY <1>2, <2>1, <2>2, <2>3, TurnTyped DEF SessionTypeOK, Commands, Replies
  <2>5. Chosen'
    BY <1>2, <2>1, <2>2 DEF Chosen, NextSeq, Turn
  <2>6. InStep' /\ SessionAccepted' /\ ConnectsUnlessMD2OrOEM'
    BY <2>2 DEF InStep, Trusted, SessionAccepted, ConnectsUnlessMD2OrOEM
  <2>7. FirstTry'
    <3> SUFFICES ASSUME connects' <= 1, faults' = 0 PROVE FirstTry'
      BY DEF FirstTry
    <3>1. faults = 0 /\ faults' = faults /\ connects <= 1
      BY <1>2, <2>1, <2>2 DEF Turn, SessionTypeOK
    <3>2. late = <<>> /\ ~mixed /\ connects # 0 /\ ~active /\ ~keeps
      BY <1>2, <3>1 DEF FirstTry
    <3>3. late' = <<>> /\ ~mixed'
      BY <2>1, <3>1, <3>2 DEF Turn, Found
    <3>4. \E seq \in Numbers : Handle(Packet("challenge"), seq) /\ r = Reply(Packet("challenge"), seq)
      BY <1>4, <2>1, <3>2 DEF Found
    <3>5. temp' = [id |-> r.id, auth |-> authType] /\ r.id = ids + 1
      BY <1>2, <3>4, PacketIs DEF Handle, Reply
    <3>6. r.id # 0
      BY <1>2, <3>5 DEF SessionTypeOK
    <3> QED
      BY <2>2, <3>2, <3>3, <3>5, <3>6 DEF FirstTry
  <2> QED
    BY <2>4, <2>5, <2>6, <2>7 DEF SessionInv
<1> QED
  BY <1>3, <1>4

LEMMA ActivateKeeps == SessionInv /\ ActivateSession => SessionInv'
<1> SUFFICES ASSUME SessionInv, ActivateSession PROVE SessionInv'
  OBVIOUS
<1>1. PICK r \in Answers("activate") :
        /\ Exchange("activate", r)
        /\ IF r = NoAnswer THEN GivesUp
           ELSE /\ pc' = "privilege"
                /\ active' = TRUE /\ preSession' = FALSE
                /\ sessionID' = r.id /\ inSeq' = r.seq
                /\ UNCHANGED <<authType, challenge, keeps, commands>>
  BY DEF ActivateSession
<1>2. pc = "activate" /\ SessionTypeOK /\ InStep /\ Chosen /\ FirstTry
  BY DEF ActivateSession, SessionInv
<1>3. CASE r = NoAnswer
  BY <1>1, <1>2, <1>3, GivesUpKeeps
<1>4. CASE r # NoAnswer
  <2>1. Turn("activate") /\ Found("activate", r)
    BY <1>1, <1>2, ExchangeIsTurn DEF Commands
  <2>2. /\ pc' = "privilege" /\ active' = TRUE /\ preSession' = FALSE
        /\ sessionID' = r.id /\ inSeq' = r.seq
        /\ UNCHANGED <<authType, challenge, keeps, commands>>
        /\ UNCHANGED <<offer, password, connects>>
    BY <1>1, <1>4, <2>1 DEF Turn
  <2>3. r \in Replies
    BY <1>2, <1>4, <2>1, RepliesTyped DEF Found, Commands
  <2>4. SessionTypeOK'
    BY <1>2, <2>1, <2>2, <2>3, TurnTyped DEF SessionTypeOK, Commands, Replies
  <2>5. Chosen'
    BY <1>2, <2>1, <2>2 DEF Chosen, Turn
  <2>6. SessionAccepted' /\ ConnectsUnlessMD2OrOEM'
    BY <2>1, <2>2 DEF SessionAccepted, ConnectsUnlessMD2OrOEM, Turn
  <2>7. InStep'
    <3> SUFFICES ASSUME Trusted' PROVE InStep'
      BY DEF InStep
    <3>1. Size("activate") > 1 /\ ~mixed'
      BY DEF Size, Trusted
    <3>2. Takes(Packet("activate"))
      BY <1>4, <2>1, <3>1, Zenon DEF Found
    <3>3. PICK seq \in Numbers :
            Handle(Packet("activate"), seq) /\ r = Reply(Packet("activate"), seq)
      BY <1>4, <2>1, <3>1, Zenon DEF Found
    <3>4. /\ Packet("activate").cmd = "activate" /\ Packet("activate").auth = authType
          /\ Packet("activate").seal = AuthCode(authType, sessionID, NextSeq)
          /\ authType # "oem" /\ authType \in Types
      BY <1>2, <2>1, PacketIs DEF Chosen, Turn, SessionTypeOK
    <3>5. sess' = [id |-> ids + 1, auth |-> authType, seq |-> seq] /\ r.id = ids + 1 /\ r.seq = seq
      BY <3>3, <3>4 DEF Handle, Reply
    <3>6. authType = "none" \/ (password = TRUE /\ authType \in {"password", "md5"})
      <4>1. AuthCode(authType, sessionID, NextSeq) = Seal(Packet("activate"))
        BY <3>2, <3>4 DEF Takes
      <4>2. CASE authType = "md2"
        <5>1. <<password>> = <<TRUE, Packet("activate").id, Packet("activate").seq>>
          BY <3>4, <4>1, <4>2 DEF AuthCode, Seal
        <5>2. Len(<<password>>) = 1
          OBVIOUS
        <5>3. Len(<<TRUE, Packet("activate").id, Packet("activate").seq>>) = 3
          OBVIOUS
        <5> QED BY <5>1, <5>2, <5>3
      <4>3. CASE authType = "password"
        <5>1. <<password>> = <<TRUE>>
          BY <3>4, <4>1, <4>3 DEF AuthCode, Seal
        <5> QED BY <4>3, <5>1
      <4>4. CASE authType = "md5"
        <5>1. <<password, sessionID, NextSeq>>
                = <<TRUE, Packet("activate").id, Packet("activate").seq>>
          BY <3>4, <4>1, <4>4 DEF AuthCode, Seal
        <5> QED BY <4>4, <5>1
      <4> QED
        BY <3>4, <4>2, <4>3, <4>4 DEF Types
    <3>7. ids + 1 # 0 /\ faults' \in Nat /\ seq \in Nat /\ Lag' = 0
      BY <1>2, <2>1, <2>2, <3>5, TurnTyped DEF SessionTypeOK, Lag, Numbers, Commands
    <3> QED
      BY <2>2, <3>5, <3>6, <3>7 DEF InStep
  <2>8. FirstTry'
    <3> SUFFICES ASSUME connects' <= 1, faults' = 0 PROVE FirstTry'
      BY DEF FirstTry
    <3>1. faults = 0 /\ faults' = faults /\ connects <= 1
      BY <1>2, <2>1, <2>2 DEF Turn, SessionTypeOK
    <3>2. late = <<>> /\ ~mixed /\ connects # 0 /\ ~keeps
      BY <1>2, <3>1 DEF FirstTry
    <3>3. late' = <<>> /\ ~mixed'
      BY <2>1, <3>1, <3>2 DEF Turn, Found
    <3> QED
      BY <2>2, <3>2, <3>3 DEF FirstTry
  <2> QED
    BY <2>4, <2>5, <2>6, <2>7, <2>8 DEF SessionInv
<1> QED
  BY <1>3, <1>4

(* Set Session Privilege Level, and the commands of the session. *)
LEMMA CommandsKeep ==
  ASSUME SessionInv, NEW cmd \in {"privilege", "command"}, NEW r, Exchange(cmd, r),
         inSeq' = NextSeq, UNCHANGED <<authType, preSession, active, sessionID, challenge>>,
         keeps' \in BOOLEAN, commands' \in Nat,
         \/ cmd = "privilege" /\ pc = "privilege" /\ pc' = "connected"
         \/ cmd = "command" /\ keeps = TRUE /\ keeps' = TRUE /\ pc' = pc
  PROVE  SessionInv'
<1>1. SessionTypeOK /\ InStep /\ Chosen /\ FirstTry /\ ConnectsUnlessMD2OrOEM /\ cmd \in Commands
  BY DEF SessionInv, Commands
<1>2. Turn(cmd) /\ Found(cmd, r)
  BY <1>1, ExchangeIsTurn
<1>3. SessionTypeOK' /\ InStep' /\ SessionAccepted' /\ (~active' => inSeq' = 0)
  <2>1. pc' \in {"idle", "caps", "challenge", "activate", "privilege", "connected", "panic"}
    BY <1>1 DEF SessionTypeOK
  <2> QED
    BY <1>1, <1>2, <2>1, QuietTurn
<1>4. (mixed => mixed') /\ UNCHANGED <<offer, password, connects>>
  BY <1>2 DEF Turn
<1>5. Chosen'
  BY <1>1, <1>3, <1>4 DEF Chosen
<1>6. CASE ~(connects' <= 1 /\ faults' = 0)
  BY <1>3, <1>5, <1>6 DEF SessionInv, FirstTry, ConnectsUnlessMD2OrOEM
<1>7. CASE connects' <= 1 /\ faults' = 0
  <2>1. faults = 0 /\ faults' = faults /\ connects <= 1
    BY <1>1, <1>2, <1>4, <1>7 DEF Turn, SessionTypeOK
  <2>2. /\ late = <<>> /\ ~mixed /\ pc \in {"privilege", "connected", "panic"}
        /\ connects = 0 => pc = "idle"
        /\ pc \in {"privilege", "connected"} => active /\ ~preSession
        /\ pc = "privilege" => ~keeps
    BY <1>1, <2>1 DEF FirstTry, SessionTypeOK
  <2>3. late' = <<>> /\ ~mixed'
    BY <1>2, <2>1, <2>2 DEF Turn, Found
  <2>4. FirstTry'
    BY <1>4, <2>2, <2>3 DEF FirstTry
  <2>5. ConnectsUnlessMD2OrOEM'
    BY <1>1, <1>4, <2>1, <2>2 DEF ConnectsUnlessMD2OrOEM
  <2> QED
    BY <1>3, <1>5, <2>4, <2>5 DEF SessionInv
<1> QED
  BY <1>6, <1>7

LEMMA SessionInvStep == SessionInv /\ [Next]_vars => SessionInv'
<1> SUFFICES ASSUME SessionInv, [Next]_vars PROVE SessionInv'
  OBVIOUS
<1>1. SessionTypeOK
  BY DEF SessionInv
<1>2. CASE Connect15
  BY <1>2, Connect15Keeps
<1>3. CASE Step
  <2>1. CASE SetSessionPrivilegeLevel
    <3>1. PICK r \in Answers("privilege") :
            /\ Exchange("privilege", r)
            /\ IF r = NoAnswer THEN GivesUp
               ELSE /\ pc' = "connected" /\ keeps' = TRUE /\ inSeq' = NextSeq
                    /\ UNCHANGED <<authType, preSession, active, sessionID, challenge, commands>>
      BY <2>1 DEF SetSessionPrivilegeLevel
    <3>2. pc = "privilege"
      BY <2>1 DEF SetSessionPrivilegeLevel
    <3>3. CASE r = NoAnswer
      BY <3>1, <3>2, <3>3, GivesUpKeeps
    <3>4. CASE r # NoAnswer
      BY <1>1, <3>1, <3>2, <3>4, CommandsKeep DEF SessionTypeOK
    <3> QED BY <3>3, <3>4
  <2> QED
    BY <1>3, <2>1, PanicKeeps, CapsKeeps, ChallengeKeeps, ActivateKeeps DEF Step
<1>4. CASE SessionCommand
  <2>1. CASE Panics
    BY <2>1, PanicKeeps
  <2>2. CASE \E r \in Answers("command") : Exchange("command", r)
               /\ inSeq' = NextSeq /\ commands' = commands + 1
               /\ UNCHANGED <<pc, authType, preSession, active, sessionID, challenge, keeps>>
    <3>1. keeps = TRUE
      BY <1>1, <1>4 DEF SessionCommand, SessionTypeOK
    <3> QED
      BY <1>1, <2>2, <3>1, CommandsKeep DEF SessionTypeOK
  <2> QED
    BY <1>4, <2>1, <2>2 DEF SessionCommand
<1>5. CASE UNCHANGED vars
  BY <1>5 DEF vars, client, bmc, count, SessionInv, SessionTypeOK, InStep, Trusted, Lag, Chosen,
     FirstTry, SessionAccepted, ConnectsUnlessMD2OrOEM
<1> QED
  BY <1>2, <1>3, <1>4, <1>5 DEF Next

LEMMA SessionInvariant == Spec => []SessionInv
  BY SessionInvInit, SessionInvStep, PTL DEF Spec
-----------------------------------------------------------------------------
(* After Activate Session the BMC takes every command of the client (genSession15): ID,
   type, seal and number are those of the session that the BMC has, for every width
   of the window and however often Connect15 is called, as long as fewer packets were
   lost than the window is wide and Connect15 mistook no late reply. *)
THEOREM CommandsAccepted == Spec => []SessionAccepted
  BY SessionInvariant, PTL DEF SessionInv

(* A first Connect15 that is spared faults fails or panics only for a wrong password,
   or where chooseAuthType takes MD2, whose code AuthCode gets wrong, or OEM, for which
   it has none. *)
THEOREM FirstConnectSucceeds == Spec => []ConnectsUnlessMD2OrOEM
  BY SessionInvariant, PTL DEF SessionInv
=============================================================================
