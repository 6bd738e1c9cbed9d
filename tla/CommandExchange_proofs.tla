------------------------ MODULE CommandExchange_proofs ------------------------
(***************************************************************************)
(* Calls of commands, for any tables of commands: a result for every call  *)
(* and fields from a successful one alone; and for answers and requests of *)
(* any length, padding and encryption give back the length they took.      *)
(***************************************************************************)
EXTENDS CommandExchange, TLAPS

(* Whatever has not been decrypted to its length came with RC4, and not first. *)
Readable ==
  /\ pc = "answered" => /\ answer.size \in Nat
                        /\ answer.payload # 8 + answer.size => alg = "rc4" /\ packets > 1
  /\ result = "garbled" => alg = "rc4" /\ packets > 1

ExchangeInv == ExchangeTypeOK /\ Readable
-----------------------------------------------------------------------------
(* Whole blocks of sixteen, and the payload is what is left without the padding
   (encryptPayload and decryptPayload). *)
LEMMA AESRoundTrip ==
  ASSUME NEW n \in Nat, NEW first \in BOOLEAN
  PROVE  DecryptPayload("aes", EncryptPayload("aes", first, n)) = n
<1> DEFINE pad == AESPadLength(n)
<1>1. pad \in Nat /\ (n + pad + 1) % 16 = 0
  BY SMT DEF AESPadLength, Block16
<1>2. EncryptPayload("aes", first, n) = [before |-> 16, text |-> n + pad + 1, pad |-> pad]
  BY DEF EncryptPayload
<1> HIDE DEF pad
<1> QED
  BY <1>1, <1>2 DEF DecryptPayload, Block16

LEMMA PlainRoundTrip ==
  ASSUME NEW n \in Nat, NEW first \in BOOLEAN
  PROVE  DecryptPayload("none", EncryptPayload("none", first, n)) = n
  BY DEF DecryptPayload, EncryptPayload

(* With RC4 twenty bytes are taken off, which only the first packet has. *)
LEMMA RC4FirstRoundTrip ==
  ASSUME NEW n \in Nat
  PROVE  DecryptPayload("rc4", EncryptPayload("rc4", TRUE, n)) = n
  BY DEF DecryptPayload, EncryptPayload

LEMMA EncryptedLength ==
  ASSUME NEW a \in Algs, NEW n \in Nat, NEW first \in BOOLEAN
  PROVE  EncryptPayload(a, first, n).before + EncryptPayload(a, first, n).text \in Nat
<1>1. AESPadLength(n) \in Nat
  BY SMT DEF AESPadLength, Block16
<1>2. CASE a = "none"
  BY <1>2 DEF EncryptPayload
<1>3. CASE a = "aes"
  BY <1>1, <1>3 DEF EncryptPayload
<1>4. CASE a = "rc4"
  BY <1>4 DEF EncryptPayload
<1> QED
  BY <1>2, <1>3, <1>4 DEF Algs

(* Header, payload, padding and two bytes are a multiple of four
   (genSessionTrailerPadLength). *)
LEMMA TrailerAligned ==
  ASSUME NEW n \in Nat
  PROVE  (12 + n + TrailerPadLength(12, n) + 2) % 4 = 0
  BY SMT DEF TrailerPadLength
-----------------------------------------------------------------------------
LEMMA Layouts ==
  ASSUME cmd \in Names
  PROVE  Named(cmd) \in Commands
  BY DEF Names, Named

LEMMA Starts == Init => ExchangeInv
  BY DEF Init, ExchangeInv, ExchangeTypeOK, Readable

LEMMA PackKeeps == ExchangeInv /\ Pack => ExchangeInv'
<1> SUFFICES ASSUME ExchangeInv, Pack PROVE ExchangeInv'
  OBVIOUS
<1>1. PICK r \in Named(cmd).reqs : request' = [r EXCEPT !.wires = {w \in @ : w[3] < r.size}]
  BY DEF Pack
<1>2. /\ r = [size |-> r.size, wires |-> r.wires] /\ r.size \in Nat
      /\ \A w \in r.wires : w[3] \in Nat
  BY Layouts, LayoutAssumption DEF ExchangeInv, ExchangeTypeOK
<1>3. request' = [size |-> r.size, wires |-> {w \in r.wires : w[3] < r.size}]
  BY <1>1, <1>2
<1>4. request'.size = r.size /\ request'.wires = {w \in r.wires : w[3] < r.size}
  BY <1>3
<1>5. request'.size \in Nat /\ \A w \in request'.wires : w[3] \in 0 .. request'.size - 1
  BY <1>2, <1>4
<1> QED
  BY <1>5 DEF Pack, ExchangeInv, ExchangeTypeOK, Readable

LEMMA RefuseKeeps == ExchangeInv /\ Refuse => ExchangeInv'
  BY DEF Refuse, ExchangeInv, ExchangeTypeOK, Readable

LEMMA ReplyKeeps == ExchangeInv /\ Reply => ExchangeInv'
<1> SUFFICES ASSUME ExchangeInv, Reply PROVE ExchangeInv'
  OBVIOUS
<1>1. PICK n \in 0 .. Top(cmd) + 2 :
        answer' = [size |-> n, need |-> 0,
                   payload |-> DecryptPayload(alg, EncryptPayload(alg, packets = 0, 8 + n))]
  BY DEF Reply
<1>2. cmd \in Names /\ alg \in Algs /\ packets \in Nat
  BY DEF ExchangeInv, ExchangeTypeOK
<1>3. n \in Nat /\ 8 + n \in Nat
  BY <1>2, LayoutAssumption
<1>4. answer'.size = n
      /\ answer'.payload = DecryptPayload(alg, EncryptPayload(alg, packets = 0, 8 + n))
  BY <1>1
<1>5. answer'.payload # 8 + n => alg = "rc4" /\ packets # 0
  BY <1>2, <1>3, <1>4, AESRoundTrip, PlainRoundTrip, RC4FirstRoundTrip DEF Algs
<1>6. Readable'
  BY <1>2, <1>3, <1>4, <1>5 DEF Reply, Readable, ExchangeInv, ExchangeTypeOK
<1> QED
  BY <1>6 DEF Reply, ExchangeInv, ExchangeTypeOK

LEMMA UnpackKeeps == ExchangeInv /\ Unpack => ExchangeInv'
<1> SUFFICES ASSUME ExchangeInv, Unpack PROVE ExchangeInv'
  OBVIOUS
<1>1. /\ pc = "answered" /\ pc' = "done"
      /\ UNCHANGED <<cmd, request, held, alg, packets>>
  BY DEF Unpack
<1>2. \/ result' = "garbled" /\ response' = {} /\ answer.payload # AnswerMessage
      \/ result' = "short" /\ response' = {}
      \/ result' = "ok"
  BY DEF Unpack
<1>3. ExchangeTypeOK'
  BY <1>1, <1>2 DEF ExchangeInv, ExchangeTypeOK
<1>4. Readable'
  BY <1>1, <1>2 DEF ExchangeInv, Readable, AnswerMessage
<1> QED
  BY <1>3, <1>4 DEF ExchangeInv

LEMMA ReadBackKeeps == ExchangeInv /\ ReadBack => ExchangeInv'
  BY LayoutAssumption DEF ReadBack, ExchangeInv, ExchangeTypeOK, Readable

LEMMA ExchangeStep == ExchangeInv /\ [Next]_vars => ExchangeInv'
<1>1. ExchangeInv /\ UNCHANGED vars => ExchangeInv'
  BY DEF vars, ExchangeInv, ExchangeTypeOK, Readable
<1> QED
  BY <1>1, PackKeeps, RefuseKeeps, ReplyKeeps, UnpackKeeps, ReadBackKeeps DEF Next

LEMMA ExchangeInvariant == Spec => []ExchangeInv
  BY Starts, ExchangeStep, PTL DEF Spec

(* Every call ends with one result, and fills in fields only if it is a good one
   (Exchange returns before Unpack otherwise). *)
THEOREM ResultsAndFields == Spec => []ExchangeTypeOK
  BY ExchangeInvariant, PTL DEF ExchangeInv

(* For answers of every length decryption takes off what encryption has put around, except
   with RC4 after the first packet, and requests of every length are padded to whole words. *)
THEOREM AnswersReadable == Spec => []AnswerReadable
<1>1. ExchangeInv => AnswerReadable
  <2> SUFFICES ASSUME ExchangeInv PROVE AnswerReadable
    OBVIOUS
  <2> DEFINE packet == EncryptPayload(alg, packets = 0, RequestMessage)
             whole  == packet.before + packet.text
  <2>1. alg \in Algs /\ RequestMessage \in Nat
    BY DEF ExchangeInv, ExchangeTypeOK, RequestMessage
  <2>2. whole \in Nat
    BY <2>1, EncryptedLength
  <2> HIDE DEF whole
  <2>3. (12 + whole + TrailerPadLength(12, whole) + 2) % 4 = 0
    BY <2>2, TrailerAligned
  <2> QED
    BY <2>3 DEF AnswerReadable, ExchangeInv, Readable, whole
<1> QED
  BY <1>1, ExchangeInvariant, PTL
=============================================================================
