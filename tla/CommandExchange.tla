--------------------------- MODULE CommandExchange --------------------------
(***************************************************************************)
(* One call of a command, and where a command sets what another one reads  *)
(* back, the two of them: Exchange packs the request into an IPMI message, *)
(* the message is encrypted, the BMC refuses or answers with as many bytes *)
(* as it likes, the answer is decrypted and, unless its completion code    *)
(* says otherwise, unpacked.  The commands are the tables AppCommands to   *)
(* SessionPackets; records and packet formats stand in for commands whose  *)
(* answer they are.                                                        *)
(***************************************************************************)
EXTENDS Wires, PacketCrypto

CONSTANTS
  Commands,  \* the layouts
  Pairs,     \* which command reads back what another one sets
  NoCall     \* no command called before

(* What can be wrong with a layout is known for these; see the properties. *)
CONSTANTS DropsArguments, ReadsPastEnd, SharesBits, ReadsBackLess

Names == {c.name : c \in Commands}
Named(n) == CHOOSE c \in Commands : c.name = n

(* The highest byte that Unpack of a command looks at.                     *)
Top(n) ==
  LET blocks == UNION {a.blocks : a \in Named(n).answers}
      bytes  == {0} \cup UNION {{b.from - 1} \cup {w[3] : w \in b.wires} : b \in blocks}
  IN  CHOOSE m \in bytes : \A b \in bytes : b <= m

ASSUME LayoutAssumption ==
  /\ \A c \in Commands : \A r \in c.reqs :
       /\ r = [size |-> r.size, wires |-> r.wires] /\ r.size \in Nat
       /\ \A w \in r.wires : w[3] \in Nat
  /\ \A n \in Names : Top(n) \in Nat
  /\ \A p \in Pairs : p.get \in Names

VARIABLES
  pc,       \* "call", "sent", "answered", "done"
  cmd,      \* the command that is called
  request,  \* the bytes of the request: how many, and what is in them
  answer,   \* the bytes of the answer: how many, what is decrypted, and its form
  response, \* what Unpack has filled in
  result,   \* of the call: "none", "ok", "refused", "short", "garbled"
  held,     \* what the BMC was sent by the setter, NoCall before
  alg,      \* CryptAlg of the session
  packets   \* packets sent in each direction
vars == <<pc, cmd, request, answer, response, result, held, alg, packets>>
-----------------------------------------------------------------------------
Init ==
  /\ cmd \in Names /\ alg \in Algs
  /\ pc = "call" /\ result = "none" /\ held = NoCall /\ packets = 0
  /\ request = [size |-> 0, wires |-> {}]
  /\ answer = [size |-> 0, payload |-> 0, need |-> 0]
  /\ response = {}

(* Pack: a byte outside of the slice is not written.                       *)
Pack ==
  /\ pc = "call"
  /\ \E r \in Named(cmd).reqs :
       request' = [r EXCEPT !.wires = {w \in @ : w[3] < r.size}]
  /\ pc' = "sent" /\ result' = "none" /\ response' = {}
  /\ UNCHANGED <<cmd, answer, held, alg, packets>>

(* The lengths of the messages: seven and eight bytes around the data.     *)
RequestMessage == 7 + request.size
AnswerMessage  == 8 + answer.size

(* The BMC takes the request and answers with a completion code.           *)
Refuse ==
  /\ pc = "sent"
  /\ pc' = "done" /\ result' = "refused" /\ packets' = packets + 1
  /\ UNCHANGED <<cmd, request, answer, response, held, alg>>

(* The BMC answers with n bytes; it encrypts as the client does.           *)
Reply ==
  /\ pc = "sent"
  /\ \E n \in 0 .. Top(cmd) + 2 :
       answer' = [size |-> n, need |-> 0,
                  payload |-> DecryptPayload(alg, EncryptPayload(alg, packets = 0, 8 + n))]
  /\ pc' = "answered" /\ packets' = packets + 1
  /\ UNCHANGED <<cmd, request, response, result, held, alg>>

(* decryptPayload, IPMIResponse.Unpack, and Unpack of the command.         *)
Decoded(a, n) == UNION {b.wires : b \in {c \in a.blocks : c.from <= n /\ n <= c.upto}}
Unpack ==
  LET n == answer.size
  IN  /\ pc = "answered" /\ pc' = "done"
      /\ \E a \in Named(cmd).answers :
           /\ answer' = [answer EXCEPT !.need = a.need]
           /\ IF answer.payload # AnswerMessage
                THEN result' = "garbled" /\ response' = {}
              ELSE IF n < a.need \/ n \in a.refused
                THEN result' = "short" /\ response' = {}
              ELSE result' = "ok" /\ response' = Decoded(a, n)
      /\ UNCHANGED <<cmd, request, held, alg, packets>>

(* The caller reads back what it has set.                                  *)
ReadBack ==
  /\ pc = "done" /\ result = "ok" /\ held = NoCall
  /\ \E p \in Pairs :
       /\ p.set = cmd
       /\ cmd' = p.get
       /\ held' = [pair |-> p, request |-> request]
  /\ pc' = "call" /\ result' = "none" /\ response' = {}
  /\ UNCHANGED <<request, answer, alg, packets>>

Next == Pack \/ Refuse \/ Reply \/ Unpack \/ ReadBack
Spec == Init /\ [][Next]_vars
-----------------------------------------------------------------------------
(* Every call ends with one result, and fields are filled in by a          *)
(* successful call alone.                                                  *)
ExchangeTypeOK ==
  /\ pc \in {"call", "sent", "answered", "done"} /\ cmd \in Names /\ alg \in Algs
  /\ packets \in Nat /\ request.size \in Nat
  /\ (pc = "done") <=> (result # "none")
  /\ response # {} => pc = "done" /\ result = "ok"
  /\ \A w \in request.wires : w[3] \in 0 .. request.size - 1

(* What a caller gives to a method reaches the BMC - in this form of the   *)
(* request or, where forms differ, in another one -, nothing else that     *)
(* varies does, and no two arguments are put onto one bit.  The commands   *)
(* of DropsArguments fail one of these, all others none.                   *)
SentBy(name) == UNION {FieldsOf({w \in r.wires : w[3] < r.size}) : r \in Named(name).reqs}
Delivered(name, fields) == fields \subseteq Named(name).args /\ Named(name).args \subseteq SentBy(name)
ArgumentsSent ==
  pc = "sent" =>
    (/\ Delivered(cmd, FieldsOf(request.wires))
     /\ \A v, w \in request.wires : v[3] = w[3] /\ v[4] = w[4] => v[1] = w[1])
    \/ cmd \in DropsArguments

(* Unpack looks at no byte that the answer does not have: it would read as *)
(* zero or, where the slice is indexed, end the program.                   *)
Inside(wires, n) == \A w \in wires : w[3] < n
AnswerInside == pc = "done" => Inside(response, answer.size) \/ cmd \in ReadsPastEnd

(* Two fields of an answer are never made of the same bit of a byte.       *)
Apart(wires) == Cardinality({<<w[3], w[4]>> : w \in wires}) = Cardinality(wires)
FieldsApart == pc = "done" => Apart(response) \/ cmd \in SharesBits

(* The exceptions are no more than what fails.                             *)
FailsForSome(name, Good(_, _)) ==
  \E a \in Named(name).answers, n \in 0 .. Top(name) + 1 :
    n >= a.need /\ n \notin a.refused /\ ~Good(Decoded(a, n), n)
ExceptionsFail ==
  /\ \A name \in DropsArguments : ~Delivered(name, SentBy(name))
  /\ \A name \in ReadsPastEnd : FailsForSome(name, Inside)
  /\ \A name \in SharesBits : FailsForSome(name, LAMBDA wires, n : Apart(wires))

(* Where a value was set is where it is read back from, bit by bit, and    *)
(* all of it that the answer has room for is read back.                    *)
SettingsRoundTrip ==
  pc = "done" /\ result = "ok" /\ held # NoCall =>
    LET p == held.pair   sent == held.request.wires
        same == Cardinality(Named(cmd).answers) = 1 \/ answer.need = held.request.size
    IN  same /\ p.set \notin ReadsBackLess =>
          \A f \in DOMAIN p.fields :
            /\ \A w \in response :
                 w[1] = f /\ w[3] + p.shift < held.request.size =>
                   <<p.fields[f], w[2], w[3] + p.shift, w[4]>> \in sent
            /\ \A w \in {x \in sent : x[1] = p.fields[f]} :
                 w[3] - p.shift < answer.size => \E x \in response : x[1] = f /\ x[2] = w[2]

(* Encryption and decryption agree on where an answer begins and ends, at  *)
(* whatever length, except for RC4 after the first packet, and a request's *)
(* trailer fills its packet up to whole words.  Only lengths and positions *)
(* are compared: which key deciphers is CipherSuites.WrongKey's question.  *)
AnswerReadable ==
  /\ pc = "done" /\ result = "garbled" => alg = "rc4" /\ packets > 1
  /\ pc = "sent" =>
       LET packet == EncryptPayload(alg, packets = 0, RequestMessage)
           whole  == packet.before + packet.text
       IN  (12 + whole + TrailerPadLength(12, whole) + 2) % 4 = 0
=============================================================================
