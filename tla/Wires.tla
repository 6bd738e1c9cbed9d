------------------------------- MODULE Wires -------------------------------
(***************************************************************************)
(* What Pack and Unpack of the commands are made of.  Every command of the *)
(* client packs the fields of a request structure into bytes and unpacks   *)
(* the bytes of the answer into the fields of a response structure.  Both  *)
(* are sets of wires: <<f, k, byte, i>> connects bit k of the field f with *)
(* bit i of that byte of the message.  Which value a bit has is left out:  *)
(* a bit is known by where it comes from.  The bit -1 of a field is a      *)
(* Boolean that is the complement of the bit in the message.               *)
(*                                                                         *)
(* A field that the code neither masks nor shifts is taken to stay within  *)
(* the width that the comment on its structure gives it.                   *)
(***************************************************************************)
EXTENDS Integers, Sequences, FiniteSets

Unbounded == 255   \* longer than any answer
TailLen   == 3     \* bytes of a field without a fixed length

(* The bits hi to lo of a byte are the field f, shifted down by so many    *)
(* places: to bit 0, as a rule.                                            *)
Shifted(f, byte, hi, lo, by) == {<<f, i - by, byte, i>> : i \in lo .. hi}
Bits(f, byte, hi, lo) == Shifted(f, byte, hi, lo, lo)
Bit(f, byte, i)       == {<<f, 0, byte, i>>}
NotBit(f, byte, i)    == {<<f, -1, byte, i>>}
U8(f, byte)           == Bits(f, byte, 7, 0)

(* The names of the flags of a byte, bit 7 first; "" is an unused bit.     *)
Flags(byte, names) ==
  {<<names[8 - i], 0, byte, i>> : i \in {j \in 0 .. 7 : names[8 - j] # ""}}

(* unpackUint16L ... unpackUint32L, packUint16L ...; and byte slices,      *)
(* whose byte j is taken as bits 8j to 8j + 7 of the field.                *)
Le(f, byte, n) == {<<f, 8 * j + i, byte + j, i>> : j \in 0 .. n - 1, i \in 0 .. 7}
(* unpackUint16, unpackUint32, packUint16 ...: most significant byte first *)
Be(f, byte, n) ==
  {<<f, 8 * (n - 1 - j) + i, byte + j, i>> : j \in 0 .. n - 1, i \in 0 .. 7}

(* Bytes that are written again: only what was written last is left.       *)
Over(wires, later) ==
  {w \in wires : \A x \in later : x[3] # w[3]} \cup later

(* The forms a request can have: how many bytes Pack returns, and wires.   *)
(* packUint8 and its kind return an error, which no caller looks at, when  *)
(* the offset lies outside of the slice: such wires end nowhere.           *)
Req(size, wires) == {[size |-> size, wires |-> wires]}
NoFields         == Req(0, {})

(* The forms an answer can have.  Unpack refuses answers of fewer than     *)
(* need bytes, and of a length in refused; a block is decoded if the       *)
(* answer has from to upto bytes.                                          *)
Block(from, upto, wires) == [from |-> from, upto |-> upto, wires |-> wires]
Answer(need, wires) ==
  {[need |-> need, refused |-> {}, blocks |-> {Block(need, Unbounded, wires)}]}
Ignored == Answer(0, {})

Refusing(answers, lens) == {[a EXCEPT !.refused = lens] : a \in answers}
With(answers, blocks)   == {[a EXCEPT !.blocks = @ \cup blocks] : a \in answers}
Also(answers, n, wires) == With(answers, {Block(n, Unbounded, wires)})
Only(answers, n, wires) == With(answers, {Block(n, n, wires)})
(* An answer, or a parameter, that must have exactly n bytes.              *)
Exactly(n, wires) == Refusing(Answer(n, wires), n + 1 .. Unbounded)

(* A field that takes the bytes that are left, however many.               *)
TailOf(f, byte) ==
  {Block(byte + j + 1, Unbounded, {<<f, 8 * j + i, byte + j, i>> : i \in 0 .. 7}) :
     j \in 0 .. TailLen - 1}

(* A command: what the method of the client is given by its caller, what   *)
(* the request is packed to, and how the answer is unpacked.               *)
Cmd(name, args, reqs, answers) ==
  [name |-> name, args |-> args, reqs |-> reqs, answers |-> answers]

FieldsOf(wires) == {w[1] : w \in wires}
=============================================================================
