---------------------------- MODULE PacketCrypto ----------------------------
(***************************************************************************)
(* Encryption and padding of the packets of an RMCP+ session, by lengths:  *)
(* encryptPayload, decryptPayload and genSessionTrailerPadLength.  Bytes   *)
(* are not modelled, keys and vectors neither: the question is whether the *)
(* payload that comes out has the length of the one that went in.          *)
(***************************************************************************)
EXTENDS Integers

Algs   == {"none", "aes", "rc4"}   \* CryptAlg: xRC4-40 and xRC4-128 are alike here
Block16 == 16                       \* Encryption_AES_CBS_128_BlockSize
Lost   == -1                        \* an error, or a slice out of its bounds

(* Padding up to a whole number of blocks, with the byte that gives its    *)
(* length as the last one.                                                 *)
(* (Wrong on purpose: the byte with the length is forgotten.)              *)
AESPadLengthShort(n) == LET mod == n % Block16 IN IF mod > 0 THEN Block16 - mod ELSE 0
AESPadLength(n) == LET mod == (n + 1) % Block16 IN IF mod > 0 THEN Block16 - mod ELSE 0

(* What an encrypted payload consists of: the bytes before the cipher text *)
(* (the vector; with RC4, the offset and, in the first packet, the vector),*)
(* the cipher text, and the padding within it.                             *)
EncryptPayload(alg, first, n) ==
  LET pad == IF alg = "aes" THEN AESPadLength(n) ELSE 0
  IN  [before |-> IF alg = "none" THEN 0
                  ELSE IF alg = "aes" THEN 16 ELSE IF first THEN 4 + 16 ELSE 4,
       text |-> IF alg = "aes" THEN n + pad + 1 ELSE n,
       pad |-> pad]

(* The vector is taken off, what is left must be whole blocks, the last    *)
(* byte says how much padding there is.  With RC4, twenty bytes are taken  *)
(* off whether or not the packet is the first one.                         *)
DecryptPayload(alg, packet) ==
  IF alg = "none" THEN packet.text
  ELSE IF alg = "aes"
         THEN IF packet.text % Block16 # 0 THEN Lost ELSE packet.text - packet.pad - 1
  ELSE IF packet.before + packet.text < 20 THEN Lost ELSE packet.before + packet.text - 20

(* The packet up to the auth code - header, payload, padding, the length   *)
(* of the padding and the next header - has a multiple of four bytes.      *)
TrailerPadLength(header, payload) ==
  LET length == header + payload + 1 + 1
  IN  IF length % 4 # 0 THEN 4 - (length % 4) ELSE 0
=============================================================================
