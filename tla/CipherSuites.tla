---------------------------- MODULE CipherSuites ----------------------------
(***************************************************************************)
(* The cipher suites of RMCP+ (types_cipher_suite_id.go) and which of them *)
(* the client can compute its key exchange codes for (helpers_hmac.go).    *)
(* A suite is named by its ID; no two of the IDs 0..19 have the same three *)
(* algorithms, so "the algorithms of suite s" and s tell the same.         *)
(***************************************************************************)
EXTENDS Integers, Sequences, FiniteSets, SequencesExt

Reserved == 255    \* CipherSuiteIDReserved

StandardSuites == 0..19

\* getCipherSuiteAlgorithms: an unknown ID gets the algorithms of suite 0.
AlgorithmsOf(id) == IF id \in StandardSuites THEN id ELSE 0

AuthAlg(s) == CASE s = 0        -> "None"
                [] s \in 1..5   -> "HMAC_SHA1"
                [] s \in 6..14  -> "HMAC_MD5"
                [] s \in 15..19 -> "HMAC_SHA256"

IntegrityAlg(s) == CASE s \in {0, 1, 6, 15} -> "None"
                     [] s \in 2..5          -> "HMAC_SHA1_96"
                     [] s \in 7..10         -> "HMAC_MD5_128"
                     [] s \in 11..14        -> "MD5_128"
                     [] s \in 16..19        -> "HMAC_SHA256_128"

\* generate_auth_hmac knows these algorithms and fails for every other one.
AuthSupported(s) == AuthAlg(s) \in {"HMAC_SHA1", "HMAC_MD5", "HMAC_SHA256"}
IntegritySupported(s) ==
    IntegrityAlg(s) \in {"HMAC_SHA1_96", "HMAC_MD5_128", "HMAC_SHA256_128"}

\* The suites a session can be activated with: the last code of the handshake is right.
Usable(s) == AuthSupported(s) /\ IntegritySupported(s)

CryptAlg(s) == CASE s \in {0, 1, 2, 6, 7, 11, 15, 16} -> "None"
                 [] s \in {3, 8, 12, 17}              -> "AES_CBC_128"
                 [] s \in {4, 9, 13, 18}              -> "xRC4_128"
                 [] s \in {5, 10, 14, 19}             -> "xRC4_40"

xRC4 == {"xRC4_128", "xRC4_40"}

\* md5.New().Sum(b) is b with the sum of nothing behind it, so that the key is the
\* head of k2 and not, as for everybody else, of the MD5 sum of k2 and the offset.
WrongKey(s) == CryptAlg(s) \in xRC4

preferredCiphers == <<17, 3, 15, 16, 18, 19, 6, 7, 8, 11, 12>>

\* How many entries of a list are among the n suites that are preferred most.
Entries(listed, n) ==
    Cardinality({j \in DOMAIN listed : \E i \in 1..n : listed[j] = preferredCiphers[i]})

\* The entries of a list in the order of preference, the others left out: the k-th
\* is the suite with which k of them have been met.
sortCipherSuites(listed) ==
    [k \in 1..Entries(listed, Len(preferredCiphers)) |->
        preferredCiphers[CHOOSE i \in 1..Len(preferredCiphers) :
                             Entries(listed, i - 1) < k /\ k <= Entries(listed, i)]]
=============================================================================
