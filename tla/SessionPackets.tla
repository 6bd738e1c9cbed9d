--------------------------- MODULE SessionPackets ---------------------------
(***************************************************************************)
(* The formats around a command: the RMCP, ASF, session and IPMI headers,  *)
(* and the messages that set a session up.  One definition per format, see *)
(* Wires.  What the client's state gives to a message stands for the       *)
(* arguments of a method; Pack as the request and Unpack as the answer are *)
(* the two directions of the same format.                                  *)
(***************************************************************************)
EXTENDS Wires

Format(name, reqs, answers) ==
  Cmd(name, UNION {FieldsOf(r.wires) : r \in reqs}, reqs, answers)

RmcpHeader ==
  LET fields == U8("Version", 0) \cup U8("SequenceNumber", 2) \cup Bit("ACKFlag", 3, 7)
                  \cup Bits("MessageClass", 3, 6, 0)
  IN  Format("RMCP header", Req(4, fields), Answer(4, fields))

(* The enterprise number is packed most significant byte first, and        *)
(* unpacked the other way round.                                           *)
ASF ==
  LET rest == U8("MessageType", 4) \cup U8("MessageTag", 5) \cup U8("DataLength", 7)
  IN  Format("ASF message",
        UNION {Req(8 + l, Be("IANA", 0, 4) \cup rest \cup Le("Data", 8, l)) : l \in 0 .. TailLen},
        UNION {Answer(8 + l, Le("IANA", 0, 4) \cup rest \cup Le("Data", 8, l)) : l \in 0 .. TailLen})

(* IPMI v1.5: the auth code is there unless the type is "none", and the    *)
(* length of the payload comes after it.                                   *)
SessionHeader15 ==
  LET start == U8("AuthType", 0) \cup Le("Sequence", 1, 4) \cup Le("SessionID", 5, 4)
      clear  == start \cup U8("PayloadLength", 9)
      sealed == start \cup Le("AuthCode", 9, 16) \cup U8("PayloadLength", 25)
  IN  Format("Session15 header", Req(10, clear) \cup Req(26, sealed),
        Answer(10, clear) \cup Answer(26, sealed))

(* IPMI v2.0: the type "OEM" puts six bytes before the session identifier. *)
SessionHeader20 ==
  LET start == U8("AuthType", 0) \cup Bit("PayloadEncrypted", 1, 7)
        \cup Bit("PayloadAuthenticated", 1, 6) \cup Bits("PayloadType", 1, 5, 0)
      from(n) == Le("SessionID", n, 4) \cup Le("Sequence", n + 4, 4) \cup Le("PayloadLength", n + 8, 2)
      plain == start \cup from(2)
      oem   == start \cup Le("OEMIANA", 2, 4) \cup Le("OEMPayloadID", 6, 2) \cup from(8)
  IN  Format("Session20 header", Req(12, plain) \cup Req(18, oem), Answer(12, plain) \cup Answer(18, oem))

(* Unpack looks at no length and at no error: what a short packet does not *)
(* have reads as zero.                                                     *)
SessionTrailer ==
  LET fields(pad, code) == Le("IntegrityPAD", 0, pad) \cup U8("PadLength", pad)
        \cup U8("NextHeader", pad + 1) \cup Le("AuthCode", pad + 2, code)
  IN  Format("Session20 trailer",
        UNION {Req(pad + 2 + code, fields(pad, code)) : pad \in 0 .. 3, code \in {12, 16}},
        UNION {Also(Answer(0, fields(pad, 0)), pad + 18, fields(pad, 16)) : pad \in 0 .. 3})

IPMIMessage ==
  LET request(l) == U8("ResponderAddr", 0) \cup Bits("NetFn", 1, 7, 2) \cup Bits("ResponderLUN", 1, 1, 0)
        \cup U8("Checksum1", 2) \cup U8("RequesterAddr", 3) \cup Bits("RequesterSequence", 4, 7, 2)
        \cup Bits("RequesterLUN", 4, 1, 0) \cup U8("Command", 5) \cup Le("CommandData", 6, l)
        \cup U8("Checksum2", 6 + l)
      answer(l) == U8("RequesterAddr", 0) \cup Bits("NetFn", 1, 7, 2) \cup Bits("RequestLUN", 1, 1, 0)
        \cup U8("Checksum1", 2) \cup U8("ResponderAddr", 3) \cup Bits("RequesterSequence", 4, 7, 2)
        \cup Bits("ResponderLUN", 4, 1, 0) \cup U8("Command", 5) \cup U8("CompletionCode", 6)
        \cup Le("Data", 7, l) \cup U8("Checksum2", 7 + l)
  IN  Format("IPMI message", UNION {Req(7 + l, request(l)) : l \in 0 .. TailLen},
        UNION {Exactly(8 + l, answer(l)) : l \in 0 .. TailLen})
-----------------------------------------------------------------------------
(* Channels and cipher suites.                                             *)

(* The bits for IPMI versions are looked at if the extension is there, and *)
(* the one for the type "none" never.                                      *)
GetChannelAuthenticationCapabilities ==
  LET always == U8("ChannelNumber", 0)
        \cup Flags(1, <<"IPMIv20ExtendedAvailable", "", "AuthTypeOEMProprietarySupported",
                        "AuthTypePasswordSupported", "", "AuthTypeMD5Supported",
                        "AuthTypeMD2Supported", "">>)
        \cup Flags(2, <<"", "", "KgStatus", "PerMessageAuthenticationDisabled",
                        "UserLevelAuthenticationDisabled", "NonNullUsernamesEnabled",
                        "NullUsernamesEnabled", "AnonymousLoginEnabled">>)
        \cup Le("OEMID", 4, 3) \cup U8("OEMAuxiliaryData", 7)
  IN  Cmd("GetChannelAuthenticationCapabilities", {"ChannelNumber", "MaximumPrivilegeLevel"},
        Req(2, Bits("ChannelNumber", 0, 3, 0) \cup U8("MaximumPrivilegeLevel", 1)),
        Answer(8, always)
          \cup Answer(8, always \cup Bit("SupportIPMIv20", 3, 1) \cup Bit("SupportIPMIv15", 3, 0)))

(* The records are sixteen bytes at most; an answer without them is fine.  *)
GetChannelCipherSuites ==
  Cmd("GetChannelCipherSuites", {"ChannelNumber", "ListIndex"},
    Req(3, U8("ChannelNumber", 0) \cup Bits("ListIndex", 2, 6, 0)),
    With(Answer(1, U8("ChannelNumber", 0)), TailOf("CipherSuiteRecords", 1)))
-----------------------------------------------------------------------------
(* Setting up a session of IPMI v1.5.                                      *)

GetSessionChallenge ==
  Cmd("GetSessionChallenge", {"AuthType", "Username"},
    Req(17, U8("AuthType", 0) \cup Le("Username", 1, 16)),
    Answer(20, Le("TemporarySessionID", 0, 4) \cup Le("Challenge", 4, 16)))
ActivateSession ==
  Cmd("ActivateSession",
    {"AuthTypeForSession", "MaxPrivilegeLevel", "Challenge", "InitialOutboundSequenceNumber"},
    Req(22, U8("AuthTypeForSession", 0) \cup U8("MaxPrivilegeLevel", 1) \cup Le("Challenge", 2, 16)
      \cup Le("InitialOutboundSequenceNumber", 18, 4)),
    Answer(10, U8("AuthType", 0) \cup Le("SessionID", 1, 4)
      \cup Le("InitialInboundSequenceNumber", 5, 4) \cup U8("MaxPrivilegeLevel", 9)))
SetSessionPrivilegeLevel ==
  Cmd("SetSessionPrivilegeLevel", {"PrivilegeLevel"}, Req(1, U8("PrivilegeLevel", 0)),
    Answer(1, U8("PrivilegeLevel", 0)))
-----------------------------------------------------------------------------
(* Setting up a session of IPMI v2.0.                                      *)

(* An algorithm is the fifth of the eight bytes of its payload.            *)
AlgPayload(payload, alg, byte) ==
  U8(payload \o ".PayloadType", byte) \cup U8(payload \o ".PayloadLength", byte + 3) \cup U8(alg, byte + 4)
AlgPayloads(byte) ==
  AlgPayload("Authentication", "AuthAlg", byte) \cup AlgPayload("Integrity", "IntegrityAlg", byte + 8)
    \cup AlgPayload("Confidentiality", "CryptAlg", byte + 16)

(* A status other than "no errors" ends the answer after eight bytes.      *)
OpenSession ==
  LET status == U8("MessageTag", 0) \cup U8("RmcpStatusCode", 1) \cup U8("MaximumPrivilegeLevel", 2)
                  \cup Le("RemoteConsoleSessionID", 4, 4)
  IN  Format("OpenSession",
        Req(32, U8("MessageTag", 0) \cup U8("RequestedMaximumPrivilegeLevel", 1)
          \cup Le("RemoteConsoleSessionID", 4, 4) \cup AlgPayloads(8)),
        Answer(8, status)
          \cup Answer(36, status \cup Le("ManagedSystemSessionID", 8, 4) \cup AlgPayloads(12)))

(* The code has the length of the digest; the second message, which comes  *)
(* back, is refused unless its status is "no errors".                      *)
RAKPMessage1 ==
  Format("RAKP 1 and 2",
    UNION {Req(28 + l, U8("MessageTag", 0) \cup Le("ManagedSystemSessionID", 4, 4)
                 \cup Le("RemoteConsoleRandomNumber", 8, 16) \cup Bit("NameOnlyLookup", 24, 4)
                 \cup Bits("RequestedMaximumPrivilegeLevel", 24, 3, 0) \cup U8("UsernameLength", 27)
                 \cup Le("Username", 28, l)) : l \in 0 .. TailLen},
    UNION {Answer(40 + code, U8("MessageTag", 0) \cup U8("RmcpStatusCode", 1)
                    \cup Le("RemoteConsoleSessionID", 4, 4) \cup Le("ManagedSystemRandomNumber", 8, 16)
                    \cup Le("ManagedSystemGUID", 24, 16)
                    \cup Le("KeyExchangeAuthenticationCode", 40, code)) : code \in {0, 16, 20, 32}})

RAKPMessage3 ==
  Format("RAKP 3 and 4",
    UNION {Req(8 + code, U8("MessageTag", 0) \cup U8("RmcpStatusCode", 1)
                 \cup Le("ManagedSystemSessionID", 4, 4)
                 \cup Le("KeyExchangeAuthenticationCode", 8, code)) : code \in {0, 16, 20, 32}},
    UNION {Answer(8 + code, U8("MessageTag", 0) \cup U8("RmcpStatusCode", 1)
                    \cup Le("MgmtConsoleSessionID", 4, 4)
                    \cup Le("IntegrityCheckValue", 8, code)) : code \in {0, 12, 16}})

SessionPackets ==
  {RmcpHeader, ASF, SessionHeader15, SessionHeader20, SessionTrailer, IPMIMessage,
   GetChannelAuthenticationCapabilities, GetChannelCipherSuites, GetSessionChallenge,
   ActivateSession, SetSessionPrivilegeLevel, OpenSession, RAKPMessage1, RAKPMessage3}
=============================================================================
