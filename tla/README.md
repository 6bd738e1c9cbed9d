# go-ipmi in TLA+

TLA+ models of the go-ipmi library (an IPMI 1.5/2.0 client in Go), the TLC
configurations that check them, and theorems about them with proofs that TLAPS
checks. Paths such as `interface_lan.go:211` are relative to `src/`.

Contents: [the system](#1-the-system) · [the modules](#2-the-modules) ·
[the runs](#3-the-runs) · [fairness](#4-fairness) · [the proofs](#5-the-proofs) ·
[where code and documentation part](#6-where-code-and-documentation-part) ·
[what is not modelled](#7-what-is-not-modelled) · [the plan](#8-the-plan)

## 1. The system

A `Client` sends one *command* (a `Request`) to a BMC and unpacks the
`Response`. It has three interfaces: LAN (UDP, with an IPMI 1.5 or 2.0 session),
`open` (the Linux kernel driver) and `tool` (an `ipmitool` subprocess). About
130 commands and some operations that issue many of them (FRU, SDR, SEL,
sensors) are built on `Client.Exchange`.

| Component | Source | State | Operations |
|---|---|---|---|
| UDP transport | `udpclient.go` | `conn`, `lock`; per call a helper goroutine and its two channels | `initConn`, `Exchange`, `Close` |
| LAN client | `client.go`, `interface_lan.go`, `types_rmcp.go`, `types_ipmi.go`, `types_session.go` | `session` (`ipmiSeq`, `v15`, `v20.sequence`, `v20.state`), the mutex `l`, `closedCh`, the keep-alive goroutine | `exchangeLAN`, `BuildRmcpRequest`, `ParseRmcpResponse`, `keepSessionAlive`, `closeLAN` |
| Session activation 2.0 | `interface_lan.go` (`Connect20`), `cmd_open_session.go`, `cmd_rakp_message_*.go`, `client_auth_code.go` | `session.v20`: `state`, `cipherSuiteID`, the three algorithms, `bmcSessionID`, both random numbers, `sik`, `k1`, `k2` | `Connect20`, `OpenSession`, `RAKPMessage1`, `RAKPMessage3`, `ValidateRAKP2`, `ValidateRAKP4` |
| Cipher suites | `types_cipher_suite_id.go`, `cmd_get_channel_cipher_suites.go` | none | `getCipherSuiteAlgorithms`, `sortCipherSuites`, `GetAllChannelCipherSuites`, `parseCipherSuitesData` |
| Session activation 1.5 | `interface_lan.go` (`Connect15`), `cmd_get_session_challenge.go`, `cmd_activate_session.go` | `session.v15` | `Connect15` and its five commands |
| Integrity, encryption | `types_session.go`, `helpers_hmac.go` | none (reads `session.v20`) | `genSessionTrailer`, `encryptPayload`, `decryptPayload` |
| Kernel driver | `open/`, `interface_system.go` | the file handle | `SendCommand` |
| ipmitool | `interface_tool.go` | none | `exchangeTool` |
| SEL and SDR walks | `cmd_get_sel_entry.go`, `cmd_get_sdr.go` | loop variables; the repository is the BMC's | `GetSELEntries`, `GetSDRs` |
| FRU | `cmd_read_fru_data.go`, `cmd_get_frus.go` | loop variables | `readFRUDataByLength`, `GetFRU`, `GetFRUs` |
| Sensors | `cmd_get_sensors.go` and its commands | none | `GetSensors`, `sdrToSensor` |
| Command encodings | `cmd_*.go`, `helpers.go` | none | `Pack`, `Unpack` |
| Names, printing, command line | `types_*.go`, `cmd/goipmi/` | none | |

How they interact. `Client.Exchange` calls `exchangeLAN`, which *builds* the
packet under the client's mutex `l` (taken twice: `BuildIPMIRequest` and
`genSession20`/`genSession15`), then calls `UDPClient.Exchange`, which has a mutex
of its own. Inside it a helper goroutine writes, sets a read deadline and reads;
the caller waits for it or for its context. Any goroutine of the user, the
keep-alive goroutine and `Client.Close` use the same client. `Connect20` runs a
sequence of exchanges and writes `session.v20` without any lock.

What is hard about it:

- *Overlap.* `initConn` and `Close` touch `conn` without the lock; the helper
  reads `conn` again at each I/O step; a cancelled call leaves its helper behind.
- *UDP.* Replies come late, twice, out of order or not at all. Responses are
  not matched with requests: neither session ID, sequence number, requester
  sequence nor message tag of a response is looked at. A timeout therefore
  shifts the answers of later calls.
- *Two critical sections per request*, and the packet sent under a third lock.
- *Shutdown.* `closedCh` only notifies; nobody waits for the keep-alive.
- *Activation* is a chain of exchanges repeated per cipher suite; each failure
  leaves part of an attempt behind in `session.v20`, in the BMC and in the socket.
- *Walks* over FRU, SDR, SEL data and the suite list follow counts and next
  IDs that the BMC returns, while its repositories change.
- *Sensors* are filled by up to five commands, any of which a BMC may not know,
  while the reading that selects the conversion factors moves on.
- *The kernel driver* hands out whatever comes first, into a buffer whose size the
  call before has changed; the read deadline belongs to the file.
- *Hundreds of hand-numbered offsets, masks and shifts* in `Pack` and `Unpack`.

What makes each part correct, in short: an exchange is serial, returns to its
caller exactly once and, until something fails, with its own answer; request
numbers are gap-free and distinct; nothing dies while nobody closes; an active
session is one that both sides hold with the same keys; the best possible suite
is used, or the user's; a walk misses no record that stayed and gives none
twice; an area of a FRU is read byte by byte, once; every argument of a command
reaches the BMC, and no two fields of an answer share a bit; every call, Connect,
Close, walk and goroutine ends.
`PROJECT.json` lists the hazards at their lines with the properties that catch
them.

## 2. The modules

```
SyncQuery  <--- refined by ---  UdpExchange  <--- EXTENDS ---  LanClient
                                CipherSuites <--- EXTENDS ---  RmcpPlusSession
                                RecordWalk   <--- EXTENDS ---  SensorScan
FruRead    OpenDriver    Session15                             (on their own)
Wires      <--- EXTENDS ---  AppCommands, ChassisCommands, TransportCommands,
                             SensorCommands, StorageCommands, SdrRecords,
                             FruRecords, SessionPackets        (tables)
Wires, PacketCrypto  <--- EXTENDS ---  CommandExchange         (over all tables)
MC*        constants of the TLC runs
*_proofs   theorems
```

Operators that a comment calls *Wrong on purpose* are plausible bugs of the
definition that follows them. They are not part of any specification: put in
the place of that definition, each makes the property that it is paired with
in `PROJECT.json` fail, which shows that the property sees that code.

### SyncQuery: what `Exchange` promises

One query in progress at a time; each transmits at most once and ends exactly
once, with an error or with the answer to a request transmitted before; without
duplication no answer is handed out twice. It does *not* promise that the answer
is the query's own, for the code does not.

### UdpExchange: `udpclient.go`

An element of `Calls` is one invocation of `Exchange`. `st[c]` is where its
calling goroutine is, `hst[c]` its helper.

| Model | Code |
|---|---|
| `Start` | the nil check of `initConn` (42), outside of the lock |
| `Dial`, `DialFail` | the rest of `initConn`; two calls may both dial, the later assignment stays |
| `Acquire` | `lock.Lock()`, channels of capacity 1, `go func` |
| `Write`, `SetReadDeadline`, `Read`, `Receive`, `ReadFail`, `WriteFail` | the I/O steps of the helper; each reads `conn` again, `Read` keeps the socket it started with |
| `Return`, `Cancel` | the `select`, with the deferred unlock |
| `NilConn` | a method call on a nil `conn`, which ends the program (`crashed`) |
| `CloseSocket`, `ClearConn` | `Close`: `conn.Close()`, then `conn = nil` |
| `Reply`, `Lose`, `Duplicate` | network and BMC (external) |

A datagram is the call whose request it answers: nothing else about it matters.
A race on the field `conn` is a choice between old and new value, which the
interleaving gives. The setters (`SetProxy`, `SetTimeout`, `SetBufferSize`) run
before the first call. Requests are not duplicated by the network, replies are.

### LanClient: `client.go`, `interface_lan.go`, `BuildRmcpRequest`

Composes the goroutines that use one connected client over `UdpExchange`, whose
actions it reuses for requests that have been built (`UdpStep`). `stage[c]` is
`new`, `built` (has its requester sequence) or `sealed` (has its session
sequence); each of the two steps is one critical section. `Ticks` are the
exchanges of the keep-alive goroutine, `Closes` those of `Client.Close`;
`ConnectCall` is the last exchange of Connect, which left the socket behind.
Ghosts: `builds` and `serial`, the order of building.
`KeepaliveStops` is the `closedCh` branch of the `select`, `Tick` the other; both
may be enabled. A second `CloseLAN` closes a closed channel: the program dies.
An answer with a bad completion code is the branch `CloseFails` of `CloseSession`.

### CipherSuites: `types_cipher_suite_id.go`

The table of algorithms, named by suite number (0-19), what `generate_auth_hmac`
supports, the order of preference and `sortCipherSuites`. The sorted list is given
without recursion: `Entries` counts, up to each rank of preference, what is in the
list, and the k-th entry is the suite of the rank at which k are met. `WrongKey` names
the suites with xRC4, for which the client makes another key than the standard does.

### RmcpPlusSession: `Connect20`

`phase` is the exchange the client waits in; a response is processed and the
next request made in one step, as no other goroutine uses the client before it
is connected. The BMC is external: it follows the standard, and with `Faults`
may take a request for a retry of an earlier one (same tag), refuse, or drop a
session at any time.

- *Authentication codes and keys are the tuples of what they are computed
  from*: equal only if all inputs are equal. `k1` and `k2` are functions of `sik`.
- `replies` is a set that, with `Faults`, only grows: a reply may be taken late,
  twice or never. What a reply of the wrong kind does is what its bytes do to the
  `Unpack` in use: too short, an error; RAKP Message 2 read as an Open Session
  Response, a garbage session ID and algorithms; the reverse, a code that can
  not be right.
- `Connect20` may be called again, on whatever the last one left in `session.v20`;
  how often is a bound for each suite in `Explicits` that the user may have set
  (`Reserved` is none).
- The console session ID, the BMC's GUID, role and user name are the same in all
  messages and left out. The random numbers of the client are fresh or, within a
  second, those of the last time (`randomBytes` is seeded with Unix seconds).
- The walk over the suite list is one exchange here; disturbed, it yields any
  part of the list or, as on an error, the whole list of preferences.
- A command of a session with xRC4 is one that the BMC cannot read and does not answer, so
  that its exchange times out (`Unreadable`), with or without `Faults`. The suites without
  encryption set the "encrypted" bit of each packet (`types_session.go:386`), as the others
  do; the BMC of the model goes by the suite.

### Session15: `Connect15`, `genSession15`

The five commands of the activation and then commands of the session, which the
keep-alive goes on sending while `Connect15` runs again. An exchange is one step;
its request or reply may be lost, or come too late and be what the next exchange
finds (`late`). The ghost `mixed` says that `Connect15` has taken such a reply for that of
its command, which only its size could have given away. `last` is the last packet with
the BMC's verdict on it: type,
ID, sequence number within the window, authentication code by what it is made of.
The counter has `SeqMod` values, so it wraps.

### OpenDriver: `open/`, `interface_system.go`

Calls of `Exchange` beside each other over one file, `ConnectOpen` and `Close`.
`SetReq`, `SetReadDeadline`, `EnterRead`, `ReadMsg`, `Wake` are the steps of
`SendCommand`; the driver's queue, the poller (`arrived`, `ready`) and the lock of
`RawConn.Read` (`reader`) are external, modelled from what `SendCommand` relies on.
`room` is `recv.Msg.DataLen`, which a message that is thrown away overwrites.
`disturbed` is a ghost: calls that another call or an event has come across.

### RecordWalk, SensorScan: SEL, SDR, sensors

`RecordWalk` is the loop of `GetSELEntries`, `GetSDRs`, `GetSDRsMap`,
`GetDeviceSDRs` and of the searches: one answer holds a record and the next ID.
Between two exchanges records are added, removed or all cleared. `stayed` is a
ghost, the records that were there all the time. A record is its type, its owner
(`GeneratorID`) and its sensor number; `GetSDRsMap` has one place for each of the last two,
so a record replaces one met before it (`Stored`). `SensorScan` continues with the
commands of `sdrToSensor` for each record that was found: reading, event status,
factors, thresholds, hysteresis, each of which may be answered with a
completion code that is ignored, or fail the call; then the filters of
`GetSensors` and `GetSensorsAny`. A converted value is the pair of raw byte
and factors it depends on.

### FruRead: `GetFRUs`, `GetFRU`, `GetFRUData`, `readFRUDataByLength`

Which devices and areas are read, and how an area is cut into commands: shorter
answers than asked for, "too many bytes" answered by one byte less, 16-bit
offsets and 8-bit record lengths. A device is its `Inventory`: the offsets and lengths of
its areas and where its multi-records are; a header that is read where there is no
record says anything. An answer that ends before the byte with the length of an area is
indexed all the same and the call panics (`NoLength`); a short header does not unpack,
which is an error. `end` and `gap` are ghosts for what has been collected.

### Wires and the tables of commands

`Pack` and `Unpack` of a command are sets of *wires* `<<field, bit, byte, bit>>`:
which bit of which field is which bit of which byte. One definition per command,
`Cmd(name, arguments of the method, forms of the request, forms of the answer)`.
`TailOf` is a field of any length (three bytes stand for it), `Also` and `Only` are
blocks that are decoded if the answer is long enough. What the code does wrong is in
the table as the code has it. The tables are `AppCommands`, `ChassisCommands`
(with boot options), `TransportCommands` (LAN and SOL parameters),
`SensorCommands` (sensors, events, PEF), `StorageCommands` (SEL, SDR, FRU
commands), `SdrRecords`, `FruRecords` and `SessionPackets` (RMCP, ASF, session
header and trailer, IPMI message, the messages of both activations).

### CommandExchange, PacketCrypto

One call of one command: `Pack`, encryption, an answer of any length or a
refusal, decryption, `Unpack`; and, where a command reads back what another one
sets, the two of them in a row (`Pairs`; parameters and headers that are both
packed and unpacked are pairs with themselves). `PacketCrypto` has the lengths of
`encryptPayload`, `decryptPayload` and `genSessionTrailerPadLength`.

Known errors of the code are named in four sets, `DropsArguments` (19 commands),
`ReadsPastEnd` (9), `SharesBits` (13) and `ReadsBackLess` (4), which the properties
except. The assumption `ExceptionsFail`, evaluated in the run, says that each
member of the first three does fail, so that none is excepted for nothing.

## 3. The runs

`tlc -config <run>.cfg <module>`; each ends within five minutes on two workers, all but
`lan_shared`, `rmcp_faults` and `walks` within one. `CHECK_DEADLOCK FALSE`
everywhere: calls, ticks, Connects and changes are finitely many, and the system
rests when they are done.

| Run | Properties | States | Shows |
|---|---|---|---|
| `udp_overlap` | `TypeOK`, `OneInProgress`, `OwnAnswerUntilFailure`, `LagBounded`, `ImplementsSyncQuery` | 96k | three overlapping calls and Close at any moment: serial I/O; no foreign answer before the first failure; the lag of reads behind writes is bounded by failures; the goroutines implement SyncQuery |
| `udp_live` | `NoNilConn`, `EveryCallReturns`, `EveryHelperEnds` | 9k | with a silent or duplicating network, a cancelled caller and a Close that waits for the calls |
| `lan_shared` | `LanTypeOK`, `SequenceGapFree`, `IpmiSeqWindow`, `DiesOnlyUnderClose`, `SocketOutlivesSession` | 2.1M | a user, the keep-alive and one or two Closes: request numbers; what can die, and only under Close; the order of closing |
| `lan_live` | `KeepaliveEnds`, `CloseEnds` | 115k | two ticks against Close |
| `rmcp_clean` | `RmcpTypeOK`, `ConnectsWhenPossible` | 126k | every list of up to 3 of 6 suites, right and wrong password, no faults, the suite left open or set by the user (one usable, one without integrity, one with xRC4, one that is none): a session of the best suite that both can do, and success exactly if that one's key is right |
| `rmcp_faults` | `Agreement`, `ExplicitSuiteUsed`, `ConnectReturns` | 620k | late, lost, duplicated, reordered replies and a forgetful BMC; one Connect over several suites, or two with a suite set by the user |
| `session15` | `SessionAccepted`, `ConnectsUnlessMD2OrOEM`, `Connect15Returns` | 96k | six kinds of BMC, up to three Connects with three commands between and during them, lost and late packets, a counter that wraps; a first Connect without faults neither fails nor panics but for MD2, OEM and a wrong password |
| `open_driver` | `WholeOwnAnswer`, `NoLostWakeup`, `CallsReturn` | 269k | three overlapping calls with answers of different lengths, one too long for the buffer, an event, Close at any moment |
| `walks` | `NothingMissed`, `InOrder`, `FirstMatch`, `SensorsComplete`, `ThresholdsOfTheReading`, `ScanEnds` | 3.1M | every walk and search over every repository of four records, two of one sensor, which changes under it; sensors filled with every outcome of every command: each that the filters take for certain is in the result, in order and once |
| `fru` | `ReadExactly`, `FrusComplete`, `ReadsEnd` | 9k | three devices, BMCs that give up to 3, 30 or 255 bytes and now and then fewer than asked for, every locator list |
| `commands` | `ArgumentsSent`, `AnswerInside`, `FieldsApart`, `SettingsRoundTrip`, `AnswerReadable` | 37k | every command, record and packet format, with answers of every length up to two more than `Unpack` looks at, with each cipher; setters read back |
| `lan_stale_response` | `ResponseMatchesRequest` is refuted | | [section 6](#6-where-code-and-documentation-part) |

The bounds, and why they are enough:

- *Calls*: 3 (2 for liveness). A foreign answer needs two calls, a shift that is
  passed on needs three; the theorems have no bound.
- *IpmiSeqMax* = 2 where wrap-around matters: three requests go round once. 63,
  the real value, where it must not.
- *Suites* {1, 3, 8, 15, 17, 18}: usable and best (17), usable (3), preferred but
  without integrity (15), xRC4 (18), usable but behind xRC4 (8), not preferred (1). Lists
  of up to three in any order.
- *Sids*: one per attempt without faults (4, for three suites and a spare); 2 with
  faults, enough for a current and a stale session. When the IDs run out, a good
  request is not answered.
- *MaxConnects* 1, or 2 with a suite set: the second one meets the leftovers of the first.
- *MaxTries* 2 with faults: a later try differs from the second in nothing. 11, the
  number of preferred suites, without: no list is cut.
- *GarbageSuites* {1, 17}: garbage is read as a suite with integrity or without.
- *Session15*: `SeqMod` 4 with a window of 3, so that three commands go round and
  three faults leave the window; offers that lead to each authentication type. Three Connects:
  a reply that one leaves behind may be taken by the next, or by the one after it.
- *OpenDriver*: a buffer of 4 bytes; answers of 1, 3 and 4, an event of 2: each
  relation of the message thrown away to the one waited for occurs.
- *Repository*: four records of three types, three with one sensor number and two of
  these of one owner, one change: what one change does to a walk at each place of it; a second change meets
  the same loop with another `repo`, which is any subset to begin with. The
  theorems have no bound.
- *FRU*: limits below, at and above what is asked for; records of 2, 250 and 40
  bytes, 250 being the longest whose size with header fits into 8 bits.
- *TailLen* 3: fields without a fixed length differ in nothing after the first byte.

## 4. Fairness

- `Helper(c)` weakly: goroutines are scheduled, a write ends, a read ends at its
  deadline (`udpclient.go:146-154`).
- `Dial`/`DialFail`/`Return` weakly: dialling ends, a `select` with a ready branch goes on.
- `Acquire(c)` strongly: `sync.Mutex` in starvation mode hands the lock to a
  waiter of more than 1 ms, so one that waits gets it.
- `KeepaliveStops` strongly: Go's `select` picks among ready branches at random,
  so the `closedCh` branch is not passed over for ever by ticks.
- `Build`, `CloseStep`, `TickReturns` weakly: straight-line code.
- In `RmcpPlusSession` and `Session15` an exchange ends, with a reply or a
  failure: weakly. So do the exchanges of `RecordWalk`, `SensorScan` and
  `FruRead` (`WalkStep`, `Command`, `Next`), by the read deadline below them.
- `OpenDriver`: `Caller(c)` weakly, the goroutine of a call runs; `DeadlinePasses`
  weakly, time goes by (`open/send.go:79`). The BMC owes no answer and the poller
  no report.
- Nothing is assumed of network or BMC, nor that anybody starts a call or closes.

## 5. The proofs

Every theorem is for all values of the constants, under the named assumptions of
the modules (`CallsAssumption`, `LanAssumption`, `RmcpAssumption`,
`WalkAssumption`, `ScanAssumption`, `OpenAssumption`, `FruAssumption`, `S15Assumption`,
`LayoutAssumption`: no model
value stands for two things, lists are of standard suites, record IDs are numbers
other than the two reserved ones, an answer has a length that the driver's buffer
takes, multi-records follow each other without a gap, the window of sequence numbers is
smaller than their range, sizes of requests are numbers; and for LanClient that calls are
disjoint and not cancellable, as `exchangeLAN` uses `context.Background()`).

| Theorem | Statement |
|---|---|
| `UdpExchange_proofs!TypeCorrect` | `Spec => []TypeOK` |
| `UdpExchange_proofs!SerialOperations` | without cancellation, `[]OneInProgress` |
| `UdpExchange_proofs!QuietCloseIsSafe` | if Close waits, `[]NoNilConn` |
| `UdpExchange_proofs!OwnAnswers` | without cancellation, `[]OwnAnswerUntilFailure` |
| `UdpExchange_proofs!LagIsBounded` | if calls are finitely many, `[]LagBounded` |
| `UdpExchange_proofs!Implementation` | without cancellation, `Spec => SQ!Spec` |
| `LanClient_proofs!RequesterSequence` | `LanSpec => []IpmiSeqWindow` |
| `LanClient_proofs!SessionSequence` | `LanSpec => []SequenceGapFree` |
| `LanClient_proofs!LanTypes` | `LanSpec => []LanTypeOK` |
| `LanClient_proofs!DeathsNeedClose` | `LanSpec => []DiesOnlyUnderClose` |
| `LanClient_proofs!SocketsOutliveSessions` | `LanSpec => []SocketOutlivesSession` |
| `LanClient_proofs!LanIsSerial` | `LanSpec => []OneInProgress` |
| `LanClient_proofs!LanAnswersAreOwn` | `LanSpec => []OwnAnswerUntilFailure` |
| `LanClient_proofs!MatchUntilFailure` | `LanSpec => [](~Duplicates /\ ~SomeFailure => ResponseMatchesRequest)` |
| `LanClient_proofs!LanLagIsBounded` | if calls are finitely many, `LanSpec => []LagBounded` |
| `LanClient_proofs!LanStepsAreQueries` | `LanSpec => [][SQ!Next]_SQ!vars` |
| `RmcpPlusSession_proofs!KeysAgree` | `Spec => []Agreement` |
| `RmcpPlusSession_proofs!ExplicitSuite` | `Spec => []ExplicitSuiteUsed` |
| `RmcpPlusSession_proofs!RmcpTypes` | `Spec => []RmcpTypeOK` |
| `RmcpPlusSession_proofs!ConnectsIfPossible` | without faults, if `MaxTries` cuts no list, `[]ConnectsWhenPossible` |
| `RmcpPlusSession_proofs!ConnectsAreFinite` | after the start of a Connect20 each step makes `Left` smaller, or is the BMC's |
| `SensorScan_proofs!WalksMissNothing` | `Spec => []NothingMissed` |
| `SensorScan_proofs!WalksInOrder` | `Spec => []InOrder` |
| `SensorScan_proofs!SearchesStopAtTheFirst` | `Spec => []FirstMatch` |
| `SensorScan_proofs!ThresholdsFollowTheReading` | `Spec => []ThresholdsOfTheReading` |
| `SensorScan_proofs!SensorsAreComplete` | `Spec => []SensorsComplete` |
| `SensorScan_proofs!ScansAreFinite` | if record IDs are bounded, with `OnePass`, each step makes `Left(top)` smaller, or is a change of the repository |
| `Session15_proofs!CommandsAccepted` | `Spec => []SessionAccepted` |
| `Session15_proofs!FirstConnectSucceeds` | `Spec => []ConnectsUnlessMD2OrOEM` |
| `FruRead_proofs!FruReadExactly` | `Spec => []ReadExactly` |
| `FruRead_proofs!FrusAreComplete` | `Spec => []FrusComplete` |
| `FruRead_proofs!FruAtRecord` | `Spec => [](Short(dev) => AtRecord)` |
| `FruRead_proofs!FruCallsAreFinite` | each step makes `Left` smaller, or is `NextRecord` on a device that is not `Short` |
| `OpenDriver_proofs!OwnAnswersWhole` | `Spec => []WholeOwnAnswer` |
| `OpenDriver_proofs!NoWakeupIsLost` | `Spec => []NoLostWakeup` |
| `CommandExchange_proofs!AnswersReadable` | `Spec => []AnswerReadable` |
| `CommandExchange_proofs!ResultsAndFields` | `Spec => []ExchangeTypeOK` |

The arguments:

- *UdpExchange.* `Typed` adds to the types that a blocked read knows its socket.
  `Control` ties the two goroutines of a call to the lock: who is in the `select`
  holds it, and without cancellation a live helper belongs to such a caller, whence
  one operation at a time. `ConnHeld` says that a call past `initConn` finds `conn`
  set as long as Close waits. `Custody` follows an answer: on the network, in a
  buffer, in a helper, at a caller, in one of these places at a time. `Own` says that
  until a failure the only unread answer is that of the call in progress. The
  refinement maps `busy` to the lock, `sent` to the calls that have written and
  `result` to `outcome`; each action is a step of SyncQuery or leaves it alone.
- *UdpExchange, lag.* By `Custody` no answer is received twice, so at least as many requests
  have been answered as calls have received something. What is unread is among the other
  requests, and these are at most as many as the calls that wrote and received nothing:
  such a call has failed or is in progress.
- *LanClient, numbers.* Seen from the numbers there are three kinds of steps (enter,
  build, seal). `ipmiSeq` as a function of `builds` is a residue, so two requests with
  the same number are at least a round apart; sealed packets carry exactly
  `1..sequence`, each once. The property itself is not inductive: what the next
  request will get has to be part of the invariant.
- *LanClient, closing.* Seen from the transport, a step is one of `UdpExchange` or the
  panic of a second Close (`TransportSteps`), so `Typed`, `Control` and `Written` carry
  over. `SocketHeld` says that until a Close gets to the socket there is one, and it is
  open, and that a Close gets there with an answer in hand. That the answer is one to a
  request that was written is `Written`, that it is the Close's own as long as nothing has
  failed is `OwnAnswerUntilFailure`.
- *LanClient, answers.* By the same `TransportSteps`, `Custody` and `Own` hold of the session:
  one operation at a time, own answers until the first failure, a bounded lag. The comment
  on the requester sequence that `lan_stale_response` refutes is therefore true as long as
  nothing has failed and the network does not duplicate (`MatchUntilFailure`). The *steps* are
  those of SyncQuery, but not the first state: a session begins when the last call of Connect
  has already been served.
- *RmcpPlusSession.* A record of the BMC *evolves*: its suite is fixed when it is
  created, its keying material once it is active. So what an old reply said stays
  true (`Server`). `Client` says what the client knows in each exchange: in
  particular that session ID and algorithms came from one Open Session Response
  (or are garbage). A RAKP Message 4 with the right code then names session,
  password and both random numbers. Without that code there is no agreement, with
  all the checks before it.
- *RmcpPlusSession, the first Connect.* Without faults there is one request or one reply
  on its way (`OneAtATime`), and the BMC's record is what the exchange at hand has made of it
  (`InCaps` to `InPriv`). What is left to try has every suite that could still do, best
  first (`Ahead`): an attempt that breaks off takes away its own suite and no other. So the
  suite that comes to Set Session Privilege Level is the best one (`Best`). There the only
  exchange without faults may time out, and does so exactly if the suite's key is wrong:
  the BMC leaves the request where it is (`NoAnswer`), and Connect20 tries no other. For
  the list that this begins with, `SortedSuites` says of `sortCipherSuites` what it should
  return (`SortOf`: the preferred suites of the list, in the order of preference), by
  the counts in `Entries`. It needs induction over natural numbers, in the place of which
  a set of them has a least element (`LeastOf`). `AllTried` says that the bound `MaxTries`
  cuts no list.
- *SensorScan.* While a walk goes on, everything collected lies below the ID that
  will be asked for next (`Position`), and every record that has stayed and is wanted
  is collected or lies at or above that ID (`Remaining`). The walk ends when no
  record lies above; so nothing is missed, and nothing comes twice. In the map of
  `GetSDRsMap` a record may stand for an earlier one of its sensor (`HandedOut`). `InHand` says
  what a sensor has got before each command: no thresholds before the factors are
  those of its reading, no hysteresis before the thresholds. While sensors are filled, what is
  to do is the end of what the walk has collected (`TheRestToDo`, `AtHand`), and the result has
  what the filters let through of the records before, in their order (`Ascending`,
  `FromTheRecords`, `NoneLeftOut`).
- *Session15.* `InStep` is what the client has in common with the BMC as long as its session
  can be trusted: ID, type, and a counter that is ahead of the BMC's by no more than the
  packets that were lost, so within the window. `Chosen` says that the type is the one that
  the offer asks for; `FirstTry` follows a first Connect without faults from exchange to
  exchange. `SessionAccepted` excepts a client that has taken a late reply for that of
  another command (`mixed`), be it left over by a Connect before: `InStep` is not inductive
  if only replies of the Connect at hand are looked at.
- *FruRead.* `Reading`: in an area, what has been read and what is still to be asked for add up
  to its size. `AreasRead`: the areas read are those before the one at hand, and `start` is where
  that one is; this goes on from one multi-record to the next if the size of each, with
  its header, fits into the 8 bits it is added in. `Short(d)`, that no record of the device
  but the last is longer than 250 bytes, says so. It is a hypothesis on the one device, where
  it is needed: with 252 in place of 250 in `Contents` of `MCFruRead`, and `AtRecord` as an
  invariant of `fru`, TLC finds a header read where there is no record. `ReadExactly`, the
  locators and every device that is `Short` are covered whatever the others contain.
  `Walk`: the FRUs are those of the locators passed.
- *OpenDriver.* `Queued` says that a queued answer is whole. `Undisturbed` says that a
  call nothing has come across is the only one, that its answer is at the BMC or alone
  in the queue, that the room in its buffer is all of it, and that, if it sleeps
  beside the answer, the poller has it to report.
- *CommandExchange.* Padding makes whole blocks and is taken off again
  (`AESRoundTrip`, `TrailerAligned`), for every length; what is not decrypted to its
  length came with RC4 after the first packet (`Readable`).

- *Measures.* `ConnectReturns`, `ScanEnds` and `ReadsEnd` say that a call ends, if its exchanges
  do. What could keep it from ending although each exchange does end is proved not to
  happen: a tuple of natural numbers, `Left`, gets smaller in the lexicographic order with every
  exchange, so there are only finitely many. For `Connect20` it counts the suites left to try
  and the exchanges of the one at hand; for a walk, how far the record asked for is from
  the largest ID, then the records to fill and the commands to come; for FRU data, the locators,
  the areas, the bytes to the end of the list and of the area, and the number of bytes asked for,
  which a BMC may refuse. What the BMC does meanwhile to its sessions, or anybody to the
  repository, leaves the tuple as it is, however often it happens. That record IDs are bounded is
  no restriction, as they have 16 bits. `OnePass` is what `GetSensorByID` does: the call that fills
  its sensor twice has no filters; one that dropped the sensor would fill it again for ever.
  For FRU data there is one exception, the step to the next record of a device that is not
  `Short`: a size of 0 modulo 256 leads back to the same record.

Only model-checked: liveness itself (out of the prover's reach, as is `ENABLED`), also where a
measure is proved, since that exchanges end is fairness; and
`ArgumentsSent`, `AnswerInside`, `FieldsApart` and `SettingsRoundTrip`. These are about the
tables of commands and no others: the run evaluates them for every entry of the tables, which
is all there is, and a proof would do no more.

## 6. Where code and documentation part

`lan_stale_response` is a run that TLC refutes; the counterexample is a behaviour of the
code: `types_ipmi.go:53` says of the sequence number that it "is used to verify that
a response is for a particular instance of a request", but `ResponseMatchesRequest`
fails, since no response is compared with its request.

The others below were met while modelling. Sessions:

- A keep-alive tick that was taken before `Close` sends after `Close` has returned, on a
  new socket (`interface_lan.go:346` against `:313`, `client.go:47-48`).
- `Connect` on a client with an active session sends Get Channel Authentication
  Capabilities inside the old session (`interface_lan.go:221` against
  `cmd_get_channel_authentication_capabilities.go:171`); in v1.5 too.
- The loop over suites leaves the last one tried in `cipherSuiteID`, where the next
  Connect takes it for the user's choice (`interface_lan.go:242`, `:229`).
- Suites 6, 11, 12 and 15 fail at RAKP Message 4, after the BMC has activated the
  session (`helpers_hmac.go:75` against `client_auth_code.go:372`).
- With a cancellable context (no caller in the repository uses one) `OneInProgress`
  fails. Hence the assumption of three of the theorems.
- The session sequence number is given under one lock and the packet sent under
  another, so packets may be sent in another order than numbered
  (`cmd_activate_session.go:76`: "for each subsequent message it sends").
- The message tag of Open Session Requests and RAKP messages is always 0, although a
  new message after an error must have a new one (`cmd_rakp_message_1_2.go:50`).
- Suites 18 and 19 encrypt with xRC4 and are on the preference list, above the comment
  "xRC4 is bad, so we don't use it" (`types_cipher_suite_id.go:163-164`, `:172`).
- With xRC4 the key is not the MD5 sum but its input with the sum appended, so the head of
  `k2` (`types_session.go:566-577`, `:621-632`): the BMC cannot read the first command of
  the session. That is Set Session Privilege Level, after whose failure no other suite is
  tried (`interface_lan.go:271-273`): `Connect20` fails if the best suite is 18 or 19, also
  where one further down the list, 8 say, would do (`ConnectsWhenPossible` says exactly
  that). Besides, `decryptPayload` takes twenty bytes off every packet, although only the
  first one has the vector (`AnswerReadable` excepts it), and the key stream begins anew in
  each packet.
- Packets of a session without encryption (suites 2, 7 and 16 among others) have the
  "encrypted" bit set (`types_session.go:386`).
- The trailer of a received packet is unpacked without a look at its length, and its
  code is not verified.
- In v1.5 the MD2 code is the first 16 bytes of what should be hashed, the type OEM cuts
  an empty slice and panics (`client_auth_code.go:90`), and is taken before "none" if the
  BMC offers both (`cmd_get_channel_authentication_capabilities.go:154-159`); a second
  Connect replaces the ID of the active session before it has another one, the inbound sequence number may wrap to 0, and the bit
  for the type "none" is never unpacked.

Arguments that do not arrive (`DropsArguments`): Get Command Support, Configurable
Commands and Command Enables (byte 1 is `NetFn & (mask<<6)`, which is 0); Get Command
Subfunction Support (its method takes no command, so `Cmd` is always 0); `SetUserAccess` (the limit overwrites the user ID);
`SetChassisCapabilities` (bridge address), `SetFrontPanelEnables`,
`SetLanConfigParams`, `PlatformEventMessage`, `SetSensorReadingAndEventStatus`, boot flags
(one bit is that of reset), `WriteFRUData` (one byte of data), and setters whose
methods take no value. `NewCommunityString` zeroes every byte.

Bytes read beyond an answer (`ReadsPastEnd`): `BadPasswordThreshold` (a size of 4,
6 are read), the multi-record header (3 bytes are passed, `[4]` is read; `types_fru.go:597`),
three DC records (12 asked for, 13 read), the session trailer, and the chassis, board and
product areas of a FRU that end without an end mark, which is looked for in the byte behind
(`types_fru.go:1016-1018`).

Bits used twice or lost (`SharesBits`, `ReadsBackLess`): all of Get BT Interface
Capabilities is read from byte 0; `b1 & 0xc0 >> 6` in Get User Access and `v & 0xf0 >> 4`
in the cipher suite privilege levels bind otherwise than meant; the channel bits of
generic locators; `RateUnit` loses a bit and `ModifierRelation` can never be
multiplication in Full and Compact records; Get Session Info decodes the LAN and the PPP
view of the same bytes; ASF's enterprise number is packed and unpacked in different
orders; SEL OEM records copy 6 of 13 bytes; Set Channel Access sets six bits of the
privilege limit, of which four are read; the byte order of the last processed event ID.
MAC and IPv6 addresses of alert destinations are one byte short.

Operations:

- The size of a multi-record, with its header, is added in 8 bits (`cmd_get_frus.go:334`):
  one of 251 bytes and more breaks the walk, and one of exactly 251, whose size is 0, is read
  for ever, although 255 are allowed and the length is to lead to the next header
  (`types_fru.go:569-572`). Hence `Short` in the properties and theorems.
- An answer of one byte to the read of an area's first two, or of two to that of a record's
  first five, is indexed beyond its end (`cmd_get_frus.go:240`, `:264`, `:288`, `:316`).
- `GetSDRsMap` keeps the last of several records of one owner and sensor number
  (`cmd_get_sdr.go:197-202`).
- `GetFRUs` skips the locator of device 0, which it has not read if the BMC says it has no FRU
  support (`cmd_get_frus.go:185`).
- `GetSELEntries` of an empty SEL is an error, as is `GetSDRBySensorID` of an event-only
  sensor.
- `GetSensorsAny` without filter options returns no sensor (`cmd_get_sensors.go:90-96`), where
  its comment says "If there's no filter options, it returns all sensors." (`:70`).
  `SensorsComplete` says nothing of that call.
- The value of a non-linear sensor is converted (`cmd_get_sensors.go:220`) before its
  factors have been read (`:256`).
- `ThresholdStatus` is "ucr" for every crossing. `MasterWriteRead` throws the data it
  reads away.

## 7. What is not modelled

- *Ciphers and hashes* (`md2.go` and the standard library): codes are what they are
  made of, payloads are lengths.
- *The parser of cipher suite records*: its effect, any part of the suites, is. It skips one
  of three bytes of an OEM record's IANA number (`cmd_get_channel_cipher_suites.go:117`).
- *Names, tables and printing; the texts of events; the floating-point conversion of a
  reading*: no state, and no property but the tables themselves.
- *The command line, and the `ipmitool` interface*, which runs a process and parses text.
- *ioctl numbers and structures* of the kernel driver.
- *Answers of Read FRU Data that are longer than asked for, or empty*: they break the
  protocol; with an empty one `readFRUDataByLength` asks again for ever.
- *Values*: a bit is known by where it comes from, so an argument out of its field's range
  is not distinguished from one within.

Within what is modelled: the 32-bit session sequence of v2.0 does not wrap in a
session's life and is unbounded; the keep-alive of an earlier connection during a second
Connect is in `Session15` but in neither LanClient nor RmcpPlusSession; duplicated
*requests* are only in RmcpPlusSession, as the BMC's retries.

## 8. The plan

What could be added, in this order:

1. The second Connect of v2.0 with the keep-alive of the first (LanClient and
   RmcpPlusSession composed): `v20.state` is written without the mutex.
2. `GetAllChannelCipherSuites` and `parseCipherSuitesData` over bytes, against a
   reference parser.
3. Packets that overtake each other, against a BMC with a sequence window, in
   LanClient as in Session15.
4. Theorems: a measure for `Connect15`; the tries of a Connect20 after the first; from the
   measures to liveness, should a prover for it come.
