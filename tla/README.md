# A formal model of Boost.Socks

TLA+ modules, TLC runs and TLAPS proofs for the SOCKS client library in
`include/boost/socks`, the example server in `example/server/async` and the example
clients in `example/client`.
`PROJECT.json` lists the components, the runs, the source lines behind every
definition, the hazards, the findings and the theorems.

    tlc -config Connect.cfg MCConnect           # a run: see "Runs"
    tlapm SocksConnectProofs.tla                # the proofs of one module: see "Proofs"

## The system

Boost.Socks is a header-only library with four operations: `connect`,
`async_connect` (SOCKS5), `connect_v4`, `async_connect_v4` (SOCKS4). Each takes a
stream that is already connected to a proxy and runs one dialogue on it.

| component | state | operations | interacts with |
|---|---|---|---|
| codes and errors (`detail/*.hpp`, `error.*`) | none | `to_reply_code`, `to_address_type`, `failed`, `default_error_condition` | used by everything |
| messages (`impl/connect.ipp`, `impl/connect_v4.ipp`, `auth_options.hpp`) | none | `prepare_*`, `validate_*`, `parse_reply_*` | called by the operations |
| SOCKS5 connect (`impl/connect.hpp`) | stage, one buffer of 513 bytes, options, target | greeting, choice, user name and password, request, reply | stream; caller or handler |
| SOCKS4 connect (`impl/connect_v4.hpp`) | stage, one buffer | request, reply | stream; caller or handler |
| example server, handshake (`socks_connection`) | pending operation, `server_choice_`, `target_`, two sockets, `buffer_` | completion handlers of reads, writes, resolve, connect | client stream, resolver, target socket |
| example server, relay | two buffers, two pending operations | four handlers, two loops | both sockets |
| example server, acceptor and `main` | one pending accept | `do_accept`, signal handler | starts connections; an exception of any of them ends it |
| example clients | URLs, socket, resolver, error code | choice of operation, retry over addresses, HTTP exchange | the library, through its four operations |

What is hard here is not concurrency inside one operation (its steps are strictly
sequential) but the environment of each step: TCP cuts the peer's messages into
arbitrary segments and may merge a reply with what follows it; the peer may be a
server of any quality; it may close right behind a refusal or reset at any moment;
the application may close the stream under an asynchronous operation; a handler
that starts nothing ends a connection silently; lengths and codes are bytes. The
server is concurrent: one thread interleaves the handlers of all connections, and of
the two directions of each relay, and an exception in one ends them all.

What makes the components correct:

- codes: every byte from the wire becomes one enumerator; success of the two
  protocols is never confused;
- messages: what one side builds the other side's parser understands;
- connect: success means that exactly a legal, granting dialogue was read; secrets
  and requests are sent only when the dialogue permits; the verdict or the
  transport error reaches the caller; an operation that can end does end;
- server: a grant means a connection to the target that was asked for; nothing is
  done before authentication; segmentation makes no difference; clients that wait
  for an answer get one;
- relay: what comes out is a prefix of what went in; directions and connections do
  not wait for each other; a connection that is over is let go;
- clients: for a URL with a host, HTTP is spoken through a granted tunnel to that host
  or not at all, and success is the exit status only of a request that was answered, or
  met by the end of the connection.

The parts meet in three places, and each has a module: the library and its caller
(`ConnectService`), the bytes of one message (`WireExchange`), and the two ends of a
connection (`Session`, which implements `Tunnel`).

## Modules

| module | models |
|---|---|
| `SocksCodes` | enumerations, conversions, error codes as pairs of category and value |
| `SocksWire` | the library's encoders, validators and parsers, on sequences of bytes |
| `ServerWire` | the example server's parsers and reply builders |
| `TcpStream` | the stream and the loops of `asio::read` and `asio::write` (external) |
| `SocksConnect` | `connect` and `async_connect` (`mode` tells which), with their environment |
| `SocksConnectV4` | `connect_v4` and `async_connect_v4` |
| `WireExchange` | one message built by one side and parsed by the other |
| `SocksServer` | one server connection, from acceptance to the relay |
| `RelayServer` | `main`, the acceptor, and the relay of every connection |
| `ConnectService` | abstract: what each of the four operations promises its caller |
| `SocksClient` | the two example clients, on top of `ConnectService` |
| `Tunnel` | abstract: what client and server give the application together |
| `Session` | `SocksConnect` and `SocksServer` on the two ends of one connection |
| `WireProofs` | lemmas that belong to no specification: the stream, its read loop, error codes, and what the parsers make of the encoders' messages |
| `SocksConnectProofs`, `SocksConnectV4Proofs`, `WireExchangeProofs`, `SocksServerProofs`, `RelayServerProofs`, `SocksClientProofs`, `SessionProofs` | theorems about the module of that name |
| `MCConnect`, `MCConnectV4`, `MCWire`, `MCServer`, `MCRelay`, `MCClient`, `MCSession` | small instances |

Names follow the source. A definition whose comment begins with "Mutant" is a
deliberately wrong variant of the one after it; `PROJECT.json` says which
property refutes it.

**Bytes.** Messages are sequences of the real bytes, since offsets and lengths are
what goes wrong in this code. Byte *i* of a C++ buffer is element *i + 1*.

**Stream.** `down` is all the peer has sent and never shrinks, `pos` how much was
read, `n` how much of it belongs to the read in progress. One `read_some` takes any
positive number of the bytes available, up to what the completion condition
allows; that is every segmentation. `link` is `up`, `shut` (FIN), `reset` or
`closed` (by its owner). `eof` appears only when all was read; after a reset, bytes
that had arrived may still be read or not. The library's buffers are therefore not
copied into the state: `buffer(k)` is the part of `down` they hold.

**Operations.** An action runs from one suspension (blocking call or
`BOOST_ASIO_CORO_YIELD`) to the next, so it contains the last `read_some` of a
read, the validation and the decision where to go on. `KeepReading` is a turn of
the read loop that does not end it. The synchronous and asynchronous variants are
the same actions, except for the user name and password reply, where the code
differs (`sync_userpass_result`, `async_userpass_result`).

**Server.** An action is a completion handler up to the next asynchronous operation
it starts. A handler that starts none drops the connection (`pc = "ended"`). An
exception in a handler leaves `io_context::run`, and the program ends
(`server = "terminated"`). `local_endpoint()` throws if `target_socket_` was never
opened (`Reply`). `SocksServer` is one connection; its client is a script of messages,
each sent when the server waits for it, as the library does.

**Relay and acceptor.** In `RelayServer` the handshake is one step with the three
outcomes `SocksServer` has. Each direction of a relay (a *pipe*: a connection and the
side that sends) has a pending operation (`loop`) and a buffer. `async_write_some`
takes any positive part of the buffer, and the handler does not look how much. A side
may stop reading (`stalled`), shut its half down, or be reset. A connection is kept by
its pending handlers, so it is `closed` when both loops have stopped. `Accept` throws
from `remote_endpoint()` if the client has reset the connection by then. The i-th byte
of a side is the number i, which makes loss, repetition and mixing visible.

**Clients.** `SocksClient` runs from the URLs, abstracted to the kinds of host and the
scheme the code tells apart, to the exit status. `mode` selects the synchronous or the
asynchronous program; they differ in the resolution of a SOCKS4 target (a loop over all
IPv4 addresses on one socket, or the first one only) and when the host is of no known
kind. An IPv6 address in a URL may end the process: `get_endpoint_unchecked` throws if
the URL library does not parse the text `encoded_host` gives, which has brackets around
the address, and the model leaves open whether it does. The library's operation is not
spelled out again: its variables are those of
`ConnectService`, and its steps are `Op!Ask`, `Op!Succeed` and `Op!Fail`. That is
sound because of the refinement checked in `connect` and `connect_v4`, whose safety
part is proved.

**Refinement.** `ConnectService` has no bytes: an operation asks, the server may grant,
the connection may be lost, and the operation completes once, with success only if it
had asked and was granted, with an error of the stream only if the connection was lost,
and never waiting for ever on a lost connection. `SocksConnect` maps `granted` to "the
bytes sent so far hold, behind the negotiation, the beginning of a granting reply".
`Tunnel` says that the application is told of a success only when the server is
connected to the very target it asked for.

**Session.** The variables without prefix are `SocksConnect`'s, those with `s_` are
`SocksServer`'s, and every step is a step of one of the two (`C!Operation`,
`S!Connection`) with its effect on the other end: bytes written are appended to what the
other can read, and a socket that is closed becomes `shut`, or `reset` if bytes were
left unread, on the other end. A message written is there at once and as a whole; that
it arrives late or in pieces is in the reads.

## Runs

Passing runs. Deadlock is not checked: an operation that has completed, and one
whose peer says nothing more, may stop.

| run | shows | bounds |
|---|---|---|
| `connect` | safety: `TypeOK`, `SuccessIsGenuine`, `NegotiationRespected`, `StageInv`, `NoStrayTransportError`, `TransportErrorKept`, `ReplyReportedAlone`; liveness: `AnsweredCompletes`; refinement: `ImplementsService` | 2 options, 6 choices, 4 approvals, 8 replies (granting, refusing, malformed, short, too long), both modes, all segmentations, all faults, the target speaks at most once |
| `connect_v4` | `TypeOK`, `SuccessIsGenuineV4`, `ReplyReportedV4`, `TransportErrorKeptV4`, `TerminatesV4`, `ImplementsServiceV4` | 2 users, 8 answers, all faults, the target speaks once |
| `wire` | the `...Interop` properties, `MessagesFit` | all 256 reply bytes; ports on both sides of a byte's limit, names up to it; credentials of equal length, the longest included |
| `server` | `TypeOK`, `RequestUnderstoodUnlessSplit`, `GrantIsGenuine`, `NothingBeforeAuthentication`; liveness: `HandshakeEndsUnlessShort` | 13 clients: each kind of target, offers without an acceptable method, bad versions, commands and address types, the longest and a short user name and password, SOCKS4 granted and refused |
| `relay` | `TypeOK`, `RelayInOrder`, `FaithfulUnlessShort`; liveness: `ClientServed`, `Delivered`, `Released` | two clients and a third accept pending; the first sends two bytes (so that a write can be short) and its target one, the second connection opens and closes beside it |
| `client` | `TypeOK`, `TunnelBeforeHttp`, `ExitTruthUnlessHostless`, `AddressesInOrder`; liveness: `ExitsOnceLost` | both programs, every kind of URL, five results of the resolver with up to three addresses, IPv6 first, between, last or only |
| `session` | `RelayAligned`, `VerdictDelivered`; refinement: `ImplementsTunnel`; liveness: `SessionSettles` | both modes, three targets, with short credentials or none, two bound addresses, the target speaks once, resets and closes at any time |

The bounds suffice because the code branches on a handful of bytes (version, code,
address type, length) and on the sizes 2, 8, 10, 22 of a read; the answers contain
each branch and sizes on both sides of it. A second burst of application data would
change nothing, since an operation reads at most 22 bytes of a reply. In the relay a
direction has one buffer and no memory beyond it, so two bytes one way and one back
show every order of reads, writes, short writes and failures of the two loops; a third
byte only repeats a round. Two connections and the pending accept show whatever one
connection can do to another, since they share nothing but the thread. In `session`
full-length credentials are left out: 513 bytes can be cut in too many ways on two ends.
The proofs about `Session` cover credentials and names of every length.

Runs that show a disagreement between the code and what the repository says of it:

| run | property | the code |
|---|---|---|
| `connect_early_data` | `ReplyReported` | an IPv4 reply that arrives together with application data is over-read, and a granted connect fails |
| `wire_password_length` | `PasswordLength` | `PWLEN` is the length of the user name |
| `server_userpass_hang` | `HandshakeEnds` | the server waits for 513 bytes of user name and password |
| `server_unanswered` | `RequestAnswered` | a failed resolution is not answered; the server ends with an exception |
| `relay_loss` | `RelayFaithful` | a write that takes only part of the buffer loses the rest |

The passing runs say how far these reach. `ReplyReportedAlone`, `AnsweredCompletes`,
`VerdictDelivered` and `SessionSettles` claim nothing once the target has spoken before
the client (with three bytes of application data the client waits for nine more);
`wire` uses credentials of equal length; `HandshakeEndsUnlessShort` and
`SessionSettles` name the wait for 513 bytes as their only exception, and
`FaithfulUnlessShort` the short write as its.

Three more are written into a passing property as its only exception.
`TransportErrorKept`: `connect_op` validates the reply to the credentials even if the
read failed (`connect.hpp:388`), and `bad_reply_size` replaces the error; the
synchronous `authenticate` does not. `RequestUnderstoodUnlessSplit`: a SOCKS4 request
whose first segment is one byte is rejected (`socks_server_async.cpp:102`), because
`start` looks for `CMD` then. `ExitTruthUnlessHostless`: for a target URL without a host
`do_socks_connect` of the asynchronous client starts nothing and records no error, so
`main` returns success with no page asked for (`NothingStarted`).

Met on the way and not turned into a run:

- the bound address of a SOCKS4 reply is read one byte early (`connect_v4.ipp:91`), so
  that the address `connect_v4` returns, "server bound address and port"
  (`connect_v4.hpp:87`), begins with the low byte of the port; `parse_reply_v4` of the
  model does the same, and `VerdictV4Interop` compares the port only;
- the length of a domain name is cut to a byte without a check (`connect.ipp:168`);
- the server's view of the password begins at `PWLEN` (`socks_server_async.cpp:307`);
- the comment at `connect.ipp:226` allows version 0 in a SOCKS5 reply, the code does
  not; `socks_server_async.cpp:99` speaks of 250 characters where 249 and the
  terminator fit;
- when one side of a relay ends the other is not told: the connection stays half open
  until it ends too or a write fails, and for as long as a side that does not read
  lives if a write to it is pending (the exceptions in `Released`);
- a client that resets its connection before the accept handler runs ends the whole
  server, since `remote_endpoint()` throws (`socks_server_async.cpp:72`);
- for a target URL without a host the synchronous client sends its HTTP request to the
  SOCKS server without any handshake (`do_socks_connect` in `SocksClient`; the exception
  in `TunnelBeforeHttp`);
- a server that closes the connection without an answer is a success to both clients,
  and `ExitTruthUnlessHostless` counts it as one;
- the synchronous client tries the next address on the socket of a refused SOCKS4
  request, which the server has closed (`connect.qbk:183`): the later tries fail, and
  their error hides the refusal; `AddressesInOrder` states that the last error is the
  one reported;
- the default port of `https` is 445 (`default_port`), and the asynchronous client
  requests the host where the synchronous one requests the path.

**Fairness.** `WF_vars(Operation)`: a blocking call returns when the stream has
something for it, and an `io_context` that is run calls a handler that is ready.
Nothing is assumed of the peer, hence `AnsweredCompletes` starts from a complete
answer and `ConnectService`'s promise from a lost connection. In `SocksServer` the client is fair
too (it sends what it has to say), and the resolver and the target's TCP answer
one way or the other, as their time limits guarantee. `RelayServer` assumes weak
fairness of the accept handler and, for each direction of each connection, of its
handlers: the `io_context` runs ready handlers in turn. Nothing is assumed of clients,
targets or signals, or of the end of a handshake. In `SocksClient` the resolver and the
connection to the proxy come to an end by themselves; the SOCKS operation and the HTTP
read are only assumed to end when the connection is lost. In `Session` both programs
run, and an application closes the socket of a connect that failed, as both clients do.

## Proofs

Seven modules of theorems, and `WireProofs` with lemmas they share, checked with
`tlapm <module>.tla`. A theorem holds for every value of the constants that satisfies the
assumption of its module, and the run beside it evaluates that assumption on its
instance. Every one has the form `Spec => []P`; the refinements are
`Spec => Service!Safety` and `Spec => ImplementsTunnel`.

| module, assumption | theorem | states |
|---|---|---|
| `SocksConnectProofs`, `ConnectAssumption` | `TypeCorrect` | `TypeOK` |
| | `SuccessGenuine` | `SuccessIsGenuine` |
| | `DialogueLegal` | `NegotiationRespected` |
| | `NoStrayError` | `NoStrayTransportError` |
| | `StageKept` | `StageInv` |
| | `ErrorKept` | `TransportErrorKept` |
| | `VerdictReported` | `ReplyReportedAlone` |
| | `RefinesService` | the safety part of `ConnectService` |
| `SocksConnectV4Proofs`, `ConnectV4Assumption` | `TypeCorrectV4`, `SuccessGenuineV4`, `VerdictReportedV4`, `ErrorKeptV4` | `TypeOK`, `SuccessIsGenuineV4`, `ReplyReportedV4`, `TransportErrorKeptV4` |
| | `RefinesServiceV4` | the safety part of `ConnectService` |
| `WireExchangeProofs`, `WireAssumption` | `RequestsUnderstood`, `RepliesUnderstood`, `VerdictsV4Understood` | `RequestInterop`, `ReplyInterop`, `VerdictV4Interop` |
| | `NegotiationUnderstood` | `NegotiationInterop`, if no password is shorter than its user name |
| | `MessagesFitAlways` | `MessagesFit` |
| `SocksServerProofs`, `ServerAssumption` | `TypeCorrectServer`, `GrantGenuine`, `AuthenticationFirst` | `TypeOK`, `GrantIsGenuine`, `NothingBeforeAuthentication` |
| | `RequestTaken` | `RequestUnderstoodUnlessSplit`, if every client sends one message a turn (`OneMessagePerTurn`) |
| `RelayServerProofs`, `RelayAssumption` | `TypeCorrectRelay`, `RelayOrdered`, `RelayComplete` | `TypeOK`, `RelayInOrder`, `FaithfulUnlessShort` |
| `SocksClientProofs`, `ClientAssumption` | `TypeCorrectClient`, `TunnelFirst`, `ExitTruthful`, `AddressesOrdered` | `TypeOK`, `TunnelBeforeHttp`, `ExitTruthUnlessHostless`, `AddressesInOrder` |
| `SessionProofs`, `SessionAssumption` | `RelayStartsAligned`, `VerdictReachesApplication` | `RelayAligned`, `VerdictDelivered` |
| | `SessionIsATunnel` | `ImplementsTunnel`: all of `Tunnel!Spec` |

The assumptions say that the constants have their types, and little more. An answer
of a peer, the messages of a client and the data of an application are any sequences
of bytes; the numbers of clients, of bytes and of resolved addresses are any numbers.
`ClientAssumption` adds that a resolver that succeeds returns an address.
`WireAssumption` and `SessionAssumption` bound credentials and names to 255 bytes: the
first is asserted by `prepare_userpass_request`, the second is the limit of DNS and of the
one-byte length, which the code does not check. `SessionAssumption` allows any set of
bound addresses and any bytes as the target's first words.

**SOCKS5 connect.** None of the safety properties is inductive: that success was genuine
depends on what the bytes before the reply were, and the step that reports it sees only
the reply. `StageInv` supplies the rest. For each stage it fixes the offset into the
peer's bytes (0, 2 or 4, plus the read in progress), says that the read in progress is
not yet full, counts the messages written, and remembers the outcome of the negotiation
as a statement about the first 2 or 4 bytes of `down`. `ConnectInv` is the conjunction
with the properties. Its proof has one lemma per action (`WriteGreetingInv`,
`ReadChoiceInv`, `ReadReplyInv`, ...), resting on lemmas about the operators:
`ParseFacts` (what `parse_reply_v5` accepts), `ChoiceFacts`, `UserpassFacts`,
`TurnFacts` (where a read loop may end), `BufferFacts` and `BufferSubSeq` (the buffer is
a window on `down`), and `KeepsNegotiated` (what was read stays read).

What is *reported* needs a second invariant, `OutcomeInv`, on top: a reply is reported
for what it says only if the bytes read are those of the reply. `AccountInv` says that
while the target is silent and every earlier answer had two bytes, `down` ends with the
last answer, and that an operation that ended with its reply outstanding has seen the end
of the stream, so that no reply can come later and be missed.

**SOCKS4 connect.** `ConnectV4Inv` is the small sibling of both: one stage that reads,
and `AnswerInv`, by which `down` begins with the only answer.

**Refinement.** `RefinesService` and `RefinesServiceV4` map every action: the write of the
request is `Ask`, an answer of the peer that makes the bytes a granting reply is `Grant`, a
fault is `Lose`, the step that completes is `Succeed` or `Fail`, and the others stutter.
That `granted` is never withdrawn needs that `down` only grows; that a success maps to
`Succeed` needs `ConnectInv`, since the grant the service sees is in bytes sent, and the
one the operation sees in bytes read. Both prove `ConnectService!Safety`; the liveness
conjunct of `ConnectService!Spec` is checked by TLC (`ImplementsService`,
`ImplementsServiceV4`).

**Messages.** `WireInv` says that the bytes are the encoding of the input and the output
their decoding; each theorem is then that decoder and encoder fit. The lemmas give the
position of every part of a message (`Framed`, `RequestLayout`, `UserpassLayout`),
whatever the lengths of its parts, and take ports and lengths through their bytes and
back (`PortRoundTrip`, `ByteOfLength`). The hypothesis of `NegotiationUnderstood` is
what `wire_password_length` shows to be missing in the code: `PWLEN` holds the length of
the user name, and the bytes behind a shorter password do not fill it.

**Server.** `GrantIsGenuine` is about the reply that was written; whom the server connects
for was decided several handlers before, from bytes that are no longer in the buffer.
`ServerInv` carries it along: for each pending operation, how much of the client's bytes
is behind it (`GreetingEnd`, `RequestBegin`), what was written, and that `target` is what
the request in those bytes names (`TargetRequested`). The property speaks of the bytes
the server has read (`RequestRead`), for any client at all. Its SOCKS4 clause has two
cases because a request without a NUL ends where `buffer_` is full, at 258 bytes.

`RequestUnderstoodUnlessSplit` compares with what the client *sent*, read or not. It is
false of a client that puts a request behind a greeting the server refuses, or behind 513
bytes of credentials it does not accept: that request is never looked at.
`RequestTaken` therefore has a hypothesis about the clients, `OneMessagePerTurn`: no
message is empty, nothing follows a greeting in it, and what answers an offer of user name
and password is no longer than the longest such message. Incomplete and malformed
messages remain allowed, and `MCServer` assumes it of the clients of the runs. `HeardInv`,
inductive together with `ServerInv`, says that what the server has of the client before
the request are whole messages (`FirstSaid`), and that every operation behind the request
works for the target that was meant (`Understood`). The lemma under it is
`WholeRequest`: of a request that `parse_socks_connect` would accept, the completion
condition of `do_read_connect_request` ends the read at its last byte and at no other.
`RequestV4Taken` says the same of `start`, up to its first byte.

**Relay.** `FaithfulUnlessShort` and `RelayInOrder` relate what came out to what went in
and leave out the buffer between. `PipeInv` adds it: while a write is pending the buffer
holds the last bytes taken, what was written came before them in order, and if no write
was short it is all of what came before. `AcceptInv` keeps the loops of a connection
still until its handshake is over.

**Clients.** `AddressesInOrder` says what was asked for when the client gives up, so the
invariant has to say it at every turn of the loop: `OrderInv` (all IPv4 addresses up to
the position of the loop were asked for, in order) and `LoopInv` (the error code is that
of the last operation, or tells that there was none). `OperationInv` and `PageInv` do the
same for the tunnel and the page, on top of what `ConnectService` promises;
`TerminateInv` is the step common to the two places where an exception may end the
process.

**Session.** Whether the client's success is the server's depends on a `target` stage the
server passed several messages earlier, and on bytes that crossed both streams since; none
of the properties is inductive, and neither end's own invariant mentions the other.
`SessionInv` conjoins the two ends with the equations between them:

- `UpInv`, `DownInv`: what one end has written is what the other can read, message by
  message, each at its offset, and no more (but the target's words behind a grant);
- `TurnInv`: the two ends take turns, so that a read never begins before, or ends in,
  another message than the one it is for;
- `ClientInv`, `ServerInv`: how far each end has read at each of its stages;
- `TargetInv`: whom the server connects for is the target of the client;
- `LinkInv`: which end has closed or lost the connection, and what the other sees of it;
- `DoneInv`: what the application was told.

The steps of the two ends are reached through `INSTANCE`, where lemmas about
`SocksConnect` and `SocksServer` are opaque names. Those about parsers and encoders are in
`WireProofs`, which `SessionProofs` extends too; for the rest, bridge lemmas (`ClientCodes`,
`ServerCodes`, `ServerParsers`, ...) restate what the instances define, and the handlers
are reduced to a few kinds of move (`ClientMoves`, `ServerMoves`) before the invariant is
shown for each.
`SessionIsATunnel` follows from `SessionInv` step by step: the connection to the target is
the tunnel's, the application's completion is its report, everything else stutters.
`Tunnel!Spec` has no fairness, so all of it is proved.

Only model-checked:

- liveness (`AnsweredCompletes`, `TerminatesV4`, `HandshakeEndsUnlessShort`,
  `ClientServed`, `Delivered`, `Released`, `ExitsOnceLost`, `SessionSettles`) and the
  liveness part of `ImplementsService` and `ImplementsServiceV4`, since the prover has
  neither fairness nor `ENABLED`.

Statements that need induction over data, and `RECURSIVE` operators, are out of the
prover's reach; no module needs either.

## Not modelled

- texts, console output, allocators, completion tokens, executors, command lines, the
  grammar of URLs, ports and HTTP texts in the example clients: no state of the
  protocol;
- writes past a buffer (a name of more than 506 bytes) and the lifetime of the
  caller's strings in `auth_options`: undefined behaviour without an outcome to
  state; the constants of the instances stay within the buffer;
- bytes that an earlier message left in a buffer: a read returns the bytes it read, and
  the validators, like those of the source, look at no more than their count;
- domain names of more than 255 bytes, and the address (not the port) of a SOCKS4 reply,
  which the code reads at the wrong offset;
- in the environment: a peer that resets, or an owner that closes, a connection after the
  peer's shutdown; a side of a relay that has shut its half down and then stops reading,
  or that stops and resumes; failures of accept that are not a client's reset (no
  descriptors left), and more than one client waiting to be accepted at a time;
- `connect_v4` with an IPv6 endpoint, which the documentation excludes;
- a SOCKS4 client and the server as one composition: one message each way, both
  directions of which are in `wire`;
- aliases, export macros and include files: no behaviour.

## What is left to prove

Every invariant that a passing run checks is also a theorem. What is left are the liveness
properties above, which stay with TLC.
