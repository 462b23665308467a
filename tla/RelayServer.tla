---------------------------- MODULE RelayServer ----------------------------
(***************************************************************************)
(* The example server as a whole: main, the acceptor (class socks_server)  *)
(* and the relay of every connection (do_relay of class socks_connection)  *)
(* in example/server/async/socks_server_async.cpp.  One thread runs the    *)
(* handlers; an action is one handler.                                     *)
(*                                                                         *)
(* The handshake of a connection is SocksServer's; here it is one step     *)
(* with its three outcomes.  A connection is kept alive by its pending     *)
(* handlers: the relay has two loops, and the sockets are closed when both *)
(* have stopped.  An exception in any handler leaves io_context::run and   *)
(* ends main, and so does a signal.                                        *)
(*                                                                         *)
(* The i-th byte a side sends is the number i.                             *)
(***************************************************************************)
EXTENDS Naturals, Sequences, SequencesExt

CONSTANTS
    MaxClients,     \* how many clients connect
    Quota           \* [pipe -> how many bytes its source sends at most]

\* Connections in the order they are created; a further one always waits in
\* async_accept.  A pipe is a connection and the side that sends.
Conns == 1..(MaxClients + 1)
Sides == {"client", "target"}
Pipes == Conns \X Sides

ASSUME RelayAssumption == MaxClients \in Nat /\ Quota \in [Pipes -> Nat]

VARIABLES
    server,     \* "running", "stopped" by a signal, "terminated" by a throw
    accepting,  \* the connection do_accept has passed to async_accept
    phase,      \* "none", "accepting", "handshake", "relay" or "closed"
    peer,       \* the side of a connection, as its socket sees it
    sent,       \* how many bytes a side has sent
    taken,      \* how many of them the server has read
    loop,       \* the pending operation of a relay loop
    buf,        \* buffer_ (from the client), target_buffer_ (from the target)
    got,        \* the bytes written to the other side
    short       \* a write_some took less than the buffer

relay_vars == <<taken, loop, buf, got, short>>
vars == <<server, accepting, phase, peer, sent, relay_vars>>

Other(p) == <<p[1], IF p[2] = "client" THEN "target" ELSE "client">>

\* A side that is "stalled" is connected, but has stopped reading.
TypeOK ==
    /\ server \in {"running", "stopped", "terminated"}
    /\ accepting \in Conns
    /\ phase \in [Conns -> {"none", "accepting", "handshake", "relay", "closed"}]
    /\ peer \in [Pipes -> {"absent", "up", "stalled", "shut", "reset"}]
    /\ sent \in [Pipes -> Nat] /\ taken \in [Pipes -> Nat]
    /\ loop \in [Pipes -> {"none", "read", "write", "stopped"}]
    /\ buf \in [Pipes -> Seq(Nat)] /\ got \in [Pipes -> Seq(Nat)]
    /\ short \in [Pipes -> BOOLEAN]
    /\ \A p \in Pipes :
        /\ sent[p] <= Quota[p]
        /\ taken[p] <= sent[p]
        /\ buf[p] \in Seq(1..taken[p])
        /\ got[p] \in Seq(1..taken[p])

\* main: the constructor of socks_server starts the first do_accept.
Init ==
    /\ server = "running"
    /\ accepting = 1
    /\ phase = [c \in Conns |-> IF c = 1 THEN "accepting" ELSE "none"]
    /\ peer = [p \in Pipes |-> "absent"]
    /\ sent = [p \in Pipes |-> 0] /\ taken = [p \in Pipes |-> 0]
    /\ loop = [p \in Pipes |-> "none"]
    /\ buf = [p \in Pipes |-> <<>>] /\ got = [p \in Pipes |-> <<>>]
    /\ short = [p \in Pipes |-> FALSE]

(***************************************************************************)
(* The acceptor.                                                           *)
(***************************************************************************)
client(c) == <<c, "client">>

\* Mutant: the next accept is only started behind an accepted client.
do_accept_if_started(next_phase) ==
    /\ accepting' = accepting + 1
    /\ phase' = [phase EXCEPT ![accepting] = next_phase,
                              ![accepting + 1] = IF next_phase = "handshake"
                                                 THEN "accepting" ELSE @]

\* The handler of async_accept ends with do_accept: a new connection waits,
\* and the one that waited goes on to next_phase.
do_accept(next_phase) ==
    /\ accepting' = accepting + 1
    /\ phase' = [phase EXCEPT ![accepting] = next_phase,
                              ![accepting + 1] = "accepting"]

\* start prints remote_endpoint(), which throws if the client, accepted, has
\* reset the connection before the handler ran.
Accept ==
    /\ phase[accepting] = "accepting" /\ peer[client(accepting)] # "absent"
    /\ IF peer[client(accepting)] = "reset"
       THEN server' = "terminated" /\ UNCHANGED <<accepting, phase>>
       ELSE do_accept("handshake") /\ UNCHANGED server
    /\ UNCHANGED <<peer, sent, relay_vars>>

\* A client that left the backlog may also be reported as an error of the
\* accept: the connection that waited for it is dropped.
AcceptFails ==
    /\ phase[accepting] = "accepting" /\ peer[client(accepting)] = "reset"
    /\ do_accept("closed")
    /\ UNCHANGED <<server, peer, sent, relay_vars>>

(***************************************************************************)
(* The handshake, by its outcomes: SocksServer at pc = "relay", at "ended",*)
(* and terminated by local_endpoint().                                     *)
(***************************************************************************)
\* do_relay: both loops begin to read.
do_relay(c) ==
    /\ phase[c] = "handshake"
    /\ phase' = [phase EXCEPT ![c] = "relay"]
    /\ peer' = [peer EXCEPT ![<<c, "target">>] = "up"]
    /\ loop' = [p \in Pipes |-> IF p[1] = c THEN "read" ELSE loop[p]]
    /\ UNCHANGED <<server, accepting, sent, taken, buf, got, short>>

HandshakeEnds(c) ==
    /\ phase[c] = "handshake"
    /\ phase' = [phase EXCEPT ![c] = "closed"]
    /\ UNCHANGED <<server, accepting, peer, sent, relay_vars>>

HandshakeThrows(c) ==
    /\ phase[c] = "handshake"
    /\ server' = "terminated"
    /\ UNCHANGED <<accepting, phase, peer, sent, relay_vars>>

(***************************************************************************)
(* The relay.  Both loops are the same code on other sockets and buffers.  *)
(***************************************************************************)
\* Mutant: a loop that stops takes the connection with it.
after_stop_closed(p) == "closed"

\* fail(): the loop starts nothing more.  When the other one has stopped too
\* the connection is destroyed.
after_stop(p) == IF loop[Other(p)] = "stopped" THEN "closed" ELSE "relay"

Stop(p) ==
    /\ loop' = [loop EXCEPT ![p] = "stopped"]
    /\ phase' = [phase EXCEPT ![p[1]] = after_stop(p)]
    /\ UNCHANGED <<server, accepting, peer, sent, taken, buf, got, short>>

\* Mutant: the buffer is not resized, old zeros follow the bytes read.
chunk_unresized(p, n) == [i \in 1..n |-> taken[p] + i] \o <<0>>

\* Mutant: the buffer is resized to one byte less than was read.
chunk_short(p, n) == [i \in 1..(n - 1) |-> taken[p] + i]

\* buffer_.resize(n): the n bytes read.
chunk(p, n) == [i \in 1..n |-> taken[p] + i]

\* do_relay_from_client and do_relay_from_target: the read_some has
\* completed with n bytes (of at most 1024), and the write is started ...
RelayFrom(p) ==
    /\ phase[p[1]] = "relay" /\ loop[p] = "read"
    /\ \E n \in 1..(sent[p] - taken[p]) :
        /\ buf' = [buf EXCEPT ![p] = chunk(p, n)]
        /\ taken' = [taken EXCEPT ![p] = @ + n]
    /\ loop' = [loop EXCEPT ![p] = "write"]
    /\ UNCHANGED <<server, accepting, phase, peer, sent, got, short>>

\* Mutant: the end of file is no reason to stop.
read_ended_deaf(p) == peer[p] = "reset"

\* The end of file, once everything was read, or a reset.
read_ended(p) ==
    peer[p] = "reset" \/ (peer[p] = "shut" /\ sent[p] = taken[p])

\* ... or with an error.
RelayFromFails(p) ==
    /\ phase[p[1]] = "relay" /\ loop[p] = "read"
    /\ read_ended(p)
    /\ Stop(p)

\* Mutant: after a short write the buffer is written again from its start.
after_write_again(p, k) == IF k < Len(buf[p]) THEN "write" ELSE "read"

\* The handler of a write ignores how much was written and reads again.
after_write(p, k) == "read"

\* do_relay_to_target and do_relay_to_client: write_some takes k bytes of
\* the buffer, as many as the socket has room for.
RelayTo(p) ==
    /\ phase[p[1]] = "relay" /\ loop[p] = "write"
    /\ peer[Other(p)] \in {"up", "shut"}
    /\ \E k \in 1..Len(buf[p]) :
        /\ got' = [got EXCEPT ![p] = @ \o SubSeq(buf[p], 1, k)]
        /\ short' = [short EXCEPT ![p] = @ \/ k < Len(buf[p])]
        /\ loop' = [loop EXCEPT ![p] = after_write(p, k)]
    /\ UNCHANGED <<server, accepting, phase, peer, sent, taken, buf>>

RelayToFails(p) ==
    /\ phase[p[1]] = "relay" /\ loop[p] = "write"
    /\ peer[Other(p)] \in {"shut", "reset"}
    /\ Stop(p)

(***************************************************************************)
(* Clients, targets and signals.                                           *)
(***************************************************************************)
\* A client connects to the listening socket, whose backlog holds it until
\* it is accepted.
ClientConnects ==
    /\ accepting <= MaxClients
    /\ peer[client(accepting)] = "absent"
    /\ peer' = [peer EXCEPT ![client(accepting)] = "up"]
    /\ UNCHANGED <<server, accepting, phase, sent, relay_vars>>

SideSends(p) ==
    /\ peer[p] \in {"up", "stalled"} /\ phase[p[1]] = "relay"
    /\ sent[p] < Quota[p]
    /\ sent' = [sent EXCEPT ![p] = @ + 1]
    /\ UNCHANGED <<server, accepting, phase, peer, relay_vars>>

\* A side stops reading, shuts its half of the connection down, or is gone.
SideBecomes(p, l) ==
    /\ peer[p] \in {"up", "stalled"} /\ l # peer[p]
    /\ phase[p[1]] # "closed"
    /\ peer' = [peer EXCEPT ![p] = l]
    /\ UNCHANGED <<server, accepting, phase, sent, relay_vars>>

\* SIGINT or SIGTERM: io_context::stop, and main returns.
Signal ==
    /\ server' = "stopped"
    /\ UNCHANGED <<accepting, phase, peer, sent, relay_vars>>

Handler ==
    \/ Accept
    \/ AcceptFails
    \/ \E c \in Conns : do_relay(c) \/ HandshakeEnds(c) \/ HandshakeThrows(c)
    \/ \E p \in Pipes : RelayFrom(p) \/ RelayFromFails(p)
                          \/ RelayTo(p) \/ RelayToFails(p)

Outside ==
    \/ ClientConnects
    \/ \E p \in Pipes : SideSends(p)
    \/ \E p \in Pipes, l \in {"stalled", "shut", "reset"} : SideBecomes(p, l)
    \/ Signal

Next == server = "running" /\ (Handler \/ Outside)

\* The io_context calls every handler that is ready, in the order in which
\* they became ready: none is passed over for ever.
Fairness ==
    /\ WF_vars(server = "running" /\ (Accept \/ AcceptFails))
    /\ \A p \in Pipes :
         WF_vars(server = "running"
                   /\ (RelayFrom(p) \/ RelayFromFails(p)
                         \/ RelayTo(p) \/ RelayToFails(p)))

Spec == Init /\ [][Next]_vars /\ Fairness

(***************************************************************************)
(* Properties.                                                             *)
(***************************************************************************)
\* Whatever is written, short writes included, nothing is written twice, out
\* of order, or on the wrong side of the relay: a direction has one buffer,
\* which is not touched between the read that fills it and the write.
RelayInOrder ==
    \A p \in Pipes :
        /\ \A i, j \in DOMAIN got[p] : i < j => got[p][i] < got[p][j]
        /\ got[p] # <<>> => Last(got[p]) <= taken[p]

\* What a side receives is what the other has sent, without a gap, and
\* nothing is kept back once the write is over.
Faithful(p) ==
    LET all == [i \in 1..taken[p] |-> i]
    IN  IsPrefix(got[p], all) /\ (loop[p] = "read" => got[p] = all)

\* "Relay anything from client to target and vice-versa" (do_relay).
RelayFaithful == \A p \in Pipes : Faithful(p)

\* The same of a direction in which no write was short: bytes are lost there
\* and nowhere else, whatever ends the connection.
FaithfulUnlessShort == \A p \in Pipes : short[p] \/ Faithful(p)

\* A client in the backlog is accepted, however many connections are busy,
\* stuck or failed before it, as long as the server runs and it stays.
ClientServed ==
    \A c \in 1..MaxClients :
        (peer[client(c)] = "up" /\ phase[c] \in {"none", "accepting"})
            ~> (phase[c] \notin {"none", "accepting"}
                  \/ peer[client(c)] # "up" \/ server # "running")

\* The directions of a relay, and the connections, do not wait for each
\* other: a byte sent to a side that reads arrives, even if the way back is
\* blocked by a side that does not read or has failed; only a short write,
\* or the loss of one of the two sides, can prevent it.
Delivered ==
    \A p \in Pipes : \A k \in 1..Quota[p] :
        (phase[p[1]] = "relay" /\ sent[p] = k)
            ~> (\/ got[p] # <<>> /\ Last(got[p]) >= k
                \/ short[p] \/ peer[Other(p)] # "up" \/ peer[p] = "reset"
                \/ server # "running")

Ended(p) == peer[p] \in {"shut", "reset"}

\* A connection is released: when both sides have ended, and also when one
\* is gone and the other still sends, since the write to it fails.  Only a
\* side that does not read keeps it then: the loop that writes to it has a
\* write pending, and nothing cancels it.
Released ==
    \A c \in 1..MaxClients :
        (/\ phase[c] = "relay"
         /\ \E p \in {<<c, s>> : s \in Sides} :
              /\ Ended(p)
              /\ \/ Ended(Other(p))
                 \/ peer[p] = "reset" /\ sent[Other(p)] > taken[Other(p)])
            ~> (phase[c] = "closed" \/ server # "running"
                  \/ \E s \in Sides : peer[<<c, s>>] = "stalled")
=============================================================================
