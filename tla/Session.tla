------------------------------ MODULE Session ------------------------------
(***************************************************************************)
(* A connect operation of the library (SocksConnect) and a connection of   *)
(* the example server (SocksServer) on the two ends of one TCP connection, *)
(* and behind the server the target.  The bytes one side writes are the    *)
(* bytes the other reads, in segments of any size; when one side closes    *)
(* its socket the other sees the end of the stream, or a reset if it had   *)
(* left bytes unread.  The network may reset the connection.               *)
(*                                                                         *)
(* Variables without a prefix are the client's, as in SocksConnect; the    *)
(* ones with s_ are the server's, as in SocksServer.  Once s_pc = "relay"  *)
(* the server passes on what the target says.                              *)
(***************************************************************************)
EXTENDS TcpStream, ServerWire, SequencesExt

CONSTANTS
    Modes, Opts, Targets,   \* the calls an application may make
    AppData, MaxApp,        \* what the target may say, and how often
    Bounds                  \* endpoints the server's socket may be bound to

ASSUME SessionAssumption ==
    /\ Modes \subseteq {"sync", "async"}
    /\ \A o \in Opts : o \in Credentials
    /\ \A t \in Targets : t \in Target
    /\ \A d \in AppData : d \in Seq(Byte)
    /\ MaxApp \in Nat
    /\ \A b \in Bounds : b \in Endpoint

VARIABLES
    mode, opt, target, pc, up, ec, ep, answers, app

VARIABLES
    s_down, s_pos, s_n, s_link, s_stream_ec,
    s_pc, s_choice, s_target, s_tsock, s_message, s_out, s_server

C == INSTANCE SocksConnect WITH
    Answers <- [k \in {"greeting", "userpass", "request"} |-> {}]

S == INSTANCE SocksServer WITH
    Clients <- {<<>>}, script <- <<>>,
    down <- s_down, pos <- s_pos, n <- s_n, link <- s_link,
    stream_ec <- s_stream_ec, pc <- s_pc, choice <- s_choice,
    target <- s_target, tsock <- s_tsock, message <- s_message,
    out <- s_out, server <- s_server

c_vars == <<mode, opt, target, pc, up, ec, ep, answers, app,
            down, pos, n, link, stream_ec>>
s_own == <<s_pos, s_n, s_stream_ec, s_pc, s_choice, s_target, s_tsock,
           s_message, s_out, s_server>>
vars == <<c_vars, s_own, s_down, s_link>>

Init == C!Init /\ S!Init

(***************************************************************************)
(* The connection.                                                         *)
(***************************************************************************)
\* Bytes written on one side arrive unless the connection is gone; what was
\* there remains.
Arrives(there, l, bytes) == IF l = "up" THEN there \o bytes ELSE there

\* What the other side sees of a socket that is closed.
AfterClose(unread) == IF unread THEN "reset" ELSE "shut"

\* A step of the operation; what it writes is for the server to read.
ClientStep ==
    /\ C!Operation
    /\ s_down' = IF Len(up') > Len(up)
                 THEN Arrives(s_down, s_link, Last(up').bytes) ELSE s_down
    /\ UNCHANGED <<s_own, s_link>>

\* The application gives up during an asynchronous operation ...
ClientGivesUp ==
    /\ C!ApplicationCloses
    /\ s_link' = IF s_link = "up" THEN AfterClose(pos < Len(down)) ELSE s_link
    /\ UNCHANGED <<s_own, s_down>>

\* ... or closes the socket after it was told that the operation failed.
ClientCloses ==
    /\ pc = "done" /\ failed(ec) /\ s_link = "up"
    /\ s_link' = AfterClose(pos < Len(down))
    /\ UNCHANGED <<c_vars, s_own, s_down>>

\* A handler of the server.  If it ends the connection the sockets are
\* closed behind what was written.
ServerStep ==
    /\ S!Connection
    /\ down' = IF Len(s_out') > Len(s_out)
               THEN Arrives(down, link, Last(s_out')) ELSE down
    /\ link' = IF s_pc' = "ended" /\ link = "up"
               THEN AfterClose(s_pos' < Len(s_down)) ELSE link
    /\ UNCHANGED <<mode, opt, target, pc, up, ec, ep, answers, app,
                   pos, n, stream_ec>>

\* The target speaks, and do_relay passes it on.
TargetSpeaks ==
    /\ s_pc = "relay" /\ link = "up" /\ app < MaxApp
    /\ app' = app + 1
    /\ \E d \in AppData : down' = down \o d
    /\ UNCHANGED <<mode, opt, target, pc, up, ec, ep, answers,
                   pos, n, link, stream_ec, s_own, s_down, s_link>>

NetworkResets ==
    /\ link = "up" /\ s_link = "up"
    /\ link' = "reset" /\ s_link' = "reset"
    /\ UNCHANGED <<mode, opt, target, pc, up, ec, ep, answers, app,
                   down, pos, n, stream_ec, s_own, s_down>>

Next ==
    \/ ClientStep
    \/ ClientGivesUp
    \/ ClientCloses
    \/ ServerStep
    \/ TargetSpeaks
    \/ NetworkResets

\* Both programs run, the resolver and the target of the server answer in
\* the end, and an application closes the socket of a connect that failed.
Fairness ==
    /\ WF_vars(ClientStep)
    /\ WF_vars(ServerStep)
    /\ WF_vars(ClientCloses)

Spec == Init /\ [][Next]_vars /\ Fairness

(***************************************************************************)
(* Properties.                                                             *)
(***************************************************************************)
NoTarget == [kind |-> "none"]

Joined == INSTANCE Tunnel WITH
    Asked <- Targets, None <- NoTarget,
    asked <- target,
    joined <- IF s_tsock = "connected" THEN s_target ELSE NoTarget,
    told <- CASE pc # "done" -> "waiting"
              [] pc = "done" /\ failed(ec) -> "failure"
              [] OTHER -> "success"

\* Library and server together are a Tunnel: the application is told of a
\* success only if the server has connected to the very target it asked
\* for, through two encoders, two parsers, every segmentation and every
\* order in which the two sides close or lose the connection.
ImplementsTunnel == Joined!Spec

\* The length of the messages in a sequence of at most three of them.
Total(messages) ==
    LET size(i) == IF i \in DOMAIN messages THEN Len(messages[i]) ELSE 0
    IN  size(1) + size(2) + size(3)

\* When the relay begins the server has read the handshake of the client to
\* its last byte, and a client that is told of a success has read the
\* handshake of the server and no byte of the target: what either says next
\* reaches the other side whole.  Neither handshake has more than three
\* messages.
RelayAligned ==
    /\ Len(up) <= 3 /\ Len(s_out) <= 3
    /\ s_pc = "relay" => s_pos = Total([i \in DOMAIN up |-> up[i].bytes])
    /\ pc = "done" /\ ~failed(ec) => pos = Total(s_out)

\* The server has answered the request, and said how.
Verdict == Last(s_out)[2]
Replied == s_out # <<>> /\ Len(Last(s_out)) > 2

\* The application is told the server's verdict, be it a grant or a
\* refusal behind which the server closes the connection, unless the
\* connection was lost or the target spoke too early.
VerdictDelivered ==
    pc = "done" /\ Replied /\ app = 0 /\ link \in {"up", "shut"}
        => ec = socks(Verdict)

\* Both sides wait: the server for the rest of a user name and password
\* message that is as long as it will get, the client for the answer to it.
BothWait ==
    /\ pc = "read_userpass" /\ s_pc = "read_userpass"
    /\ Len(opt.user) + Len(opt.pass) < 510

\* Neither side waits for the other for ever, and an application that gives
\* up does not leave the server waiting: the operation completes and the
\* server relays or ends, except that both wait if the credentials do
\* not fill the server's buffer, or the target spoke before the operation
\* was done.
SessionSettles ==
    \/ <>((pc = "done" /\ s_pc \in {"relay", "ended"}) \/ app > 0)
    \/ <>[]BothWait
=============================================================================
