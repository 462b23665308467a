--------------------------- MODULE SocksConnectV4 ---------------------------
(***************************************************************************)
(* One SOCKS4 connect operation on one stream                              *)
(* (include/boost/socks/impl/connect_v4.hpp): the function connect_v4 and  *)
(* the coroutine connect_v4_op of async_connect_v4.  There is one message  *)
(* in each direction, and the reply always has eight bytes.                *)
(*                                                                         *)
(* The environment is that of SocksConnect: a peer that answers once, with *)
(* any message of Answers, a target that may speak once the request is     *)
(* granted, and a connection that may be lost at any time.                 *)
(***************************************************************************)
EXTENDS TcpStream

CONSTANTS Modes, Targets, Users, Answers, AppData, MaxApp

ASSUME ConnectV4Assumption ==
    /\ Modes \subseteq {"sync", "async"}
    /\ Targets \subseteq [kind : {"v4"}, addr : Seq(Byte), port : Port]
    /\ Users \subseteq Seq(Byte)
    /\ Answers \subseteq Seq(Byte)
    /\ AppData \subseteq Seq(Byte)
    /\ MaxApp \in Nat

VARIABLES
    mode,       \* "sync" or "async"
    request,    \* the request in the buffer
    pc,         \* "write_request", "read_reply" or "done"
    sent,       \* the request was written
    ec, ep,     \* what the operation completed with
    answers,    \* the answer of the peer, once it has answered
    app         \* how often the target has spoken

op_vars == <<mode, request, pc, sent, ec, ep>>
vars == <<stream_vars, op_vars, answers, app>>

TypeOK ==
    /\ StreamTypeOK
    /\ mode \in Modes
    /\ request \in Seq(Byte)
    /\ pc \in {"write_request", "read_reply", "done"}
    /\ sent \in BOOLEAN
    /\ ec \in error_code
    /\ ep \in [kind : {"v4"}, addr : Seq(Byte), port : Port]
    /\ answers \in Seq(Seq(Byte))
    /\ app \in 0..MaxApp

\* The request is prepared before the operation starts: the constructor of
\* connect_v4_op, and the beginning of connect_v4.
Init ==
    /\ StreamInit
    /\ mode \in Modes
    /\ \E t \in Targets, u \in Users : request = prepare_request_v4(t, u)
    /\ pc = "write_request"
    /\ sent = FALSE
    /\ ec = no_error /\ ep = no_endpoint
    /\ answers = <<>> /\ app = 0

Complete(e, endp) ==
    /\ pc' = "done"
    /\ ec' = e
    /\ ep' = endp

WriteRequest ==
    /\ pc = "write_request"
    /\ \E e \in write_results :
        /\ Write(e)
        /\ IF failed(e)
           THEN Complete(e, no_endpoint) /\ UNCHANGED sent
           ELSE pc' = "read_reply" /\ sent' = TRUE /\ UNCHANGED <<ec, ep>>
    /\ UNCHANGED <<mode, request, answers, app>>

\* Mutant: the buffer, nine bytes and the user, is read full.
reply_room_buffer(m) == Len(request) - m

\* What is left to read of the eight bytes.
reply_room(m) == 8 - m

Turn == read_some(reply_room(n))
More(o) == ~failed(o.ec) /\ reply_room(n + o.k) # 0

\* Mutant: an end of file is handed to the caller.
reply_result_noeof(buf, e) ==
    IF failed(e) THEN reply_error(e)
    ELSE IF Len(buf) # 8 THEN reply_error(socks(bad_reply_size))
    ELSE parse_reply_v4(buf)

\* Mutant: the size is not checked before the reply is parsed.
reply_result_short(buf, e) ==
    IF failed(e) /\ e # eof THEN reply_error(e)
    ELSE IF Len(buf) < 7 THEN reply_error(socks(bad_reply_size))
    ELSE parse_reply_v4(buf)

reply_result(buf, e) ==
    IF failed(e) /\ e # eof THEN reply_error(e)
    ELSE IF Len(buf) # 8 THEN reply_error(socks(bad_reply_size))
    ELSE parse_reply_v4(buf)

ReadReply ==
    /\ pc = "read_reply"
    /\ \E o \in Turn :
        IF More(o)
        THEN Transfer(o) /\ UNCHANGED <<pc, ec, ep>>
        ELSE /\ TransferLast(o)
             /\ LET r == reply_result(buffer(o.k), o.ec)
                IN  Complete(r.ec, r.ep)
    /\ UNCHANGED <<mode, request, sent, answers, app>>

connect_v4 == mode = "sync" /\ (WriteRequest \/ ReadReply)
connect_v4_op == mode = "async" /\ (WriteRequest \/ ReadReply)
Operation == connect_v4 \/ connect_v4_op

PeerAnswers ==
    /\ sent /\ answers = <<>>
    /\ \E m \in Answers : PeerSends(m) /\ answers' = <<m>>
    /\ UNCHANGED <<op_vars, app>>

TargetSpeaks ==
    /\ answers # <<>> /\ Len(answers[1]) > 1
    /\ answers[1][2] = request_granted
    /\ app < MaxApp
    /\ app' = app + 1
    /\ \E d \in AppData : PeerSends(d)
    /\ UNCHANGED <<op_vars, answers>>

PeerShutsDown == LinkBecomes("shut") /\ UNCHANGED <<op_vars, answers, app>>
PeerResets == LinkBecomes("reset") /\ UNCHANGED <<op_vars, answers, app>>

\* A timeout closes the stream under an asynchronous operation.
ApplicationCloses ==
    /\ mode = "async" /\ pc # "done"
    /\ LinkBecomes("closed")
    /\ UNCHANGED <<op_vars, answers, app>>

Environment ==
    \/ PeerAnswers
    \/ TargetSpeaks
    \/ PeerShutsDown
    \/ PeerResets
    \/ ApplicationCloses

Next == Operation \/ Environment

Spec == Init /\ [][Next]_vars /\ WF_vars(Operation)

(***************************************************************************)
(* Properties.                                                             *)
(***************************************************************************)
\* The peer's answer has the eight bytes of a SOCKS4 reply.
Answered == answers # <<>> /\ Len(answers[1]) = 8

\* Success is reported only for eight bytes that grant the request, and no
\* byte the target sent behind them is taken from the stream.
SuccessIsGenuineV4 ==
    pc = "done" /\ ~failed(ec) =>
        /\ sent /\ pos = 8
        /\ down[1] \in {0, socks_4} /\ down[2] = request_granted
        /\ ep.port = to_port(down[3], down[4])

\* The verdict of a whole reply of the right version reaches the caller even
\* if the connection is shut down behind it or the target speaks first;
\* only a reset or a close may hide it.
ReplyReportedV4 ==
    /\ pc = "done" /\ Answered /\ answers[1][1] \in {0, socks_4}
    /\ stream_ec \in {no_error, eof}
    => ec = socks(to_reply_code_v4(answers[1][2]))

\* The caller is told the error of a stream that failed, except that an end
\* of file becomes bad_reply_size; it gets no transport error from a stream
\* that works.
TransportErrorKeptV4 ==
    pc = "done" =>
        IF stream_ec \in {no_error, eof} THEN ec.cat = "socks"
                                         ELSE ec = stream_ec

\* An operation whose connection is lost, or that has been answered in full,
\* completes.
TerminatesV4 == (link # "up" \/ Answered) ~> (pc = "done")

(***************************************************************************)
(* Refinement: the operation is a ConnectService.                          *)
(***************************************************************************)
\* The bytes the peer has sent begin a reply that grants.
GrantSentV4 ==
    Len(down) >= 2 /\ down[1] \in {0, socks_4} /\ down[2] = request_granted

Service == INSTANCE ConnectService WITH
    Endpoints <- [kind : {"v4"}, addr : Seq(Byte), port : Port],
    Codes <- error_code,
    state <- IF pc = "done" THEN "done"
             ELSE IF pc = "read_reply" THEN "asked" ELSE "negotiating",
    granted <- GrantSentV4,
    lost <- link # "up"

\* To its caller the SOCKS4 operation is a ConnectService like the SOCKS5
\* one: one completion, success only if the server granted the request,
\* transport errors only from a lost connection, and no waiting on one.
ImplementsServiceV4 == Service!Spec
=============================================================================
