---------------------------- MODULE SocksConnect ----------------------------
(***************************************************************************)
(* One SOCKS5 connect operation on one stream                              *)
(* (include/boost/socks/impl/connect.hpp).  The synchronous functions      *)
(* connect, authenticate, write_connect_request and read_connect_reply and *)
(* the coroutine connect_op of async_connect run through the same stages;  *)
(* `mode' says which of them is at work, and the actions are grouped by    *)
(* those functions below.  An action runs from one suspension (a blocking  *)
(* call, or a BOOST_ASIO_CORO_YIELD) to the next.                          *)
(*                                                                         *)
(* The peer answers every message at most once, with any message of the    *)
(* set Answers gives for it, well formed or not; once it has granted the   *)
(* request, the application server behind it may speak.  The peer may shut *)
(* the connection down or reset it at any time, and the application may    *)
(* close the stream under an asynchronous operation (a timeout).           *)
(***************************************************************************)
EXTENDS TcpStream

CONSTANTS
    Modes,      \* which of "sync" and "async" are run
    Opts,       \* the auth_options a caller may pass
    Targets,    \* the targets a caller may ask for
    Answers,    \* [message kind -> the answers of the peer to it]
    AppData,    \* what the application server may say, unasked
    MaxApp      \* how often it does

Kind == {"greeting", "userpass", "request"}

ASSUME ConnectAssumption ==
    /\ Modes \subseteq {"sync", "async"}
    /\ Opts \subseteq [is_userpass : BOOLEAN,
                       user : Seq(Byte), pass : Seq(Byte)]
    /\ Targets \subseteq [kind : {"v4", "v6", "domain"},
                          addr : Seq(Byte), port : Port]
    /\ Answers \in [Kind -> SUBSET Seq(Byte)]
    /\ AppData \subseteq Seq(Byte)
    /\ MaxApp \in Nat

VARIABLES
    mode, opt, target,  \* the arguments of the call
    pc,                 \* where the operation is suspended
    up,                 \* the messages it has written: [kind, bytes]
    ec, ep,             \* what it completed with
    answers,            \* the answers of the peer so far
    app                 \* how often the application server has spoken

args == <<mode, opt, target>>
vars == <<stream_vars, args, pc, up, ec, ep, answers, app>>

Reading == {"read_choice", "read_userpass", "read_reply"}
Writing == {"write_greeting", "write_userpass", "write_request"}

\* An endpoint returned to the caller.
endpoint == [kind : {"v4", "v6"}, addr : Seq(Byte), port : Port]

TypeOK ==
    /\ StreamTypeOK
    /\ mode \in Modes /\ opt \in Opts /\ target \in Targets
    /\ pc \in Reading \cup Writing \cup {"done"}
    /\ up \in Seq([kind : Kind, bytes : Seq(Byte)])
    /\ ec \in error_code
    /\ ep \in endpoint
    /\ answers \in Seq(Seq(Byte))
    /\ app \in 0..MaxApp

\* The constructor of connect_op; the locals of connect.
Init ==
    /\ StreamInit
    /\ mode \in Modes /\ opt \in Opts /\ target \in Targets
    /\ pc = "write_greeting"
    /\ up = <<>>
    /\ ec = no_error /\ ep = no_endpoint
    /\ answers = <<>> /\ app = 0

(***************************************************************************)
(* Suspension and completion.                                              *)
(***************************************************************************)
\* self.complete(ec, ep), or the return of connect.
Complete(e, endp) ==
    /\ pc' = "done"
    /\ ec' = e
    /\ ep' = endp

GoTo(label) ==
    /\ pc' = label
    /\ UNCHANGED <<ec, ep>>

\* Go on at label, or complete when the step just made has failed.
Proceed(e, label) ==
    IF failed(e) THEN Complete(e, no_endpoint) ELSE GoTo(label)

WriteMessage(kind, bytes, label) ==
    \E e \in write_results :
        /\ Write(e)
        /\ up' = IF failed(e) THEN up
                 ELSE Append(up, [kind |-> kind, bytes |-> bytes])
        /\ Proceed(e, label)
        /\ UNCHANGED <<args, answers, app>>

\* Mutant: the read does not stop after the ten bytes of an IPv4 reply.
read_reply_cond_max(buf, e) ==
    IF failed(e) THEN 0 ELSE 22 - Len(buf)

\* Mutant: the read goes on whatever the stream reports.
read_reply_cond_deaf(buf, e) ==
    IF Len(buf) = 10 /\ to_address_type(buf[4]) = ip_v4
    THEN 0 ELSE 22 - Len(buf)

\* read_reply_cond: how much of the CONNECT reply is still to be read.
read_reply_cond(buf, e) ==
    IF \/ Len(buf) = 10 /\ to_address_type(buf[4]) = ip_v4
       \/ failed(e)
    THEN 0 ELSE 22 - Len(buf)

\* The completion condition of the read at pc.
completion_condition(buf, e) ==
    IF pc = "read_reply" THEN read_reply_cond(buf, e)
                         ELSE transfer_all(e, Len(buf), 2)

\* One turn of the loop of asio::read: o is what read_some gave.  The read
\* goes on when More(o).
Turn == read_some(completion_condition(buffer(0), no_error))
More(o) == completion_condition(buffer(o.k), o.ec) # 0

KeepReading ==
    /\ pc \in Reading
    /\ \E o \in Turn : More(o) /\ Transfer(o)
    /\ UNCHANGED <<args, pc, up, ec, ep, answers, app>>

(***************************************************************************)
(* The stages.  The read_some that ends a read, what the code makes of the *)
(* result, and the step to the next suspension are one action.             *)
(***************************************************************************)
WriteGreeting ==
    /\ pc = "write_greeting"
    /\ WriteMessage("greeting", prepare_greeting(opt), "read_choice")

\* Mutant: the choice is validated only when the read succeeded.
choice_result_noeof(buf, e) ==
    IF ~failed(e) THEN validate_server_choice(buf, opt, e) ELSE e

\* The error code after the server's choice was read: it is validated when
\* the read succeeded or ended early at the end of file.
choice_result(buf, e) ==
    IF ~failed(e) \/ e = eof THEN validate_server_choice(buf, opt, e) ELSE e

\* Mutant: the userpass sub-negotiation is skipped.
after_choice_skip(buf) == "write_request"

\* Only userpass needs a sub-negotiation.
after_choice(buf) ==
    IF buf[2] = auth_userpass THEN "write_userpass" ELSE "write_request"

ReadChoice ==
    /\ pc = "read_choice"
    /\ \E o \in Turn :
        /\ ~More(o)
        /\ TransferLast(o)
        /\ LET e == choice_result(buffer(o.k), o.ec)
           IN  IF failed(e) THEN Complete(e, no_endpoint)
                            ELSE GoTo(after_choice(buffer(o.k)))
    /\ UNCHANGED <<args, up, answers, app>>

WriteUserpass ==
    /\ pc = "write_userpass"
    /\ WriteMessage("userpass", prepare_userpass_request(opt),
                    "read_userpass")

\* Mutant: the reply is validated whatever the read returned.
sync_userpass_result_always(buf, e) == validate_userpass_reply(buf, e)

\* authenticate validates the reply unless the read failed otherwise than
\* by the end of file.
sync_userpass_result(buf, e) ==
    IF ~failed(e) \/ e = eof THEN validate_userpass_reply(buf, e) ELSE e

\* connect_op validates the reply whatever the read returned.  An eof left
\* over would not complete the operation; there is none, since a read that
\* ends at the end of file is short.
async_userpass_result(buf, e) ==
    LET v == validate_userpass_reply(buf, e)
    IN  IF v = eof THEN no_error ELSE v

\* The error code after the reply to the credentials was read.
userpass_result(buf, e) ==
    IF mode = "sync" THEN sync_userpass_result(buf, e)
                     ELSE async_userpass_result(buf, e)

ReadUserpassReply ==
    /\ pc = "read_userpass"
    /\ \E o \in Turn :
        /\ ~More(o)
        /\ TransferLast(o)
        /\ Proceed(userpass_result(buffer(o.k), o.ec), "write_request")
    /\ UNCHANGED <<args, up, answers, app>>

WriteRequest ==
    /\ pc = "write_request"
    /\ WriteMessage("request", prepare_request(target), "read_reply")

\* Mutant: the end of file is an error like any other.
reply_result_noeof(buf, e) ==
    IF failed(e) THEN reply_error(e)
    ELSE IF Len(buf) # 10 /\ Len(buf) # 22
         THEN reply_error(socks(bad_reply_size))
    ELSE parse_reply_v5(buf)

\* Only an eof is not reported as it is: the bytes read may hold the reply
\* of a server that closed the connection after refusing.
reply_result(buf, e) ==
    IF failed(e) /\ e # eof THEN reply_error(e)
    ELSE IF Len(buf) # 10 /\ Len(buf) # 22
         THEN reply_error(socks(bad_reply_size))
    ELSE parse_reply_v5(buf)

ReadReply ==
    /\ pc = "read_reply"
    /\ \E o \in Turn :
        /\ ~More(o)
        /\ TransferLast(o)
        /\ LET r == reply_result(buffer(o.k), o.ec)
           IN  Complete(r.ec, r.ep)
    /\ UNCHANGED <<args, up, answers, app>>

(***************************************************************************)
(* The functions of the two modes.                                         *)
(***************************************************************************)
authenticate ==
    \/ WriteGreeting
    \/ ReadChoice
    \/ WriteUserpass
    \/ ReadUserpassReply

write_connect_request == WriteRequest

read_connect_reply == ReadReply

connect ==
    /\ mode = "sync"
    /\ authenticate \/ write_connect_request \/ read_connect_reply
         \/ KeepReading

connect_op ==
    /\ mode = "async"
    /\ \/ WriteGreeting
       \/ ReadChoice
       \/ WriteUserpass
       \/ ReadUserpassReply
       \/ WriteRequest
       \/ ReadReply
       \/ KeepReading

Operation == connect \/ connect_op

(***************************************************************************)
(* The environment.                                                        *)
(***************************************************************************)
op_vars == <<args, pc, up, ec, ep>>

\* The peer answers the last message the operation wrote.
PeerAnswers ==
    /\ Len(answers) < Len(up)
    /\ \E m \in Answers[up[Len(up)].kind] :
        /\ PeerSends(m)
        /\ answers' = Append(answers, m)
    /\ UNCHANGED <<op_vars, app>>

\* The CONNECT request was written and answered.
Answered == up # <<>> /\ up[Len(up)].kind = "request"
              /\ Len(answers) = Len(up)

Reply == answers[Len(answers)]

\* Once the request is granted, the peer relays what the target says.
TargetSpeaks ==
    /\ Answered /\ Len(Reply) > 1 /\ Reply[2] = 0
    /\ app < MaxApp
    /\ app' = app + 1
    /\ \E d \in AppData : PeerSends(d)
    /\ UNCHANGED <<op_vars, answers>>

PeerShutsDown == LinkBecomes("shut") /\ UNCHANGED <<op_vars, answers, app>>
PeerResets == LinkBecomes("reset") /\ UNCHANGED <<op_vars, answers, app>>

\* The application gives up: it closes the stream while an asynchronous
\* operation is pending on it.
ApplicationCloses ==
    /\ mode = "async" /\ pc # "done"
    /\ LinkBecomes("closed")
    /\ UNCHANGED <<op_vars, answers, app>>

Environment ==
    \/ PeerAnswers
    \/ TargetSpeaks
    \/ PeerShutsDown
    \/ PeerResets
    \/ ApplicationCloses

Next == Operation \/ Environment

\* A blocking call returns, and an io_context that is run calls the handler
\* of a finished operation; nothing is assumed of the peer.
Spec == Init /\ [][Next]_vars /\ WF_vars(Operation)

(***************************************************************************)
(* Safety.                                                                 *)
(***************************************************************************)
\* The first b bytes the peer sent, all of them read, are a negotiation that
\* ended well: a choice the caller offered and, for userpass, its approval.
Negotiated(b) ==
    /\ pos >= b
    /\ down[1] = socks_5
    /\ \/ b = 2 /\ down[2] = no_authentication
       \/ /\ b = 4 /\ down[2] = auth_userpass /\ opt.is_userpass
          /\ down[3] = 1 /\ down[4] = 0

\* The bytes after the first b are a CONNECT reply that grants the request,
\* and the operation has read that reply and no byte more.
GrantedAfter(b) ==
    /\ \/ pos = b + 10 /\ down[b + 4] = ip_v4
       \/ pos = b + 22 /\ down[b + 4] = ip_v6
    /\ down[b + 1] = socks_5
    /\ down[b + 2] = 0
    /\ ep.addr = SubSeq(down, b + 5, pos - 2)
    /\ ep.port = to_port(down[pos - 1], down[pos])

\* An operation that reports success has read, byte for byte, a negotiation
\* that ended well and a reply that grants the request, returns the bound
\* address of that reply, and leaves what follows it to the application
\* (connect.hpp: authenticate, read_connect_reply, connect_op).
SuccessIsGenuine ==
    pc = "done" /\ ~failed(ec)
        => \E b \in {2, 4} : Negotiated(b) /\ GrantedAfter(b)

\* What has been written is a prefix of the only two legal dialogues.  The
\* credentials leave the client only if the caller gave some and the server
\* chose userpass; the CONNECT request leaves it only after the negotiation
\* ended well, however the server's bytes were cut into segments.
NegotiationRespected ==
    /\ \A i \in DOMAIN up :
        /\ (i = 1) = (up[i].kind = "greeting")
        /\ up[i].kind = "userpass" =>
              /\ i = 2 /\ pos >= 2 /\ opt.is_userpass
              /\ down[1] = socks_5 /\ down[2] = auth_userpass
        /\ up[i].kind = "request" =>
              i = Len(up) /\ \E b \in {2, 4} : Negotiated(b) /\ i = 1 + b \div 2

\* An operation ends with an error of the SOCKS category unless the stream
\* itself failed; the end of file is never handed to the caller, it becomes
\* a statement about the reply that was cut short or refused.
NoStrayTransportError ==
    pc = "done" => ec.cat = "socks" \/ (link # "up" /\ ec # eof)

\* When the stream fails other than by the end of file, the caller is told
\* that error: a timeout that closes the stream is seen as one, at every
\* stage and in both modes, but for one read.  connect_op validates the
\* answer to the credentials also if the read of it failed, and turns the
\* error into bad_reply_size; authenticate does not.
TransportErrorKept ==
    pc = "done" /\ stream_ec \notin {no_error, eof} =>
        \/ ec = stream_ec
        \/ /\ mode = "async" /\ ec = socks(bad_reply_size)
           /\ Len(up) = 2 /\ up[2].kind = "userpass"

\* The answers before the reply had the two bytes the protocol gives them.
Aligned == \A i \in 1..(Len(answers) - 1) : Len(answers[i]) = 2

\* The peer's reply has one of the two sizes the client can read, and if it
\* grants the request its size is the one of its address type.
ReadableReply ==
    /\ Answered /\ Aligned
    /\ Len(Reply) \in {10, 22}
    /\ Reply[1] = socks_5
    /\ Reply[2] = 0 => (Len(Reply) = 10 /\ Reply[4] = ip_v4)
                        \/ (Len(Reply) = 22 /\ Reply[4] = ip_v6)

\* The verdict the server sent is the one the caller gets, also when the
\* server closes the connection right after a refusal, and however the
\* reply was cut into segments.
ReplyReported ==
    pc = "done" /\ ReadableReply /\ stream_ec \in {no_error, eof}
        => ec = socks(to_reply_code(Reply[2]))

\* The same as long as the target does not speak before the operation is
\* done, so that nothing follows the reply on the stream.
ReplyReportedAlone == app = 0 => ReplyReported

(***************************************************************************)
(* The inductive invariant behind the safety properties: at each stage,    *)
(* what was written, how much was read, and what the bytes read were.      *)
(***************************************************************************)
\* The server chose userpass, and the caller had offered it.
UserpassChosen ==
    /\ pos >= 2
    /\ down[1] = socks_5 /\ down[2] = auth_userpass
    /\ opt.is_userpass

\* How much was written before the request after a negotiation of b bytes.
Asked(b) == b \div 2

\* The progress of the operation at every stage: a read in progress is short
\* of its limit, the offset into the peer's bytes is the one the messages
\* before it account for, and those messages were what lets it go on.
StageInv ==
    /\ pc = "write_greeting" => pos = 0 /\ n = 0 /\ Len(up) = 0
    /\ pc = "read_choice" => pos = n /\ n < 2 /\ Len(up) = 1
    /\ pc = "write_userpass" =>
          pos = 2 /\ n = 0 /\ Len(up) = 1 /\ UserpassChosen
    /\ pc = "read_userpass" =>
          pos = 2 + n /\ n < 2 /\ Len(up) = 2 /\ UserpassChosen
    /\ pc = "write_request" =>
          \E b \in {2, 4} :
             Negotiated(b) /\ pos = b /\ n = 0 /\ Len(up) = Asked(b)
    /\ pc = "read_reply" =>
          \E b \in {2, 4} :
             Negotiated(b) /\ pos = b + n /\ n < 22 /\ Len(up) = Asked(b) + 1

ConnectInv ==
    /\ TypeOK
    /\ StageInv
    /\ SuccessIsGenuine
    /\ NegotiationRespected
    /\ NoStrayTransportError

(***************************************************************************)
(* Liveness.                                                               *)
(***************************************************************************)
\* Once the server has sent a reply whose size is the one of its address
\* type, the operation completes; it does not wait for the connection to
\* be closed, or for the target to speak.
AnsweredCompletes ==
    (/\ ReadableReply
     /\ Reply[4] = ip_v4 \/ Len(Reply) = 22)
        ~> (pc = "done" \/ app > 0)

(***************************************************************************)
(* Refinement: the operation is a ConnectService.                          *)
(***************************************************************************)
\* The bytes the peer has sent hold, behind the choice and the approval the
\* choice calls for, the beginning of a reply that grants.
GrantSent ==
    /\ Len(down) >= 2
    /\ LET b == IF down[2] = auth_userpass THEN 4 ELSE 2
       IN  /\ Len(down) >= b + 2
           /\ down[b + 1] = socks_5 /\ down[b + 2] = 0

Service == INSTANCE ConnectService WITH
    Endpoints <- endpoint,
    Codes <- error_code,
    state <- IF pc = "done" THEN "done"
             ELSE IF pc = "read_reply" THEN "asked" ELSE "negotiating",
    granted <- GrantSent,
    lost <- link # "up"

\* To its caller the operation, synchronous or not, is a ConnectService: it
\* completes once, with success only if the server granted the request it
\* was sent, with a transport error only if the connection was lost, and
\* it does complete when the connection is lost.
ImplementsService == Service!Spec
=============================================================================
