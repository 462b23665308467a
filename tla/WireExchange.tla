---------------------------- MODULE WireExchange ----------------------------
(***************************************************************************)
(* One message between the client library and the example server: it is    *)
(* built by one side and parsed by the other.  Each side has its own       *)
(* encoder and decoder in the source, and nothing but the bytes connects   *)
(* them; the properties say which of them agree.                           *)
(***************************************************************************)
EXTENDS ServerWire

CONSTANTS
    Opts,       \* credentials a client may have
    Targets,    \* targets a client may ask for
    Users,      \* SOCKS4 user ids
    Bounds,     \* addresses the server's outgoing socket may be bound to
    Kinds       \* the messages exchanged in this instance

ASSUME WireAssumption ==
    /\ \A o \in Opts : o \in Credentials
    /\ \A t \in Targets : t \in Target
    /\ \A u \in Users : u \in Seq(Byte)
    /\ \A b \in Bounds : b \in Endpoint
    /\ Kinds \subseteq {"greeting", "userpass", "request", "request_v4",
                        "reply", "reply_v4"}

VARIABLES
    kind,       \* which message
    input,      \* what its sender put into it
    wire,       \* its bytes; empty until it is built
    output      \* what its receiver took from it; <<>> until then

vars == <<kind, input, wire, output>>

\* Mutant: the buffer is a byte too small.
buffer_size_512 == 512

\* The buffer of connect and connect_op, in which every message is built.
buffer_size == 513

\* What the sender of each message has to say.  The example server uses few
\* of the reply codes; the others stand for the replies of other servers.
Inputs(k) ==
    IF k = "greeting" THEN Opts
    ELSE IF k = "userpass" THEN {o \in Opts : o.is_userpass}
    ELSE IF k = "request" THEN Targets
    ELSE IF k = "request_v4"
         THEN [target : {t \in Targets : t.kind = "v4"}, user : Users]
    ELSE [rep : Byte, bnd : Bounds]

Init ==
    /\ kind \in Kinds
    /\ input \in Inputs(kind)
    /\ wire = <<>> /\ output = <<>>

Send(k, bytes) ==
    /\ kind = k /\ wire = <<>>
    /\ wire' = bytes
    /\ UNCHANGED <<kind, input, output>>

Receive(k, result) ==
    /\ kind = k /\ wire # <<>> /\ output = <<>>
    /\ output' = <<result>>
    /\ UNCHANGED <<kind, input, wire>>

SendGreeting == Send("greeting", prepare_greeting(input))
SendUserpass == Send("userpass", prepare_userpass_request(input))
SendRequest == Send("request", prepare_request(input))
SendRequestV4 ==
    Send("request_v4", prepare_request_v4(input.target, input.user))
SendReply == Send("reply", connect_reply(input.rep, input.bnd))
SendReplyV4 == Send("reply_v4", connect_reply_v4(input.rep, input.bnd))

\* The server answers a greeting with its choice, and the client validates
\* that answer: choice, verdict.
ReceiveGreeting ==
    LET choice == parse_socks_greeting(wire)
    IN  Receive("greeting",
                [choice |-> choice,
                 ec |-> validate_server_choice(<<5, choice>>, input, no_error)])
ReceiveUserpass == Receive("userpass", parse_userpass_greeting(wire))
ReceiveRequest == Receive("request", parse_socks_connect(wire))
ReceiveRequestV4 == Receive("request_v4", parse_socks_connect_v4(wire))
ReceiveReply == Receive("reply", parse_reply_v5(wire))
ReceiveReplyV4 == Receive("reply_v4", parse_reply_v4(wire))

Next ==
    \/ SendGreeting \/ SendUserpass \/ SendRequest
    \/ SendRequestV4 \/ SendReply \/ SendReplyV4
    \/ ReceiveGreeting \/ ReceiveUserpass \/ ReceiveRequest
    \/ ReceiveRequestV4 \/ ReceiveReply \/ ReceiveReplyV4

Spec == Init /\ [][Next]_vars

(***************************************************************************)
(* Properties.                                                             *)
(***************************************************************************)
Received(k) == kind = k /\ output # <<>>

\* The server picks userpass exactly when the client has credentials, the
\* client accepts what the server picks, and the server finds a complete
\* message and the user name in the credentials (prepare_greeting,
\* parse_socks_greeting, validate_server_choice, prepare_userpass_request,
\* parse_userpass_greeting).
NegotiationInterop ==
    /\ Received("greeting") =>
          /\ output[1].choice = IF input.is_userpass THEN 2 ELSE 0
          /\ ~failed(output[1].ec)
    /\ Received("userpass") => output[1].ok /\ output[1].user = input.user

\* The server connects to the target the client asked for, address type,
\* address and port, in both protocols and whatever the SOCKS4 user id
\* (prepare_request, parse_socks_connect, prepare_request_v4,
\* parse_socks_connect_v4).
RequestInterop ==
    /\ Received("request") => output[1] = [rep |-> 0, target |-> input]
    /\ Received("request_v4") =>
          output[1] = [rep |-> 0, target |-> input.target]

\* The client reports the server's verdict, success for 0 alone; a byte that
\* is no reply code is unassigned_reply_code, a refusal and no I/O error;
\* and a granting reply gives the caller the server's bound address
\* (do_connect_reply, parse_reply_v5, to_reply_code, condition).
ReplyInterop ==
    Received("reply") =>
        LET e == output[1].ec IN
        /\ failed(e) = (input.rep # 0)
        /\ condition(e.val)
             = IF input.rep = 0 THEN "succeeded" ELSE "reply_error"
        /\ input.rep \in reply_code => e = socks(input.rep)
        /\ output[1].ep = IF input.rep = 0 THEN input.bnd ELSE no_endpoint

\* The same for the verdict and the port of a SOCKS4 reply, where 90 alone
\* is success (do_connect_reply_v4, parse_reply_v4, to_reply_code_v4).
VerdictV4Interop ==
    Received("reply_v4") =>
        LET e == output[1].ec IN
        /\ failed(e) = (input.rep # 90)
        /\ condition(e.val)
             = IF input.rep = 90 THEN "succeeded" ELSE "reply_error"
        /\ input.rep \in reply_code_v4 => e = socks(input.rep)
        /\ input.rep = 90 => output[1].ep.port = input.bnd.port

\* Every message a legal caller can ask for fits into the buffer, the
\* longest credentials to the last byte; the code has only assertions.
MessagesFit ==
    kind \in {"greeting", "userpass", "request"} => Len(wire) <= buffer_size

\* PWLEN, the byte before the password, is the length of the password.
PasswordLength ==
    kind = "userpass" /\ wire # <<>> =>
        wire[Len(input.user) + 3] = Len(input.pass)
=============================================================================
