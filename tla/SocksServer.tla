---------------------------- MODULE SocksServer ----------------------------
(***************************************************************************)
(* One connection of the example server, from its acceptance to the relay  *)
(* (example/server/async/socks_server_async.cpp: class socks_connection).  *)
(* The stream of TcpStream is socket_, read by the server: `down' is what  *)
(* the client has sent.  An action is a completion handler, up to the next *)
(* asynchronous operation it starts.                                       *)
(*                                                                         *)
(* fail() only prints.  A handler that starts nothing drops the last       *)
(* reference to the connection, which closes its sockets: pc = "ended".    *)
(* An exception leaves io_context::run and with it main: the server, with  *)
(* all its connections, is gone.                                           *)
(***************************************************************************)
EXTENDS TcpStream, ServerWire

CONSTANTS
    Clients,    \* dialogues a client may have: sequences of messages
    Bounds      \* endpoints target_socket_ may be bound to

ASSUME ServerAssumption ==
    /\ Clients \subseteq Seq(Seq(Byte))
    /\ Bounds \subseteq [kind : {"v4", "v6"}, addr : Seq(Byte), port : Port]

VARIABLES
    script,     \* the messages the client has still to send
    pc,         \* the operation that is pending
    choice,     \* server_choice_
    target,     \* target_, or the host and service given to resolver_
    tsock,      \* target_socket_: "closed", "open" or "connected"
    message,    \* buffer_, while it is being written
    out,        \* the messages written to the client
    server      \* "running" or "terminated"

svars == <<script, pc, choice, target, tsock, message, out, server>>
vars == <<stream_vars, svars>>

Reading == {"read_greeting", "read_userpass", "read_request"}
Writing == {"write_choice", "write_status", "write_reply", "write_reply_v4"}

TypeOK ==
    /\ StreamTypeOK
    /\ script \in Seq(Seq(Byte))
    /\ pc \in Reading \cup Writing
              \cup {"resolve", "connect", "connect_v4", "relay", "ended"}
    /\ choice \in {0, 2, 255}
    /\ target \in [kind : {"v4", "v6", "domain"}, addr : Seq(Byte), port : Port]
    /\ tsock \in {"closed", "open", "connected"}
    /\ message \in Seq(Byte)
    /\ out \in Seq(Seq(Byte))
    /\ server \in {"running", "terminated"}

\* The acceptor has accepted the client and called start.
Init ==
    /\ StreamInit
    /\ script \in Clients
    /\ pc = "read_greeting"
    /\ choice = 0
    /\ target = no_endpoint
    /\ tsock = "closed"
    /\ message = <<>> /\ out = <<>>
    /\ server = "running"

(***************************************************************************)
(* Completion conditions: how much more to read, 0 to stop.                *)
(***************************************************************************)
\* Mutant: the greeting is thought to be one byte longer than it is.
greeting_cond_long(buf, e) ==
    LET z == Len(buf) IN
    IF failed(e) \/ (z > 0 /\ buf[1] # 5 /\ buf[1] # 4) THEN 0
    ELSE IF z > 0 /\ buf[1] = 4 THEN
        IF z = 1 \/ buf[2] # 1 THEN 0
        ELSE IF \E i \in 9..z : buf[i] = 0 THEN 0 ELSE 258 - z
    ELSE IF z >= 2 THEN
        IF z < 3 + buf[2] THEN (3 + buf[2]) - z ELSE 0
    ELSE 258 - z

\* start.  With one byte read, the check of CMD reads buffer_[1], which is
\* still 0 as constructed.
greeting_cond(buf, e) ==
    LET z == Len(buf) IN
    IF failed(e) \/ (z > 0 /\ buf[1] # 5 /\ buf[1] # 4) THEN 0
    ELSE IF z > 0 /\ buf[1] = 4 THEN
        IF z = 1 \/ buf[2] # 1 THEN 0
        ELSE IF \E i \in 9..z : buf[i] = 0 THEN 0 ELSE 258 - z
    ELSE IF z >= 2 THEN
        IF z < 2 + buf[2] THEN (2 + buf[2]) - z ELSE 0
    ELSE 258 - z

\* do_userpass_greet.  Once two bytes are read the result is never 0.
userpass_cond(buf, e) ==
    LET z == Len(buf) IN
    IF failed(e) \/ (z >= 1 /\ buf[1] # 1) THEN 0
    ELSE IF z < 2 THEN 513
    ELSE LET idlen == buf[2]
             pwlen == IF z > 2 + idlen THEN buf[3 + idlen] ELSE 256
         IN  3 + idlen + pwlen

\* Mutant: the length byte of a domain name is left out of the size.
request_size_short(buf) ==
    IF buf[4] = 1 THEN 10
    ELSE IF buf[4] = 3 THEN 6 + (IF Len(buf) > 4 THEN buf[5] ELSE 256)
    ELSE IF buf[4] = 4 THEN 22 ELSE 0

\* do_read_connect_request.
request_size(buf) ==
    IF buf[4] = 1 THEN 10
    ELSE IF buf[4] = 3 THEN 7 + (IF Len(buf) > 4 THEN buf[5] ELSE 256)
    ELSE IF buf[4] = 4 THEN 22 ELSE 0

\* Mutant: the read of the request goes on whatever the stream reports.
request_cond_deaf(buf, e) ==
    LET z == Len(buf) IN
    IF z < 4 THEN 263 - z
    ELSE IF z < request_size(buf) THEN request_size(buf) - z ELSE 0

request_cond(buf, e) ==
    LET z == Len(buf) IN
    IF \/ failed(e)
       \/ z >= 1 /\ buf[1] # 5
       \/ z >= 2 /\ buf[2] # 1
       \/ z >= 3 /\ buf[3] # 0
    THEN 0
    ELSE IF z < 4 THEN 263 - z
    ELSE IF z < request_size(buf) THEN request_size(buf) - z ELSE 0

\* The condition of the read at pc, and the size of buffer_ then.
completion_condition(buf, e) ==
    IF pc = "read_greeting" THEN greeting_cond(buf, e)
    ELSE IF pc = "read_userpass" THEN userpass_cond(buf, e)
    ELSE request_cond(buf, e)

buffer_size ==
    IF pc = "read_greeting" THEN 258
    ELSE IF pc = "read_userpass" THEN 513 ELSE 263

\* asio::async_read asks for at most what buffer_ still holds.
to_read(buf, e) ==
    LET max == completion_condition(buf, e)
        room == buffer_size - Len(buf)
    IN  IF max < room THEN max ELSE room

Turn == read_some(to_read(buffer(0), no_error))
More(o) == to_read(buffer(o.k), o.ec) # 0

KeepReading ==
    /\ pc \in Reading
    /\ \E o \in Turn : Transfer(o) /\ More(o)
    /\ UNCHANGED svars

(***************************************************************************)
(* What a handler leads to.                                                *)
(***************************************************************************)
\* The handler starts nothing: fail().
End ==
    /\ pc' = "ended"
    /\ UNCHANGED <<choice, target, tsock, message, server>>

StartWrite(label, bytes) ==
    /\ pc' = label
    /\ message' = bytes
    /\ UNCHANGED <<tsock, server>>

\* do_connect_reply and do_connect_reply_v4 begin with
\* target_socket_.local_endpoint(), which throws on a socket that was never
\* opened.
Reply(label, messages) ==
    IF tsock' = "closed"
    THEN /\ server' = "terminated" /\ pc' = "ended"
         /\ UNCHANGED message
    ELSE /\ message' \in messages
         /\ pc' = label
         /\ UNCHANGED server

do_connect_reply(rep) ==
    Reply("write_reply", {connect_reply(rep, bnd) : bnd \in Bounds})

do_connect_reply_v4(rep) ==
    Reply("write_reply_v4", {connect_reply_v4(rep, bnd) : bnd \in Bounds})

(***************************************************************************)
(* The handshake.                                                          *)
(***************************************************************************)
\* parse_socks_greeting and do_server_choice.
AnswerGreeting(buf) ==
    LET c == parse_socks_greeting(buf) IN
    IF c = dropped THEN End
    ELSE /\ choice' = c
         /\ StartWrite("write_choice", <<5, c>>)
         /\ UNCHANGED target

\* parse_socks_connect_v4.
AnswerConnectV4(buf) ==
    LET r == parse_socks_connect_v4(buf) IN
    IF r.rep = 0
    THEN /\ target' = r.target
         /\ pc' = "connect_v4"
         /\ UNCHANGED <<choice, tsock, message, server>>
    ELSE /\ UNCHANGED <<choice, target, tsock>>
         /\ do_connect_reply_v4(r.rep)

ReadGreeting ==
    /\ pc = "read_greeting"
    /\ \E o \in Turn :
        /\ TransferLast(o) /\ ~More(o)
        /\ LET buf == buffer(o.k) IN
           IF failed(o.ec) THEN End
           ELSE IF buf[1] = 5 THEN AnswerGreeting(buf)
           ELSE IF buf[1] = 4 THEN AnswerConnectV4(buf)
           ELSE End
    /\ UNCHANGED <<script, out>>

\* parse_userpass_greeting: any credentials are accepted.
ReadUserpass ==
    /\ pc = "read_userpass"
    /\ \E o \in Turn :
        /\ TransferLast(o) /\ ~More(o)
        /\ IF failed(o.ec) \/ ~parse_userpass_greeting(buffer(o.k)).ok
           THEN End
           ELSE /\ StartWrite("write_status", <<1, 0>>)
                /\ UNCHANGED <<choice, target>>
    /\ UNCHANGED <<script, out>>

\* parse_socks_connect: a domain name goes to the resolver first.
ReadRequest ==
    /\ pc = "read_request"
    /\ \E o \in Turn :
        /\ TransferLast(o) /\ ~More(o)
        /\ LET r == parse_socks_connect(buffer(o.k)) IN
           IF failed(o.ec) \/ r.rep = dropped THEN End
           ELSE IF r.rep = 0
           THEN /\ target' = r.target
                /\ pc' = IF r.target.kind = "domain" THEN "resolve"
                                                     ELSE "connect"
                /\ UNCHANGED <<choice, tsock, message, server>>
           ELSE /\ UNCHANGED <<choice, target, tsock>>
                /\ do_connect_reply(r.rep)
    /\ UNCHANGED <<script, out>>

\* The handler of async_resolve.
ResolveFails ==
    /\ pc = "resolve"
    /\ UNCHANGED <<tsock, choice, target>>
    /\ do_connect_reply(4)
    /\ UNCHANGED <<stream_vars, script, out>>

ResolveSucceeds ==
    /\ pc = "resolve"
    /\ pc' = "connect"
    /\ UNCHANGED <<choice, target, tsock, message, server>>
    /\ UNCHANGED <<stream_vars, script, out>>

\* The outcomes of async_connect, by what they leave of target_socket_: it
\* is opened first, and that may fail too.
connect_outcomes == {"connected", "open", "closed"}

\* Mutant: the outcome of the connection to the target is not looked at.
target_reply_always(outcome) == 0

\* The handlers of async_connect.
target_reply(outcome) == IF outcome = "connected" THEN 0 ELSE 4
target_reply_v4(outcome) == IF outcome = "connected" THEN 90 ELSE 91

do_target_connect ==
    /\ pc = "connect"
    /\ \E outcome \in connect_outcomes :
        /\ tsock' = outcome
        /\ do_connect_reply(target_reply(outcome))
    /\ UNCHANGED <<choice, target, stream_vars, script, out>>

do_target_connect_v4 ==
    /\ pc = "connect_v4"
    /\ \E outcome \in connect_outcomes :
        /\ tsock' = outcome
        /\ do_connect_reply_v4(target_reply_v4(outcome))
    /\ UNCHANGED <<choice, target, stream_vars, script, out>>

\* The handler of a write, which goes on at label.
Written(label) ==
    /\ \E e \in write_results :
        /\ Write(e)
        /\ IF failed(e) THEN pc' = "ended" /\ UNCHANGED out
           ELSE pc' = label /\ out' = Append(out, message)
    /\ UNCHANGED <<script, choice, target, tsock, message, server>>

\* Mutant: the request is read before the client has authenticated.
after_choice_skip == IF choice = 255 THEN "ended" ELSE "read_request"

after_choice ==
    IF choice = 255 THEN "ended"
    ELSE IF choice = 2 THEN "read_userpass" ELSE "read_request"

WriteChoice == pc = "write_choice" /\ Written(after_choice)

WriteStatus == pc = "write_status" /\ Written("read_request")

WriteReply ==
    /\ pc = "write_reply"
    /\ Written(IF message[2] = 0 THEN "relay" ELSE "ended")

WriteReplyV4 ==
    /\ pc = "write_reply_v4"
    /\ Written(IF message[2] = 90 THEN "relay" ELSE "ended")

Connection ==
    \/ KeepReading
    \/ ReadGreeting
    \/ ReadUserpass
    \/ ReadRequest
    \/ ResolveFails
    \/ ResolveSucceeds
    \/ do_target_connect
    \/ do_target_connect_v4
    \/ WriteChoice
    \/ WriteStatus
    \/ WriteReply
    \/ WriteReplyV4

(***************************************************************************)
(* The client sends the next message of its script when the server waits   *)
(* for it, having answered the one before; it may leave at any time.       *)
(***************************************************************************)
ClientSends ==
    /\ script # <<>>
    /\ pc \in Reading /\ n = 0 /\ pos = Len(down)
    /\ PeerSends(Head(script))
    /\ script' = Tail(script)
    /\ UNCHANGED <<pc, choice, target, tsock, message, out, server>>

ClientLeaves ==
    /\ \E l \in {"shut", "reset"} : LinkBecomes(l)
    /\ UNCHANGED svars

Next == Connection \/ ClientSends \/ ClientLeaves

\* The io_context runs the handlers; the client sends what it has to say.
Spec == Init /\ [][Next]_vars /\ WF_vars(Connection) /\ WF_vars(ClientSends)

(***************************************************************************)
(* Properties.                                                             *)
(***************************************************************************)
\* The connect request in the first z bytes the client has sent, found by
\* the lengths of the messages before it.  A user name and password message
\* is always read to the 513 bytes of buffer_.
RequestIn(z) ==
    IF down # <<>> /\ down[1] = 4 THEN SubSeq(down, 1, z)
    ELSE IF out = <<>> THEN <<>>
    ELSE SubSeq(down, 3 + down[2] + (IF choice = 2 THEN 513 ELSE 0), z)

RequestSent == RequestIn(Len(down))
RequestRead == RequestIn(pos)

\* The server's own reading of a request, all of it at hand.
Requested(r) ==
    IF down[1] = 4 THEN parse_socks_connect_v4(r) ELSE parse_socks_connect(r)

\* A SOCKS4 request ends in NUL.
Terminated(r) == \E i \in 9..Len(r) : r[i] = 0

\* The request is one the server can serve.
WellFormed(r) ==
    /\ r # <<>>
    /\ Requested(r).rep = 0
    /\ down[1] = 4 => Terminated(r)

Replies == {m \in {out[i] : i \in DOMAIN out} : Len(m) > 2}
Granted(m) == <<m[1], m[2]>> \in {<<5, 0>>, <<4, 90>>}

\* A client is told that its request was granted only if the server has
\* connected to a target, and to the very target that the bytes it read
\* behind the negotiation name: the reply of do_connect_reply reflects
\* do_target_connect's outcome for the request of this dialogue, however it
\* was segmented and whatever was read before it.  A SOCKS4 request is read
\* to its NUL, or to the end of buffer_.  Only such a client is relayed.
GrantIsGenuine ==
    /\ \A m \in Replies :
         Granted(m) => /\ tsock = "connected"
                       /\ Requested(RequestRead).rep = 0
                       /\ target = Requested(RequestRead).target
                       /\ down[1] = 4 => Terminated(RequestRead) \/ pos = 258
    /\ pc = "relay" => \E m \in Replies : Granted(m)

\* The server answers a greeting with a method that was offered, and once
\* it has chosen user name and password it takes no request, and connects
\* nowhere, before it has written the status of the authentication
\* (do_server_choice, parse_userpass_greeting).
NothingBeforeAuthentication ==
    down # <<>> /\ down[1] = 5 /\ out # <<>> =>
        /\ out[1][2] # 255 => \E i \in 3..(2 + down[2]) : down[i] = out[1][2]
        /\ pc \in {"read_request", "resolve", "connect", "write_reply", "relay"}
             /\ out[1][2] = 2
           => Len(out) >= 2 /\ out[2] = <<1, 0>>

\* How the network cuts a request into segments makes no difference: a
\* request that the server can serve, and that arrives, is taken for what
\* it is (the completion conditions of start and do_read_connect_request
\* against the parsers).
RequestUnderstood ==
    /\ WellFormed(RequestSent)
    /\ pc \notin Reading \cup {"write_choice", "write_status"}
    /\ ~failed(stream_ec) \/ Replies # {}
    => target = Requested(RequestSent).target

\* The same of every client but one: start ends the read of a SOCKS4 request
\* when the first segment is a single byte, since it looks for CMD then.
RequestUnderstoodUnlessSplit ==
    RequestUnderstood \/ (down[1] = 4 /\ pos = 1)

\* What RequestUnderstood asks of its clients, who send one message a turn:
\* a message is not empty, nothing follows the greeting in it, and nothing
\* follows the longest user name and password message.  The library's
\* clients are such.
OneMessagePerTurn ==
    \A c \in Clients :
        /\ \A i \in DOMAIN c : c[i] # <<>>
        /\ c # <<>> /\ c[1][1] = 5 /\ Len(c[1]) >= 2 =>
             /\ Len(c[1]) <= 2 + c[1][2]
             /\ (\E i \in 3..Len(c[1]) : c[1][i] = 2) /\ Len(c) >= 2
                  => Len(c[2]) <= 513

\* A client that asks for a connection, and stays, is told the outcome:
\* the connection does not end without a reply having been written.
RequestAnswered ==
    pc = "ended" /\ link = "up" /\ WellFormed(RequestSent) => Replies # {}

\* With a client that stays, the handshake comes to an end.
HandshakeEnds == <>(link # "up" \/ pc \in {"relay", "ended"})

\* The same of every client but one that authenticates with fewer than the
\* 513 bytes do_userpass_greet waits for: no other completion condition
\* asks for bytes the client does not send.
HandshakeEndsUnlessShort ==
    \/ HandshakeEnds
    \/ <>[](pc = "read_userpass" /\ Len(down) < 2 + down[2] + 513)
=============================================================================
