--------------------------- MODULE SessionProofs ---------------------------
(***************************************************************************)
(* Proofs about Session: client and server understand each other, however  *)
(* the network cuts what they say and whoever closes first.                *)
(***************************************************************************)
EXTENDS Session, WireProofs

(***************************************************************************)
(* The dialogue.  The client says the messages Say(1), Say(2), ... and the *)
(* request is the last of them; the server has an answer to each.          *)
(***************************************************************************)
\* How many messages the client has for the server before its request.
Before == IF opt.is_userpass THEN 2 ELSE 1

Say(j) ==
    IF j = 1 THEN prepare_greeting(opt)
    ELSE IF j = 2 /\ opt.is_userpass THEN prepare_userpass_request(opt)
    ELSE prepare_request(target)

\* How many bytes the client says before its message j.
From(j) ==
    (IF j > 1 THEN Len(Say(1)) ELSE 0) + (IF j > 2 THEN Len(Say(2)) ELSE 0)
        + (IF j > 3 THEN Len(Say(3)) ELSE 0)

\* The method the server chooses.
Chosen == IF opt.is_userpass THEN 2 ELSE 0

IsReply(m) == \E rep \in {0, 4}, bnd \in Bounds : m = connect_reply(rep, bnd)

\* The answers of the server.
IsAnswer(j, m) ==
    /\ j = 1 => m = <<5, Chosen>>
    /\ j = 2 /\ opt.is_userpass => m = <<1, 0>>
    /\ j = Before + 1 => IsReply(m)

\* Message m is found in the bytes d, behind the first `at' of them.
Holds(d, at, m) ==
    at + Len(m) <= Len(d) /\ \A i \in 1..Len(m) : d[at + i] = m[i]

(***************************************************************************)
(* The invariant.                                                          *)
(***************************************************************************)
c_kinds == {"greeting", "userpass", "request"}
c_reading == {"read_choice", "read_userpass", "read_reply"}
c_writing == {"write_greeting", "write_userpass", "write_request"}
s_reading == {"read_greeting", "read_userpass", "read_request"}
s_writing == {"write_choice", "write_status", "write_reply"}

Types ==
    /\ StreamTypeOK
    /\ mode \in {"sync", "async"} /\ opt \in Opts /\ target \in Targets
    /\ pc \in c_reading \cup c_writing \cup {"done"}
    /\ up \in Seq([kind : c_kinds, bytes : Seq(Byte)])
    /\ app \in Nat
    /\ s_down \in Seq(Byte) /\ s_pos \in 0..Len(s_down) /\ s_n \in 0..s_pos
    /\ s_link \in {"up", "shut", "reset", "closed"}
    /\ s_pc \in s_reading \cup s_writing
                \cup {"resolve", "connect", "relay", "ended"}
    /\ s_out \in Seq(Seq(Byte))

\* What the client has written, and what of it has arrived.
UpInv ==
    /\ Len(up) <= Before + 1
    /\ Len(s_down) = From(Len(up) + 1)
    /\ \A j \in 1..Len(up) : /\ up[j].bytes = Say(j)
                             /\ Holds(s_down, From(j), Say(j))

\* What the server has answered, and what of it has arrived at a client that
\* has not closed its socket.
DownInv ==
    /\ Len(s_out) <= Before + 1
    /\ \A j \in 1..Len(s_out) : IsAnswer(j, s_out[j])
    /\ app > 0 => Len(s_out) = Before + 1
    /\ link # "closed" =>
         /\ \A j \in 1..Len(s_out) : Holds(down, 2 * j - 2, s_out[j])
         /\ Len(s_out) <= Before => Len(down) = 2 * Len(s_out)
         /\ Len(s_out) = Before + 1 /\ app = 0 =>
              Len(down) = 2 * Before + Len(s_out[Before + 1])

\* Neither side speaks out of turn.
TurnInv ==
    /\ Len(s_out) <= Len(up) /\ Len(up) <= Len(s_out) + 1
    /\ pc \in c_writing => Len(up) <= Len(s_out)

\* The client at its stages.
ClientInv ==
    /\ pc = "write_greeting" => Len(up) = 0 /\ pos = 0 /\ n = 0
    /\ pc = "read_choice" => Len(up) = 1 /\ pos = n /\ n < 2
    /\ pc = "write_userpass" => Before = 2 /\ Len(up) = 1 /\ pos = 2 /\ n = 0
    /\ pc = "read_userpass" =>
          Before = 2 /\ Len(up) = 2 /\ pos = 2 + n /\ n < 2
    /\ pc = "write_request" => Len(up) = Before /\ pos = 2 * Before /\ n = 0
    /\ pc = "read_reply" =>
          /\ Len(up) = Before + 1 /\ pos = 2 * Before + n
          /\ n # 22 /\ (n = 10 => down[2 * Before + 4] # 1)

\* The server at its stages.
ServerInv ==
    /\ s_pc = "read_greeting" => Len(s_out) = 0
    /\ s_pc = "read_userpass" => Before = 2 /\ Len(s_out) = 1
    /\ s_pc = "read_request" => Len(s_out) = Before
    /\ s_pc \in s_reading => s_pos = From(Len(s_out) + 1) + s_n
    /\ s_pc = "write_choice" => s_choice = Chosen /\ Len(s_out) = 0
    /\ s_pc = "write_status" => Before = 2 /\ Len(s_out) = 1
    /\ s_pc \in {"resolve", "connect", "write_reply"} => Len(s_out) = Before
    /\ s_pc \in s_writing => IsAnswer(Len(s_out) + 1, s_message)
    /\ s_pc \in s_writing \cup {"resolve", "connect"} =>
          /\ Len(up) = Len(s_out) + 1
          /\ s_pos = From(Len(s_out) + 2) /\ s_n = 0
    /\ Len(s_out) = Before + 1 => s_pos = From(Before + 2)
    /\ s_pc = "relay" => Len(s_out) = Before + 1

\* The target socket.
TargetInv ==
    /\ s_tsock \in {"closed", "open", "connected"}
    /\ s_pc \in s_reading \cup {"write_choice", "write_status", "resolve",
                                "connect"} => s_tsock = "closed"
    /\ s_pc \in {"resolve", "connect"} => s_target = target
    /\ s_tsock = "connected" => s_target = target
    /\ s_pc = "write_reply" /\ s_message[2] = 0 => s_tsock = "connected"
    /\ Len(s_out) = Before + 1 /\ s_out[Before + 1][2] = 0 =>
          s_tsock = "connected"

\* How the connection was lost.
LinkInv ==
    /\ link = "shut" => s_pc = "ended"
    /\ link = "reset" => s_pc = "ended" \/ s_link = "reset"
    /\ link \in {"up", "shut"} /\ pc # "done" => s_link = "up"

\* What the application was told.
DoneInv ==
    /\ pc = "done" /\ ~failed(ec) =>
         /\ link # "closed" /\ Len(s_out) = Before + 1
         /\ s_out[Before + 1][2] = 0
         /\ pos = 2 * Before + Len(s_out[Before + 1])
    /\ pc = "done" /\ Len(up) = Before + 1 /\ app = 0 /\ link \in {"up", "shut"} =>
         IF Len(s_out) = Before + 1 THEN ec = socks(s_out[Before + 1][2])
                                    ELSE s_pc = "ended"

SessionInv ==
    /\ Types /\ UpInv /\ DownInv /\ TurnInv /\ ClientInv /\ ServerInv
    /\ TargetInv /\ LinkInv /\ DoneInv

(***************************************************************************)
(* The operators of the two instances are those of this module.            *)
(***************************************************************************)
\* Error codes, in the client.
LEMMA ClientCodes ==
    /\ C!no_error = no_error /\ C!eof = eof /\ C!no_endpoint = no_endpoint
    /\ \A e : C!failed(e) = failed(e)
    /\ \A v : C!socks(v) = socks(v)
BY DEF C!no_error, no_error, C!eof, eof, C!failed, failed, C!socks, socks,
       C!request_granted, request_granted, C!no_endpoint, no_endpoint

\* The stream of the client.
LEMMA ClientStream ==
    /\ \A limit : C!read_some(limit) = read_some(limit)
    /\ \A k : C!buffer(k) = buffer(k)
    /\ C!write_results = write_results
<1>1. /\ C!connection_reset = connection_reset
      /\ C!operation_aborted = operation_aborted
      /\ C!bad_descriptor = bad_descriptor /\ C!broken_pipe = broken_pipe
  BY DEF C!connection_reset, connection_reset, C!operation_aborted,
         operation_aborted, C!bad_descriptor, bad_descriptor, C!broken_pipe,
         broken_pipe
<1>2. C!read_errors = read_errors
  BY <1>1, ClientCodes, Zenon DEF C!read_errors, read_errors
<1>3. \A limit : C!read_some(limit) = read_some(limit)
  BY <1>2, ClientCodes, Zenon DEF C!read_some, read_some
<1>4. \A k : C!buffer(k) = buffer(k)
  BY Zenon DEF C!buffer, buffer
<1>5. C!write_results = write_results
  BY <1>1, ClientCodes, Zenon DEF C!write_results, write_results
<1> QED
  BY <1>3, <1>4, <1>5

\* The messages the client builds.
LEMMA ClientMessages ==
    /\ C!prepare_greeting(opt) = prepare_greeting(opt)
    /\ C!prepare_userpass_request(opt) = prepare_userpass_request(opt)
    /\ C!prepare_request(target) = prepare_request(target)
<1>1. /\ C!socks_5 = socks_5 /\ C!command_connect = command_connect
      /\ C!auth_userpass = auth_userpass
      /\ C!no_authentication = no_authentication
      /\ C!ip_v4 = ip_v4 /\ C!ip_v6 = ip_v6 /\ C!domain_name = domain_name
  BY DEF C!socks_5, socks_5, C!command_connect, command_connect,
         C!auth_userpass, auth_userpass, C!no_authentication,
         no_authentication, C!ip_v4, ip_v4, C!ip_v6, ip_v6, C!domain_name,
         domain_name
<1>2. /\ \A v : C!byte(v) = byte(v)
      /\ \A v : C!port_bytes(v) = port_bytes(v)
  BY DEF C!byte, byte, C!port_bytes, port_bytes
<1>3. C!prepare_greeting(opt) = prepare_greeting(opt)
  BY <1>1, <1>2, Zenon DEF C!prepare_greeting, prepare_greeting, C!prepare_methods,
         prepare_methods, C!code, code
<1>4. C!prepare_userpass_request(opt) = prepare_userpass_request(opt)
  BY <1>2, Zenon DEF C!prepare_userpass_request, prepare_userpass_request
<1>5. C!prepare_request(target) = prepare_request(target)
  BY <1>1, <1>2, Zenon DEF C!prepare_request, prepare_request,
         C!write_ver_cmd_rsv, write_ver_cmd_rsv, C!write_target_host,
         write_target_host
<1> QED
  BY <1>3, <1>4, <1>5

\* The reply as the client parses it.
LEMMA ClientReply ==
    \A buf : C!parse_reply_v5(buf) = parse_reply_v5(buf)
<1>1. /\ \A v : C!to_reply_code(v) = to_reply_code(v)
      /\ \A v : C!to_address_type(v) = to_address_type(v)
      /\ \A v : C!condition(v) = condition(v)
  BY DEF C!to_reply_code, to_reply_code, C!reply_code, reply_code,
         C!unassigned, unassigned, C!to_address_type, to_address_type,
         C!ip_v4, ip_v4, C!ip_v6, ip_v6, C!domain_name, domain_name,
         C!unknown, unknown, C!condition, condition, C!reply_code_v4,
         reply_code_v4, C!unassigned_reply_code, unassigned_reply_code,
         C!request_granted, request_granted
<1>2. /\ C!ip_v4 = ip_v4 /\ C!ip_v6 = ip_v6
      /\ C!bad_reply_version = bad_reply_version
      /\ C!bad_reply_size = bad_reply_size
      /\ C!bad_address_type = bad_address_type
  BY DEF C!ip_v4, ip_v4, C!ip_v6, ip_v6, C!bad_reply_version,
         bad_reply_version, C!bad_reply_size, bad_reply_size,
         C!bad_address_type, bad_address_type
<1>3. /\ \A a, b : C!to_port(a, b) = to_port(a, b)
      /\ \A e : C!reply_error(e) = reply_error(e)
  BY ClientCodes DEF C!to_port, to_port, C!reply_error, reply_error
<1> QED
  BY <1>1, <1>2, <1>3, ClientCodes, Zenon
     DEF C!parse_reply_v5, parse_reply_v5

(***************************************************************************)
(* What a step of the client does.                                         *)
(***************************************************************************)
\* What a read_some may give: bytes that are there, or an error.
Gets(o) ==
    /\ o.k \in Nat /\ pos + o.k <= Len(down)
    /\ \/ o.k > 0 /\ ~failed(o.ec) /\ link # "closed"
       \/ /\ o.k = 0 /\ failed(o.ec) /\ link # "up"
          /\ link = "shut" => o.ec = eof /\ pos = Len(down)
          /\ o.ec = eof => link = "shut"

\* The variables no step of the client changes.
ClientKeeps == UNCHANGED <<mode, opt, target, answers, app, down, link>>

\* It writes m, or fails to.
ClientWrites(from, m, to) ==
    /\ pc = from /\ pos' = pos /\ n' = n /\ ClientKeeps
    /\ \/ /\ pc' = to /\ link \in {"up", "shut"} /\ ec' = ec
          /\ \E kind \in c_kinds :
                up' = Append(up, [kind |-> kind, bytes |-> m])
       \/ pc' = "done" /\ up' = up /\ failed(ec')

\* The read goes on.
ClientReadsOn ==
    /\ pc \in c_reading /\ pc' = pc /\ up' = up /\ ec' = ec /\ ClientKeeps
    /\ \E o : /\ Gets(o) /\ ~failed(o.ec)
              /\ pos' = pos + o.k /\ n' = n + o.k
              /\ IF pc = "read_reply"
                 THEN n + o.k # 22 /\ ~(n + o.k = 10 /\ buffer(o.k)[4] = 1)
                 ELSE n + o.k # 2

\* A read before the request ends, well or not.
ClientReadsEnd ==
    /\ pc \in {"read_choice", "read_userpass"} /\ up' = up /\ ClientKeeps
    /\ \E o : /\ Gets(o) /\ pos' = pos + o.k /\ n' = 0
              /\ \/ pc' = "done" /\ failed(ec')
                 \/ /\ pc = "read_choice" /\ n + o.k >= 2 /\ ec' = ec
                    /\ pc' = IF buffer(o.k)[2] = 2 THEN "write_userpass"
                                                   ELSE "write_request"
                 \/ /\ pc = "read_userpass" /\ n + o.k = 2 /\ ec' = ec
                    /\ pc' = "write_request"

\* The read of the reply ends, and with it the operation.
ClientReadsReply ==
    /\ pc = "read_reply" /\ pc' = "done" /\ up' = up /\ ClientKeeps
    /\ \E o :
         /\ Gets(o) /\ pos' = pos + o.k /\ n' = 0
         /\ \/ failed(o.ec) \/ n + o.k = 22
            \/ n + o.k = 10 /\ buffer(o.k)[4] = 1
         /\ \/ failed(ec') /\ failed(o.ec) /\ o.ec # eof
            \/ failed(ec') /\ n + o.k # 10 /\ n + o.k # 22
            \/ /\ n + o.k \in {10, 22} /\ (failed(o.ec) => o.ec = eof)
               /\ ec' = parse_reply_v5(buffer(o.k)).ec

ClientMove ==
    \/ ClientWrites("write_greeting", prepare_greeting(opt), "read_choice")
    \/ ClientWrites("write_userpass", prepare_userpass_request(opt),
                    "read_userpass")
    \/ ClientWrites("write_request", prepare_request(target), "read_reply")
    \/ ClientReadsOn
    \/ ClientReadsEnd
    \/ ClientReadsReply

\* What read_some gives a read of the client.
LEMMA ClientTurn ==
    ASSUME StreamTypeOK, NEW o \in C!Turn
    PROVE  /\ Gets(o) /\ o.ec \in {no_error} \cup transport_error
           /\ buffer(o.k) \in Seq(Byte) /\ Len(buffer(o.k)) = n + o.k
           /\ \A i \in 1..(n + o.k) : buffer(o.k)[i] = down[(pos - n) + i]
<1>1. PICK limit : /\ limit = C!completion_condition(buffer(0), no_error)
                   /\ o \in read_some(limit)
  BY ClientStream, ClientCodes DEF C!Turn
<1>2. pos \in Nat /\ n \in Nat /\ pos <= Len(down) /\ pos + 0 <= Len(down)
  BY DEF StreamTypeOK
<1>3. Len(buffer(0)) = n
  BY <1>2, BufferFacts
<1>4. limit \in Int
  BY <1>1, <1>2, <1>3 DEF C!completion_condition, C!read_reply_cond,
                          C!transfer_all
<1>5. /\ o.k \in Nat /\ pos + o.k <= Len(down)
      /\ \/ o.ec = no_error /\ o.k >= 1 /\ o.k <= limit
         \/ o.ec \in transport_error /\ o.k = 0 /\ link # "up"
      /\ o.ec = eof => link = "shut"
  BY <1>1, <1>4, ReadSomeFacts
<1>6. o.k > 0 => link # "closed"
  BY <1>1, <1>4 DEF read_some
<1>7. failed(o.ec) /\ link = "shut" => o.ec = eof /\ pos = Len(down)
  <2>1. ASSUME failed(o.ec), link = "shut" PROVE o.ec \in read_errors
    BY <1>1, <2>1, ErrorFacts DEF read_some
  <2> QED
    BY <2>1 DEF read_errors
<1>8. Gets(o)
  BY <1>5, <1>6, <1>7, ErrorFacts DEF Gets
<1> QED
  BY <1>5, <1>8, BufferFacts

\* The writes of the client.
LEMMA ClientWriteMoves ==
    ASSUME StreamTypeOK, NEW from, NEW kind \in c_kinds, NEW m, NEW to,
           pc = from, C!WriteMessage(kind, m, to)
    PROVE  ClientWrites(from, m, to)
<1>1. PICK e \in write_results :
        /\ C!Write(e)
        /\ up' = IF failed(e) THEN up
                 ELSE Append(up, [kind |-> kind, bytes |-> m])
        /\ C!Proceed(e, to)
        /\ UNCHANGED <<mode, opt, target, answers, app>>
  BY ClientStream, ClientCodes DEF C!WriteMessage, C!args
<1>2. UNCHANGED <<down, pos, n, link>>
  BY <1>1 DEF C!Write
<1>3. CASE failed(e)
  <2>1. pc' = "done" /\ ec' = e
    BY <1>1, <1>3, ClientCodes DEF C!Proceed, C!Complete
  <2> QED
    BY <1>1, <1>2, <1>3, <2>1 DEF ClientWrites, ClientKeeps
<1>4. CASE ~failed(e)
  <2>1. pc' = to /\ ec' = ec
    BY <1>1, <1>4, ClientCodes DEF C!Proceed, C!GoTo
  <2>2. link \in {"up", "shut"}
    BY <1>1, <1>4 DEF write_results, StreamTypeOK, failed, connection_reset,
       broken_pipe, operation_aborted, bad_descriptor
  <2> QED
    BY <1>1, <1>2, <1>4, <2>1, <2>2 DEF ClientWrites, ClientKeeps
<1> QED
  BY <1>3, <1>4

\* The turns of a read that goes on.
LEMMA ClientKeepsReading ==
    ASSUME StreamTypeOK, C!KeepReading
    PROVE  ClientReadsOn
<1>1. PICK o \in C!Turn : C!More(o) /\ C!Transfer(o)
  BY DEF C!KeepReading
<1>2. pc \in c_reading /\ UNCHANGED <<mode, opt, target, pc, up, ec, answers, app>>
  BY DEF C!KeepReading, C!args, C!Reading, c_reading
<1>3. pos' = pos + o.k /\ n' = n + o.k /\ UNCHANGED <<down, link>>
  BY <1>1 DEF C!Transfer
<1>4. Gets(o) /\ Len(buffer(o.k)) = n + o.k /\ n \in Nat /\ o.k \in Nat
  BY ClientTurn DEF Gets, StreamTypeOK
<1>5. C!completion_condition(buffer(o.k), o.ec) # 0
  BY <1>1, ClientStream DEF C!More
<1>6. CASE pc = "read_reply"
  <2>1. /\ ~failed(o.ec) /\ n + o.k # 22
        /\ ~(n + o.k = 10 /\ C!to_address_type(buffer(o.k)[4]) = 1)
    BY <1>4, <1>5, <1>6, ClientCodes
       DEF C!completion_condition, C!read_reply_cond, C!ip_v4
  <2>2. ~(n + o.k = 10 /\ buffer(o.k)[4] = 1)
    BY <2>1 DEF C!to_address_type, C!ip_v4
  <2> QED
    BY <1>2, <1>3, <1>4, <1>6, <2>1, <2>2 DEF ClientReadsOn, ClientKeeps
<1>7. CASE pc # "read_reply"
  <2>1. ~failed(o.ec) /\ n + o.k # 2
    BY <1>4, <1>5, <1>7, ClientCodes DEF C!completion_condition, C!transfer_all
  <2> QED
    BY <1>2, <1>3, <1>4, <1>7, <2>1 DEF ClientReadsOn, ClientKeeps
<1> QED
  BY <1>6, <1>7

\* The read of the server's choice.
LEMMA ClientReadsChoice ==
    ASSUME StreamTypeOK, C!ReadChoice
    PROVE  ClientReadsEnd
<1>1. PICK o \in C!Turn :
        /\ C!TransferLast(o)
        /\ LET e == C!choice_result(buffer(o.k), o.ec)
           IN  IF failed(e) THEN C!Complete(e, no_endpoint)
                            ELSE C!GoTo(C!after_choice(buffer(o.k)))
  BY ClientStream, ClientCodes, Zenon DEF C!ReadChoice
<1>2. pc = "read_choice" /\ UNCHANGED <<mode, opt, target, up, answers, app>>
  BY DEF C!ReadChoice, C!args
<1>3. pos' = pos + o.k /\ n' = 0 /\ UNCHANGED <<down, link>>
  BY <1>1 DEF C!TransferLast
<1>4. Gets(o) /\ Len(buffer(o.k)) = n + o.k /\ n \in Nat /\ o.k \in Nat
  BY ClientTurn DEF Gets, StreamTypeOK
<1>5. PICK e : e = C!choice_result(buffer(o.k), o.ec)
  OBVIOUS
<1>6. CASE failed(e)
  <2>1. pc' = "done" /\ ec' = e
    BY <1>1, <1>5, <1>6 DEF C!Complete
  <2> QED
    BY <1>2, <1>3, <1>4, <1>6, <2>1 DEF ClientReadsEnd, ClientKeeps
<1>7. CASE ~failed(e)
  <2>1. /\ ec' = ec
        /\ pc' = IF buffer(o.k)[2] = 2 THEN "write_userpass"
                                       ELSE "write_request"
    BY <1>1, <1>5, <1>7 DEF C!GoTo, C!after_choice, C!auth_userpass
  <2>2. n + o.k >= 2
    <3>1. SUFFICES ASSUME n + o.k < 2 PROVE failed(e)
      BY <1>4, <1>7
    <3>2. failed(socks(160))
      BY DEF failed, socks, request_granted
    <3>3. C!validate_server_choice(buffer(o.k), opt, o.ec) = socks(160)
      BY <1>4, <3>1, ClientCodes DEF C!validate_server_choice, C!bad_reply_size
    <3> QED
      BY <1>5, <3>2, <3>3, ClientCodes DEF C!choice_result
  <2> QED
    BY <1>2, <1>3, <1>4, <2>1, <2>2 DEF ClientReadsEnd, ClientKeeps
<1> QED
  BY <1>6, <1>7

\* The read of the answer to the credentials.
LEMMA ClientReadsStatus ==
    ASSUME StreamTypeOK, C!ReadUserpassReply
    PROVE  ClientReadsEnd
<1>1. PICK o \in C!Turn :
        /\ C!TransferLast(o)
        /\ C!Proceed(C!userpass_result(buffer(o.k), o.ec), "write_request")
  BY ClientStream, ClientCodes, Zenon DEF C!ReadUserpassReply
<1>2. pc = "read_userpass" /\ UNCHANGED <<mode, opt, target, up, answers, app>>
  BY DEF C!ReadUserpassReply, C!args
<1>3. pos' = pos + o.k /\ n' = 0 /\ UNCHANGED <<down, link>>
  BY <1>1 DEF C!TransferLast
<1>4. Gets(o) /\ Len(buffer(o.k)) = n + o.k /\ n \in Nat /\ o.k \in Nat
  BY ClientTurn DEF Gets, StreamTypeOK
<1>5. PICK e : e = C!userpass_result(buffer(o.k), o.ec)
  OBVIOUS
<1>6. CASE failed(e)
  <2>1. pc' = "done" /\ ec' = e
    BY <1>1, <1>5, <1>6, ClientCodes DEF C!Proceed, C!Complete
  <2> QED
    BY <1>2, <1>3, <1>4, <1>6, <2>1 DEF ClientReadsEnd, ClientKeeps
<1>7. CASE ~failed(e)
  <2>1. ec' = ec /\ pc' = "write_request"
    BY <1>1, <1>5, <1>7, ClientCodes DEF C!Proceed, C!GoTo
  <2>2. n + o.k = 2
    <3>1. SUFFICES ASSUME n + o.k # 2 PROVE failed(e)
      BY <1>4, <1>7
    <3>2. failed(socks(160)) /\ socks(160) # eof
      BY DEF failed, socks, request_granted, eof
    <3>3. C!validate_userpass_reply(buffer(o.k), o.ec) = socks(160)
      BY <1>4, <3>1, ClientCodes DEF C!validate_userpass_reply, C!bad_reply_size
    <3> QED
      BY <1>5, <3>2, <3>3, ClientCodes
         DEF C!userpass_result, C!sync_userpass_result, C!async_userpass_result
  <2> QED
    BY <1>2, <1>3, <1>4, <2>1, <2>2 DEF ClientReadsEnd, ClientKeeps
<1> QED
  BY <1>6, <1>7

\* The read of the reply.
LEMMA ClientReadsTheReply ==
    ASSUME StreamTypeOK, C!ReadReply
    PROVE  ClientReadsReply
<1>1. PICK o \in C!Turn :
        /\ ~C!More(o)
        /\ C!TransferLast(o)
        /\ pc' = "done"
        /\ ec' = C!reply_result(buffer(o.k), o.ec).ec
  BY ClientStream, ClientCodes, Zenon DEF C!ReadReply, C!Complete
<1>2. pc = "read_reply" /\ UNCHANGED <<mode, opt, target, up, answers, app>>
  BY DEF C!ReadReply, C!args
<1>3. pos' = pos + o.k /\ n' = 0 /\ UNCHANGED <<down, link>>
  BY <1>1 DEF C!TransferLast
<1>4. Gets(o) /\ Len(buffer(o.k)) = n + o.k /\ n \in Nat /\ o.k \in Nat
  BY ClientTurn DEF Gets, StreamTypeOK
<1>5. failed(o.ec) \/ n + o.k = 22 \/ (n + o.k = 10 /\ buffer(o.k)[4] = 1)
  <2>1. C!completion_condition(buffer(o.k), o.ec) = 0
    BY <1>1, ClientStream DEF C!More
  <2>2. \/ failed(o.ec) \/ n + o.k = 22
        \/ n + o.k = 10 /\ C!to_address_type(buffer(o.k)[4]) = 1
    BY <1>2, <1>4, <2>1, ClientCodes
       DEF C!completion_condition, C!read_reply_cond, C!ip_v4
  <2>3. C!to_address_type(buffer(o.k)[4]) = 1 => buffer(o.k)[4] = 1
    BY DEF C!to_address_type, C!ip_v4, C!ip_v6, C!domain_name, C!unknown
  <2> QED
    BY <2>2, <2>3
<1>6. \/ failed(ec') /\ failed(o.ec) /\ o.ec # eof
      \/ failed(ec') /\ n + o.k # 10 /\ n + o.k # 22
      \/ /\ n + o.k \in {10, 22} /\ (failed(o.ec) => o.ec = eof)
         /\ ec' = parse_reply_v5(buffer(o.k)).ec
  <2>1. CASE failed(o.ec) /\ o.ec # eof
    BY <1>1, <2>1, ClientCodes DEF C!reply_result, C!reply_error
  <2>2. CASE ~(failed(o.ec) /\ o.ec # eof) /\ n + o.k \notin {10, 22}
    <3>1. ec' = socks(160)
      BY <1>1, <1>4, <2>2, ClientCodes
         DEF C!reply_result, C!reply_error, C!bad_reply_size
    <3>2. failed(socks(160))
      BY DEF failed, socks, request_granted
    <3> QED
      BY <2>2, <3>1, <3>2
  <2>3. CASE ~(failed(o.ec) /\ o.ec # eof) /\ n + o.k \in {10, 22}
    BY <1>1, <1>4, <2>3, ClientCodes, ClientReply DEF C!reply_result
  <2> QED
    BY <2>1, <2>2, <2>3
<1> QED
  BY <1>1, <1>2, <1>3, <1>4, <1>5, <1>6 DEF ClientReadsReply, ClientKeeps

\* Every step of the operation, synchronous or not, is one of these.
LEMMA ClientMoves ==
    ASSUME StreamTypeOK, C!Operation
    PROVE  ClientMove
<1>1. CASE C!WriteGreeting
  <2>1. pc = "write_greeting" /\ "greeting" \in c_kinds
    BY <1>1 DEF C!WriteGreeting, c_kinds
  <2>2. C!WriteMessage("greeting", prepare_greeting(opt), "read_choice")
    BY <1>1, ClientMessages, Zenon DEF C!WriteGreeting
  <2> QED
    BY <2>1, <2>2, ClientWriteMoves, Zenon DEF ClientMove
<1>2. CASE C!ReadChoice
  BY <1>2, ClientReadsChoice DEF ClientMove
<1>3. CASE C!WriteUserpass
  <2>1. pc = "write_userpass" /\ "userpass" \in c_kinds
    BY <1>3 DEF C!WriteUserpass, c_kinds
  <2>2. C!WriteMessage("userpass", prepare_userpass_request(opt), "read_userpass")
    BY <1>3, ClientMessages, Zenon DEF C!WriteUserpass
  <2> QED
    BY <2>1, <2>2, ClientWriteMoves, Zenon DEF ClientMove
<1>4. CASE C!ReadUserpassReply
  BY <1>4, ClientReadsStatus DEF ClientMove
<1>5. CASE C!WriteRequest
  <2>1. pc = "write_request" /\ "request" \in c_kinds
    BY <1>5 DEF C!WriteRequest, c_kinds
  <2>2. C!WriteMessage("request", prepare_request(target), "read_reply")
    BY <1>5, ClientMessages, Zenon DEF C!WriteRequest
  <2> QED
    BY <2>1, <2>2, ClientWriteMoves, Zenon DEF ClientMove
<1>6. CASE C!ReadReply
  BY <1>6, ClientReadsTheReply DEF ClientMove
<1>7. CASE C!KeepReading
  BY <1>7, ClientKeepsReading DEF ClientMove
<1> QED
  BY <1>1, <1>2, <1>3, <1>4, <1>5, <1>6, <1>7
     DEF C!Operation, C!connect, C!connect_op, C!authenticate,
         C!write_connect_request, C!read_connect_reply

(***************************************************************************)
(* The messages.                                                           *)
(***************************************************************************)
\* The greeting begins with its version and says how long it is.
LEMMA GreetingShape ==
    ASSUME opt \in Credentials
    PROVE  /\ prepare_greeting(opt) \in Seq(Byte)
           /\ Len(prepare_greeting(opt)) = 2 + Before
           /\ prepare_greeting(opt)[1] = 5 /\ prepare_greeting(opt)[2] = Before
           /\ parse_socks_greeting(prepare_greeting(opt)) = Chosen
<1>1. parse_socks_greeting(prepare_greeting(opt)) = Chosen
  BY GreetingParsed DEF Chosen
<1>2. CASE opt.is_userpass
  <2>1. prepare_greeting(opt) = <<5, 2>> \o <<0, 2>>
    BY <1>2 DEF prepare_greeting, prepare_methods, code, byte, socks_5,
                auth_userpass, no_authentication
  <2> QED
    BY <1>1, <1>2, <2>1, SmallBytes DEF Before
<1>3. CASE ~opt.is_userpass
  <2>1. prepare_greeting(opt) = <<5, 1>> \o <<0>>
    BY <1>3 DEF prepare_greeting, prepare_methods, code, byte, socks_5,
                auth_userpass, no_authentication
  <2> QED
    BY <1>1, <1>3, <2>1, SmallBytes DEF Before
<1> QED
  BY <1>2, <1>3

\* The credentials fit into the server's buffer.
LEMMA UserpassShape ==
    ASSUME opt \in Credentials
    PROVE  /\ prepare_userpass_request(opt) \in Seq(Byte)
           /\ Len(prepare_userpass_request(opt)) <= 513
           /\ Len(prepare_userpass_request(opt)) >= 3
           /\ prepare_userpass_request(opt)[1] = 1
<1>1. PICK u \in Seq(Byte), p \in Seq(Byte), z \in Nat, y \in Nat :
        u = opt.user /\ p = opt.pass /\ z = Len(u) /\ y = Len(p)
  BY LenProperties DEF Credentials
<1>2. z <= 255 /\ y <= 255
  BY <1>1 DEF Credentials
<1>3. prepare_userpass_request(opt) = <<1, z>> \o u \o <<z>> \o p
  <2>1. byte(z) = z
    BY <1>2, ByteOfLength
  <2> QED
    BY <1>1, <2>1, Zenon DEF prepare_userpass_request
<1>4. UserpassBytes(<<1, z>> \o u \o <<z>> \o p, u, z, p)
  BY <1>1, <1>2, UserpassLayout, Zenon
<1>5. PICK m : m = prepare_userpass_request(opt) /\ UserpassBytes(m, u, z, p)
  BY <1>3, <1>4, Zenon
<1>6. m \in Seq(Byte) /\ Len(m) = 3 + z + y /\ m[1] = 1
  BY <1>1, <1>5, Zenon DEF UserpassBytes
<1>7. Len(m) <= 513 /\ Len(m) >= 3
  BY <1>2, <1>6
<1> QED
  BY <1>5, <1>6, <1>7, Zenon

\* The request begins as the server expects it and has the size of its
\* address type.
RequestForm(m) ==
    /\ m[1] = 5 /\ m[2] = 1 /\ m[3] = 0
    /\ \/ m[4] = 1 /\ Len(m) = 10
       \/ m[4] = 4 /\ Len(m) = 22
       \/ m[4] = 3 /\ Len(m) > 4 /\ Len(m) = 7 + m[5]

\* What the server accepts has this form.
LEMMA AcceptedForm ==
    ASSUME NEW m \in Seq(Byte), parse_socks_connect(m).rep = 0
    PROVE  RequestForm(m)
<1>1. PICK z \in Nat : z = Len(m)
  BY LenProperties
<1>2. \A rep : refuse(rep).rep = rep
  BY DEF refuse
<1>3. z # 0
  BY <1>1, <1>2 DEF parse_socks_connect, dropped
<1>4. m[1] = 5 /\ z # 1
  BY <1>1, <1>2, <1>3 DEF parse_socks_connect
<1>5. m[2] = 1
  BY <1>1, <1>2, <1>3, <1>4 DEF parse_socks_connect
<1>6. z # 2 /\ m[3] = 0 /\ z # 3
  BY <1>1, <1>2, <1>3, <1>4, <1>5 DEF parse_socks_connect
<1>7. \/ m[4] = 1 /\ z = 10
      \/ m[4] = 4 /\ z = 22
      \/ m[4] = 3 /\ z > 4 /\ z = 7 + m[5]
  <2>1. SUFFICES ASSUME ~(m[4] = 1 /\ z = 10), ~(m[4] = 4 /\ z = 22),
                        ~(m[4] = 3 /\ z > 4 /\ z = 7 + m[5])
                 PROVE  parse_socks_connect(m) = refuse(8)
    <3>1. refuse(8).rep # 0
      BY <1>2
    <3> QED
      BY <3>1
  <2> QED
    BY <1>1, <1>3, <1>4, <1>5, <1>6, <2>1, Zenon DEF parse_socks_connect
<1> QED
  BY <1>1, <1>4, <1>5, <1>6, <1>7 DEF RequestForm

\* The request: bytes, of this form, and understood by the server.
LEMMA RequestShape ==
    ASSUME target \in Target
    PROVE  /\ prepare_request(target) \in Seq(Byte)
           /\ RequestForm(prepare_request(target))
           /\ parse_socks_connect(prepare_request(target))
                = [rep |-> 0, target |-> target]
<1>1. parse_socks_connect(prepare_request(target))
        = [rep |-> 0, target |-> target]
  BY RequestParsed
<1>2. prepare_request(target) \in Seq(Byte)
  <2>1. PICK a \in Seq(Byte), p \in Seq(Byte), z \in Nat :
          a = target.addr /\ p = port_bytes(target.port) /\ z = Len(a)
    BY TargetParts, PortRoundTrip, LenProperties
  <2>2. target.kind = "domain" => z <= 255
    BY <2>1, TargetParts
  <2>3. PICK k \in Seq(Byte) :
          k = IF target.kind = "v4" THEN <<ip_v4>>
              ELSE IF target.kind = "v6" THEN <<ip_v6>>
              ELSE <<domain_name, byte(Len(target.addr))>>
    <3>1. byte(z) \in Byte
      BY DEF byte, Byte
    <3>2. /\ <<ip_v4>> \in Seq(Byte) /\ <<ip_v6>> \in Seq(Byte)
          /\ <<domain_name, byte(z)>> \in Seq(Byte)
      BY <3>1, SmallBytes DEF ip_v4, ip_v6, domain_name
    <3> QED
      BY <2>1, <3>2, Zenon
  <2>4. prepare_request(target) = <<5, 1, 0>> \o (k \o a \o p)
    BY <2>1, <2>3, Zenon DEF prepare_request, write_ver_cmd_rsv, socks_5,
                             command_connect, write_target_host
  <2>5. <<5, 1, 0>> \in Seq(Byte)
    BY SmallBytes
  <2>6. k \o a \o p \in Seq(Byte)
    BY ConcatProperties
  <2> QED
    BY <2>4, <2>5, <2>6, ConcatProperties
<1>3. RequestForm(prepare_request(target))
  BY <1>1, <1>2, AcceptedForm
<1> QED
  BY <1>1, <1>2, <1>3

\* A reply has the size of its address type, and the client understands it.
LEMMA ReplyOfCode ==
    ASSUME NEW v \in {0, 4}, NEW b \in Bounds, NEW m, m = connect_reply(v, b)
    PROVE  /\ m \in Seq(Byte) /\ m[2] = v /\ m[4] \in {1, 4}
           /\ Len(m) = IF m[4] = 1 THEN 10 ELSE 22
           /\ parse_reply_v5(m).ec = socks(v)
<1>1. b \in Endpoint
  BY SessionAssumption
<1> DEFINE e == IF v # 0 THEN no_endpoint ELSE b
           c == IF e.kind = "v4" THEN 1 ELSE 4
           h == <<5, v, 0, c>>
<1>2. e \in Endpoint /\ e \in Target
  BY <1>1, NoEndpointFacts DEF Target
<1>3. /\ e.kind \in {"v4", "v6"}
      /\ e.kind = "v4" => Len(e.addr) = 4
      /\ e.kind = "v6" => Len(e.addr) = 16
  <2> HIDE DEF e
  <2> QED
    BY <1>2 DEF Endpoint
<1>4. PICK a \in Seq(Byte), p \in Seq(Byte) :
        a = e.addr /\ p = port_bytes(e.port) /\ Len(p) = 2
  <2> HIDE DEF e
  <2> QED
    BY <1>2, TargetParts, PortRoundTrip
<1>5. c \in {1, 4} /\ (c = 1 => Len(a) = 4) /\ (c = 4 => Len(a) = 16)
  BY <1>3, <1>4
<1>6. m = h \o a \o p
  BY <1>1, <1>4, Zenon DEF connect_reply
<1> HIDE DEF e, c
<1>7. /\ h \in Seq(Byte) /\ Len(h) = 4 /\ h[2] = v /\ h[4] = c
  BY <1>5, SmallBytes
<1> HIDE DEF h
<1>8. FramedBytes(m, h, a, p)
  BY <1>6, <1>7, Framed, Zenon
<1>9. /\ m \in Seq(Byte) /\ Len(m) = 6 + Len(a) /\ m[2] = v /\ m[4] = c
  BY <1>4, <1>7, <1>8 DEF FramedBytes
<1>10. parse_reply_v5(m).ec = socks(v)
  <2>1. v \in Byte /\ v \in reply_code
    BY DEF Byte, reply_code
  <2> QED
    BY <1>1, <2>1, ReplyParsed, VerdictFacts
<1>11. Len(m) = IF m[4] = 1 THEN 10 ELSE 22
  <2>1. CASE c = 1
    <3>1. Len(m) = 6 + 4 /\ m[4] = 1
      BY <1>5, <1>9, <2>1, Zenon
    <3> QED
      BY <3>1
  <2>2. CASE c = 4
    <3>1. Len(m) = 6 + 16 /\ m[4] = 4
      BY <1>5, <1>9, <2>2, Zenon
    <3> QED
      BY <3>1
  <2> QED
    BY <1>5, <2>1, <2>2
<1> QED
  BY <1>5, <1>9, <1>10, <1>11, Zenon

\* The same of any reply.
LEMMA ReplyShape ==
    ASSUME NEW m, IsReply(m)
    PROVE  /\ m \in Seq(Byte) /\ m[2] \in {0, 4} /\ m[4] \in {1, 4}
           /\ Len(m) = IF m[4] = 1 THEN 10 ELSE 22
           /\ parse_reply_v5(m).ec = socks(m[2])
BY ReplyOfCode DEF IsReply

(***************************************************************************)
(* The dialogue as a sequence of messages.                                 *)
(***************************************************************************)
\* The arguments of the call.
LEMMA Arguments ==
    ASSUME Types
    PROVE  opt \in Credentials /\ target \in Target /\ Before \in {1, 2}
BY SessionAssumption DEF Types, Before

\* The messages of the client are bytes, and the server's buffer holds them.
LEMMA SayShape ==
    ASSUME Types
    PROVE  \A j : Say(j) \in Seq(Byte) /\ Len(Say(j)) \in Nat
<1>1. \A j : Say(j) \in Seq(Byte)
  BY Arguments, GreetingShape, UserpassShape, RequestShape, Zenon DEF Say
<1> QED
  BY <1>1, LenProperties

\* Where they begin and end.
LEMMA FromFacts ==
    ASSUME Types
    PROVE  /\ \A j \in Nat : From(j) \in Nat
           /\ From(1) = 0
           /\ \A j \in 1..3 : From(j + 1) = From(j) + Len(Say(j))
<1>1. Len(Say(1)) \in Nat /\ Len(Say(2)) \in Nat /\ Len(Say(3)) \in Nat
  BY SayShape
<1>2. \A j \in Nat : From(j) \in Nat
  <2>1. PICK a \in Nat, b \in Nat, c \in Nat :
          a = Len(Say(1)) /\ b = Len(Say(2)) /\ c = Len(Say(3))
    BY <1>1
  <2>2. \A x, y, z \in Nat : x + y + z \in Nat
    OBVIOUS
  <2>3. \A j \in Nat : From(j) = (IF j > 1 THEN a ELSE 0)
                            + (IF j > 2 THEN b ELSE 0) + (IF j > 3 THEN c ELSE 0)
    BY <2>1, Zenon DEF From
  <2>4. ASSUME NEW j \in Nat
        PROVE  /\ (IF j > 1 THEN a ELSE 0) \in Nat
               /\ (IF j > 2 THEN b ELSE 0) \in Nat
               /\ (IF j > 3 THEN c ELSE 0) \in Nat
    OBVIOUS
  <2>5. ASSUME NEW j \in Nat PROVE From(j) \in Nat
    <3>1. PICK x \in Nat, y \in Nat, z \in Nat :
            /\ x = IF j > 1 THEN a ELSE 0
            /\ y = IF j > 2 THEN b ELSE 0
            /\ z = IF j > 3 THEN c ELSE 0
      BY <2>4
    <3>2. From(j) = x + y + z
      BY <2>3, <3>1
    <3> QED
      BY <3>2
  <2> QED
    BY <2>5
<1>3. /\ From(1) = 0 /\ From(2) = From(1) + Len(Say(1))
      /\ From(3) = From(2) + Len(Say(2)) /\ From(4) = From(3) + Len(Say(3))
  BY <1>1 DEF From
<1> QED
  BY <1>2, <1>3

(***************************************************************************)
(* What a step of the server does.                                         *)
(***************************************************************************)
\* Error codes and constants, in the server.
LEMMA ServerCodes ==
    /\ S!no_error = no_error /\ S!no_endpoint = no_endpoint
    /\ S!dropped = dropped
    /\ \A e : S!failed(e) = failed(e)
BY DEF S!no_error, no_error, S!failed, failed, S!request_granted,
       request_granted, S!no_endpoint, no_endpoint, S!dropped, dropped

\* The parsers of the server, and the reply it builds.
LEMMA ServerParsers ==
    /\ \A buf : S!parse_socks_greeting(buf) = parse_socks_greeting(buf)
    /\ \A buf : S!parse_socks_connect(buf) = parse_socks_connect(buf)
    /\ \A rep, bnd : S!connect_reply(rep, bnd) = connect_reply(rep, bnd)
<1>1. \A buf : S!parse_socks_greeting(buf) = parse_socks_greeting(buf)
  BY ServerCodes, Zenon DEF S!parse_socks_greeting, parse_socks_greeting
<1>2. /\ \A rep : S!refuse(rep) = refuse(rep)
      /\ \A k, a, x, y : S!accept(k, a, x, y) = accept(k, a, x, y)
  BY ServerCodes, Zenon DEF S!refuse, refuse, S!accept, accept, S!to_port, to_port
<1>3. \A buf : S!parse_socks_connect(buf) = parse_socks_connect(buf)
  BY <1>2, ServerCodes, Zenon DEF S!parse_socks_connect, parse_socks_connect
<1>4. \A p : S!port_bytes(p) = port_bytes(p)
  BY Zenon DEF S!port_bytes, port_bytes
<1>5. \A rep, bnd : S!connect_reply(rep, bnd) = connect_reply(rep, bnd)
  BY <1>4, ServerCodes, Zenon DEF S!connect_reply, connect_reply
<1> QED
  BY <1>1, <1>3, <1>5

\* What a read_some of the server may give.
ServerGets(o) ==
    /\ o.k \in Nat /\ s_pos + o.k <= Len(s_down)
    /\ \/ o.k > 0 /\ ~failed(o.ec)
       \/ o.k = 0 /\ failed(o.ec)

\* The buffer of the server.
LEMMA ServerBuffer ==
    ASSUME Types, NEW k \in Nat, s_pos + k <= Len(s_down)
    PROVE  /\ S!buffer(k) \in Seq(Byte)
           /\ Len(S!buffer(k)) = s_n + k
           /\ \A i \in 1..(s_n + k) : S!buffer(k)[i] = s_down[(s_pos - s_n) + i]
<1> DEFINE a == (s_pos - s_n) + 1
           z == s_pos + k
<1>1. /\ s_down \in Seq(Byte) /\ Len(s_down) \in Nat
      /\ s_pos \in Nat /\ s_n \in Nat /\ s_n <= s_pos
  BY DEF Types
<1>2. a \in Int /\ z \in Int /\ a >= 1 /\ z <= Len(s_down) /\ z - a + 1 = s_n + k
  BY <1>1
<1>3. \A i \in a..z : s_down[i] \in Byte
  BY <1>1, <1>2
<1> HIDE DEF a, z
<1>4. /\ SubSeq(s_down, a, z) \in Seq(Byte)
      /\ Len(SubSeq(s_down, a, z)) = IF a <= z THEN z - a + 1 ELSE 0
      /\ \A i \in 1..(z - a + 1) : SubSeq(s_down, a, z)[i] = s_down[a + i - 1]
  BY <1>2, <1>3, SubSeqProperties
<1>5. Len(SubSeq(s_down, a, z)) = s_n + k
  BY <1>1, <1>2, <1>4
<1>6. \A i \in 1..(s_n + k) : SubSeq(s_down, a, z)[i] = s_down[(s_pos - s_n) + i]
  BY <1>1, <1>2, <1>4 DEF a
<1>7. S!buffer(k) = SubSeq(s_down, a, z)
  BY DEF a, z, S!buffer
<1> QED
  BY <1>4, <1>5, <1>6, <1>7

\* A completion condition returns a number.
LEMMA ServerConditionType ==
    ASSUME NEW buf \in Seq(Byte), NEW e
    PROVE  S!completion_condition(buf, e) \in Int
<1>0. Len(buf) \in Nat /\ \A i \in 1..Len(buf) : buf[i] \in Byte
  BY ElementOfSeq
<1>1. Len(buf) \in Nat /\ \A i \in 1..Len(buf) : buf[i] \in Nat
  BY <1>0, BytesAreNumbers
<1>2. S!greeting_cond(buf, e) \in Int
  BY <1>1 DEF S!greeting_cond
<1>3. S!userpass_cond(buf, e) \in Int
  <2> DEFINE idlen == buf[2]
             pwlen == IF Len(buf) > 2 + idlen THEN buf[3 + idlen] ELSE 256
  <2>1. ~(Len(buf) < 2) => idlen \in Nat /\ pwlen \in Nat
    <3>1. ~(Len(buf) < 2) => idlen \in Nat
      BY <1>1
    <3>2. idlen \in Nat /\ Len(buf) > 2 + idlen => 3 + idlen \in 1..Len(buf)
      BY <1>1
    <3> QED
      BY <1>1, <3>1, <3>2
  <2>2. ~(Len(buf) < 2) => 3 + idlen + pwlen \in Int
    BY <2>1
  <2> HIDE DEF pwlen, idlen
  <2>3. S!userpass_cond(buf, e) \in {0, 513, 3 + idlen + pwlen}
    BY Zenon DEF S!userpass_cond, idlen, pwlen
  <2>4. Len(buf) < 2 => S!userpass_cond(buf, e) \in {0, 513}
    BY Zenon DEF S!userpass_cond
  <2> QED
    BY <2>2, <2>3, <2>4
<1>4. S!request_cond(buf, e) \in Int
  <2>1. ~(Len(buf) < 4) => S!request_size(buf) \in Int
    BY <1>1 DEF S!request_size
  <2> HIDE DEF S!request_size
  <2> QED
    BY <1>1, <2>1 DEF S!request_cond
<1> QED
  BY <1>2, <1>3, <1>4 DEF S!completion_condition

\* What read_some gives a read of the server.
LEMMA ServerTurn ==
    ASSUME Types, NEW o \in S!Turn
    PROVE  ServerGets(o)
<1>1. PICK limit : /\ limit = S!to_read(S!buffer(0), no_error)
                   /\ o \in S!read_some(limit)
  BY ServerCodes DEF S!Turn
<1>2. /\ s_pos \in Nat /\ s_n \in Nat /\ s_pos <= Len(s_down)
      /\ s_pos + 0 <= Len(s_down) /\ Len(s_down) \in Nat
  BY DEF Types
<1>3. S!buffer(0) \in Seq(Byte) /\ Len(S!buffer(0)) = s_n
  BY <1>2, ServerBuffer
<1>4. limit \in Int
  <2>1. S!completion_condition(S!buffer(0), no_error) \in Int
    BY <1>3, ServerConditionType
  <2>2. S!buffer_size \in Int
    BY DEF S!buffer_size
  <2> QED
    BY <1>1, <1>2, <1>3, <2>1, <2>2 DEF S!to_read
<1>5. CASE o \in [k : {k \in 1..limit : s_link # "closed" /\ s_pos + k <= Len(s_down)},
                  ec : {no_error}]
  BY <1>4, <1>5, ErrorFacts DEF ServerGets
<1>6. CASE o \in [k : {0}, ec : S!read_errors]
  <2>1. o.k = 0 /\ o.ec \in S!read_errors
    BY <1>6
  <2>2. failed(o.ec)
    BY <2>1 DEF S!read_errors, Types, failed, S!eof, S!connection_reset,
                S!operation_aborted, S!bad_descriptor
  <2> QED
    BY <1>2, <2>1, <2>2 DEF ServerGets
<1> QED
  BY <1>1, <1>5, <1>6, ServerCodes DEF S!read_some

\* A sequence with the elements of another, and as many, is the other.
LEMMA SameBytes ==
    ASSUME NEW s \in Seq(Byte), NEW t \in Seq(Byte), Len(s) = Len(t),
           \A i \in 1..Len(s) : s[i] = t[i]
    PROVE  s = t
BY SeqEqual

\* What the server has in its buffer after a turn is a beginning of the
\* message it waits for: the client does not speak before it is answered.
LEMMA ServerHears ==
    ASSUME Types, UpInv, TurnInv, ServerInv, DownInv, s_pc \in s_reading,
           NEW o \in S!Turn, NEW j, j = Len(s_out) + 1
    PROVE  /\ ServerGets(o) /\ j \in 1..3 /\ s_n \in Nat
           /\ S!buffer(o.k) \in Seq(Byte) /\ Len(S!buffer(o.k)) = s_n + o.k
           /\ s_n + o.k <= Len(Say(j))
           /\ \A i \in 1..(s_n + o.k) : S!buffer(o.k)[i] = Say(j)[i]
           /\ o.k > 0 => Len(up) = j
<1>1. ServerGets(o)
  BY ServerTurn
<1>2. /\ s_n \in Nat /\ s_pos \in Nat /\ Len(s_down) \in Nat /\ Len(s_out) \in Nat
      /\ Len(up) \in Nat /\ o.k \in Nat
  BY <1>1 DEF ServerGets, Types
<1>3. /\ S!buffer(o.k) \in Seq(Byte) /\ Len(S!buffer(o.k)) = s_n + o.k
      /\ \A i \in 1..(s_n + o.k) :
            S!buffer(o.k)[i] = s_down[(s_pos - s_n) + i]
  BY <1>1, ServerBuffer DEF ServerGets
<1>4. j \in 1..3
  <2>1. Before \in {1, 2}
    BY Arguments
  <2>2. Len(s_out) \in {0, 1, Before}
    BY Zenon DEF s_reading, ServerInv
  <2>3. Len(s_out) = 0 \/ Len(s_out) = 1 \/ Len(s_out) = 2
    BY <2>1, <2>2, Zenon
  <2>4. j = 0 + 1 \/ j = 1 + 1 \/ j = 2 + 1
    BY <2>3, Zenon
  <2> QED
    BY <2>4
<1>5. s_pos = From(j) + s_n
  BY DEF ServerInv
<1>6. PICK f \in Nat, z \in Nat : f = From(j) /\ z = Len(Say(j))
  <2>1. j \in Nat
    BY <1>4
  <2> QED
    BY <2>1, FromFacts, SayShape, Zenon
<1>7. Len(up) = j \/ Len(up) = j - 1
  BY <1>2 DEF TurnInv
<1>8. CASE Len(up) = j - 1
  <2>1. Len(up) + 1 = j
    BY <1>2, <1>4, <1>8
  <2>2. Len(s_down) = f
    BY <1>6, <2>1 DEF UpInv
  <2>3. s_n = 0 /\ o.k = 0
    BY <1>1, <1>2, <1>5, <1>6, <2>2 DEF ServerGets
  <2> QED
    BY <1>1, <1>2, <1>3, <1>4, <1>6, <2>3
<1>9. CASE Len(up) = j
  <2>1. Len(s_down) = f + z
    BY <1>4, <1>6, <1>9, FromFacts DEF UpInv
  <2>2. Holds(s_down, f, Say(j))
    BY <1>2, <1>4, <1>6, <1>9 DEF UpInv
  <2>3. s_n + o.k <= z
    <3>1. s_pos + o.k <= f + z /\ s_pos = f + s_n
      BY <1>1, <1>5, <1>6, <2>1 DEF ServerGets
    <3> QED
      BY <1>2, <3>1
  <2>4. \A i \in 1..z : s_down[f + i] = Say(j)[i]
    BY <1>6, <2>2 DEF Holds
  <2>5. (s_pos - s_n) = f
    BY <1>2, <1>5, <1>6
  <2>6. \A i \in 1..(s_n + o.k) : i \in 1..z
    BY <1>2, <2>3
  <2>7. \A i \in 1..(s_n + o.k) : S!buffer(o.k)[i] = Say(j)[i]
    BY <1>3, <2>4, <2>5, <2>6
  <2> QED
    BY <1>1, <1>2, <1>3, <1>4, <1>6, <1>9, <2>3, <2>7
<1> QED
  BY <1>7, <1>8, <1>9

\* A read of the server that ends without an error, and the message it
\* waited for is only there in part: the buffer is full, or the completion
\* condition says so.
LEMMA ServerStops ==
    ASSUME Types, NEW o \in S!Turn, ~S!More(o), s_n \in Nat, o.k \in Nat,
           Len(S!buffer(o.k)) = s_n + o.k
    PROVE  \/ s_n + o.k = S!buffer_size
           \/ S!completion_condition(S!buffer(o.k), o.ec) = 0
<1>1. S!buffer_size \in Int
  BY DEF S!buffer_size
<1> QED
  BY <1>1 DEF S!More, S!to_read

\* The server stops reading the greeting when it has all of it.
LEMMA GreetingHeard ==
    ASSUME Types, UpInv, TurnInv, ServerInv, DownInv, s_pc = "read_greeting",
           NEW o \in S!Turn, ~S!More(o), ~failed(o.ec)
    PROVE  /\ S!buffer(o.k) = prepare_greeting(opt)
           /\ Len(up) = 1 /\ s_n + o.k = Len(Say(1))
<1>1. Len(s_out) = 0 /\ s_pc \in s_reading
  BY DEF ServerInv, s_reading
<1>2. PICK buf \in Seq(Byte) : buf = S!buffer(o.k)
  BY <1>1, ServerHears
<1>3. /\ ServerGets(o) /\ s_n \in Nat /\ o.k \in Nat
      /\ Len(buf) = s_n + o.k /\ s_n + o.k <= Len(Say(1))
      /\ \A i \in 1..(s_n + o.k) : buf[i] = Say(1)[i]
      /\ o.k > 0 => Len(up) = 1
  <2>1. 1 = Len(s_out) + 1
    BY <1>1
  <2> QED
    BY <1>1, <1>2, <2>1, ServerHears, Zenon DEF ServerGets
<1>4. o.k > 0
  BY <1>3 DEF ServerGets
<1>5. PICK m \in Seq(Byte) :
        /\ m = prepare_greeting(opt) /\ m = Say(1)
        /\ Len(m) = 2 + Before /\ m[1] = 5 /\ m[2] = Before
  BY Arguments, GreetingShape DEF Say
<1>6. Before \in {1, 2}
  BY Arguments
<1>7. Len(buf) = Len(m)
  <2>1. SUFFICES ASSUME Len(buf) < 2 + Before PROVE FALSE
    BY <1>3, <1>5, <1>6
  <2>2. s_n + o.k # 258
    BY <1>3, <1>6, <2>1
  <2>3. S!greeting_cond(buf, o.ec) = 0
    BY <1>2, <1>3, <2>2, ServerStops DEF S!completion_condition, S!buffer_size
  <2>4. Len(buf) >= 1 /\ buf[1] = 5
    BY <1>3, <1>4, <1>5
  <2>5. CASE Len(buf) = 1
    BY <2>3, <2>4, <2>5, ServerCodes DEF S!greeting_cond
  <2>6. CASE Len(buf) >= 2
    <3>1. buf[2] = Before
      BY <1>3, <1>5, <2>6
    <3> QED
      BY <1>3, <1>6, <2>1, <2>3, <2>4, <2>6, <3>1, ServerCodes
         DEF S!greeting_cond
  <2> QED
    BY <1>3, <2>4, <2>5, <2>6
<1>8. buf = m
  BY <1>3, <1>5, <1>7, SameBytes
<1> QED
  BY <1>2, <1>3, <1>4, <1>5, <1>7, <1>8

\* The server stops reading the credentials when its buffer is full, and
\* no credentials are longer.
LEMMA UserpassHeard ==
    ASSUME Types, UpInv, TurnInv, ServerInv, DownInv, s_pc = "read_userpass",
           NEW o \in S!Turn, ~S!More(o), ~failed(o.ec)
    PROVE  Len(up) = 2 /\ s_n + o.k = Len(Say(2))
<1>1. Len(s_out) = 1 /\ s_pc \in s_reading /\ Before = 2
  BY DEF ServerInv, s_reading
<1>2. PICK buf \in Seq(Byte) : buf = S!buffer(o.k)
  BY <1>1, ServerHears
<1>3. /\ ServerGets(o) /\ s_n \in Nat /\ o.k \in Nat
      /\ Len(buf) = s_n + o.k /\ s_n + o.k <= Len(Say(2))
      /\ \A i \in 1..(s_n + o.k) : buf[i] = Say(2)[i]
      /\ o.k > 0 => Len(up) = 2
  <2>1. 2 = Len(s_out) + 1
    BY <1>1
  <2> QED
    BY <1>1, <1>2, <2>1, ServerHears, Zenon DEF ServerGets
<1>4. o.k > 0
  BY <1>3 DEF ServerGets
<1>5. PICK m \in Seq(Byte) :
        m = Say(2) /\ Len(m) <= 513 /\ Len(m) >= 3 /\ m[1] = 1
  BY <1>1, Arguments, UserpassShape DEF Say, Before
<1>6. s_n + o.k = 513
  <2>1. SUFFICES ASSUME s_n + o.k # 513 PROVE FALSE
    OBVIOUS
  <2>2. S!userpass_cond(buf, o.ec) = 0
    BY <1>2, <1>3, <2>1, ServerStops DEF S!completion_condition, S!buffer_size
  <2>3. Len(buf) >= 1 /\ buf[1] = 1 /\ Len(buf) \in Nat
    BY <1>3, <1>4, <1>5
  <2>4. \A i \in 1..Len(buf) : buf[i] \in Nat
    BY BytesAreNumbers
  <2>5. CASE Len(buf) < 2
    BY <2>2, <2>3, <2>5, ServerCodes DEF S!userpass_cond
  <2>6. CASE ~(Len(buf) < 2)
    <3> DEFINE pwlen == IF Len(buf) > 2 + buf[2] THEN buf[3 + buf[2]] ELSE 256
    <3>1. buf[2] \in Nat
      BY <2>3, <2>4, <2>6
    <3>2. pwlen \in Nat
      <4>1. Len(buf) > 2 + buf[2] => 3 + buf[2] \in 1..Len(buf)
        BY <2>3, <3>1
      <4> QED
        BY <2>4, <4>1
    <3>3. S!userpass_cond(buf, o.ec) = 3 + buf[2] + pwlen
      BY <2>3, <2>6, ServerCodes DEF S!userpass_cond
    <3> HIDE DEF pwlen
    <3> QED
      BY <2>2, <3>1, <3>2, <3>3
  <2> QED
    BY <2>5, <2>6
<1> QED
  BY <1>3, <1>4, <1>5, <1>6

\* The request is what the client says last.
LEMMA SayRequest ==
    ASSUME Types
    PROVE  Say(Before + 1) = prepare_request(target) /\ Before + 1 \in 2..3
<1>1. CASE opt.is_userpass
  BY <1>1 DEF Say, Before
<1>2. CASE ~opt.is_userpass
  BY <1>2 DEF Say, Before
<1> QED
  BY <1>1, <1>2

\* The server stops reading the request when it has all of it.
LEMMA RequestHeard ==
    ASSUME Types, UpInv, TurnInv, ServerInv, DownInv, s_pc = "read_request",
           NEW o \in S!Turn, ~S!More(o), ~failed(o.ec)
    PROVE  /\ S!buffer(o.k) = prepare_request(target)
           /\ Len(up) = Before + 1 /\ s_n + o.k = Len(Say(Before + 1))
<1>1. Len(s_out) = Before /\ s_pc \in s_reading
  BY Zenon DEF ServerInv, s_reading
<1>2. PICK j : j = Before + 1
  OBVIOUS
<1>3. j = Len(s_out) + 1
  BY <1>1, <1>2, Zenon
<1>4. PICK buf \in Seq(Byte) : buf = S!buffer(o.k)
  BY <1>1, <1>3, ServerHears, Zenon
<1>5. /\ ServerGets(o) /\ s_n \in Nat /\ o.k \in Nat
      /\ Len(buf) = s_n + o.k /\ s_n + o.k <= Len(Say(j))
      /\ \A i \in 1..(s_n + o.k) : buf[i] = Say(j)[i]
      /\ o.k > 0 => Len(up) = j
  BY <1>1, <1>3, <1>4, ServerHears, Zenon DEF ServerGets
<1>6. o.k > 0
  BY <1>5 DEF ServerGets
<1>7. PICK m \in Seq(Byte) :
        m = prepare_request(target) /\ m = Say(j) /\ RequestForm(m)
  BY <1>2, Arguments, RequestShape, SayRequest
<1>8. PICK z \in Nat : z = Len(buf) /\ z = s_n + o.k
  BY <1>5
<1>9. PICK size \in Nat : size = Len(m)
  BY LenProperties
<1>10. z >= 1 /\ z <= size /\ \A i \in 1..z : buf[i] = m[i]
  BY <1>5, <1>6, <1>7, <1>8, <1>9
<1>11. z = size
  <2>1. SUFFICES ASSUME z < size PROVE FALSE
    BY <1>10
  <2>2. /\ m[1] = 5 /\ m[2] = 1 /\ m[3] = 0
        /\ \/ m[4] = 1 /\ size = 10
           \/ m[4] = 4 /\ size = 22
           \/ m[4] = 3 /\ size > 4 /\ size = 7 + m[5]
    BY <1>7, <1>9 DEF RequestForm
  <2>3. size > 4 => m[5] \in Nat /\ m[5] <= 255
    <3>1. size > 4 => m[5] \in Byte
      BY <1>9
    <3> QED
      BY <3>1, BytesAreNumbers
  <2>4. size <= 262
    BY <2>2, <2>3
  <2>5. z # 263
    BY <2>1, <2>4
  <2>6. S!request_cond(buf, o.ec) = 0
    BY <1>4, <1>5, <1>8, <2>5, ServerStops
       DEF S!completion_condition, S!buffer_size
  <2>7. ~ \/ S!failed(o.ec)
          \/ z >= 1 /\ buf[1] # 5
          \/ z >= 2 /\ buf[2] # 1
          \/ z >= 3 /\ buf[3] # 0
    BY <1>10, <2>2, ServerCodes
  <2>8. CASE z < 4
    BY <1>8, <2>6, <2>7, <2>8 DEF S!request_cond
  <2>9. CASE ~(z < 4)
    <3>1. buf[4] = m[4]
      BY <1>10, <2>9
    <3>2. z > 4 => buf[5] = m[5]
      BY <1>10
    <3>3. S!request_size(buf) \in Nat /\ z < S!request_size(buf)
      <4>1. CASE m[4] = 1 /\ size = 10
        BY <2>1, <3>1, <4>1 DEF S!request_size
      <4>2. CASE m[4] = 4 /\ size = 22
        BY <2>1, <3>1, <4>2 DEF S!request_size
      <4>3. CASE m[4] = 3 /\ size > 4 /\ size = 7 + m[5]
        BY <1>8, <2>1, <2>3, <2>9, <3>1, <3>2, <4>3 DEF S!request_size
      <4> QED
        BY <2>2, <4>1, <4>2, <4>3
    <3> HIDE DEF S!request_size
    <3> QED
      BY <1>8, <2>6, <2>7, <2>9, <3>3 DEF S!request_cond
  <2> QED
    BY <2>8, <2>9
<1>12. buf = m
  BY <1>8, <1>9, <1>10, <1>11, SameBytes
<1>13. Len(up) = Before + 1
  BY <1>2, <1>5, <1>6
<1>14. s_n + o.k = Len(Say(Before + 1))
  BY <1>2, <1>7, <1>8, <1>9, <1>11
<1> QED
  BY <1>4, <1>7, <1>12, <1>13, <1>14

\* The variables of the server no step of its changes.
ServerKeeps == UNCHANGED <<s_down, s_link>>

\* A read goes on.
ServerReadsOn ==
    /\ s_pc \in s_reading /\ s_pc' = s_pc
    /\ \E o : ServerGets(o) /\ s_pos' = s_pos + o.k /\ s_n' = s_n + o.k
    /\ UNCHANGED <<s_choice, s_target, s_tsock, s_message, s_out>>

\* The connection ends, whatever the server was doing before the relay.
ServerEnds ==
    /\ s_pc \in s_reading \cup s_writing \cup {"resolve", "connect"}
    /\ s_pc' = "ended" /\ s_n' \in {0, s_n}
    /\ \E k \in Nat : s_pos' = s_pos + k /\ s_pos + k <= Len(s_down)
    /\ UNCHANGED <<s_target, s_tsock, s_out>>

\* A message of the client was read, and leads to an answer ...
ServerChooses ==
    /\ s_pc = "read_greeting" /\ s_pc' = "write_choice"
    /\ Len(up) = 1 /\ s_pos' = s_pos + (Len(Say(1)) - s_n) /\ s_n' = 0
    /\ s_choice' = Chosen /\ s_message' = <<5, Chosen>>
    /\ UNCHANGED <<s_target, s_tsock, s_out>>

ServerApproves ==
    /\ s_pc = "read_userpass" /\ s_pc' = "write_status"
    /\ Len(up) = 2 /\ s_pos' = s_pos + (Len(Say(2)) - s_n) /\ s_n' = 0
    /\ s_message' = <<1, 0>>
    /\ UNCHANGED <<s_target, s_tsock, s_out>>

ServerTakesRequest ==
    /\ s_pc = "read_request" /\ s_pc' \in {"resolve", "connect"}
    /\ Len(up) = Before + 1
    /\ s_pos' = s_pos + (Len(Say(Before + 1)) - s_n) /\ s_n' = 0
    /\ s_target' = target
    /\ UNCHANGED <<s_tsock, s_out>>

\* ... or, behind the request, to the target first.
ServerResolves ==
    /\ s_pc = "resolve" /\ s_pc' = "connect"
    /\ UNCHANGED <<s_pos, s_n, s_target, s_tsock, s_out>>

ServerReplies ==
    /\ s_pc \in {"resolve", "connect"} /\ s_pc' = "write_reply"
    /\ IsReply(s_message')
    /\ s_tsock' \in {"closed", "open", "connected"}
    /\ s_message'[2] = 0 => s_tsock' = "connected"
    /\ UNCHANGED <<s_pos, s_n, s_target, s_out>>

\* An answer is written.
ServerWrites ==
    /\ s_pc \in s_writing /\ s_link \in {"up", "shut"}
    /\ s_out' = Append(s_out, s_message)
    /\ s_pc' = CASE s_pc = "write_choice" ->
                      IF opt.is_userpass THEN "read_userpass"
                                         ELSE "read_request"
                 [] s_pc = "write_status" -> "read_request"
                 [] s_pc = "write_reply" ->
                      IF s_message[2] = 0 THEN "relay" ELSE "ended"
    /\ UNCHANGED <<s_pos, s_n, s_target, s_tsock>>

ServerMove ==
    \/ ServerReadsOn \/ ServerEnds
    \/ ServerChooses \/ ServerApproves \/ ServerTakesRequest
    \/ ServerResolves \/ ServerReplies \/ ServerWrites

\* The turn that ends a read, with an error.
LEMMA ServerReadFails ==
    ASSUME Types, s_pc \in s_reading, NEW o \in S!Turn, S!TransferLast(o),
           S!End, UNCHANGED s_out
    PROVE  ServerEnds /\ ServerKeeps
<1>1. ServerGets(o)
  BY ServerTurn
<1>2. s_pos' = s_pos + o.k /\ s_n' = 0 /\ UNCHANGED <<s_down, s_link>>
  BY DEF S!TransferLast
<1>3. s_pc' = "ended" /\ UNCHANGED <<s_target, s_tsock>>
  BY DEF S!End
<1> QED
  BY <1>1, <1>2, <1>3 DEF ServerEnds, ServerKeeps, ServerGets

\* The read of the greeting.
LEMMA ServerReadsGreeting ==
    ASSUME SessionInv, S!ReadGreeting
    PROVE  (ServerEnds \/ ServerChooses) /\ ServerKeeps
<1>1. PICK o \in S!Turn :
        /\ S!TransferLast(o) /\ ~S!More(o)
        /\ LET buf == S!buffer(o.k) IN
           IF failed(o.ec) THEN S!End
           ELSE IF buf[1] = 5 THEN S!AnswerGreeting(buf)
           ELSE IF buf[1] = 4 THEN S!AnswerConnectV4(buf)
           ELSE S!End
  BY ServerCodes, Zenon DEF S!ReadGreeting
<1>2. s_pc = "read_greeting" /\ s_pc \in s_reading /\ s_out' = s_out
  BY DEF S!ReadGreeting, s_reading
<1>3. Types /\ UpInv /\ TurnInv /\ ServerInv /\ DownInv
  BY DEF SessionInv
<1>4. CASE failed(o.ec)
  BY <1>1, <1>2, <1>3, <1>4, ServerReadFails, Zenon
<1>5. CASE ~failed(o.ec)
  <2>1. PICK m : m = prepare_greeting(opt)
    OBVIOUS
  <2>2. S!buffer(o.k) = m /\ Len(up) = 1 /\ s_n + o.k = Len(Say(1))
    BY <1>1, <1>2, <1>3, <1>5, <2>1, GreetingHeard, Zenon
  <2>3. m[1] = 5 /\ parse_socks_greeting(m) = Chosen
    BY <1>3, <2>1, Arguments, GreetingShape
  <2>4. S!AnswerGreeting(m)
    BY <1>1, <1>5, <2>2, <2>3, Zenon
  <2>5. Chosen # dropped /\ S!parse_socks_greeting(m) = Chosen
    BY <2>3, ServerParsers DEF Chosen, dropped
  <2>6. /\ s_pc' = "write_choice" /\ s_choice' = Chosen
        /\ s_message' = <<5, Chosen>> /\ UNCHANGED <<s_target, s_tsock>>
    BY <2>4, <2>5, ServerCodes DEF S!AnswerGreeting, S!StartWrite
  <2>7. s_pos' = s_pos + o.k /\ s_n' = 0 /\ UNCHANGED <<s_down, s_link>>
    BY <1>1 DEF S!TransferLast
  <2>8. o.k = Len(Say(1)) - s_n
    <3>1. ServerGets(o) /\ s_n \in Nat
      BY <1>1, <1>3, ServerTurn DEF Types
    <3> QED
      BY <2>2, <3>1 DEF ServerGets
  <2> QED
    BY <1>2, <2>2, <2>6, <2>7, <2>8 DEF ServerChooses, ServerKeeps
<1> QED
  BY <1>4, <1>5

\* The read of the credentials.
LEMMA ServerReadsUserpass ==
    ASSUME SessionInv, S!ReadUserpass
    PROVE  (ServerEnds \/ ServerApproves) /\ ServerKeeps
<1>1. PICK o \in S!Turn :
        /\ S!TransferLast(o) /\ ~S!More(o)
        /\ IF failed(o.ec) \/ ~S!parse_userpass_greeting(S!buffer(o.k)).ok
           THEN S!End
           ELSE /\ S!StartWrite("write_status", <<1, 0>>)
                /\ UNCHANGED <<s_choice, s_target>>
  BY ServerCodes, Zenon DEF S!ReadUserpass
<1>2. s_pc = "read_userpass" /\ s_pc \in s_reading /\ s_out' = s_out
  BY DEF S!ReadUserpass, s_reading
<1>3. Types /\ UpInv /\ TurnInv /\ ServerInv /\ DownInv
  BY DEF SessionInv
<1>4. CASE S!End
  BY <1>1, <1>2, <1>3, <1>4, ServerReadFails, Zenon
<1>5. CASE ~S!End
  <2>1. ~failed(o.ec) /\ S!StartWrite("write_status", <<1, 0>>) /\ s_target' = s_target
    BY <1>1, <1>5
  <2>2. Len(up) = 2 /\ s_n + o.k = Len(Say(2))
    BY <1>1, <1>2, <1>3, <2>1, UserpassHeard, Zenon
  <2>3. /\ s_pc' = "write_status" /\ s_message' = <<1, 0>> /\ s_tsock' = s_tsock
    BY <2>1 DEF S!StartWrite
  <2>4. s_pos' = s_pos + o.k /\ s_n' = 0 /\ UNCHANGED <<s_down, s_link>>
    BY <1>1 DEF S!TransferLast
  <2>5. o.k = Len(Say(2)) - s_n
    <3>1. ServerGets(o) /\ s_n \in Nat
      BY <1>1, <1>3, ServerTurn DEF Types
    <3> QED
      BY <2>2, <3>1 DEF ServerGets
  <2> QED
    BY <1>2, <2>1, <2>2, <2>3, <2>4, <2>5 DEF ServerApproves, ServerKeeps
<1> QED
  BY <1>4, <1>5

\* The read of the request.
LEMMA ServerReadsRequest ==
    ASSUME SessionInv, S!ReadRequest
    PROVE  (ServerEnds \/ ServerTakesRequest) /\ ServerKeeps
<1>1. PICK o \in S!Turn :
        /\ S!TransferLast(o) /\ ~S!More(o)
        /\ LET r == parse_socks_connect(S!buffer(o.k)) IN
           IF failed(o.ec) \/ r.rep = dropped THEN S!End
           ELSE IF r.rep = 0
           THEN /\ s_target' = r.target
                /\ s_pc' = IF r.target.kind = "domain" THEN "resolve"
                                                       ELSE "connect"
                /\ UNCHANGED <<s_choice, s_tsock, s_message, s_server>>
           ELSE /\ UNCHANGED <<s_choice, s_target, s_tsock>>
                /\ S!do_connect_reply(r.rep)
  BY ServerCodes, ServerParsers, Zenon DEF S!ReadRequest
<1>2. s_pc = "read_request" /\ s_pc \in s_reading /\ s_out' = s_out
  BY DEF S!ReadRequest, s_reading
<1>3. Types /\ UpInv /\ TurnInv /\ ServerInv /\ DownInv
  BY DEF SessionInv
<1>4. CASE failed(o.ec)
  BY <1>1, <1>2, <1>3, <1>4, ServerReadFails, Zenon
<1>5. CASE ~failed(o.ec)
  <2>1. PICK m : m = prepare_request(target)
    OBVIOUS
  <2>2. S!buffer(o.k) = m /\ Len(up) = Before + 1
          /\ s_n + o.k = Len(Say(Before + 1))
    BY <1>1, <1>2, <1>3, <1>5, <2>1, RequestHeard, Zenon
  <2>3. PICK r : r = parse_socks_connect(m) /\ r.rep = 0 /\ r.target = target
    BY <1>3, <2>1, Arguments, RequestShape
  <2>4. r.rep # dropped
    BY <2>3 DEF dropped
  <2>5. /\ s_target' = target /\ s_pc' \in {"resolve", "connect"}
        /\ s_tsock' = s_tsock
    BY <1>1, <1>5, <2>2, <2>3, <2>4
  <2>6. s_pos' = s_pos + o.k /\ s_n' = 0 /\ UNCHANGED <<s_down, s_link>>
    BY <1>1 DEF S!TransferLast
  <2>7. o.k = Len(Say(Before + 1)) - s_n
    <3>1. ServerGets(o) /\ s_n \in Nat
      BY <1>1, <1>3, ServerTurn DEF Types
    <3> QED
      BY <2>2, <3>1 DEF ServerGets
  <2> QED
    BY <1>2, <2>2, <2>5, <2>6, <2>7 DEF ServerTakesRequest, ServerKeeps
<1> QED
  BY <1>4, <1>5

\* do_connect_reply: a reply, or the end if the target socket was never
\* opened.
LEMMA ServerAnswers ==
    ASSUME Types, TargetInv, s_pc \in {"resolve", "connect"},
           NEW rep \in {0, 4}, NEW outcome \in {"closed", "open", "connected"},
           rep = 0 => outcome = "connected",
           s_tsock' = outcome, S!do_connect_reply(rep),
           UNCHANGED <<s_target, s_out, s_pos, s_n>>
    PROVE  ServerEnds \/ ServerReplies
<1>1. CASE outcome = "closed"
  <2>1. s_pc' = "ended"
    BY <1>1 DEF S!do_connect_reply, S!Reply
  <2>2. s_tsock = "closed"
    BY DEF TargetInv
  <2>3. s_pos' = s_pos + 0 /\ s_pos + 0 <= Len(s_down) /\ 0 \in Nat
    BY DEF Types
  <2> QED
    BY <1>1, <2>1, <2>2, <2>3 DEF ServerEnds
<1>2. CASE outcome # "closed"
  <2>1. s_pc' = "write_reply" /\ \E bnd \in Bounds : s_message' = connect_reply(rep, bnd)
    BY <1>2, ServerParsers DEF S!do_connect_reply, S!Reply
  <2>2. PICK bnd \in Bounds : s_message' = connect_reply(rep, bnd)
    BY <2>1
  <2>3. s_message'[2] = rep
    BY <2>2, ReplyOfCode
  <2>4. IsReply(s_message')
    BY <2>2 DEF IsReply
  <2> QED
    BY <2>1, <2>3, <2>4 DEF ServerReplies
<1> QED
  BY <1>1, <1>2

\* The handlers of async_resolve and async_connect.
LEMMA ServerTargets ==
    ASSUME SessionInv, S!ResolveFails \/ S!ResolveSucceeds \/ S!do_target_connect
    PROVE  (ServerEnds \/ ServerResolves \/ ServerReplies) /\ ServerKeeps
<1>1. Types /\ TargetInv
  BY DEF SessionInv
<1>2. CASE S!ResolveFails
  <2>1. /\ s_pc = "resolve" /\ S!do_connect_reply(4) /\ ServerKeeps
        /\ UNCHANGED <<s_tsock, s_target, s_out, s_pos, s_n>>
    BY <1>2 DEF S!ResolveFails, S!stream_vars, ServerKeeps
  <2>2. s_tsock \in {"closed", "open", "connected"}
    BY <1>1 DEF TargetInv
  <2>3. 4 \in {0, 4} /\ 4 # 0 /\ s_pc \in {"resolve", "connect"}
    BY <2>1
  <2> QED
    BY <1>1, <2>1, <2>2, <2>3, ServerAnswers, Zenon
<1>3. CASE S!ResolveSucceeds
  BY <1>3 DEF S!ResolveSucceeds, S!stream_vars, ServerResolves, ServerKeeps
<1>4. CASE S!do_target_connect
  <2>1. PICK outcome \in {"connected", "open", "closed"} :
          /\ s_tsock' = outcome
          /\ S!do_connect_reply(S!target_reply(outcome))
    BY <1>4, Zenon DEF S!do_target_connect, S!connect_outcomes
  <2>2. PICK rep : rep = S!target_reply(outcome)
    OBVIOUS
  <2>3. rep \in {0, 4} /\ (rep = 0 => outcome = "connected")
    BY <2>2 DEF S!target_reply
  <2>4. /\ s_pc \in {"resolve", "connect"} /\ ServerKeeps
        /\ UNCHANGED <<s_target, s_out, s_pos, s_n>>
    BY <1>4 DEF S!do_target_connect, S!stream_vars, ServerKeeps
  <2>5. S!do_connect_reply(rep)
    BY <2>1, <2>2, Zenon
  <2> QED
    BY <1>1, <2>1, <2>3, <2>4, <2>5, ServerAnswers, Zenon
<1> QED
  BY <1>2, <1>3, <1>4

\* The handlers of the writes.
LEMMA ServerWriteMoves ==
    ASSUME SessionInv, s_pc \in s_writing, NEW to,
           to = CASE s_pc = "write_choice" ->
                       IF opt.is_userpass THEN "read_userpass"
                                          ELSE "read_request"
                  [] s_pc = "write_status" -> "read_request"
                  [] s_pc = "write_reply" ->
                       IF s_message[2] = 0 THEN "relay" ELSE "ended",
           S!Written(to)
    PROVE  (ServerEnds \/ ServerWrites) /\ ServerKeeps
<1>1. Types
  BY DEF SessionInv
<1>2. PICK e \in S!write_results :
        /\ S!Write(e)
        /\ IF failed(e) THEN s_pc' = "ended" /\ UNCHANGED s_out
           ELSE s_pc' = to /\ s_out' = Append(s_out, s_message)
  BY ServerCodes, Zenon DEF S!Written
<1>3. UNCHANGED <<s_down, s_pos, s_n, s_link, s_target, s_tsock>>
  BY <1>2 DEF S!Written, S!Write
<1>4. CASE failed(e)
  <2>1. s_pos' = s_pos + 0 /\ s_pos + 0 <= Len(s_down) /\ 0 \in Nat
    BY <1>1, <1>3 DEF Types
  <2> QED
    BY <1>2, <1>3, <1>4, <2>1 DEF ServerEnds, ServerKeeps
<1>5. CASE ~failed(e)
  <2>1. s_link \in {"up", "shut"}
    BY <1>1, <1>2, <1>5 DEF S!write_results, Types, failed, S!connection_reset,
       S!broken_pipe, S!operation_aborted, S!bad_descriptor
  <2> QED
    BY <1>2, <1>3, <1>5, <2>1 DEF ServerWrites, ServerKeeps
<1> QED
  BY <1>4, <1>5

\* Every handler of the server does one of these; the SOCKS4 branch is not
\* taken with a SOCKS5 client.
LEMMA ServerMoves ==
    ASSUME SessionInv, S!Connection
    PROVE  ServerMove /\ ServerKeeps
<1>1. Types /\ ServerInv
  BY DEF SessionInv
<1>2. CASE S!KeepReading
  <2>1. PICK o \in S!Turn : S!Transfer(o)
    BY <1>2 DEF S!KeepReading
  <2>2. ServerGets(o)
    BY <1>1, ServerTurn
  <2>3. /\ s_pc \in s_reading
        /\ UNCHANGED <<s_pc, s_choice, s_target, s_tsock, s_message, s_out>>
    BY <1>2 DEF S!KeepReading, S!Reading, s_reading, S!svars
  <2>4. s_pos' = s_pos + o.k /\ s_n' = s_n + o.k /\ UNCHANGED <<s_down, s_link>>
    BY <2>1 DEF S!Transfer
  <2> QED
    BY <2>2, <2>3, <2>4 DEF ServerMove, ServerReadsOn, ServerKeeps
<1>3. CASE S!ReadGreeting
  BY <1>3, ServerReadsGreeting DEF ServerMove
<1>4. CASE S!ReadUserpass
  BY <1>4, ServerReadsUserpass DEF ServerMove
<1>5. CASE S!ReadRequest
  BY <1>5, ServerReadsRequest DEF ServerMove
<1>6. CASE S!ResolveFails \/ S!ResolveSucceeds \/ S!do_target_connect
  BY <1>6, ServerTargets DEF ServerMove
<1>7. CASE S!do_target_connect_v4 \/ S!WriteReplyV4
  <2>1. s_pc \in {"connect_v4", "write_reply_v4"}
    BY <1>7 DEF S!do_target_connect_v4, S!WriteReplyV4
  <2> QED
    BY <1>1, <2>1 DEF Types, s_reading, s_writing
<1>8. CASE S!WriteChoice
  <2>1. s_pc = "write_choice" /\ S!Written(S!after_choice)
    BY <1>8 DEF S!WriteChoice
  <2>2. s_choice = Chosen
    BY <1>1, <2>1 DEF ServerInv
  <2>3. S!after_choice = IF opt.is_userpass THEN "read_userpass"
                                            ELSE "read_request"
    BY <2>2 DEF S!after_choice, Chosen
  <2> QED
    BY <2>1, <2>3, ServerWriteMoves DEF ServerMove, s_writing
<1>9. CASE S!WriteStatus
  BY <1>9, ServerWriteMoves DEF S!WriteStatus, ServerMove, s_writing
<1>10. CASE S!WriteReply
  BY <1>10, ServerWriteMoves DEF S!WriteReply, ServerMove, s_writing
<1> QED
  BY <1>2, <1>3, <1>4, <1>5, <1>6, <1>7, <1>8, <1>9, <1>10 DEF S!Connection

(***************************************************************************)
(* The invariant holds initially, and every step keeps it.                 *)
(***************************************************************************)
\* The dialogue is fixed by the arguments, which no step changes.
LEMMA SameDialogue ==
    ASSUME opt' = opt, target' = target
    PROVE  /\ Before' = Before /\ Chosen' = Chosen
           /\ \A j : Say(j)' = Say(j)
           /\ \A j : From(j)' = From(j)
           /\ \A j, m : IsAnswer(j, m)' <=> IsAnswer(j, m)
<1>1. Before' = Before /\ Chosen' = Chosen
  BY DEF Before, Chosen
<1>2. \A j : Say(j)' = Say(j)
  BY Zenon DEF Say
<1>3. \A j : From(j)' = From(j)
  BY <1>2, Zenon DEF From
<1>4. \A j, m : IsAnswer(j, m)' <=> IsAnswer(j, m)
  BY <1>1 DEF IsAnswer, IsReply
<1> QED
  BY <1>1, <1>2, <1>3, <1>4

\* A message behind what was there is found there, and nothing has moved.
LEMMA Appended ==
    ASSUME NEW d \in Seq(Byte), NEW m \in Seq(Byte)
    PROVE  /\ d \o m \in Seq(Byte) /\ Len(d \o m) = Len(d) + Len(m)
           /\ Holds(d \o m, Len(d), m)
           /\ \A at \in Nat, x \in Seq(Byte) :
                 Holds(d, at, x) => Holds(d \o m, at, x)
<1>1. /\ d \o m \in Seq(Byte) /\ Len(d \o m) = Len(d) + Len(m)
      /\ Len(d) \in Nat /\ Len(m) \in Nat
      /\ \A i \in 1..Len(d) : (d \o m)[i] = d[i]
      /\ \A i \in 1..Len(m) : (d \o m)[Len(d) + i] = m[i]
  BY TwoParts
<1>2. PICK e \in Seq(Byte) : e = d \o m
  BY <1>1
<1>3. Holds(e, Len(d), m)
  BY <1>1, <1>2 DEF Holds
<1>4. ASSUME NEW at \in Nat, NEW x \in Seq(Byte), Holds(d, at, x)
      PROVE  Holds(e, at, x)
  <2>1. Len(x) \in Nat /\ at + Len(x) <= Len(d)
    BY <1>4, LenProperties DEF Holds
  <2>2. \A i \in 1..Len(x) : at + i \in 1..Len(d)
    BY <1>1, <2>1
  <2>3. \A i \in 1..Len(x) : e[at + i] = x[i]
    BY <1>1, <1>2, <1>4, <2>2 DEF Holds
  <2> QED
    BY <1>1, <1>2, <2>1, <2>3 DEF Holds
<1> QED
  BY <1>1, <1>2, <1>3, <1>4, Zenon

\* Both ends begin with nothing said.
LEMMA InitSession == Init => SessionInv
<1> SUFFICES ASSUME Init PROVE SessionInv
  OBVIOUS
<1>1. /\ down = <<>> /\ pos = 0 /\ n = 0 /\ link = "up" /\ stream_ec = no_error
      /\ mode \in Modes /\ opt \in Opts /\ target \in Targets
      /\ pc = "write_greeting" /\ up = <<>> /\ app = 0
  BY ClientCodes DEF Init, C!Init, C!StreamInit
<1>2. /\ s_down = <<>> /\ s_pos = 0 /\ s_n = 0 /\ s_link = "up"
      /\ s_pc = "read_greeting" /\ s_tsock = "closed" /\ s_out = <<>>
  BY DEF Init, S!Init, S!StreamInit
<1>3. Types
  <2>1. StreamTypeOK
    BY <1>1 DEF StreamTypeOK
  <2>2. mode \in {"sync", "async"}
    BY <1>1, SessionAssumption
  <2> QED
    BY <1>1, <1>2, <2>1, <2>2 DEF Types, c_writing, s_reading
<1>4. Before \in {1, 2} /\ From(1) = 0
  BY <1>3, Arguments, FromFacts
<1>5. Len(up) = 0 /\ Len(s_out) = 0 /\ Len(down) = 0 /\ Len(s_down) = 0
  BY <1>1, <1>2
<1>6. UpInv
  BY <1>4, <1>5 DEF UpInv
<1>7. DownInv
  BY <1>1, <1>4, <1>5 DEF DownInv
<1>8. TurnInv /\ ClientInv
  BY <1>1, <1>4, <1>5 DEF TurnInv, ClientInv
<1>9. ServerInv
  BY <1>2, <1>4, <1>5 DEF ServerInv, s_reading, s_writing
<1>10. TargetInv
  BY <1>2, <1>4, <1>5 DEF TargetInv
<1>11. LinkInv /\ DoneInv
  BY <1>1, <1>2 DEF LinkInv, DoneInv
<1> QED
  BY <1>3, <1>6, <1>7, <1>8, <1>9, <1>10, <1>11 DEF SessionInv

\* What no step of the client changes, and what it leaves of its stream.
ClientFrame ==
    /\ ClientKeeps /\ stream_ec' \in {no_error} \cup transport_error
    /\ UNCHANGED <<s_pos, s_n, s_pc, s_choice, s_target, s_tsock, s_message,
                   s_out, s_link>>

\* Every step of the operation has this frame.
LEMMA ClientStepFrame ==
    ASSUME Types, ClientStep
    PROVE  ClientMove /\ ClientFrame
<1>1. StreamTypeOK /\ C!Operation
  BY DEF Types, ClientStep
<1>2. ClientMove
  BY <1>1, ClientMoves
<1>3. ClientKeeps
  BY <1>2 DEF ClientMove, ClientWrites, ClientReadsOn, ClientReadsEnd,
              ClientReadsReply
<1>4. \/ \E e \in write_results : stream_ec' = e
      \/ \E o \in C!Turn : stream_ec' = o.ec
  <2>1. CASE C!KeepReading
    BY <2>1 DEF C!KeepReading, C!Transfer
  <2>2. CASE C!ReadChoice \/ C!ReadUserpassReply \/ C!ReadReply
    BY <2>2, Zenon DEF C!ReadChoice, C!ReadUserpassReply, C!ReadReply, C!TransferLast
  <2>3. CASE C!WriteGreeting \/ C!WriteUserpass \/ C!WriteRequest
    BY <2>3, ClientStream, Zenon DEF C!WriteGreeting, C!WriteUserpass, C!WriteRequest,
       C!WriteMessage, C!Write
  <2> QED
    BY <1>1, <2>1, <2>2, <2>3
       DEF C!Operation, C!connect, C!connect_op, C!authenticate,
           C!write_connect_request, C!read_connect_reply
<1>5. stream_ec' \in {no_error} \cup transport_error
  BY <1>1, <1>4, ClientTurn, WriteFacts
<1> QED
  BY <1>2, <1>3, <1>5 DEF ClientFrame, ClientStep, s_own

\* A step of the client that writes nothing keeps what is about the server.
LEMMA ClientSilent ==
    ASSUME SessionInv, ClientStep, up' = up, s_down' = s_down,
           pc' \in c_reading \cup c_writing \cup {"done"},
           pos' \in 0..Len(down), n' \in 0..pos', pc # "done"
    PROVE  /\ Types' /\ UpInv' /\ DownInv' /\ ServerInv' /\ TargetInv' /\ LinkInv'
           /\ (pc' \in c_writing => Len(up) <= Len(s_out)) => TurnInv'
<1>1. Types /\ UpInv /\ DownInv /\ ServerInv /\ TargetInv /\ LinkInv /\ TurnInv
  BY DEF SessionInv
<1>2. ClientFrame
  BY <1>1, ClientStepFrame
<1>3. /\ mode' = mode /\ opt' = opt /\ target' = target /\ app' = app
      /\ down' = down /\ link' = link
      /\ stream_ec' \in {no_error} \cup transport_error
      /\ UNCHANGED <<s_pos, s_n, s_pc, s_choice, s_target, s_tsock, s_message,
                   s_out, s_link>>
  BY <1>2 DEF ClientFrame, ClientKeeps
<1>4. Types'
  <2>1. StreamTypeOK'
    BY <1>1, <1>3 DEF Types, StreamTypeOK
  <2> QED
    BY <1>1, <1>3, <2>1 DEF Types
<1>5. UpInv'
  BY <1>1, <1>3, SameDialogue DEF UpInv
<1>6. DownInv'
  BY <1>1, <1>3, SameDialogue DEF DownInv
<1>7. ServerInv'
  BY <1>1, <1>3, SameDialogue DEF ServerInv
<1>8. TargetInv'
  BY <1>1, <1>3, SameDialogue DEF TargetInv
<1>9. LinkInv'
  BY <1>1, <1>3 DEF LinkInv
<1>10. (pc' \in c_writing => Len(up) <= Len(s_out)) => TurnInv'
  BY <1>1, <1>3 DEF TurnInv
<1> QED
  BY <1>4, <1>5, <1>6, <1>7, <1>8, <1>9, <1>10

\* The client says its next message: the server has answered all before it.
LEMMA ClientSpeaks ==
    ASSUME SessionInv, ClientStep, NEW m, NEW to \in c_reading,
           pc \in c_writing, pc' = to, link \in {"up", "shut"},
           NEW kind \in c_kinds,
           up' = Append(up, [kind |-> kind, bytes |-> m]),
           pos' = pos, n' = n,
           m = Say(Len(up) + 1), Len(up) <= Before
    PROVE  /\ Types' /\ UpInv' /\ DownInv' /\ TurnInv' /\ ServerInv'
           /\ TargetInv' /\ LinkInv' /\ DoneInv'
<1>1. Types /\ UpInv /\ DownInv /\ ServerInv /\ TargetInv /\ LinkInv /\ TurnInv
  BY DEF SessionInv
<1>2. ClientFrame
  BY <1>1, ClientStepFrame
<1>3. /\ mode' = mode /\ opt' = opt /\ target' = target /\ app' = app
      /\ down' = down /\ link' = link
      /\ stream_ec' \in {no_error} \cup transport_error
      /\ UNCHANGED <<s_pos, s_n, s_pc, s_choice, s_target, s_tsock, s_message,
                   s_out, s_link>>
  BY <1>2 DEF ClientFrame, ClientKeeps
<1>4. PICK z \in Nat : z = Len(up)
  BY <1>1, LenProperties DEF Types
<1>5. m \in Seq(Byte)
  BY <1>1, <1>4, SayShape
<1>6. /\ up' \in Seq([kind : c_kinds, bytes : Seq(Byte)])
      /\ Len(up') = z + 1 /\ up'[z + 1].bytes = m
      /\ \A j \in 1..z : up'[j] = up[j]
  <2> DEFINE R == [kind : c_kinds, bytes : Seq(Byte)]
             e == [kind |-> kind, bytes |-> m]
  <2>1. up \in Seq(R) /\ e \in R /\ e.bytes = m
    BY <1>1, <1>5 DEF Types
  <2> HIDE DEF R, e
  <2>2. Append(up, e) \in Seq(R) /\ Len(Append(up, e)) = z + 1
          /\ Append(up, e)[z + 1] = e /\ \A j \in 1..z : Append(up, e)[j] = up[j]
    BY <1>4, <2>1, AppendProperties
  <2>3. up' = Append(up, e)
    BY DEF e
  <2> QED
    BY <2>1, <2>2, <2>3 DEF R
<1>7. s_down' = s_down \o m
  <2>1. Last(up') = up'[z + 1]
    BY <1>6 DEF Last
  <2>2. s_link = "up" /\ Len(up') > Len(up)
    BY <1>1, <1>4, <1>6 DEF LinkInv, c_writing
  <2> QED
    BY <1>6, <2>1, <2>2 DEF ClientStep, Arrives
<1>8. PICK d \in Seq(Byte), x \in Nat :
        d = s_down /\ x = Len(d) /\ x = From(z + 1)
  BY <1>1, <1>4, LenProperties DEF Types, UpInv
<1>9. /\ s_down' \in Seq(Byte) /\ Len(s_down') = x + Len(m)
      /\ Holds(s_down', x, m)
      /\ \A at \in Nat, y \in Seq(Byte) :
            Holds(d, at, y) => Holds(s_down', at, y)
      /\ Len(m) \in Nat
  <2>1. Len(m) \in Nat
    BY <1>5, LenProperties
  <2> QED
    BY <1>5, <1>7, <1>8, <2>1, Appended
<1>10. Types'
  <2>1. StreamTypeOK'
    BY <1>1, <1>3 DEF Types, StreamTypeOK
  <2>2. s_pos' \in 0..Len(s_down') /\ s_n' \in 0..s_pos'
    BY <1>1, <1>3, <1>8, <1>9 DEF Types
  <2>3. pc' \in c_reading
    OBVIOUS
  <2> QED
    BY <1>1, <1>3, <1>6, <1>9, <2>1, <2>2, <2>3 DEF Types
<1>11. Before \in {1, 2} /\ z <= Before /\ z + 1 \in 1..3
  BY <1>1, <1>4, Arguments
<1>12. UpInv'
  <2>1. Len(up') <= Before + 1
    BY <1>6, <1>11
  <2>2. From(z + 1 + 1) = x + Len(m)
    BY <1>1, <1>4, <1>8, <1>11, FromFacts
  <2>3. ASSUME NEW j \in 1..(z + 1)
        PROVE  up'[j].bytes = Say(j) /\ Holds(s_down', From(j), Say(j))
    <3>1. CASE j = z + 1
      BY <1>4, <1>6, <1>8, <1>9, <3>1
    <3>2. CASE j \in 1..z
      <4>1. up[j].bytes = Say(j) /\ Holds(d, From(j), Say(j))
        BY <1>1, <1>4, <1>8, <3>2 DEF UpInv
      <4>2. From(j) \in Nat /\ Say(j) \in Seq(Byte)
        <5>1. j \in Nat
          BY <3>2
        <5> QED
          BY <1>1, <5>1, FromFacts, SayShape, Zenon
      <4> QED
        BY <1>6, <1>9, <3>2, <4>1, <4>2
    <3>3. j = z + 1 \/ j \in 1..z
      OBVIOUS
    <3> QED
      BY <3>1, <3>2, <3>3, Zenon
  <2> QED
    BY <1>3, <1>6, <1>9, <2>1, <2>2, <2>3, SameDialogue DEF UpInv
<1>13. DownInv'
  BY <1>1, <1>3, SameDialogue DEF DownInv
<1>14. Len(s_out) = z
  BY <1>1, <1>4 DEF TurnInv, Types
<1>15. TurnInv'
  <2>1. pc' \notin c_writing
    BY DEF c_reading, c_writing
  <2> QED
    BY <1>3, <1>6, <1>14, <2>1 DEF TurnInv
<1>16. ServerInv'
  <2>1. s_pc \notin s_writing \cup {"resolve", "connect"}
    BY <1>1, <1>4, <1>14 DEF ServerInv
  <2> QED
    BY <1>1, <1>3, <2>1, SameDialogue DEF ServerInv, s_writing
<1>17. TargetInv'
  BY <1>1, <1>3, SameDialogue DEF TargetInv
<1>18. LinkInv' /\ DoneInv'
  <2>1. pc # "done" /\ pc' # "done"
    BY DEF c_reading, c_writing
  <2> QED
    BY <1>1, <1>3, <2>1 DEF LinkInv, DoneInv
<1> QED
  BY <1>10, <1>12, <1>13, <1>15, <1>16, <1>17, <1>18

\* A write of the client, that succeeds or fails.
LEMMA ClientWriteStep ==
    ASSUME SessionInv, ClientStep, NEW from \in c_writing, NEW m, NEW to \in c_reading,
           ClientWrites(from, m, to), m = Say(Len(up) + 1), Len(up) <= Before,
           pc' = to => ClientInv'
    PROVE  SessionInv'
<1>1. Types /\ TurnInv /\ ClientInv
  BY DEF SessionInv
<1>2. pc \in c_writing /\ pos' = pos /\ n' = n /\ pc # "done"
  BY DEF ClientWrites, c_writing
<1>3. CASE pc' = to /\ link \in {"up", "shut"} /\ ec' = ec /\
           \E kind \in c_kinds : up' = Append(up, [kind |-> kind, bytes |-> m])
  BY <1>2, <1>3, ClientSpeaks DEF SessionInv
<1>4. CASE pc' = "done" /\ up' = up /\ failed(ec')
  <2>1. s_down' = s_down
    <3>1. ~(Len(up') > Len(up))
      BY <1>1, <1>4 DEF Types
    <3> QED
      BY <3>1 DEF ClientStep
  <2>2. pos' \in 0..Len(down) /\ n' \in 0..pos'
    BY <1>1, <1>2 DEF Types, StreamTypeOK
  <2>3. /\ Types' /\ UpInv' /\ DownInv' /\ ServerInv' /\ TargetInv' /\ LinkInv'
        /\ TurnInv'
    BY <1>2, <1>4, <2>1, <2>2, ClientSilent DEF c_writing
  <2>4. opt' = opt /\ target' = target
    BY DEF ClientWrites, ClientKeeps
  <2>5. Len(up) # Before + 1
    <3>1. Len(up) \in Nat /\ Before \in {1, 2}
      BY <1>1, Arguments, LenProperties DEF Types
    <3> QED
      BY <3>1
  <2>6. ClientInv'
    BY <1>4 DEF ClientInv
  <2>7. DoneInv'
    BY <1>4, <2>4, <2>5, SameDialogue DEF DoneInv
  <2> QED
    BY <2>3, <2>6, <2>7 DEF SessionInv
<1> QED
  BY <1>3, <1>4 DEF ClientWrites

\* The three writes of the client.
LEMMA ClientWriteSteps ==
    ASSUME SessionInv, ClientStep,
           \/ ClientWrites("write_greeting", prepare_greeting(opt), "read_choice")
           \/ ClientWrites("write_userpass", prepare_userpass_request(opt),
                           "read_userpass")
           \/ ClientWrites("write_request", prepare_request(target), "read_reply")
    PROVE  SessionInv'
<1>1. Types /\ TurnInv /\ ClientInv
  BY DEF SessionInv
<1>2. Before \in {1, 2} /\ Len(up) \in Nat /\ pos \in Nat
  BY <1>1, Arguments, LenProperties DEF Types, StreamTypeOK
<1>3. opt' = opt /\ target' = target /\ Before' = Before
  BY SameDialogue DEF ClientWrites, ClientKeeps
<1>4. ASSUME NEW from \in c_writing, NEW m, NEW to \in c_reading,
             ClientWrites(from, m, to), pc' = to
      PROVE  Len(up') = Len(up) + 1 /\ pos' = pos /\ n' = n
  <2>1. PICK kind \in c_kinds : up' = Append(up, [kind |-> kind, bytes |-> m])
    BY <1>4 DEF ClientWrites, c_reading
  <2> QED
    BY <1>1, <1>4, <2>1 DEF Types, ClientWrites
<1>5. /\ "write_greeting" \in c_writing /\ "write_userpass" \in c_writing
      /\ "write_request" \in c_writing /\ "read_choice" \in c_reading
      /\ "read_userpass" \in c_reading /\ "read_reply" \in c_reading
  BY DEF c_writing, c_reading
<1>6. CASE ClientWrites("write_greeting", prepare_greeting(opt), "read_choice")
  <2>1. Len(up) = 0 /\ pos = 0 /\ n = 0
    BY <1>1, <1>6 DEF ClientInv, ClientWrites
  <2>2. prepare_greeting(opt) = Say(Len(up) + 1) /\ Len(up) <= Before
    BY <1>2, <2>1 DEF Say
  <2>3. pc' = "read_choice" => ClientInv'
    BY <1>4, <1>5, <1>6, <2>1 DEF ClientInv
  <2> QED
    BY <1>5, <1>6, <2>2, <2>3, ClientWriteStep, Zenon
<1>7. CASE ClientWrites("write_userpass", prepare_userpass_request(opt),
                        "read_userpass")
  <2>1. Len(up) = 1 /\ pos = 2 /\ n = 0 /\ Before = 2
    BY <1>1, <1>7 DEF ClientInv, ClientWrites
  <2>2. opt.is_userpass
    BY <2>1 DEF Before
  <2>3. prepare_userpass_request(opt) = Say(Len(up) + 1) /\ Len(up) <= Before
    BY <2>1, <2>2 DEF Say
  <2>4. pc' = "read_userpass" => ClientInv'
    BY <1>3, <1>4, <1>5, <1>7, <2>1 DEF ClientInv
  <2> QED
    BY <1>5, <1>7, <2>3, <2>4, ClientWriteStep, Zenon
<1>8. CASE ClientWrites("write_request", prepare_request(target), "read_reply")
  <2>1. Len(up) = Before /\ pos = 2 * Before /\ n = 0
    BY <1>1, <1>8 DEF ClientInv, ClientWrites
  <2>2. prepare_request(target) = Say(Len(up) + 1) /\ Len(up) <= Before
    BY <1>1, <1>2, <2>1, SayRequest
  <2>3. pc' = "read_reply" => ClientInv'
    BY <1>2, <1>3, <1>4, <1>5, <1>8, <2>1 DEF ClientInv
  <2> QED
    BY <1>5, <1>8, <2>2, <2>3, ClientWriteStep, Zenon
<1> QED
  BY <1>6, <1>7, <1>8

\* What has arrived at a client that reads is what the server has answered.
LEMMA Arrived ==
    ASSUME Types, DownInv, TurnInv, link # "closed", Len(up) <= Before
    PROVE  Len(down) = 2 * Len(s_out) /\ Len(s_out) <= Len(up)
<1>1. Len(s_out) \in Nat /\ Len(up) \in Nat /\ Before \in {1, 2}
  BY Arguments, LenProperties DEF Types
<1>2. Len(s_out) <= Len(up)
  BY DEF TurnInv
<1>3. Len(s_out) <= Before
  BY <1>1, <1>2
<1> QED
  BY <1>2, <1>3 DEF DownInv

\* Numbers of the client.
LEMMA ClientNumbers ==
    ASSUME Types
    PROVE  /\ Len(up) \in Nat /\ Len(s_out) \in Nat /\ Before \in {1, 2}
           /\ pos \in Nat /\ n \in Nat /\ Len(down) \in Nat /\ pos <= Len(down)
           /\ n <= pos
BY Arguments, LenProperties DEF Types, StreamTypeOK

\* A step of the client that reads changes nothing of the server.
LEMMA ClientReadKeeps ==
    ASSUME SessionInv, ClientStep, up' = up, NEW o, Gets(o),
           pos' = pos + o.k, n' \in {0, n + o.k}, pc \in c_reading,
           pc' \in c_reading \cup c_writing \cup {"done"}
    PROVE  /\ Types' /\ UpInv' /\ DownInv' /\ ServerInv' /\ TargetInv' /\ LinkInv'
           /\ (pc' \in c_writing => Len(up) <= Len(s_out)) => TurnInv'
<1>1. Types
  BY DEF SessionInv
<1>2. s_down' = s_down
  <2>1. ~(Len(up') > Len(up))
    BY <1>1 DEF Types
  <2> QED
    BY <2>1 DEF ClientStep
<1>3. pos' \in 0..Len(down) /\ n' \in 0..pos' /\ pc # "done"
  <2>1. /\ o.k \in Nat /\ pos + o.k <= Len(down) /\ pos \in Nat /\ n \in Nat
        /\ n <= pos /\ Len(down) \in Nat
    BY <1>1, ClientNumbers DEF Gets
  <2>2. pos' \in 0..Len(down) /\ n' \in 0..pos'
    BY <2>1
  <2>3. pc # "done"
    BY DEF c_reading
  <2> QED
    BY <2>2, <2>3
<1> QED
  BY <1>2, <1>3, ClientSilent

\* A read that goes on is short of its end.
LEMMA ClientReadsOnStep ==
    ASSUME SessionInv, ClientStep, ClientReadsOn
    PROVE  SessionInv'
<1>1. Types /\ DownInv /\ TurnInv /\ ClientInv
  BY DEF SessionInv
<1>2. PICK o :
        /\ Gets(o) /\ ~failed(o.ec)
        /\ pos' = pos + o.k /\ n' = n + o.k
        /\ IF pc = "read_reply"
           THEN n + o.k # 22 /\ ~(n + o.k = 10 /\ buffer(o.k)[4] = 1)
           ELSE n + o.k # 2
  BY DEF ClientReadsOn
<1>3. /\ pc \in c_reading /\ pc' = pc /\ up' = up /\ opt' = opt
      /\ target' = target /\ down' = down
  BY DEF ClientReadsOn, ClientKeeps
<1>4. /\ Types' /\ UpInv' /\ DownInv' /\ ServerInv' /\ TargetInv' /\ LinkInv'
      /\ TurnInv'
  <2>1. pc' \notin c_writing
    BY <1>3 DEF c_reading, c_writing
  <2> QED
    BY <1>2, <1>3, <2>1, ClientReadKeeps
<1>5. DoneInv'
  <2>1. pc' # "done"
    BY <1>3 DEF c_reading
  <2> QED
    BY <2>1 DEF DoneInv
<1>6. /\ link # "closed" /\ o.k \in Nat /\ pos + o.k <= Len(down)
  BY <1>2 DEF Gets
<1>7. Before' = Before
  BY <1>3, SameDialogue
<1>8. CASE pc = "read_choice"
  <2>1. Len(up) = 1 /\ pos = n
    BY <1>1, <1>8 DEF ClientInv
  <2>2. Len(down) = 2 * Len(s_out) /\ Len(s_out) <= 1
    BY <1>1, <1>6, <2>1, Arrived, ClientNumbers
  <2>3. n + o.k < 2
    BY <1>1, <1>2, <1>6, <1>8, <2>1, <2>2, ClientNumbers
  <2>4. ClientInv'
    BY <1>2, <1>3, <1>8, <2>1, <2>3 DEF ClientInv
  <2> QED
    BY <1>4, <1>5, <2>4 DEF SessionInv
<1>9. CASE pc = "read_userpass"
  <2>1. Len(up) = 2 /\ pos = 2 + n /\ Before = 2
    BY <1>1, <1>9 DEF ClientInv
  <2>2. Len(down) = 2 * Len(s_out) /\ Len(s_out) <= 2
    BY <1>1, <1>6, <2>1, Arrived
  <2>3. n + o.k < 2 /\ pos + o.k = 2 + (n + o.k)
    BY <1>1, <1>2, <1>6, <1>9, <2>1, <2>2, ClientNumbers
  <2>4. ClientInv'
    BY <1>2, <1>3, <1>7, <1>9, <2>1, <2>3 DEF ClientInv
  <2> QED
    BY <1>4, <1>5, <2>4 DEF SessionInv
<1>10. CASE pc = "read_reply"
  <2>1. Len(up) = Before + 1 /\ pos = 2 * Before + n
    BY <1>1, <1>10 DEF ClientInv
  <2>2. pos + o.k = 2 * Before + (n + o.k)
    BY <1>1, <1>6, <2>1, ClientNumbers
  <2>3. n + o.k = 10 => down[2 * Before + 4] # 1
    <3>1. ASSUME n + o.k = 10 PROVE buffer(o.k)[4] = down[2 * Before + 4]
      <4>1. StreamTypeOK /\ 4 \in 1..(n + o.k)
        BY <1>1, <3>1 DEF Types
      <4>2. buffer(o.k)[4] = down[(pos - n) + 4]
        BY <1>6, <4>1, BufferFacts
      <4>3. pos - n = 2 * Before
        BY <1>1, <2>1, ClientNumbers
      <4> QED
        BY <4>2, <4>3
    <3> QED
      BY <1>2, <1>10, <3>1
  <2>4. ClientInv'
    BY <1>2, <1>3, <1>7, <1>10, <2>1, <2>2, <2>3 DEF ClientInv
  <2> QED
    BY <1>4, <1>5, <2>4 DEF SessionInv
<1> QED
  BY <1>3, <1>8, <1>9, <1>10 DEF c_reading

\* A read before the request ends: the client goes on only when it has the
\* server's whole answer.
LEMMA ClientReadsEndStep ==
    ASSUME SessionInv, ClientStep, ClientReadsEnd
    PROVE  SessionInv'
<1>1. Types /\ DownInv /\ TurnInv /\ ClientInv
  BY DEF SessionInv
<1>2. PICK o :
        /\ Gets(o) /\ pos' = pos + o.k /\ n' = 0
        /\ \/ pc' = "done" /\ failed(ec')
           \/ /\ pc = "read_choice" /\ n + o.k >= 2 /\ ec' = ec
              /\ pc' = IF buffer(o.k)[2] = 2 THEN "write_userpass"
                                             ELSE "write_request"
           \/ /\ pc = "read_userpass" /\ n + o.k = 2 /\ ec' = ec
              /\ pc' = "write_request"
  BY DEF ClientReadsEnd
<1>3. /\ pc \in c_reading /\ up' = up /\ opt' = opt
      /\ target' = target /\ down' = down /\ link' = link /\ app' = app
  BY DEF ClientReadsEnd, ClientKeeps, c_reading
<1>4. o.k \in Nat /\ pos + o.k <= Len(down) /\ (o.k > 0 => link # "closed")
  BY <1>2 DEF Gets
<1>5. Before' = Before
  BY <1>3, SameDialogue
<1>6. ASSUME pc' \in c_writing => Len(up) <= Len(s_out), ClientInv', DoneInv',
             pc' \in c_writing \cup {"done"}
      PROVE  SessionInv'
  BY <1>2, <1>3, <1>6, ClientReadKeeps DEF SessionInv
<1>7. CASE pc' = "done" /\ failed(ec')
  <2>1. Len(up) # Before + 1
    <3>1. \/ Len(up) = 1 \/ (Len(up) = 2 /\ Before = 2)
      BY <1>1 DEF ClientInv, ClientReadsEnd
    <3>2. Before = 1 \/ Before = 2
      BY <1>1, ClientNumbers
    <3>3. CASE Before = 1
      <4>1. Len(up) = 1 /\ Before + 1 = 2
        BY <3>1, <3>3
      <4> QED
        BY <4>1
    <3>4. CASE Before = 2
      <4>1. (Len(up) = 1 \/ Len(up) = 2) /\ Before + 1 = 3
        BY <3>1, <3>4
      <4>2. PICK x \in {1, 2} : x = Len(up)
        BY <4>1
      <4>3. x # 3
        OBVIOUS
      <4> QED
        BY <4>1, <4>2, <4>3, Zenon
    <3> QED
      BY <3>2, <3>3, <3>4
  <2>2. ClientInv'
    BY <1>7 DEF ClientInv
  <2>3. DoneInv'
    BY <1>3, <1>5, <1>7, <2>1 DEF DoneInv
  <2> QED
    BY <1>6, <1>7, <2>2, <2>3 DEF c_writing
<1>8. CASE /\ pc = "read_choice" /\ n + o.k >= 2
           /\ pc' = IF buffer(o.k)[2] = 2 THEN "write_userpass"
                                          ELSE "write_request"
  <2>1. Len(up) = 1 /\ pos = n /\ n < 2
    BY <1>1, <1>8 DEF ClientInv
  <2>2. link # "closed"
    BY <1>1, <1>4, <1>8, <2>1, ClientNumbers
  <2>3. Len(down) = 2 * Len(s_out) /\ Len(s_out) <= 1
    BY <1>1, <2>1, <2>2, Arrived, ClientNumbers
  <2>4. n + o.k = 2 /\ Len(s_out) = 1
    <3>1. n \in Nat /\ Len(s_out) \in Nat
      BY <1>1, ClientNumbers
    <3>2. n + o.k <= 2 * Len(s_out)
      BY <1>4, <2>1, <2>3
    <3>3. PICK x \in Nat, y \in Nat : x = n + o.k /\ y = Len(s_out)
      BY <1>4, <3>1
    <3>4. x >= 2 /\ x <= 2 * y /\ y <= 1
      BY <1>8, <2>3, <3>2, <3>3
    <3>5. x = 2 /\ y = 1
      BY <3>4
    <3> QED
      BY <3>3, <3>5
  <2>5. buffer(o.k)[2] = Chosen
    <3>1. StreamTypeOK /\ 2 \in 1..(n + o.k)
      BY <1>1, <2>4 DEF Types
    <3>2. buffer(o.k)[2] = down[(pos - n) + 2]
      BY <1>4, <3>1, BufferFacts
    <3>3. (pos - n) + 2 = 2
      BY <1>1, <2>1, ClientNumbers
    <3>4. IsAnswer(1, s_out[1]) /\ Holds(down, 2 * 1 - 2, s_out[1])
      BY <1>1, <2>2, <2>4 DEF DownInv
    <3>5. s_out[1] = <<5, Chosen>>
      BY <3>4 DEF IsAnswer
    <3>6. Len(s_out[1]) = 2 /\ s_out[1][2] = Chosen /\ 2 * 1 - 2 = 0
      BY <3>5
    <3>7. down[0 + 2] = s_out[1][2]
      BY <3>4, <3>6 DEF Holds
    <3> QED
      BY <3>2, <3>3, <3>6, <3>7
  <2>6. /\ pc' = "write_userpass" => Before = 2
        /\ pc' = "write_request" => Before = 1
    BY <1>8, <2>5 DEF Chosen, Before
  <2>7. pc' \in c_writing /\ pc' \in {"write_userpass", "write_request"}
    BY <1>8 DEF c_writing
  <2>8. pos' = 2 /\ n' = 0
    BY <1>1, <1>2, <2>1, <2>4, ClientNumbers
  <2>9. ClientInv'
    BY <1>3, <1>5, <2>1, <2>6, <2>7, <2>8 DEF ClientInv
  <2>10. DoneInv'
    BY <2>7 DEF DoneInv
  <2>11. Len(up) <= Len(s_out)
    BY <2>1, <2>4
  <2> QED
    BY <1>6, <2>7, <2>9, <2>10, <2>11
<1>9. CASE pc = "read_userpass" /\ n + o.k = 2 /\ pc' = "write_request"
  <2>1. Len(up) = 2 /\ pos = 2 + n /\ n < 2 /\ Before = 2
    BY <1>1, <1>9 DEF ClientInv
  <2>2. link # "closed"
    BY <1>1, <1>4, <1>9, <2>1, ClientNumbers
  <2>3. Len(down) = 2 * Len(s_out)
    BY <1>1, <2>1, <2>2, Arrived
  <2>4. pos' = 4 /\ Len(up) <= Len(s_out)
    BY <1>1, <1>2, <1>4, <1>9, <2>1, <2>3, ClientNumbers
  <2>5. ClientInv'
    BY <1>2, <1>3, <1>5, <1>9, <2>1, <2>4 DEF ClientInv
  <2>6. DoneInv'
    BY <1>9 DEF DoneInv
  <2> QED
    BY <1>6, <1>9, <2>4, <2>5, <2>6 DEF c_writing
<1> QED
  BY <1>2, <1>7, <1>8, <1>9

\* A reply that the client takes for a success has the size of its type.
LEMMA ParsedSize ==
    ASSUME NEW buf \in Seq(Byte), Len(buf) \in {10, 22},
           ~failed(parse_reply_v5(buf).ec)
    PROVE  /\ buf[2] = 0
           /\ (buf[4] = 1 /\ Len(buf) = 10) \/ (buf[4] = 4 /\ Len(buf) = 22)
<1>1. buf[2] \in Byte
  BY ElementOfSeq
<1>2. /\ failed(socks(bad_reply_version)) /\ failed(socks(bad_reply_size))
      /\ failed(socks(bad_address_type))
  BY DEF failed, socks, bad_reply_version, bad_reply_size, bad_address_type,
         request_granted
<1>3. PICK e : e = socks(to_reply_code(buf[2]))
  OBVIOUS
<1>4. /\ failed(e) <=> buf[2] # 0
      /\ condition(e.val) = IF buf[2] = 0 THEN "succeeded" ELSE "reply_error"
  BY <1>1, <1>3, VerdictFacts
<1>5. \A x : reply_error(x).ec = x
  BY DEF reply_error
<1>6. buf[1] = 5
  BY <1>2, <1>5 DEF parse_reply_v5
<1>7. buf[2] = 0
  <2>1. SUFFICES ASSUME buf[2] # 0 PROVE parse_reply_v5(buf) = reply_error(e)
    BY <1>4, <1>5
  <2> QED
    BY <1>3, <1>4, <1>6, <2>1 DEF parse_reply_v5
<1>8. \/ to_address_type(buf[4]) = 1 /\ Len(buf) = 10
      \/ to_address_type(buf[4]) = 4 /\ Len(buf) = 22
  BY <1>2, <1>3, <1>4, <1>5, <1>6, <1>7 DEF parse_reply_v5, ip_v4, ip_v6
<1>9. \A v : to_address_type(v) \in {1, 4} => to_address_type(v) = v
  BY DEF to_address_type, ip_v4, ip_v6, domain_name, unknown
<1> QED
  BY <1>7, <1>8, <1>9

\* The bytes behind the negotiation are those of the reply, if there is one.
LEMMA ReplyArrived ==
    ASSUME Types, DownInv, link # "closed", Len(s_out) = Before + 1,
           NEW r, r = s_out[Before + 1]
    PROVE  /\ IsReply(r) /\ r \in Seq(Byte) /\ Len(r) \in {10, 22}
           /\ r[4] \in {1, 4} /\ (Len(r) = 10 <=> r[4] = 1)
           /\ \A i \in 1..Len(r) : down[2 * Before + i] = r[i]
           /\ 2 * Before + Len(r) <= Len(down)
           /\ app = 0 => Len(down) = 2 * Before + Len(r)
<1>1. PICK b \in {1, 2} : b = Before
  BY Arguments
<1>2. b + 1 \in 1..Len(s_out) /\ 2 * (b + 1) - 2 = 2 * b
  BY <1>1
<1>3. IsAnswer(b + 1, r) /\ Holds(down, 2 * (b + 1) - 2, r)
  BY <1>1, <1>2 DEF DownInv
<1>4. IsReply(r)
  BY <1>1, <1>3 DEF IsAnswer
<1>5. r \in Seq(Byte) /\ r[4] \in {1, 4} /\ Len(r) = IF r[4] = 1 THEN 10 ELSE 22
  BY <1>4, ReplyShape
<1>6. Holds(down, 2 * b, r)
  BY <1>2, <1>3
<1>7. app = 0 => Len(down) = 2 * Before + Len(r)
  BY DEF DownInv
<1>8. /\ \A i \in 1..Len(r) : down[2 * Before + i] = r[i]
      /\ 2 * Before + Len(r) <= Len(down)
  BY <1>1, <1>6, Zenon DEF Holds
<1>9. Len(r) \in {10, 22} /\ (Len(r) = 10 <=> r[4] = 1)
  BY <1>5
<1> QED
  BY <1>4, <1>5, <1>7, <1>8, <1>9, Zenon

\* The read of the reply ends: a success was read from the server's grant,
\* and what the server has said so far is what the client is told.
LEMMA ClientReadsReplyStep ==
    ASSUME SessionInv, ClientStep, ClientReadsReply
    PROVE  SessionInv'
<1>1. Types /\ DownInv /\ TurnInv /\ ClientInv /\ LinkInv
  BY DEF SessionInv
<1>2. PICK o :
         /\ Gets(o) /\ pos' = pos + o.k /\ n' = 0
         /\ \/ failed(o.ec) \/ n + o.k = 22
            \/ n + o.k = 10 /\ buffer(o.k)[4] = 1
         /\ \/ failed(ec') /\ failed(o.ec) /\ o.ec # eof
            \/ failed(ec') /\ n + o.k # 10 /\ n + o.k # 22
            \/ /\ n + o.k \in {10, 22} /\ (failed(o.ec) => o.ec = eof)
               /\ ec' = parse_reply_v5(buffer(o.k)).ec
  BY DEF ClientReadsReply
<1>3. /\ pc = "read_reply" /\ pc' = "done" /\ up' = up /\ opt' = opt
      /\ target' = target /\ down' = down /\ link' = link /\ app' = app
      /\ UNCHANGED <<s_out, s_pc>>
  BY <1>1, ClientStepFrame DEF ClientReadsReply, ClientKeeps, ClientFrame
<1>4. /\ o.k \in Nat /\ pos + o.k <= Len(down) /\ (o.k > 0 => link # "closed")
      /\ o.k > 0 <=> ~failed(o.ec)
      /\ o.k = 0 /\ link = "shut" => pos = Len(down) /\ o.ec = eof
      /\ o.k = 0 => link # "up"
  BY <1>2 DEF Gets
<1>5. Before' = Before
  BY <1>3, SameDialogue
<1>6. /\ Types' /\ UpInv' /\ DownInv' /\ ServerInv' /\ TargetInv' /\ LinkInv'
      /\ TurnInv'
  BY <1>2, <1>3, ClientReadKeeps DEF c_reading, c_writing
<1>7. ClientInv'
  BY <1>3 DEF ClientInv
<1>8. PICK b \in {1, 2}, z \in Nat : b = Before /\ z = n + o.k
  BY <1>1, <1>4, ClientNumbers
<1>9. /\ pos - n = 2 * b /\ pos + o.k = 2 * b + z /\ n \in Nat /\ pos \in Nat
      /\ Len(down) \in Nat /\ 2 * b + z <= Len(down) /\ n # 22
      /\ n = 10 => down[2 * b + 4] # 1
  <2>1. n \in Nat /\ pos \in Nat /\ Len(down) \in Nat
    BY <1>1, ClientNumbers
  <2>2. pos = 2 * b + n /\ n # 22 /\ (n = 10 => down[2 * b + 4] # 1)
    BY <1>1, <1>3, <1>8 DEF ClientInv
  <2> QED
    BY <1>4, <1>8, <2>1, <2>2
<1>10. PICK buf \in Seq(Byte) :
         /\ buf = buffer(o.k) /\ Len(buf) = z
         /\ \A i \in 1..z : buf[i] = down[2 * b + i]
  <2>1. StreamTypeOK
    BY <1>1 DEF Types
  <2> QED
    BY <1>4, <1>8, <1>9, <2>1, BufferFacts
<1>11. z >= 10 /\ link # "closed" => Len(s_out) = b + 1
  <2>1. Len(s_out) \in Nat /\ Len(s_out) <= b + 1
    BY <1>1, <1>8, ClientNumbers DEF DownInv
  <2>2. link # "closed" /\ Len(s_out) <= b => Len(down) = 2 * Len(s_out)
    BY <1>1, <1>8 DEF DownInv
  <2> QED
    BY <1>9, <2>1, <2>2
<1>12. n >= 10 => z >= 10
  BY <1>4, <1>8, <1>9
<1>13. PICK r : r = s_out[b + 1]
  OBVIOUS
<1>14. ASSUME link # "closed", Len(s_out) = b + 1
       PROVE  /\ IsReply(r) /\ r \in Seq(Byte) /\ Len(r) \in {10, 22}
              /\ r[4] \in {1, 4} /\ (Len(r) = 10 <=> r[4] = 1)
              /\ \A i \in 1..Len(r) : down[2 * b + i] = r[i]
              /\ app = 0 => Len(down) = 2 * b + Len(r)
              /\ parse_reply_v5(r).ec = socks(r[2]) /\ r[2] \in {0, 4}
  BY <1>1, <1>8, <1>13, <1>14, ReplyArrived, ReplyShape
<1>15. ASSUME link # "closed", Len(s_out) = b + 1, z = Len(r)
       PROVE  buf = r
  <2>1. Len(buf) = Len(r) /\ r \in Seq(Byte)
    BY <1>10, <1>14, <1>15
  <2>2. \A i \in 1..Len(buf) : buf[i] = r[i]
    BY <1>10, <1>14, <1>15
  <2> QED
    BY <2>1, <2>2, SameBytes
<1>16. ASSUME link # "closed", Len(s_out) = b + 1, z >= 10
       PROVE  buf[4] = r[4]
  <2>1. 4 \in 1..z /\ 4 \in 1..Len(r)
    BY <1>14, <1>16
  <2> QED
    BY <1>10, <1>14, <1>16, <2>1
<1>17. ~failed(ec') =>
         /\ link # "closed" /\ Len(s_out) = b + 1
         /\ r[2] = 0 /\ pos' = 2 * b + Len(r)
  <2>1. SUFFICES ASSUME ~failed(ec')
                 PROVE  /\ link # "closed" /\ Len(s_out) = b + 1
                        /\ r[2] = 0 /\ pos' = 2 * b + Len(r)
    OBVIOUS
  <2>2. /\ z \in {10, 22} /\ ec' = parse_reply_v5(buf).ec
        /\ failed(o.ec) => o.ec = eof
    BY <1>2, <1>8, <1>10, <2>1
  <2>3. link # "closed"
    BY <1>2, <2>2 DEF Gets
  <2>4. Len(s_out) = b + 1
    BY <1>11, <2>2, <2>3
  <2>5. /\ buf[2] = 0
        /\ (buf[4] = 1 /\ z = 10) \/ (buf[4] = 4 /\ z = 22)
    BY <1>10, <2>1, <2>2, ParsedSize
  <2>6. z = Len(r)
    <3>1. /\ Len(r) = 10 \/ Len(r) = 22
          /\ Len(r) = 10 <=> r[4] = 1
      BY <1>14, <2>3, <2>4
    <3>2. buf[4] = r[4]
      BY <1>16, <2>2, <2>3, <2>4
    <3> QED
      BY <2>5, <3>1, <3>2
  <2>7. buf = r
    BY <1>15, <2>3, <2>4, <2>6
  <2> QED
    BY <1>2, <1>9, <2>3, <2>4, <2>5, <2>6, <2>7
<1>18. app = 0 /\ link \in {"up", "shut"} =>
         IF Len(s_out) = b + 1 THEN ec' = socks(r[2]) ELSE s_pc = "ended"
  <2>1. SUFFICES ASSUME app = 0, link \in {"up", "shut"}
                 PROVE  IF Len(s_out) = b + 1 THEN ec' = socks(r[2])
                                              ELSE s_pc = "ended"
    OBVIOUS
  <2>2. link # "closed"
    BY <2>1
  <2>3. CASE Len(s_out) # b + 1
    <3>1. z < 10
      BY <1>8, <1>11, <2>2, <2>3
    <3>2. o.k = 0
      BY <1>2, <1>4, <1>8, <3>1
    <3> QED
      BY <1>1, <1>4, <2>1, <2>3, <3>2 DEF LinkInv
  <2>4. CASE Len(s_out) = b + 1
    <3>1. z <= Len(r) /\ Len(r) \in {10, 22} /\ r[4] \in {1, 4}
            /\ (Len(r) = 10 <=> r[4] = 1)
      BY <1>8, <1>9, <1>14, <2>1, <2>2, <2>4
    <3>2. o.k > 0
      <4>1. SUFFICES ASSUME o.k = 0 PROVE FALSE
        BY <1>4
      <4>2. pos = Len(down) /\ z = n
        BY <1>4, <1>8, <1>9, <2>1, <4>1
      <4>3. n = Len(r)
        BY <1>9, <1>14, <2>1, <2>2, <2>4, <4>2
      <4>4. n = 10 /\ r[4] = 1
        BY <1>9, <3>1, <4>3
      <4>5. down[2 * b + 4] = r[4]
        BY <1>14, <2>2, <2>4, <3>1
      <4> QED
        BY <1>9, <4>4, <4>5
    <3>3. z = 22 \/ (z = 10 /\ buf[4] = 1)
      BY <1>2, <1>4, <1>8, <1>10, <3>2
    <3>4. z = Len(r)
      <4>1. buf[4] = r[4]
        BY <1>16, <2>2, <2>4, <3>3
      <4>2. CASE z = 22
        <5>1. PICK y \in {10, 22} : y = Len(r)
          BY <3>1
        <5>2. z <= y
          BY <3>1, <5>1, Zenon
        <5>3. y = 22
          BY <4>2, <5>2
        <5> QED
          BY <4>2, <5>1, <5>3, Zenon
      <4>3. CASE z = 10 /\ buf[4] = 1
        BY <3>1, <4>1, <4>3
      <4> QED
        BY <3>3, <4>2, <4>3
    <3>5. ec' = parse_reply_v5(buf).ec
      BY <1>2, <1>4, <1>8, <1>10, <3>2, <3>3
    <3> QED
      BY <1>14, <1>15, <2>2, <2>4, <3>4, <3>5
  <2> QED
    BY <2>3, <2>4
<1>19. DoneInv'
  BY <1>3, <1>5, <1>8, <1>13, <1>17, <1>18 DEF DoneInv
<1> QED
  BY <1>6, <1>7, <1>19 DEF SessionInv

\* Every step of the operation keeps the invariant.
LEMMA ClientStepKeeps ==
    ASSUME SessionInv, ClientStep
    PROVE  SessionInv'
<1>1. ClientMove
  BY ClientStepFrame DEF SessionInv
<1> QED
  BY <1>1, ClientWriteSteps, ClientReadsOnStep, ClientReadsEndStep,
     ClientReadsReplyStep, Zenon DEF ClientMove

\* Before the relay, and before the last answer is written.
s_busy == s_reading \cup s_writing \cup {"resolve", "connect"}

\* Then the server owes an answer.
LEMMA ServerOwes ==
    ASSUME SessionInv, s_pc \in s_busy
    PROVE  /\ Len(s_out) \in Nat /\ Len(up) \in Nat /\ Before \in {1, 2}
           /\ Len(s_out) <= Before /\ Len(s_out) # Before + 1 /\ app = 0
           /\ s_pc # "ended" /\ s_pc # "relay"
           /\ s_pos \in Nat /\ s_n \in Nat /\ Len(s_down) \in Nat
           /\ s_pos <= Len(s_down) /\ s_n <= s_pos
<1>1. Types /\ ServerInv /\ DownInv
  BY DEF SessionInv
<1>2. /\ Len(s_out) \in Nat /\ Len(up) \in Nat /\ Before \in {1, 2}
      /\ Len(s_down) \in Nat
  BY <1>1, ClientNumbers, LenProperties DEF Types
<1>3. Len(s_out) = 0 \/ Len(s_out) = Before \/ (Len(s_out) = 1 /\ Before = 2)
  BY <1>1 DEF ServerInv, s_busy, s_reading, s_writing
<1>4. PICK z \in Nat, b \in {1, 2} : z = Len(s_out) /\ b = Before
  BY <1>2
<1>5. z <= b /\ z # b + 1
  BY <1>3, <1>4
<1>6. Len(s_out) <= Before /\ Len(s_out) # Before + 1
  BY <1>4, <1>5, Zenon
<1>7. app = 0
  BY <1>1, <1>6 DEF DownInv, Types
<1>8. s_pc # "ended" /\ s_pc # "relay"
  BY DEF s_busy, s_reading, s_writing
<1>9. /\ s_pos \in Nat /\ s_n \in Nat /\ s_pos <= Len(s_down) /\ s_n <= s_pos
  BY <1>1, <1>2 DEF Types
<1> QED
  BY <1>2, <1>6, <1>7, <1>8, <1>9

\* A handler of the server leaves the client alone.
LEMMA ServerStepFrame ==
    ASSUME SessionInv, ServerStep
    PROVE  /\ ServerMove
           /\ UNCHANGED <<s_down, s_link>>
           /\ UNCHANGED <<mode, opt, target, pc, up, ec, app, pos, n, stream_ec>>
<1>1. ServerMove /\ ServerKeeps
  BY ServerMoves DEF ServerStep
<1> QED
  BY <1>1 DEF ServerKeeps, ServerStep

\* A handler that writes nothing keeps what is about the client, whether it
\* ends the connection or not.
LEMMA ServerSilent ==
    ASSUME SessionInv, ServerStep, s_out' = s_out, s_pc \in s_busy,
           s_pc' \in s_busy \cup {"ended"},
           s_pos' \in 0..Len(s_down), s_n' \in 0..s_pos'
    PROVE  /\ Types' /\ UpInv' /\ DownInv' /\ TurnInv' /\ ClientInv'
           /\ LinkInv' /\ DoneInv'
<1>1. /\ Types /\ UpInv /\ DownInv /\ TurnInv /\ ClientInv /\ LinkInv
      /\ DoneInv
  BY DEF SessionInv
<1>2. /\ mode' = mode /\ opt' = opt /\ target' = target /\ pc' = pc
      /\ up' = up /\ ec' = ec /\ app' = app /\ pos' = pos /\ n' = n
      /\ stream_ec' = stream_ec /\ s_down' = s_down /\ s_link' = s_link
  BY ServerStepFrame
<1>3. Len(s_out) # Before + 1 /\ s_pc # "ended"
  BY ServerOwes
<1>4. down' = down
  <2>1. ~(Len(s_out') > Len(s_out))
    BY <1>1 DEF Types
  <2> QED
    BY <2>1 DEF ServerStep
<1>5. /\ link' \in {"up", "shut", "reset", "closed"}
      /\ (link' = "closed" <=> link = "closed")
      /\ s_pc' # "ended" => link' = link
      /\ link' \in {"up", "shut"} => link \in {"up", "shut"}
  BY <1>1 DEF ServerStep, AfterClose, Types, StreamTypeOK
<1>6. Types'
  <2>1. StreamTypeOK'
    BY <1>1, <1>2, <1>4, <1>5 DEF Types, StreamTypeOK
  <2>2. s_pc' \in s_reading \cup s_writing
                \cup {"resolve", "connect", "relay", "ended"}
    BY DEF s_busy
  <2> QED
    BY <1>1, <1>2, <2>1, <2>2 DEF Types
<1>7. UpInv'
  BY <1>1, <1>2, SameDialogue DEF UpInv
<1>8. DownInv'
  BY <1>1, <1>2, <1>4, <1>5, SameDialogue DEF DownInv
<1>9. TurnInv'
  BY <1>1, <1>2 DEF TurnInv
<1>10. ClientInv'
  BY <1>1, <1>2, <1>4, SameDialogue DEF ClientInv
<1>11. LinkInv'
  BY <1>1, <1>2, <1>3, <1>5 DEF LinkInv
<1>12. DoneInv'
  BY <1>1, <1>2, <1>3, <1>5, SameDialogue DEF DoneInv
<1> QED
  BY <1>6, <1>7, <1>8, <1>9, <1>10, <1>11, <1>12

\* A read of the server that goes on.
LEMMA ServerReadsOnStep ==
    ASSUME SessionInv, ServerStep, ServerReadsOn
    PROVE  SessionInv'
<1>1. PICK o : ServerGets(o) /\ s_pos' = s_pos + o.k /\ s_n' = s_n + o.k
  BY DEF ServerReadsOn
<1>2. /\ s_pc \in s_reading /\ s_pc' = s_pc /\ s_choice' = s_choice
      /\ s_target' = s_target /\ s_tsock' = s_tsock /\ s_out' = s_out
      /\ s_pc \in s_busy
  BY DEF ServerReadsOn, s_busy
<1>3. /\ o.k \in Nat /\ s_pos + o.k <= Len(s_down) /\ s_pos \in Nat
      /\ s_n \in Nat /\ s_n <= s_pos /\ Len(s_down) \in Nat
  BY <1>1, <1>2, ServerOwes DEF ServerGets
<1>4. s_pos' \in 0..Len(s_down) /\ s_n' \in 0..s_pos'
  BY <1>1, <1>3
<1>5. /\ Types' /\ UpInv' /\ DownInv' /\ TurnInv' /\ ClientInv'
      /\ LinkInv' /\ DoneInv'
  BY <1>2, <1>4, ServerSilent
<1>6. ServerInv /\ TargetInv /\ Types
  BY DEF SessionInv
<1>7. opt' = opt /\ target' = target
  BY ServerStepFrame
<1>8. Before' = Before /\ \A j : From(j)' = From(j)
  BY <1>7, SameDialogue
<1>9. s_pos' = From(Len(s_out) + 1) + s_n'
  <2>1. PICK f \in Nat : f = From(Len(s_out) + 1)
    <3>1. Len(s_out) + 1 \in Nat
      BY <1>2, ServerOwes
    <3> QED
      BY <1>6, <3>1, FromFacts
  <2>2. s_pos = f + s_n
    BY <1>2, <1>6, <2>1 DEF ServerInv
  <2>3. \A x, y \in Nat : (f + x) + y = f + (x + y)
    BY <2>1
  <2>4. s_pos' = f + s_n'
    BY <1>1, <1>3, <2>2, <2>3, Zenon
  <2> QED
    BY <2>1, <2>4
<1>10. ServerInv'
  <2>1. Len(s_out) # Before + 1
    BY <1>2, ServerOwes
  <2> QED
    BY <1>2, <1>6, <1>8, <1>9, <2>1 DEF ServerInv, s_reading, s_writing
<1>11. TargetInv'
  BY <1>2, <1>6, <1>7, <1>8 DEF TargetInv, s_reading
<1> QED
  BY <1>5, <1>10, <1>11 DEF SessionInv

\* The server ends the connection before its last answer.
LEMMA ServerEndsStep ==
    ASSUME SessionInv, ServerStep, ServerEnds
    PROVE  SessionInv'
<1>1. PICK k \in Nat : s_pos' = s_pos + k /\ s_pos + k <= Len(s_down)
  BY DEF ServerEnds
<1>2. /\ s_pc \in s_busy /\ s_pc' = "ended" /\ s_n' \in {0, s_n}
      /\ s_target' = s_target /\ s_tsock' = s_tsock /\ s_out' = s_out
  BY DEF ServerEnds, s_busy
<1>3. /\ s_pos \in Nat /\ s_n \in Nat /\ s_n <= s_pos /\ Len(s_down) \in Nat
      /\ Len(s_out) # Before + 1
  BY <1>2, ServerOwes
<1>4. s_pos' \in 0..Len(s_down) /\ s_n' \in 0..s_pos'
  BY <1>1, <1>2, <1>3
<1>5. /\ Types' /\ UpInv' /\ DownInv' /\ TurnInv' /\ ClientInv'
      /\ LinkInv' /\ DoneInv'
  BY <1>2, <1>4, ServerSilent
<1>6. TargetInv
  BY DEF SessionInv
<1>7. opt' = opt /\ target' = target
  BY ServerStepFrame
<1>8. Before' = Before
  BY <1>7, SameDialogue
<1>9. ServerInv'
  BY <1>2, <1>3, <1>8 DEF ServerInv, s_reading, s_writing
<1>10. TargetInv'
  BY <1>2, <1>3, <1>6, <1>7, <1>8 DEF TargetInv, s_reading
<1> QED
  BY <1>5, <1>9, <1>10 DEF SessionInv

\* A message that was read to its end: the server stands behind it, and
\* there is nothing more to read.
LEMMA MessageTaken ==
    ASSUME SessionInv, s_pc \in s_reading, NEW z \in Nat, z = Len(s_out),
           Len(up) = z + 1,
           s_pos' = s_pos + (Len(Say(z + 1)) - s_n), s_n' = 0
    PROVE  /\ s_pos' = From(z + 2)
           /\ s_pos' \in 0..Len(s_down) /\ s_n' \in 0..s_pos'
<1>1. Types /\ ServerInv /\ UpInv
  BY DEF SessionInv
<1>2. s_pc \in s_busy
  BY DEF s_busy
<1>3. z + 1 \in 1..3 /\ s_n \in Nat /\ z + 1 + 1 = z + 2
  <2>1. PICK b \in {1, 2} : b = Before
    BY <1>2, ServerOwes
  <2>2. z <= b
    BY <1>2, <2>1, ServerOwes
  <2> QED
    BY <1>2, <2>2, ServerOwes
<1>4. PICK f \in Nat, y \in Nat :
        /\ f = From(z + 1) /\ y = Len(Say(z + 1))
        /\ From(z + 1 + 1) = f + y
  <2>1. PICK j \in 1..3 : j = z + 1
    BY <1>3
  <2>2. From(j) \in Nat /\ Len(Say(j)) \in Nat
    <3>1. j \in Nat
      OBVIOUS
    <3> QED
      BY <1>1, <3>1, FromFacts, SayShape, Zenon
  <2>3. From(j + 1) = From(j) + Len(Say(j))
    BY <1>1, FromFacts
  <2> QED
    BY <2>1, <2>2, <2>3, Zenon
<1>5. s_pos = f + s_n
  BY <1>1, <1>4 DEF ServerInv
<1>6. s_pos' = f + y
  BY <1>3, <1>4, <1>5
<1>7. Len(s_down) = From(z + 1 + 1)
  BY <1>1 DEF UpInv
<1> QED
  BY <1>3, <1>4, <1>6, <1>7

\* The greeting was read.
LEMMA ServerChoosesStep ==
    ASSUME SessionInv, ServerStep, ServerChooses
    PROVE  SessionInv'
<1>1. Types /\ ServerInv /\ TargetInv
  BY DEF SessionInv
<1>2. /\ s_pc = "read_greeting" /\ s_pc' = "write_choice" /\ Len(up) = 1
      /\ s_choice' = Chosen /\ s_message' = <<5, Chosen>>
      /\ s_target' = s_target /\ s_tsock' = s_tsock /\ s_out' = s_out
      /\ s_n' = 0
  BY DEF ServerChooses
<1>3. s_pc \in s_reading /\ s_pc \in s_busy /\ s_pc' \in s_busy
  BY <1>2 DEF s_busy, s_reading, s_writing
<1>4. Len(s_out) = 0 /\ Before \in {1, 2}
  BY <1>1, <1>2, <1>3, ServerOwes DEF ServerInv
<1>5. /\ s_pos' = From(2)
      /\ s_pos' \in 0..Len(s_down) /\ s_n' \in 0..s_pos'
  <2>1. PICK z \in Nat : z = 0
    OBVIOUS
  <2>2. z = Len(s_out) /\ z + 1 = 1 /\ z + 2 = 2
    BY <1>4, <2>1
  <2>3. Len(up) = z + 1 /\ s_pos' = s_pos + (Len(Say(z + 1)) - s_n)
    BY <1>2, <2>2 DEF ServerChooses
  <2>4. /\ s_pos' = From(z + 2)
        /\ s_pos' \in 0..Len(s_down) /\ s_n' \in 0..s_pos'
    BY <1>2, <1>3, <2>2, <2>3, MessageTaken
  <2> QED
    BY <2>2, <2>4
<1>6. /\ Types' /\ UpInv' /\ DownInv' /\ TurnInv' /\ ClientInv'
      /\ LinkInv' /\ DoneInv'
  BY <1>2, <1>3, <1>5, ServerSilent
<1>7. opt' = opt /\ target' = target /\ up' = up
  BY ServerStepFrame
<1>8. /\ Before' = Before /\ Chosen' = Chosen /\ \A j : From(j)' = From(j)
      /\ \A j, m : IsAnswer(j, m)' <=> IsAnswer(j, m)
  BY <1>7, SameDialogue
<1>9. IsAnswer(1, s_message')
  BY <1>2, <1>4 DEF IsAnswer
<1>10. ServerInv'
  BY <1>2, <1>4, <1>5, <1>7, <1>8, <1>9 DEF ServerInv, s_reading, s_writing
<1>11. TargetInv'
  BY <1>1, <1>2, <1>4, <1>7, <1>8 DEF TargetInv, s_reading
<1> QED
  BY <1>6, <1>10, <1>11 DEF SessionInv

\* The credentials were read.
LEMMA ServerApprovesStep ==
    ASSUME SessionInv, ServerStep, ServerApproves
    PROVE  SessionInv'
<1>1. Types /\ ServerInv /\ TargetInv
  BY DEF SessionInv
<1>2. /\ s_pc = "read_userpass" /\ s_pc' = "write_status" /\ Len(up) = 2
      /\ s_message' = <<1, 0>>
      /\ s_target' = s_target /\ s_tsock' = s_tsock /\ s_out' = s_out
      /\ s_n' = 0
  BY DEF ServerApproves
<1>3. s_pc \in s_reading /\ s_pc \in s_busy /\ s_pc' \in s_busy
  BY <1>2 DEF s_busy, s_reading, s_writing
<1>4. Len(s_out) = 1 /\ Before = 2
  BY <1>1, <1>2 DEF ServerInv
<1>5. /\ s_pos' = From(3)
      /\ s_pos' \in 0..Len(s_down) /\ s_n' \in 0..s_pos'
  <2>1. PICK z \in Nat : z = 1
    OBVIOUS
  <2>2. z = Len(s_out) /\ z + 1 = 2 /\ z + 2 = 3
    BY <1>4, <2>1
  <2>3. Len(up) = z + 1 /\ s_pos' = s_pos + (Len(Say(z + 1)) - s_n)
    BY <1>2, <2>2 DEF ServerApproves
  <2>4. /\ s_pos' = From(z + 2)
        /\ s_pos' \in 0..Len(s_down) /\ s_n' \in 0..s_pos'
    BY <1>2, <1>3, <2>2, <2>3, MessageTaken
  <2> QED
    BY <2>2, <2>4
<1>6. /\ Types' /\ UpInv' /\ DownInv' /\ TurnInv' /\ ClientInv'
      /\ LinkInv' /\ DoneInv'
  BY <1>2, <1>3, <1>5, ServerSilent
<1>7. opt' = opt /\ target' = target /\ up' = up
  BY ServerStepFrame
<1>8. /\ Before' = Before /\ \A j : From(j)' = From(j)
      /\ \A j, m : IsAnswer(j, m)' <=> IsAnswer(j, m)
  BY <1>7, SameDialogue
<1>9. IsAnswer(2, s_message')
  BY <1>2, <1>4 DEF IsAnswer
<1>10. ServerInv'
  BY <1>2, <1>4, <1>5, <1>7, <1>8, <1>9 DEF ServerInv, s_reading, s_writing
<1>11. TargetInv'
  BY <1>1, <1>2, <1>4, <1>7, <1>8 DEF TargetInv, s_reading
<1> QED
  BY <1>6, <1>10, <1>11 DEF SessionInv

\* The request was read: it is the client's target the server goes for.
LEMMA ServerTakesRequestStep ==
    ASSUME SessionInv, ServerStep, ServerTakesRequest
    PROVE  SessionInv'
<1>1. Types /\ ServerInv /\ TargetInv
  BY DEF SessionInv
<1>2. /\ s_pc = "read_request" /\ s_pc' \in {"resolve", "connect"}
      /\ Len(up) = Before + 1 /\ s_target' = target
      /\ s_tsock' = s_tsock /\ s_out' = s_out /\ s_n' = 0
      /\ s_pos' = s_pos + (Len(Say(Before + 1)) - s_n)
  BY DEF ServerTakesRequest
<1>3. s_pc \in s_reading /\ s_pc \in s_busy /\ s_pc' \in s_busy
  BY <1>2 DEF s_busy, s_reading
<1>4. Len(s_out) = Before /\ Before \in Nat /\ Len(s_out) # Before + 1
  <2>1. Before \in {1, 2} /\ Len(s_out) # Before + 1
    BY <1>3, ServerOwes
  <2>2. Before \in Nat
    BY <2>1
  <2> QED
    BY <1>1, <1>2, <2>1, <2>2 DEF ServerInv
<1>5. /\ s_pos' = From(Before + 2)
      /\ s_pos' \in 0..Len(s_down) /\ s_n' \in 0..s_pos'
  <2>1. PICK z \in Nat : z = Before
    BY <1>4
  <2>2. /\ z = Len(s_out) /\ Len(up) = z + 1
        /\ s_pos' = s_pos + (Len(Say(z + 1)) - s_n)
    BY <1>2, <1>4, <2>1, Zenon
  <2>3. /\ s_pos' = From(z + 2)
        /\ s_pos' \in 0..Len(s_down) /\ s_n' \in 0..s_pos'
    BY <1>2, <1>3, <2>2, MessageTaken
  <2> QED
    BY <2>1, <2>3, Zenon
<1>6. /\ Types' /\ UpInv' /\ DownInv' /\ TurnInv' /\ ClientInv'
      /\ LinkInv' /\ DoneInv'
  BY <1>2, <1>3, <1>5, ServerSilent
<1>7. opt' = opt /\ target' = target /\ up' = up
  BY ServerStepFrame
<1>8. Before' = Before /\ \A j : From(j)' = From(j)
  BY <1>7, SameDialogue
<1>9. ServerInv'
  BY <1>2, <1>4, <1>5, <1>7, <1>8 DEF ServerInv, s_reading, s_writing
<1>10. TargetInv'
  BY <1>1, <1>2, <1>4, <1>7, <1>8 DEF TargetInv, s_reading
<1> QED
  BY <1>6, <1>9, <1>10 DEF SessionInv

\* The target's name was resolved.
LEMMA ServerResolvesStep ==
    ASSUME SessionInv, ServerStep, ServerResolves
    PROVE  SessionInv'
<1>1. Types /\ ServerInv /\ TargetInv
  BY DEF SessionInv
<1>2. /\ s_pc = "resolve" /\ s_pc' = "connect" /\ s_pos' = s_pos /\ s_n' = s_n
      /\ s_target' = s_target /\ s_tsock' = s_tsock /\ s_out' = s_out
  BY DEF ServerResolves
<1>3. s_pc \in s_busy /\ s_pc' \in s_busy
  BY <1>2 DEF s_busy
<1>4. /\ s_pos' \in 0..Len(s_down) /\ s_n' \in 0..s_pos'
      /\ Len(s_out) # Before + 1
  BY <1>1, <1>2, <1>3, ServerOwes DEF Types
<1>5. /\ Types' /\ UpInv' /\ DownInv' /\ TurnInv' /\ ClientInv'
      /\ LinkInv' /\ DoneInv'
  BY <1>2, <1>3, <1>4, ServerSilent
<1>6. opt' = opt /\ target' = target /\ up' = up
  BY ServerStepFrame
<1>7. Before' = Before /\ \A j : From(j)' = From(j)
  BY <1>6, SameDialogue
<1>8. ServerInv'
  BY <1>1, <1>2, <1>4, <1>6, <1>7 DEF ServerInv, s_reading, s_writing
<1>9. TargetInv'
  BY <1>1, <1>2, <1>4, <1>6, <1>7 DEF TargetInv, s_reading
<1> QED
  BY <1>5, <1>8, <1>9 DEF SessionInv

\* The server has tried to reach the target and prepares its reply.
LEMMA ServerRepliesStep ==
    ASSUME SessionInv, ServerStep, ServerReplies
    PROVE  SessionInv'
<1>1. Types /\ ServerInv /\ TargetInv
  BY DEF SessionInv
<1>2. /\ s_pc \in {"resolve", "connect"} /\ s_pc' = "write_reply"
      /\ IsReply(s_message') /\ s_tsock' \in {"closed", "open", "connected"}
      /\ s_message'[2] = 0 => s_tsock' = "connected"
      /\ s_pos' = s_pos /\ s_n' = s_n /\ s_target' = s_target /\ s_out' = s_out
  BY DEF ServerReplies
<1>3. s_pc \in s_busy /\ s_pc' \in s_busy
  BY <1>2 DEF s_busy, s_writing
<1>4. /\ s_pos' \in 0..Len(s_down) /\ s_n' \in 0..s_pos'
      /\ Len(s_out) # Before + 1 /\ Before \in {1, 2}
  BY <1>1, <1>2, <1>3, ServerOwes DEF Types
<1>5. /\ Types' /\ UpInv' /\ DownInv' /\ TurnInv' /\ ClientInv'
      /\ LinkInv' /\ DoneInv'
  BY <1>2, <1>3, <1>4, ServerSilent
<1>6. opt' = opt /\ target' = target /\ up' = up
  BY ServerStepFrame
<1>7. /\ Before' = Before /\ \A j : From(j)' = From(j)
      /\ \A j, m : IsAnswer(j, m)' <=> IsAnswer(j, m)
  BY <1>6, SameDialogue
<1>8. Len(s_out) = Before /\ s_target = target
  BY <1>1, <1>2 DEF ServerInv, TargetInv
<1>9. IsAnswer(Len(s_out) + 1, s_message')
  <2>1. PICK b \in {1, 2} : b = Before /\ (b = 2 <=> opt.is_userpass)
    BY <1>4 DEF Before
  <2>2. b + 1 # 1 /\ ~(b + 1 = 2 /\ opt.is_userpass)
    BY <2>1
  <2>3. IsAnswer(b + 1, s_message')
    BY <1>2, <2>1, <2>2, Zenon DEF IsAnswer
  <2> QED
    BY <1>8, <2>1, <2>3, Zenon
<1>10. ServerInv'
  BY <1>1, <1>2, <1>4, <1>6, <1>7, <1>8, <1>9 DEF ServerInv, s_reading, s_writing
<1>11. TargetInv'
  BY <1>2, <1>4, <1>6, <1>7, <1>8 DEF TargetInv, s_reading
<1> QED
  BY <1>5, <1>10, <1>11 DEF SessionInv

\* The answers of the server are bytes: two of them before the reply.
LEMMA AnswerShape ==
    ASSUME Types, NEW j \in Nat, j >= 1, j <= Before + 1,
           NEW m, IsAnswer(j, m)
    PROVE  /\ m \in Seq(Byte) /\ Len(m) \in Nat
           /\ j <= Before => Len(m) = 2
           /\ j = Before + 1 => IsReply(m)
<1>1. PICK b \in {1, 2} : b = Before /\ (b = 2 <=> opt.is_userpass)
  BY Arguments DEF Before
<1>2. Chosen \in Byte /\ 5 \in Byte /\ 1 \in Byte /\ 0 \in Byte
  BY SmallBytes DEF Chosen
<1>3. CASE j = 1
  <2>1. m = <<5, Chosen>>
    BY <1>3 DEF IsAnswer
  <2>2. m \in Seq(Byte) /\ Len(m) = 2 /\ j # b + 1
    BY <1>2, <1>3, <2>1
  <2> QED
    BY <1>1, <2>2
<1>4. CASE j = 2 /\ b = 2
  <2>1. m = <<1, 0>>
    BY <1>1, <1>4 DEF IsAnswer
  <2>2. m \in Seq(Byte) /\ Len(m) = 2 /\ j # b + 1
    BY <1>2, <1>4, <2>1
  <2> QED
    BY <1>1, <2>2
<1>5. CASE j = b + 1
  <2>1. IsReply(m)
    BY <1>1, <1>5 DEF IsAnswer
  <2>2. m \in Seq(Byte) /\ Len(m) \in Nat
    BY <2>1, ReplyShape, LenProperties
  <2>3. ~(j <= b)
    BY <1>5
  <2> QED
    BY <1>1, <2>1, <2>2, <2>3
<1>6. j = 1 \/ (j = 2 /\ b = 2) \/ j = b + 1
  BY <1>1
<1> QED
  BY <1>3, <1>4, <1>5, <1>6

\* What a server that writes finds, and what it leaves: a client that still
\* listens gets the answer behind all the earlier ones.
ServerSpeaks(z, m) ==
    /\ z \in Nat /\ z = Len(s_out) /\ z <= Before /\ z # Before + 1
    /\ m \in Seq(Byte) /\ Len(m) \in Nat /\ m = s_message
    /\ IsAnswer(z + 1, m)
    /\ (z + 1 <= Before => Len(m) = 2) /\ (z = Before => IsReply(m))
    /\ s_out' \in Seq(Seq(Byte)) /\ Len(s_out') = z + 1
    /\ s_out'[z + 1] = m /\ \A j \in 1..z : s_out'[j] = s_out[j]
    /\ Len(up) = z + 1 /\ s_pos = From(z + 2) /\ s_n = 0
    /\ link \in {"up", "closed"}
    /\ link = "closed" => down' = down /\ link' = "closed"
    /\ link = "up" =>
         /\ Len(down) = 2 * z /\ down' = down \o m
         /\ IF s_pc' = "ended" THEN link' \in {"shut", "reset"} ELSE link' = "up"

\* Every write of the server is of this kind.
LEMMA ServerWritesFrame ==
    ASSUME SessionInv, ServerStep, ServerWrites
    PROVE  \E z, m : ServerSpeaks(z, m)
<1>1. Types /\ DownInv /\ ServerInv /\ LinkInv
  BY DEF SessionInv
<1>2. /\ s_pc \in s_writing /\ s_link \in {"up", "shut"}
      /\ s_out' = Append(s_out, s_message)
  BY DEF ServerWrites
<1>3. s_pc \in s_busy
  BY <1>2 DEF s_busy
<1>4. PICK z \in Nat, b \in {1, 2} :
        /\ z = Len(s_out) /\ b = Before /\ z <= b /\ z # b + 1
  BY <1>3, ServerOwes
<1>5. /\ IsAnswer(z + 1, s_message) /\ Len(up) = z + 1
      /\ s_pos = From(z + 2) /\ s_n = 0
  BY <1>1, <1>2, <1>4 DEF ServerInv
<1>6. PICK m : m = s_message
  OBVIOUS
<1>7. /\ m \in Seq(Byte) /\ Len(m) \in Nat
      /\ z + 1 <= Before => Len(m) = 2
      /\ z = Before => IsReply(m)
  <2>1. z + 1 \in Nat /\ z + 1 >= 1 /\ z + 1 <= b + 1
    BY <1>4
  <2>2. z + 1 <= Before + 1 /\ (z = Before => z + 1 = Before + 1)
    BY <1>4, <2>1
  <2> QED
    BY <1>1, <1>5, <1>6, <2>1, <2>2, AnswerShape
<1>8. /\ s_out' \in Seq(Seq(Byte)) /\ Len(s_out') = z + 1
      /\ s_out'[z + 1] = m /\ \A j \in 1..z : s_out'[j] = s_out[j]
  <2>1. s_out \in Seq(Seq(Byte))
    BY <1>1 DEF Types
  <2> QED
    BY <1>2, <1>4, <1>6, <1>7, <2>1, AppendProperties
<1>9. link \in {"up", "closed"}
  <2>1. link # "shut" /\ link # "reset"
    BY <1>1, <1>2, <1>3, ServerOwes DEF LinkInv
  <2> QED
    BY <1>1, <2>1 DEF Types, StreamTypeOK
<1>10. down' = Arrives(down, link, m)
  <2>1. Last(s_out') = m /\ Len(s_out') > Len(s_out)
    BY <1>4, <1>8 DEF Last
  <2> QED
    BY <2>1 DEF ServerStep
<1>11. link' = IF s_pc' = "ended" /\ link = "up"
               THEN AfterClose(s_pos' < Len(s_down)) ELSE link
  BY DEF ServerStep
<1>12. link = "closed" => down' = down /\ link' = "closed"
  BY <1>10, <1>11 DEF Arrives
<1>13. link = "up" =>
         /\ Len(down) = 2 * z /\ down' = down \o m
         /\ IF s_pc' = "ended" THEN link' \in {"shut", "reset"} ELSE link' = "up"
  <2>1. link = "up" => Len(down) = 2 * z
    BY <1>1, <1>4 DEF DownInv
  <2> QED
    BY <1>10, <1>11, <2>1 DEF Arrives, AfterClose
<1>14. ServerSpeaks(z, m)
  BY <1>4, <1>5, <1>6, <1>7, <1>8, <1>9, <1>12, <1>13 DEF ServerSpeaks
<1> QED
  BY <1>14

\* What has been said remains true behind a further answer.
LEMMA ServerSpeaksDown ==
    ASSUME SessionInv, NEW z, NEW m, ServerSpeaks(z, m),
           opt' = opt, target' = target, app' = app
    PROVE  DownInv' /\ down' \in Seq(Byte) /\ Len(down') >= Len(down)
           /\ \A i \in 1..Len(down) : down'[i] = down[i]
<1>1. Types /\ DownInv
  BY DEF SessionInv
<1>2. /\ z \in Nat /\ z = Len(s_out) /\ z <= Before /\ z # Before + 1
      /\ m \in Seq(Byte) /\ Len(m) \in Nat /\ IsAnswer(z + 1, m)
      /\ z + 1 <= Before => Len(m) = 2
      /\ s_out' \in Seq(Seq(Byte)) /\ Len(s_out') = z + 1
      /\ s_out'[z + 1] = m /\ \A j \in 1..z : s_out'[j] = s_out[j]
      /\ link \in {"up", "closed"}
      /\ link = "closed" => down' = down /\ link' = "closed"
      /\ link = "up" => Len(down) = 2 * z /\ down' = down \o m
  BY DEF ServerSpeaks
<1>3. /\ Before' = Before
      /\ \A j, x : IsAnswer(j, x)' <=> IsAnswer(j, x)
  BY SameDialogue
<1>4. PICK b \in {1, 2} : b = Before
  BY <1>1, Arguments
<1>5. Len(s_out') <= Before + 1
  BY <1>2, <1>4
<1>6. \A j \in 1..(z + 1) : IsAnswer(j, s_out'[j])
  <2>1. \A j \in 1..z : IsAnswer(j, s_out'[j])
    BY <1>1, <1>2 DEF DownInv
  <2>2. \A j \in 1..(z + 1) : j = z + 1 \/ j \in 1..z
    BY <1>2
  <2> QED
    BY <1>2, <2>1, <2>2, Zenon
<1>7. app = 0
  BY <1>1, <1>2 DEF DownInv, Types
<1>8. down \in Seq(Byte) /\ Len(down) \in Nat
  BY <1>1, LenProperties DEF Types, StreamTypeOK
<1>9. CASE link = "closed"
  BY <1>2, <1>3, <1>5, <1>6, <1>7, <1>8, <1>9 DEF DownInv
<1>10. CASE link = "up"
  <2>1. Len(down) = 2 * z /\ down' = down \o m
    BY <1>2, <1>10
  <2>2. /\ down' \in Seq(Byte) /\ Len(down') = 2 * z + Len(m)
        /\ Holds(down', 2 * z, m)
        /\ \A at \in Nat, x \in Seq(Byte) :
              Holds(down, at, x) => Holds(down', at, x)
    <3>1. m \in Seq(Byte) /\ down \in Seq(Byte)
      BY <1>2, <1>8
    <3>2. PICK e : e = down \o m
      OBVIOUS
    <3>3. /\ e \in Seq(Byte) /\ Len(e) = Len(down) + Len(m)
          /\ Holds(e, Len(down), m)
          /\ \A at \in Nat, x \in Seq(Byte) : Holds(down, at, x) => Holds(e, at, x)
      BY <3>1, <3>2, Appended, Zenon
    <3> QED
      BY <2>1, <3>2, <3>3, Zenon
  <2>3. \A i \in 1..Len(down) : down'[i] = down[i]
    BY <1>2, <1>8, <2>1, TwoParts
  <2>4. ASSUME NEW j \in 1..(z + 1) PROVE Holds(down', 2 * j - 2, s_out'[j])
    <3>1. CASE j = z + 1
      <4>1. 2 * j - 2 = 2 * z
        BY <1>2, <3>1
      <4> QED
        BY <1>2, <2>2, <3>1, <4>1
    <3>2. CASE j \in 1..z
      <4>1. Holds(down, 2 * j - 2, s_out[j]) /\ s_out[j] \in Seq(Byte)
        BY <1>1, <1>2, <1>10, <3>2 DEF DownInv, Types
      <4>2. 2 * j - 2 \in Nat
        BY <3>2
      <4> QED
        BY <1>2, <2>2, <3>2, <4>1, <4>2
    <3>3. j = z + 1 \/ j \in 1..z
      BY <1>2
    <3> QED
      BY <3>1, <3>2, <3>3, Zenon
  <2>5. z + 1 <= Before => Len(down') = 2 * (z + 1)
    <3>1. z + 1 <= Before => Len(down') = 2 * z + 2
      BY <1>2, <2>2, Zenon
    <3>2. 2 * z + 2 = 2 * (z + 1)
      BY <1>2
    <3> QED
      BY <3>1, <3>2, Zenon
  <2>6. z + 1 = Before + 1 => Len(down') = 2 * Before + Len(m)
    <3>1. z + 1 = b + 1 => z = b
      BY <1>2
    <3> QED
      BY <1>4, <2>2, <3>1, Zenon
  <2>7. z + 1 = Before + 1 => s_out'[Before + 1] = m
    BY <1>2
  <2>8. DownInv'
    BY <1>2, <1>3, <1>5, <1>6, <1>7, <2>4, <2>5, <2>6, <2>7 DEF DownInv
  <2>9. Len(down') >= Len(down)
    BY <1>2, <2>1, <2>2
  <2> QED
    BY <2>2, <2>3, <2>8, <2>9
<1> QED
  BY <1>2, <1>9, <1>10

\* An answer is written, and the server waits for the next message, relays
\* or ends.
LEMMA ServerWritesStep ==
    ASSUME SessionInv, ServerStep, ServerWrites
    PROVE  SessionInv'
<1>1. /\ Types /\ UpInv /\ TurnInv /\ ClientInv /\ ServerInv /\ TargetInv
      /\ LinkInv /\ DoneInv
  BY DEF SessionInv
<1>2. PICK z, m : ServerSpeaks(z, m)
  BY ServerWritesFrame
<1>3. /\ mode' = mode /\ opt' = opt /\ target' = target /\ pc' = pc
      /\ up' = up /\ ec' = ec /\ app' = app /\ pos' = pos /\ n' = n
      /\ stream_ec' = stream_ec /\ s_down' = s_down /\ s_link' = s_link
  BY ServerStepFrame
<1>4. /\ s_pc \in s_writing /\ s_pos' = s_pos /\ s_n' = s_n
      /\ s_target' = s_target /\ s_tsock' = s_tsock
      /\ s_pc = "write_choice" =>
           s_pc' = IF opt.is_userpass THEN "read_userpass" ELSE "read_request"
      /\ s_pc = "write_status" => s_pc' = "read_request"
      /\ s_pc = "write_reply" =>
           s_pc' = IF s_message[2] = 0 THEN "relay" ELSE "ended"
  BY DEF ServerWrites, s_writing
<1>5. s_pc \in s_busy /\ s_pc # "ended"
  BY <1>4 DEF s_busy, s_writing
<1>6. /\ z \in Nat /\ z = Len(s_out) /\ z <= Before /\ z # Before + 1
      /\ m = s_message
      /\ s_out' \in Seq(Seq(Byte)) /\ Len(s_out') = z + 1 /\ s_out'[z + 1] = m
      /\ Len(up) = z + 1 /\ s_pos = From(z + 2) /\ s_n = 0
      /\ link \in {"up", "closed"}
      /\ link = "closed" => link' = "closed"
      /\ link = "up" =>
           IF s_pc' = "ended" THEN link' \in {"shut", "reset"} ELSE link' = "up"
  BY <1>2 DEF ServerSpeaks
<1>7. /\ DownInv' /\ down' \in Seq(Byte) /\ Len(down') >= Len(down)
      /\ \A i \in 1..Len(down) : down'[i] = down[i]
  BY <1>2, <1>3, ServerSpeaksDown
<1>8. /\ Before' = Before /\ \A j : From(j)' = From(j)
      /\ \A j, x : IsAnswer(j, x)' <=> IsAnswer(j, x)
  BY <1>3, SameDialogue
<1>9. PICK b \in {1, 2} : b = Before /\ (b = 2 <=> opt.is_userpass)
  BY <1>1, Arguments DEF Before
<1>10. Types'
  <2>1. pos' \in 0..Len(down') /\ n' \in 0..pos'
    BY <1>1, <1>3, <1>7 DEF Types, StreamTypeOK
  <2>2. StreamTypeOK'
    BY <1>1, <1>3, <1>6, <1>7, <2>1 DEF Types, StreamTypeOK
  <2>3. s_pc' \in s_reading \cup s_writing
                \cup {"resolve", "connect", "relay", "ended"}
    BY <1>4 DEF s_reading, s_writing
  <2> QED
    BY <1>1, <1>3, <1>4, <1>6, <2>2, <2>3 DEF Types
<1>11. UpInv'
  BY <1>1, <1>3, SameDialogue DEF UpInv
<1>12. TurnInv'
  BY <1>3, <1>6 DEF TurnInv
<1>13. ClientInv'
  <2>1. pc = "read_reply" /\ n = 10 => down'[2 * Before + 4] = down[2 * Before + 4]
    <3>1. SUFFICES ASSUME pc = "read_reply", n = 10
                   PROVE  down'[2 * b + 4] = down[2 * b + 4]
      BY <1>9
    <3>2. pos = 2 * b + n
      BY <1>1, <1>9, <3>1 DEF ClientInv
    <3>3. 2 * b + 4 \in 1..Len(down)
      BY <1>1, <3>1, <3>2, ClientNumbers
    <3> QED
      BY <1>7, <3>3
  <2> QED
    BY <1>1, <1>3, <1>8, <2>1 DEF ClientInv
<1>14. /\ s_pc = "write_choice" => z = 0
       /\ s_pc = "write_status" => z = 1 /\ b = 2
       /\ s_pc = "write_reply" => z = b
  BY <1>1, <1>6, <1>9 DEF ServerInv
<1>15. /\ s_pc' = "read_userpass" => b = 2 /\ z = 0
       /\ s_pc' = "read_request" => z + 1 = b
       /\ s_pc' \in {"relay", "ended"} <=> z + 1 = b + 1
       /\ s_pc' \in {"relay", "ended"} => s_pc = "write_reply"
       /\ s_pc' \in {"read_userpass", "read_request", "relay", "ended"}
  BY <1>4, <1>9, <1>14 DEF s_writing
<1>16. ServerInv'
  <2>1. PICK f \in Nat : f = From(z + 2)
    <3>1. z + 2 \in Nat
      BY <1>6
    <3> QED
      BY <1>1, <3>1, FromFacts
  <2>2. From(z + 2) + 0 = From(z + 2) /\ z + 1 + 1 = z + 2
    BY <1>6, <2>1
  <2>3. s_pos' = From(Len(s_out') + 1) + s_n'
    BY <1>4, <1>6, <2>2
  <2>4. Len(s_out') = Before + 1 => s_pos' = From(Before + 2)
    <3>1. z + 1 = b + 1 => z = b
      BY <1>6
    <3> QED
      BY <1>4, <1>6, <1>9, <3>1
  <2>5. /\ s_pc' = "read_userpass" => Before = 2 /\ Len(s_out') = 1
        /\ s_pc' = "read_request" => Len(s_out') = Before
        /\ s_pc' = "relay" => Len(s_out') = Before + 1
    BY <1>6, <1>9, <1>15
  <2> QED
    BY <1>8, <1>15, <2>3, <2>4, <2>5 DEF ServerInv, s_reading, s_writing
<1>17. TargetInv'
  <2>1. s_pc' \in s_reading => s_tsock = "closed"
    <3>1. s_pc' \in s_reading => s_pc \in {"write_choice", "write_status"}
      BY <1>4 DEF s_reading, s_writing
    <3> QED
      BY <1>1, <3>1 DEF TargetInv
  <2>2. Len(s_out') = Before + 1 /\ s_out'[Before + 1][2] = 0 =>
          s_tsock = "connected"
    <3>1. SUFFICES ASSUME z + 1 = b + 1, m[2] = 0 PROVE s_tsock = "connected"
      BY <1>6, <1>9
    <3>2. s_pc = "write_reply"
      BY <1>15, <3>1
    <3> QED
      BY <1>1, <1>6, <3>1, <3>2 DEF TargetInv
  <2> QED
    BY <1>1, <1>3, <1>4, <1>8, <1>15, <2>1, <2>2 DEF TargetInv, s_reading
<1>18. LinkInv'
  BY <1>1, <1>3, <1>6 DEF LinkInv
<1>19. DoneInv'
  <2>1. ~(pc = "done" /\ ~failed(ec))
    BY <1>1, <1>6 DEF DoneInv
  <2>2. ~(/\ pc = "done" /\ Len(up) = Before + 1 /\ app = 0
          /\ link \in {"up", "shut"})
    BY <1>1, <1>5, <1>6 DEF DoneInv
  <2>3. link' \in {"up", "shut"} => link \in {"up", "shut"}
    BY <1>6
  <2> QED
    BY <1>3, <1>8, <2>1, <2>2, <2>3 DEF DoneInv
<1> QED
  BY <1>7, <1>10, <1>11, <1>12, <1>13, <1>16, <1>17, <1>18, <1>19 DEF SessionInv

\* Every handler of the server keeps the invariant.
LEMMA ServerStepKeeps ==
    ASSUME SessionInv, ServerStep
    PROVE  SessionInv'
<1>1. ServerMove
  BY ServerStepFrame
<1> QED
  BY <1>1, ServerReadsOnStep, ServerEndsStep, ServerChoosesStep,
     ServerApprovesStep, ServerTakesRequestStep, ServerResolvesStep,
     ServerRepliesStep, ServerWritesStep, Zenon DEF ServerMove

(***************************************************************************)
(* The other steps.                                                        *)
(***************************************************************************)
\* The application gives up: its socket is closed, and the server finds the
\* end of the stream or a reset.
LEMMA ClientGivesUpKeeps ==
    ASSUME SessionInv, ClientGivesUp
    PROVE  SessionInv'
<1>1. /\ Types /\ UpInv /\ DownInv /\ TurnInv /\ ClientInv /\ ServerInv
      /\ TargetInv
  BY DEF SessionInv
<1>2. /\ pc # "done" /\ link' = "closed"
      /\ UNCHANGED <<mode, opt, target, pc, up, ec, app, down, pos, n, stream_ec>>
  BY DEF ClientGivesUp, C!ApplicationCloses, C!LinkBecomes, C!op_vars, C!args
<1>3. /\ UNCHANGED <<s_down, s_pos, s_n, s_pc, s_choice, s_target, s_tsock,
                     s_message, s_out>>
      /\ s_link' \in {"up", "shut", "reset", "closed"}
  BY <1>1 DEF ClientGivesUp, s_own, AfterClose, Types
<1>4. Types'
  <2>1. StreamTypeOK'
    BY <1>1, <1>2 DEF Types, StreamTypeOK
  <2> QED
    BY <1>1, <1>2, <1>3, <2>1 DEF Types
<1>5. UpInv'
  BY <1>1, <1>2, <1>3, SameDialogue DEF UpInv
<1>6. DownInv'
  BY <1>1, <1>2, <1>3, SameDialogue DEF DownInv
<1>7. TurnInv' /\ ClientInv'
  BY <1>1, <1>2, <1>3, SameDialogue DEF TurnInv, ClientInv
<1>8. ServerInv'
  BY <1>1, <1>2, <1>3, SameDialogue DEF ServerInv
<1>9. TargetInv'
  BY <1>1, <1>2, <1>3, SameDialogue DEF TargetInv
<1>10. LinkInv' /\ DoneInv'
  BY <1>2 DEF LinkInv, DoneInv
<1> QED
  BY <1>4, <1>5, <1>6, <1>7, <1>8, <1>9, <1>10 DEF SessionInv

\* The application closes the socket of an operation that failed.
LEMMA ClientClosesKeeps ==
    ASSUME SessionInv, ClientCloses
    PROVE  SessionInv'
<1>1. /\ Types /\ UpInv /\ DownInv /\ TurnInv /\ ClientInv /\ ServerInv
      /\ TargetInv /\ LinkInv /\ DoneInv
  BY DEF SessionInv
<1>2. /\ pc = "done" /\ s_link = "up" /\ s_link' \in {"shut", "reset"}
      /\ UNCHANGED <<mode, opt, target, pc, up, ec, app, down, pos, n, link,
                     stream_ec>>
      /\ UNCHANGED <<s_down, s_pos, s_n, s_pc, s_choice, s_target, s_tsock,
                     s_message, s_out>>
  BY DEF ClientCloses, c_vars, s_own, AfterClose
<1>3. Types'
  <2>1. StreamTypeOK'
    BY <1>1, <1>2 DEF Types, StreamTypeOK
  <2> QED
    BY <1>1, <1>2, <2>1 DEF Types
<1>4. UpInv'
  BY <1>1, <1>2, SameDialogue DEF UpInv
<1>5. DownInv'
  BY <1>1, <1>2, SameDialogue DEF DownInv
<1>6. TurnInv' /\ ClientInv'
  BY <1>1, <1>2, SameDialogue DEF TurnInv, ClientInv
<1>7. ServerInv'
  BY <1>1, <1>2, SameDialogue DEF ServerInv
<1>8. TargetInv'
  BY <1>1, <1>2, SameDialogue DEF TargetInv
<1>9. LinkInv'
  BY <1>1, <1>2 DEF LinkInv
<1>10. DoneInv'
  BY <1>1, <1>2, SameDialogue DEF DoneInv
<1> QED
  BY <1>3, <1>4, <1>5, <1>6, <1>7, <1>8, <1>9, <1>10 DEF SessionInv

\* The target speaks: its bytes are behind the handshake.
LEMMA TargetSpeaksKeeps ==
    ASSUME SessionInv, TargetSpeaks
    PROVE  SessionInv'
<1>1. /\ Types /\ UpInv /\ DownInv /\ TurnInv /\ ClientInv /\ ServerInv
      /\ TargetInv /\ LinkInv /\ DoneInv
  BY DEF SessionInv
<1>2. /\ s_pc = "relay" /\ link = "up" /\ app' = app + 1
      /\ UNCHANGED <<mode, opt, target, pc, up, ec, pos, n, link, stream_ec>>
      /\ UNCHANGED <<s_down, s_pos, s_n, s_pc, s_choice, s_target, s_tsock,
                     s_message, s_out, s_link>>
  BY DEF TargetSpeaks, s_own
<1>3. PICK d \in Seq(Byte) : down' = down \o d
  BY SessionAssumption DEF TargetSpeaks
<1>4. app \in Nat /\ app' \in Nat /\ app' > 0 /\ app' # 0
  <2>1. app \in Nat
    BY <1>1 DEF Types
  <2> QED
    BY <1>2, <2>1
<1>5. down \in Seq(Byte) /\ Len(down) \in Nat /\ Len(d) \in Nat
  BY <1>1, LenProperties DEF Types, StreamTypeOK
<1>6. /\ down' \in Seq(Byte) /\ Len(down') = Len(down) + Len(d)
      /\ \A at \in Nat, x \in Seq(Byte) :
            Holds(down, at, x) => Holds(down', at, x)
  BY <1>3, <1>5, Appended
<1>7. \A i \in 1..Len(down) : down'[i] = down[i]
  BY <1>3, <1>5, TwoParts
<1>8. PICK b \in {1, 2} : b = Before
  BY <1>1, Arguments
<1>9. Len(s_out) = b + 1
  BY <1>1, <1>2, <1>8 DEF ServerInv
<1>10. Types'
  <2>1. pos' \in 0..Len(down') /\ n' \in 0..pos'
    BY <1>1, <1>2, <1>5, <1>6 DEF Types, StreamTypeOK
  <2>2. StreamTypeOK'
    BY <1>1, <1>2, <1>6, <2>1 DEF Types, StreamTypeOK
  <2> QED
    BY <1>1, <1>2, <1>4, <2>2 DEF Types
<1>11. UpInv'
  BY <1>1, <1>2, SameDialogue DEF UpInv
<1>12. DownInv'
  <2>1. ASSUME NEW j \in 1..Len(s_out) PROVE Holds(down', 2 * j - 2, s_out[j])
    <3>1. j \in 1..(b + 1) /\ 2 * j - 2 \in Nat
      BY <1>9
    <3>2. Holds(down, 2 * j - 2, s_out[j]) /\ s_out[j] \in Seq(Byte)
      BY <1>1, <1>2 DEF DownInv, Types
    <3> QED
      BY <1>6, <3>1, <3>2, Zenon
  <2>2. ~(Len(s_out) <= Before) /\ Len(s_out) = Before + 1
    BY <1>8, <1>9
  <2>3. \A j \in 1..Len(s_out) : IsAnswer(j, s_out[j])
    BY <1>1 DEF DownInv
  <2>4. Len(s_out) <= Before + 1
    BY <1>1 DEF DownInv
  <2> QED
    BY <1>2, <1>4, <2>1, <2>2, <2>3, <2>4, SameDialogue DEF DownInv
<1>13. TurnInv'
  BY <1>1, <1>2 DEF TurnInv
<1>14. ClientInv'
  <2>1. pc = "read_reply" /\ n = 10 => down'[2 * Before + 4] = down[2 * Before + 4]
    <3>1. SUFFICES ASSUME pc = "read_reply", n = 10
                   PROVE  down'[2 * b + 4] = down[2 * b + 4]
      BY <1>8
    <3>2. pos = 2 * b + n
      BY <1>1, <1>8, <3>1 DEF ClientInv
    <3>3. 2 * b + 4 \in 1..Len(down)
      BY <1>1, <3>1, <3>2, ClientNumbers
    <3> QED
      BY <1>7, <3>3
  <2> QED
    BY <1>1, <1>2, <2>1, SameDialogue DEF ClientInv
<1>15. ServerInv'
  BY <1>1, <1>2, SameDialogue DEF ServerInv
<1>16. TargetInv'
  BY <1>1, <1>2, SameDialogue DEF TargetInv
<1>17. LinkInv'
  BY <1>1, <1>2 DEF LinkInv
<1>18. DoneInv'
  BY <1>1, <1>2, <1>4, SameDialogue DEF DoneInv
<1> QED
  BY <1>10, <1>11, <1>12, <1>13, <1>14, <1>15, <1>16, <1>17, <1>18
     DEF SessionInv

\* The network resets the connection.
LEMMA NetworkResetsKeeps ==
    ASSUME SessionInv, NetworkResets
    PROVE  SessionInv'
<1>1. /\ Types /\ UpInv /\ DownInv /\ TurnInv /\ ClientInv /\ ServerInv
      /\ TargetInv /\ DoneInv
  BY DEF SessionInv
<1>2. /\ link = "up" /\ link' = "reset" /\ s_link' = "reset"
      /\ UNCHANGED <<mode, opt, target, pc, up, ec, app, down, pos, n, stream_ec>>
      /\ UNCHANGED <<s_down, s_pos, s_n, s_pc, s_choice, s_target, s_tsock,
                     s_message, s_out>>
  BY DEF NetworkResets, s_own
<1>3. Types'
  <2>1. StreamTypeOK'
    BY <1>1, <1>2 DEF Types, StreamTypeOK
  <2> QED
    BY <1>1, <1>2, <2>1 DEF Types
<1>4. UpInv'
  BY <1>1, <1>2, SameDialogue DEF UpInv
<1>5. DownInv'
  BY <1>1, <1>2, SameDialogue DEF DownInv
<1>6. TurnInv' /\ ClientInv'
  BY <1>1, <1>2, SameDialogue DEF TurnInv, ClientInv
<1>7. ServerInv'
  BY <1>1, <1>2, SameDialogue DEF ServerInv
<1>8. TargetInv'
  BY <1>1, <1>2, SameDialogue DEF TargetInv
<1>9. LinkInv'
  BY <1>2 DEF LinkInv
<1>10. DoneInv'
  BY <1>1, <1>2, SameDialogue DEF DoneInv
<1> QED
  BY <1>3, <1>4, <1>5, <1>6, <1>7, <1>8, <1>9, <1>10 DEF SessionInv

\* Every step keeps the invariant.
LEMMA NextSession == SessionInv /\ [Next]_vars => SessionInv'
<1> SUFFICES ASSUME SessionInv, [Next]_vars PROVE SessionInv'
  OBVIOUS
<1>1. CASE UNCHANGED vars
  <2>1. /\ Types /\ UpInv /\ DownInv /\ TurnInv /\ ClientInv /\ ServerInv
        /\ TargetInv /\ LinkInv /\ DoneInv
    BY DEF SessionInv
  <2>2. /\ UNCHANGED <<mode, opt, target, pc, up, ec, app, down, pos, n, link,
                       stream_ec>>
        /\ UNCHANGED <<s_down, s_pos, s_n, s_pc, s_choice, s_target, s_tsock,
                       s_message, s_out, s_link>>
    BY <1>1 DEF vars, c_vars, s_own
  <2>3. Types'
    <3>1. StreamTypeOK'
      BY <2>1, <2>2 DEF Types, StreamTypeOK
    <3> QED
      BY <2>1, <2>2, <3>1 DEF Types
  <2>4. UpInv'
    BY <2>1, <2>2, SameDialogue DEF UpInv
  <2>5. DownInv'
    BY <2>1, <2>2, SameDialogue DEF DownInv
  <2>6. TurnInv' /\ ClientInv'
    BY <2>1, <2>2, SameDialogue DEF TurnInv, ClientInv
  <2>7. ServerInv'
    BY <2>1, <2>2, SameDialogue DEF ServerInv
  <2>8. TargetInv'
    BY <2>1, <2>2, SameDialogue DEF TargetInv
  <2>9. LinkInv' /\ DoneInv'
    BY <2>1, <2>2, SameDialogue DEF LinkInv, DoneInv
  <2> QED
    BY <2>3, <2>4, <2>5, <2>6, <2>7, <2>8, <2>9 DEF SessionInv
<1> QED
  BY <1>1, ClientStepKeeps, ClientGivesUpKeeps, ClientClosesKeeps,
     ServerStepKeeps, TargetSpeaksKeeps, NetworkResetsKeeps, Zenon DEF Next

(***************************************************************************)
(* The theorems.                                                           *)
(***************************************************************************)
\* Client and server proceed in step: whatever the sizes of the segments,
\* whatever the credentials and the target, and whoever closes or loses the
\* connection when, each is where the other takes it to be.
THEOREM SessionInStep == Spec => []SessionInv
<1>1. Init => SessionInv
  BY InitSession
<1>2. SessionInv /\ [Next]_vars => SessionInv'
  BY NextSession
<1> QED
  BY <1>1, <1>2, PTL DEF Spec

\* Where the dialogue of the client ends.
LEMMA UpTotal ==
    ASSUME SessionInv, Len(up) = Before + 1
    PROVE  Total([i \in DOMAIN up |-> up[i].bytes]) = From(Before + 2)
<1>1. Types /\ UpInv
  BY DEF SessionInv
<1>2. PICK b \in {1, 2} : b = Before
  BY <1>1, Arguments
<1>3. PICK g : g = [i \in DOMAIN up |-> up[i].bytes]
  OBVIOUS
<1>4. DOMAIN up = 1..(b + 1)
  BY <1>1, <1>2, LenProperties DEF Types
<1>5. DOMAIN g = 1..(b + 1) /\ \A j \in 1..(b + 1) : g[j] = Say(j)
  BY <1>1, <1>2, <1>3, <1>4 DEF UpInv
<1>6. PICK x \in Nat, y \in Nat, w \in Nat :
        x = Len(Say(1)) /\ y = Len(Say(2)) /\ w = Len(Say(3))
  BY <1>1, SayShape
<1>7. CASE b = 1
  <2>1. 1 \in DOMAIN g /\ 2 \in DOMAIN g /\ 3 \notin DOMAIN g
    BY <1>5, <1>7
  <2>2. Len(g[1]) = x /\ Len(g[2]) = y
    BY <1>5, <1>6, <2>1
  <2>3. Total(g) = x + y + 0
    BY <2>1, <2>2, Zenon DEF Total
  <2>4. From(3) = x + y + 0
    BY <1>6 DEF From
  <2>5. b + 2 = 3
    BY <1>7
  <2> QED
    BY <1>2, <1>3, <2>3, <2>4, <2>5, Zenon
<1>8. CASE b = 2
  <2>1. 1 \in DOMAIN g /\ 2 \in DOMAIN g /\ 3 \in DOMAIN g
    BY <1>5, <1>8
  <2>2. Len(g[1]) = x /\ Len(g[2]) = y /\ Len(g[3]) = w
    BY <1>5, <1>6, <2>1
  <2>3. Total(g) = x + y + w
    BY <2>1, <2>2, Zenon DEF Total
  <2>4. From(4) = x + y + w
    BY <1>6 DEF From
  <2>5. b + 2 = 4
    BY <1>8
  <2> QED
    BY <1>2, <1>3, <2>3, <2>4, <2>5, Zenon
<1> QED
  BY <1>7, <1>8

\* And where that of the server ends.
LEMMA DownTotal ==
    ASSUME SessionInv, Len(s_out) = Before + 1
    PROVE  Total(s_out) = 2 * Before + Len(s_out[Before + 1])
<1>1. Types /\ DownInv
  BY DEF SessionInv
<1>2. PICK b \in {1, 2} : b = Before
  BY <1>1, Arguments
<1>3. DOMAIN s_out = 1..(b + 1) /\ Len(s_out) = b + 1
  BY <1>1, <1>2, LenProperties DEF Types
<1>4. ASSUME NEW j \in 1..(b + 1)
      PROVE  Len(s_out[j]) \in Nat /\ (j <= b => Len(s_out[j]) = 2)
  <2>1. IsAnswer(j, s_out[j])
    BY <1>1, <1>3 DEF DownInv
  <2>2. j \in Nat /\ j >= 1 /\ j <= b + 1
    OBVIOUS
  <2> QED
    BY <1>1, <1>2, <2>1, <2>2, AnswerShape
<1>5. CASE b = 1
  <2>1. 1 \in DOMAIN s_out /\ 2 \in DOMAIN s_out /\ 3 \notin DOMAIN s_out
    BY <1>3, <1>5
  <2>2. Len(s_out[1]) = 2 /\ Len(s_out[2]) \in Nat
    BY <1>4, <1>5
  <2>3. Total(s_out) = 2 + Len(s_out[2]) + 0
    BY <2>1, <2>2, Zenon DEF Total
  <2>4. 2 * b = 2 /\ b + 1 = 2
    BY <1>5
  <2>5. Total(s_out) = 2 * b + Len(s_out[b + 1])
    <3>1. PICK x \in Nat : x = Len(s_out[2])
      BY <2>2
    <3>2. 2 + x + 0 = 2 + x
      OBVIOUS
    <3> QED
      BY <2>3, <2>4, <3>1, <3>2, Zenon
  <2> QED
    BY <1>2, <2>5, Zenon
<1>6. CASE b = 2
  <2>1. 1 \in DOMAIN s_out /\ 2 \in DOMAIN s_out /\ 3 \in DOMAIN s_out
    BY <1>3, <1>6
  <2>2. Len(s_out[1]) = 2 /\ Len(s_out[2]) = 2 /\ Len(s_out[3]) \in Nat
    BY <1>4, <1>6
  <2>3. Total(s_out) = 2 + 2 + Len(s_out[3])
    BY <2>1, <2>2, Zenon DEF Total
  <2>4. 2 * b = 2 + 2 /\ b + 1 = 3
    BY <1>6
  <2>5. Total(s_out) = 2 * b + Len(s_out[b + 1])
    BY <2>3, <2>4, Zenon
  <2> QED
    BY <1>2, <2>5, Zenon
<1> QED
  BY <1>5, <1>6

\* When the relay begins, what either side says next reaches the other
\* whole: read_request of the server has left no byte of the handshake
\* unread, and read_connect_reply of the library has read none behind it.
THEOREM RelayStartsAligned == Spec => []RelayAligned
<1>1. ASSUME SessionInv PROVE RelayAligned
  <2>1. Types /\ UpInv /\ DownInv /\ TurnInv /\ ServerInv /\ DoneInv
    BY <1>1 DEF SessionInv
  <2>2. PICK b \in {1, 2}, u \in Nat, z \in Nat :
          b = Before /\ u = Len(up) /\ z = Len(s_out)
    BY <2>1, ClientNumbers
  <2>3. u <= b + 1 /\ z <= b + 1 /\ z <= u
    BY <2>1, <2>2 DEF UpInv, DownInv, TurnInv
  <2>4. u <= 3 /\ z <= 3
    BY <2>3
  <2>5. s_pc = "relay" => s_pos = Total([i \in DOMAIN up |-> up[i].bytes])
    <3>1. SUFFICES ASSUME s_pc = "relay"
                   PROVE  s_pos = Total([i \in DOMAIN up |-> up[i].bytes])
      OBVIOUS
    <3>2. Len(s_out) = Before + 1 /\ s_pos = From(Before + 2)
      BY <2>1, <3>1 DEF ServerInv
    <3>3. z = b + 1
      BY <2>2, <3>2, Zenon
    <3>4. u = b + 1
      BY <2>3, <3>3
    <3> QED
      BY <1>1, <2>2, <3>2, <3>4, UpTotal, Zenon
  <2>6. pc = "done" /\ ~failed(ec) => pos = Total(s_out)
    BY <1>1, <2>1, DownTotal DEF DoneInv
  <2> QED
    BY <2>2, <2>4, <2>5, <2>6 DEF RelayAligned
<1> QED
  BY <1>1, SessionInStep, PTL

\* The application is told the server's verdict, also when the server
\* closes its sockets right behind a refusal.
THEOREM VerdictReachesApplication == Spec => []VerdictDelivered
<1>1. ASSUME SessionInv PROVE VerdictDelivered
  <2>1. Types /\ UpInv /\ DownInv /\ TurnInv /\ DoneInv
    BY <1>1 DEF SessionInv
  <2>2. SUFFICES ASSUME pc = "done", Replied, app = 0, link \in {"up", "shut"}
                 PROVE  ec = socks(Verdict)
    BY DEF VerdictDelivered
  <2>3. PICK b \in {1, 2}, u \in Nat, z \in Nat :
          b = Before /\ u = Len(up) /\ z = Len(s_out)
    BY <2>1, ClientNumbers
  <2>4. z >= 1 /\ Last(s_out) = s_out[z] /\ Len(s_out[z]) > 2
    BY <2>1, <2>2, <2>3 DEF Types, Replied, Last
  <2>5. u <= b + 1 /\ z <= b + 1 /\ z <= u
    BY <2>1, <2>3 DEF UpInv, DownInv, TurnInv
  <2>6. IsAnswer(z, s_out[z])
    BY <2>1, <2>3, <2>4 DEF DownInv
  <2>7. z <= b => Len(s_out[z]) = 2
    <3>1. z <= Before + 1
      BY <2>3, <2>5
    <3> QED
      BY <2>1, <2>3, <2>4, <2>6, <3>1, AnswerShape
  <2>8. z = b + 1
    <3>1. ~(2 > 2)
      OBVIOUS
    <3>2. ~(z <= b)
      BY <2>4, <2>7, <3>1, Zenon
    <3> QED
      BY <2>5, <3>2
  <2>9. u = b + 1
    BY <2>5, <2>8
  <2>10. ec = socks(s_out[b + 1][2])
    BY <2>1, <2>2, <2>3, <2>8, <2>9 DEF DoneInv
  <2> QED
    BY <2>4, <2>8, <2>10 DEF Verdict
<1> QED
  BY <1>1, SessionInStep, PTL

(***************************************************************************)
(* Session implements Tunnel.                                              *)
(***************************************************************************)
\* The refinement mapping.
Joining == IF s_tsock = "connected" THEN s_target ELSE NoTarget
Told == CASE pc # "done" -> "waiting"
          [] pc = "done" /\ failed(ec) -> "failure"
          [] OTHER -> "success"

\* What was told depends on the outcome only.
LEMMA ToldFacts ==
    /\ pc # "done" => Told = "waiting"
    /\ pc = "done" /\ failed(ec) => Told = "failure"
    /\ pc = "done" /\ ~failed(ec) => Told = "success"
    /\ pc' # "done" => Told' = "waiting"
    /\ pc' = "done" /\ failed(ec') => Told' = "failure"
    /\ pc' = "done" /\ ~failed(ec') => Told' = "success"
BY DEF Told

\* A step of the client tells the application, or nothing.
LEMMA ClientTells ==
    ASSUME SessionInv, SessionInv', ClientStep
    PROVE  \/ Joined!TellSuccess \/ Joined!TellFailure
           \/ UNCHANGED Joined!vars
<1>1. Types /\ DoneInv' /\ TargetInv' /\ TargetInv
  BY DEF SessionInv
<1>2. ClientMove /\ ClientFrame
  BY <1>1, ClientStepFrame
<1>3. /\ opt' = opt /\ target' = target /\ s_tsock' = s_tsock
      /\ s_target' = s_target /\ Joining' = Joining /\ s_out' = s_out
  BY <1>2 DEF ClientFrame, ClientKeeps, Joining
<1>4. pc # "done"
  BY <1>2 DEF ClientMove, ClientWrites, ClientReadsOn, ClientReadsEnd,
              ClientReadsReply, c_reading
<1>5. CASE pc' # "done"
  <2>1. Told' = Told
    BY <1>4, <1>5, ToldFacts
  <2> QED
    BY <1>3, <2>1 DEF Joined!vars, Joining, Told
<1>6. CASE pc' = "done" /\ failed(ec')
  <2>1. Told = "waiting" /\ Told' = "failure"
    BY <1>4, <1>6, ToldFacts
  <2> QED
    BY <1>3, <2>1, Zenon DEF Joined!TellFailure, Joining, Told
<1>7. CASE pc' = "done" /\ ~failed(ec')
  <2>1. Told = "waiting" /\ Told' = "success"
    BY <1>4, <1>7, ToldFacts
  <2>2. s_tsock' = "connected" /\ s_target' = target'
    BY <1>1, <1>7 DEF DoneInv, TargetInv
  <2>3. Joining = target
    BY <1>3, <2>2 DEF Joining
  <2> QED
    BY <1>3, <2>1, <2>3, Zenon DEF Joined!TellSuccess, Joining, Told
<1> QED
  BY <1>5, <1>6, <1>7

\* A handler of the server joins the target, or nothing.
LEMMA ServerJoins ==
    ASSUME SessionInv, SessionInv', ServerStep
    PROVE  Joined!Join \/ UNCHANGED Joined!vars
<1>1. TargetInv /\ TargetInv'
  BY DEF SessionInv
<1>2. /\ ServerMove /\ opt' = opt /\ target' = target /\ pc' = pc /\ ec' = ec
  BY ServerStepFrame
<1>3. Told' = Told
  BY <1>2, ToldFacts
<1>4. CASE s_tsock = "connected"
  <2>1. s_pc \notin s_reading \cup {"write_choice", "write_status", "resolve",
                                    "connect"}
    BY <1>1, <1>4 DEF TargetInv
  <2>2. ServerEnds \/ ServerWrites
    BY <1>2, <2>1 DEF ServerMove, ServerReadsOn, ServerChooses, ServerApproves,
       ServerTakesRequest, ServerResolves, ServerReplies, s_reading
  <2>3. s_tsock' = s_tsock /\ s_target' = s_target
    BY <2>2 DEF ServerEnds, ServerWrites
  <2>4. Joining' = Joining
    BY <2>3 DEF Joining
  <2> QED
    BY <1>2, <1>3, <2>4 DEF Joined!vars, Joining, Told
<1>5. CASE s_tsock # "connected" /\ s_tsock' = "connected"
  <2>1. Joining = NoTarget /\ Joining' = target
    BY <1>1, <1>2, <1>5 DEF Joining, TargetInv
  <2> QED
    BY <1>2, <1>3, <2>1, Zenon DEF Joined!Join, Joining, Told
<1>6. CASE s_tsock # "connected" /\ s_tsock' # "connected"
  <2>1. Joining' = Joining
    BY <1>6 DEF Joining
  <2> QED
    BY <1>2, <1>3, <2>1 DEF Joined!vars, Joining, Told
<1> QED
  BY <1>4, <1>5, <1>6

\* No other step tells or joins.
LEMMA OthersSilent ==
    ASSUME ClientGivesUp \/ ClientCloses \/ TargetSpeaks \/ NetworkResets
             \/ UNCHANGED vars
    PROVE  UNCHANGED Joined!vars
<1>1. UNCHANGED <<target, pc, ec, s_tsock, s_target>>
  BY DEF ClientGivesUp, C!ApplicationCloses, C!op_vars, C!args, ClientCloses,
         TargetSpeaks, NetworkResets, vars, c_vars, s_own
<1>2. Told' = Told /\ Joining' = Joining
  BY <1>1, ToldFacts DEF Joining
<1> QED
  BY <1>1, <1>2 DEF Joined!vars, Joining, Told

\* Library and server together are a Tunnel: an application that is told of
\* a success is joined to the very target it asked for.
THEOREM SessionIsATunnel == Spec => ImplementsTunnel
<1>1. Init => Joined!Init
  <2>1. SUFFICES ASSUME Init PROVE Joined!Init
    OBVIOUS
  <2>2. target \in Targets /\ pc = "write_greeting" /\ s_tsock = "closed"
    BY <2>1 DEF Init, C!Init, S!Init
  <2> QED
    BY <2>2 DEF Joined!Init
<1>2. SessionInv /\ SessionInv' /\ [Next]_vars => [Joined!Next]_(Joined!vars)
  <2>1. SUFFICES ASSUME SessionInv, SessionInv', [Next]_vars
                 PROVE  Joined!Next \/ UNCHANGED Joined!vars
    OBVIOUS
  <2>2. \/ Joined!TellSuccess \/ Joined!TellFailure \/ Joined!Join
        \/ UNCHANGED Joined!vars
    BY <2>1, ClientTells, ServerJoins, OthersSilent, Zenon DEF Next
  <2> QED
    BY <2>2, Zenon DEF Joined!Next
<1> QED
  BY <1>1, <1>2, SessionInStep, PTL DEF Spec, ImplementsTunnel, Joined!Spec
=============================================================================
