------------------------- MODULE SocksConnectProofs -------------------------
(***************************************************************************)
(* Proofs about SocksConnect, for every set of options, targets, answers   *)
(* and application data, and every number of unasked messages.             *)
(*                                                                         *)
(* ConnectInv is inductive.  The lemmas come first: error codes, messages, *)
(* what a turn of the read loop may return and what the buffer holds after *)
(* it, and the parsers.                                                    *)
(***************************************************************************)
EXTENDS SocksConnect, WireProofs

(***************************************************************************)
(* Error codes.                                                            *)
(***************************************************************************)
\* The endpoint returned on failure is an endpoint.
LEMMA NoEndpoint == no_endpoint \in endpoint
BY NoEndpointType DEF endpoint

(***************************************************************************)
(* Messages are sequences of bytes.                                        *)
(***************************************************************************)
\* Every message the client builds is a sequence of bytes (connect.ipp:
\* prepare_greeting, prepare_userpass_request, prepare_request).
LEMMA MessageTypes ==
    ASSUME NEW o \in Opts, NEW t \in Targets
    PROVE  /\ prepare_greeting(o) \in Seq(Byte)
           /\ prepare_userpass_request(o) \in Seq(Byte)
           /\ prepare_request(t) \in Seq(Byte)
<1>1. o.user \in Seq(Byte) /\ o.pass \in Seq(Byte)
  BY ConnectAssumption
<1>2. \A v \in Nat : byte(v) \in Byte
  BY DEF byte, Byte
<1>3. prepare_greeting(o) \in Seq(Byte)
  <2>1. code(o) \in Byte /\ 0 \in Byte /\ socks_5 \in Byte
    BY DEF code, auth_userpass, no_authentication, socks_5, Byte
  <2>2. ASSUME NEW m \in Seq(Byte)
        PROVE  prepare_methods(m) \in Seq(Byte)
    <3>1. byte(Len(m)) \in Byte
      BY <1>2
    <3> QED
      BY <2>1, <3>1 DEF prepare_methods
  <2>3. <<0, code(o)>> \in Seq(Byte) /\ <<0>> \in Seq(Byte)
    BY <2>1
  <2>4. (IF code(o) # 0 THEN <<0, code(o)>> ELSE <<0>>) \in Seq(Byte)
    BY <2>3
  <2> QED
    BY <2>2, <2>4 DEF prepare_greeting
<1>4. prepare_userpass_request(o) \in Seq(Byte)
  <2>1. byte(Len(o.user)) \in Byte
    BY <1>1, <1>2
  <2>2. 1 \in Byte
    BY DEF Byte
  <2> QED
    BY <1>1, <2>1, <2>2 DEF prepare_userpass_request
<1>5. prepare_request(t) \in Seq(Byte)
  <2>1. /\ t.addr \in Seq(Byte) /\ t.kind \in {"v4", "v6", "domain"}
        /\ t.port \in Port
    BY ConnectAssumption
  <2>2. port_bytes(t.port) \in Seq(Byte)
    BY <2>1, PortBytes
  <2>3. /\ write_ver_cmd_rsv \in Seq(Byte)
        /\ <<ip_v4>> \in Seq(Byte) /\ <<ip_v6>> \in Seq(Byte)
    BY DEF write_ver_cmd_rsv, socks_5, command_connect, ip_v4, ip_v6, Byte
  <2>4. <<domain_name, byte(Len(t.addr))>> \in Seq(Byte)
    <3>1. byte(Len(t.addr)) \in Byte
      BY <1>2, <2>1
    <3>2. domain_name \in Byte
      BY DEF domain_name, Byte
    <3> QED
      BY <3>1, <3>2
  <2> QED
    BY <2>1, <2>2, <2>3, <2>4 DEF prepare_request, write_target_host
<1> QED
  BY <1>3, <1>4, <1>5

(***************************************************************************)
(* The read loop.                                                          *)
(***************************************************************************)
\* The size of the buffer of the read at pc.
ReadSize == IF pc = "read_reply" THEN 22 ELSE 2

\* One turn of the loop of asio::read: it stays within the size of the
\* read, and a turn that ends it has filled it, has seen an error, or has
\* the ten bytes of an IPv4 reply (read_reply_cond).  The end of file comes
\* when everything was read.
LEMMA TurnFacts ==
    ASSUME TypeOK, StageInv, pc \in Reading, NEW o \in Turn
    PROVE  /\ o.k \in Nat /\ pos + o.k <= Len(down)
           /\ n + o.k <= ReadSize
           /\ \/ o.ec = no_error /\ o.k >= 1
              \/ o.ec \in transport_error /\ o.k = 0 /\ link # "up"
           /\ More(o) => o.ec = no_error /\ n + o.k < ReadSize
           /\ ~More(o) /\ o.ec = no_error
                => \/ n + o.k = ReadSize
                   \/ /\ pc = "read_reply" /\ n + o.k = 10
                      /\ to_address_type(buffer(o.k)[4]) = ip_v4
           /\ o.ec = eof => link = "shut" /\ pos = Len(down)
<1> DEFINE limit == completion_condition(buffer(0), no_error)
<1>1. /\ StreamTypeOK /\ n \in Nat /\ pos \in Nat /\ Len(down) \in Nat
      /\ pos <= Len(down) /\ n <= pos
  BY DEF TypeOK, StreamTypeOK
<1>2. n < ReadSize
  BY DEF StageInv, Reading, ReadSize
<1>3. Len(buffer(0)) = n
  BY <1>1, BufferFacts
<1>4. limit \in Int /\ limit <= ReadSize - n
  BY <1>1, <1>2, <1>3, ErrorFacts
     DEF completion_condition, read_reply_cond, transfer_all, ReadSize
<1> HIDE DEF limit
<1>5. o \in read_some(limit)
  BY DEF Turn, limit
<1>6. /\ o.k \in Nat /\ pos + o.k <= Len(down)
      /\ \/ o.ec = no_error /\ o.k >= 1 /\ o.k <= limit
         \/ o.ec \in transport_error /\ o.k = 0 /\ link # "up"
      /\ o.ec = eof => link = "shut" /\ pos = Len(down)
  BY <1>1, <1>4, <1>5, ReadSomeFacts
<1>7. n + o.k <= ReadSize
  BY <1>1, <1>2, <1>4, <1>6 DEF ReadSize
<1>8. Len(buffer(o.k)) = n + o.k
  BY <1>1, <1>6, BufferFacts
<1>9. More(o) => o.ec = no_error /\ n + o.k < ReadSize
  <2>1. failed(o.ec) => ~More(o)
    BY DEF More, completion_condition, read_reply_cond, transfer_all
  <2>2. n + o.k = ReadSize => ~More(o)
    BY <1>8 DEF More, completion_condition, read_reply_cond, transfer_all,
                ReadSize
  <2> QED
    BY <2>1, <2>2, <1>1, <1>6, <1>7, ErrorFacts DEF ReadSize
<1>10. ~More(o) /\ o.ec = no_error
         => \/ n + o.k = ReadSize
            \/ /\ pc = "read_reply" /\ n + o.k = 10
               /\ to_address_type(buffer(o.k)[4]) = ip_v4
  BY <1>1, <1>6, <1>7, <1>8, ErrorFacts
     DEF More, completion_condition, read_reply_cond, transfer_all, ReadSize
<1> QED
  BY <1>6, <1>7, <1>9, <1>10

(***************************************************************************)
(* The parsers.                                                            *)
(***************************************************************************)
\* validate_server_choice lets pass only a choice the client offered.
LEMMA ChoiceFacts ==
    ASSUME NEW buf \in Seq(Byte), NEW o \in Opts,
           NEW e \in {no_error, eof}, e = eof => Len(buf) < 2
    PROVE  LET v == validate_server_choice(buf, o, e)
           IN  /\ v \in error_code
               /\ failed(v) => v.cat = "socks"
               /\ ~failed(v) =>
                     /\ Len(buf) >= 2 /\ buf[1] = 5
                     /\ buf[2] = 0 \/ (buf[2] = 2 /\ o.is_userpass)
BY ErrorFacts, ClientErrors, ConnectAssumption
   DEF validate_server_choice, bad_reply_size, bad_reply_version,
       bad_server_choice, code, auth_userpass, no_authentication

\* validate_userpass_reply lets pass only an approval.
LEMMA UserpassFacts ==
    ASSUME NEW buf \in Seq(Byte), NEW e \in {no_error} \cup transport_error,
           e # no_error => Len(buf) < 2
    PROVE  LET v == validate_userpass_reply(buf, e)
           IN  /\ v \in error_code
               /\ failed(v) => v.cat = "socks"
               /\ v # eof
               /\ ~failed(v) => Len(buf) = 2 /\ buf[1] = 1 /\ buf[2] = 0
<1>1. no_error # eof
  BY DEF no_error, eof
<1> QED
  BY <1>1, ErrorFacts, ClientErrors
     DEF validate_userpass_reply, bad_reply_size, bad_reply_version,
         access_denied

\* parse_reply_v5 succeeds only on a reply that grants the request and whose
\* size is the one of its address type, and returns the address in it.  A
\* refusal is reported with its code, and without an endpoint.
LEMMA ParseFacts ==
    ASSUME NEW buf \in Seq(Byte), Len(buf) \in {10, 22}
    PROVE  LET r == parse_reply_v5(buf)
               z == Len(buf)
           IN  /\ r.ec \in error_code /\ r.ec.cat = "socks"
               /\ r.ep \in endpoint
               /\ ~failed(r.ec) =>
                     /\ buf[1] = 5 /\ buf[2] = 0
                     /\ (z = 10 /\ buf[4] = 1) \/ (z = 22 /\ buf[4] = 4)
                     /\ r.ep.addr = SubSeq(buf, 5, z - 2)
                     /\ r.ep.port = to_port(buf[z - 1], buf[z])
               /\ failed(r.ec) => r.ep = no_endpoint
               /\ /\ buf[1] = 5
                  /\ buf[2] = 0 => \/ z = 10 /\ buf[4] = 1
                                   \/ z = 22 /\ buf[4] = 4
                  => r.ec = socks(to_reply_code(buf[2]))
<1> DEFINE e == socks(to_reply_code(buf[2]))
           A == SubSeq(buf, 5, Len(buf) - 2)
           P == to_port(buf[Len(buf) - 1], buf[Len(buf)])
           good(kind) == [ec |-> e,
                          ep |-> [kind |-> kind, addr |-> A, port |-> P]]
<1>1. \A i \in 1..Len(buf) : buf[i] \in Byte
  OBVIOUS
<1>2. /\ to_reply_code(buf[2]) \in error
      /\ condition(to_reply_code(buf[2])) = "succeeded" <=> buf[2] = 0
      /\ failed(e) <=> buf[2] # 0
  BY <1>1, ReplyCodeFacts
<1>3. e \in error_code /\ e.cat = "socks" /\ e.val = to_reply_code(buf[2])
  BY <1>2, ErrorFacts
<1>4. no_endpoint \in endpoint
  BY NoEndpoint
<1>5. A \in Seq(Byte)
  BY <1>1, SubSeqProperties
<1>6. P \in Port
  <2>0. Len(buf) - 1 \in 1..Len(buf) /\ Len(buf) \in 1..Len(buf)
    <3>1. CASE Len(buf) = 10
      BY <3>1
    <3>2. CASE Len(buf) = 22
      BY <3>2
    <3> QED
      BY <3>1, <3>2
  <2>1. buf[Len(buf) - 1] \in Byte /\ buf[Len(buf)] \in Byte
    BY <1>1, <2>0, Zenon
  <2>2. P = to_port(buf[Len(buf) - 1], buf[Len(buf)])
    BY Zenon DEF P
  <2> QED
    BY <2>1, <2>2, PortBytes
<1> HIDE DEF A, P
<1>7. ASSUME NEW k \in {"v4", "v6"}
      PROVE  [kind |-> k, addr |-> A, port |-> P] \in endpoint
  BY <1>5, <1>6 DEF endpoint
<1>8. \A v \in 160..166 :
        /\ reply_error(socks(v)).ec \in error_code
        /\ reply_error(socks(v)).ec.cat = "socks"
        /\ failed(reply_error(socks(v)).ec)
        /\ reply_error(socks(v)).ep \in endpoint
        /\ reply_error(socks(v)).ep = no_endpoint
  BY <1>4, ErrorFacts, ClientErrors DEF reply_error
<1>9. /\ reply_error(e).ec = e
      /\ reply_error(e).ep \in endpoint /\ reply_error(e).ep = no_endpoint
  BY <1>4 DEF reply_error
<1>10. bad_reply_version \in 160..166 /\ bad_reply_size \in 160..166
         /\ bad_address_type \in 160..166
  BY DEF bad_reply_version, bad_reply_size, bad_address_type
<1>11. to_address_type(buf[4]) = ip_v4 <=> buf[4] = 1
  BY DEF to_address_type, ip_v4, ip_v6, domain_name, unknown
<1>12. to_address_type(buf[4]) = ip_v6 <=> buf[4] = 4
  BY DEF to_address_type, ip_v4, ip_v6, domain_name, unknown
<1>13. \/ /\ \E v \in 160..166 : parse_reply_v5(buf) = reply_error(socks(v))
          /\ \/ buf[1] # 5
             \/ /\ buf[2] = 0
                /\ ~(Len(buf) = 10 /\ buf[4] = 1)
                /\ ~(Len(buf) = 22 /\ buf[4] = 4)
       \/ parse_reply_v5(buf) = reply_error(e) /\ failed(e)
       \/ /\ buf[1] = 5 /\ buf[2] = 0 /\ buf[4] = 1 /\ Len(buf) = 10
          /\ parse_reply_v5(buf) = good("v4")
       \/ /\ buf[1] = 5 /\ buf[2] = 0 /\ buf[4] = 4 /\ Len(buf) = 22
          /\ parse_reply_v5(buf) = good("v6")
  <2>1. CASE buf[1] # 5
    BY <2>1, <1>10 DEF parse_reply_v5
  <2>2. CASE buf[1] = 5 /\ buf[2] # 0
    BY <2>2, <1>2, <1>3 DEF parse_reply_v5
  <2>3. CASE buf[1] = 5 /\ buf[2] = 0 /\ buf[4] = 1
    <3>1. CASE Len(buf) = 10
      <4>1. A = SubSeq(buf, 5, 8) /\ P = to_port(buf[9], buf[10])
        BY <3>1 DEF A, P
      <4> QED
        BY <2>3, <3>1, <4>1, <1>2, <1>3, <1>11 DEF parse_reply_v5
    <3>2. CASE Len(buf) # 10
      BY <2>3, <3>2, <1>2, <1>3, <1>10, <1>11 DEF parse_reply_v5
    <3> QED
      BY <3>1, <3>2
  <2>4. CASE buf[1] = 5 /\ buf[2] = 0 /\ buf[4] = 4
    <3>1. CASE Len(buf) = 22
      <4>1. A = SubSeq(buf, 5, 20) /\ P = to_port(buf[21], buf[22])
        BY <3>1 DEF A, P
      <4> QED
        <5>1. /\ to_address_type(buf[4]) # ip_v4
              /\ to_address_type(buf[4]) = ip_v6
          BY <2>4, <1>11, <1>12
        <5>2. condition(e.val) = "succeeded"
          BY <2>4, <1>2, <1>3
        <5>3. parse_reply_v5(buf) = good("v6")
          BY <2>4, <3>1, <4>1, <5>1, <5>2, Zenon DEF parse_reply_v5
        <5> QED
          BY <2>4, <3>1, <5>3, Zenon
    <3>2. CASE Len(buf) # 22
      <4>1. /\ to_address_type(buf[4]) # ip_v4
            /\ to_address_type(buf[4]) = ip_v6
        BY <2>4, <1>11, <1>12
      <4>2. parse_reply_v5(buf) = reply_error(socks(bad_reply_size))
        BY <2>4, <3>2, <4>1, <1>2, <1>3 DEF parse_reply_v5
      <4> QED
        BY <4>2, <1>10, <2>4, <3>2
    <3> QED
      BY <3>1, <3>2
  <2>5. CASE buf[1] = 5 /\ buf[2] = 0 /\ buf[4] # 1 /\ buf[4] # 4
    BY <2>5, <1>2, <1>3, <1>10, <1>11, <1>12 DEF parse_reply_v5
  <2> QED
    BY <2>1, <2>2, <2>3, <2>4, <2>5
<1>14. CASE /\ \E v \in 160..166 : parse_reply_v5(buf) = reply_error(socks(v))
            /\ \/ buf[1] # 5
               \/ /\ buf[2] = 0
                  /\ ~(Len(buf) = 10 /\ buf[4] = 1)
                  /\ ~(Len(buf) = 22 /\ buf[4] = 4)
  BY <1>8, <1>14
<1>15. CASE parse_reply_v5(buf) = reply_error(e) /\ failed(e)
  BY <1>3, <1>9, <1>15
<1> HIDE DEF e
<1>16. ASSUME NEW k \in {"v4", "v6"}, parse_reply_v5(buf) = good(k)
       PROVE  /\ parse_reply_v5(buf).ec \in error_code
              /\ parse_reply_v5(buf).ec.cat = "socks"
              /\ parse_reply_v5(buf).ep \in endpoint
              /\ parse_reply_v5(buf).ep.addr = A
              /\ parse_reply_v5(buf).ep.port = P
              /\ parse_reply_v5(buf).ec = e
  BY <1>3, <1>7, <1>16
<1>17. CASE /\ buf[1] = 5 /\ buf[2] = 0 /\ buf[4] = 1 /\ Len(buf) = 10
             /\ parse_reply_v5(buf) = good("v4")
  BY <1>2, <1>16, <1>17 DEF A, P, e
<1>18. CASE /\ buf[1] = 5 /\ buf[2] = 0 /\ buf[4] = 4 /\ Len(buf) = 22
             /\ parse_reply_v5(buf) = good("v6")
  BY <1>2, <1>16, <1>18 DEF A, P, e
<1> QED
  BY <1>13, <1>14, <1>15, <1>17, <1>18

(***************************************************************************)
(* What was read stays read.                                               *)
(***************************************************************************)
\* The step keeps every byte read so far, and the caller's options.
Keeps ==
    /\ pos' \in Nat /\ pos' >= pos
    /\ \A i \in 1..pos : down'[i] = down[i]
    /\ opt' = opt

\* A negotiation that ended well stays one, whatever the peer sends behind
\* it.
LEMMA KeepsNegotiated ==
    ASSUME TypeOK, Keeps, NEW b \in {2, 4}, Negotiated(b)
    PROVE  Negotiated(b)'
<1>1. pos \in Nat /\ pos' \in Nat /\ pos' >= b
  BY DEF TypeOK, StreamTypeOK, Keeps, Negotiated
<1>2. \A i \in 1..b : down'[i] = down[i]
  BY <1>1 DEF Keeps, Negotiated
<1>3. down'[1] = down[1] /\ down'[2] = down[2]
  BY <1>2
<1>4. b = 4 => down'[3] = down[3] /\ down'[4] = down[4]
  BY <1>2
<1> QED
  BY <1>1, <1>3, <1>4 DEF Negotiated, Keeps

\* So does the server's choice of userpass.
LEMMA KeepsUserpassChosen ==
    ASSUME TypeOK, Keeps, UserpassChosen
    PROVE  UserpassChosen'
<1>1. pos \in Nat /\ pos' \in Nat /\ pos' >= 2
  BY DEF TypeOK, StreamTypeOK, Keeps, UserpassChosen
<1>2. down'[1] = down[1] /\ down'[2] = down[2]
  BY <1>1 DEF Keeps, UserpassChosen
<1> QED
  BY <1>1, <1>2 DEF UserpassChosen, Keeps

\* A step that writes nothing keeps the dialogue legal.
LEMMA KeepsDialogue ==
    ASSUME TypeOK, Keeps, NegotiationRespected, up' = up
    PROVE  NegotiationRespected'
<1> SUFFICES ASSUME NEW i \in DOMAIN up
             PROVE  /\ (i = 1) = (up[i].kind = "greeting")
                    /\ up[i].kind = "userpass" =>
                          i = 2 /\ UserpassChosen'
                    /\ up[i].kind = "request" =>
                          /\ i = Len(up)
                          /\ \E b \in {2, 4} : Negotiated(b)' /\ i = 1 + b \div 2
  BY DEF NegotiationRespected, UserpassChosen
<1>1. (i = 1) = (up[i].kind = "greeting")
  BY DEF NegotiationRespected
<1>2. up[i].kind = "userpass" => i = 2 /\ UserpassChosen
  BY DEF NegotiationRespected, UserpassChosen
<1>3. up[i].kind = "request" =>
         i = Len(up) /\ \E b \in {2, 4} : Negotiated(b) /\ i = 1 + b \div 2
  BY DEF NegotiationRespected
<1> QED
  BY <1>1, <1>2, <1>3, KeepsNegotiated, KeepsUserpassChosen

(***************************************************************************)
(* The initial state and the steps.                                        *)
(***************************************************************************)
\* The constructor of connect_op, and the entry of connect, establish
\* ConnectInv.
LEMMA InitConnectInv == Init => ConnectInv
<1> SUFFICES ASSUME Init PROVE ConnectInv
  OBVIOUS
<1>1. no_error \in error_code /\ no_endpoint \in endpoint
  BY ErrorFacts, NoEndpoint
<1>2. TypeOK
  BY <1>1, ConnectAssumption
     DEF Init, TypeOK, StreamInit, StreamTypeOK, Writing
<1>3. StageInv
  BY DEF Init, StreamInit, StageInv
<1>4. pc # "done" /\ DOMAIN up = {}
  BY DEF Init
<1> QED
  BY <1>2, <1>3, <1>4
     DEF ConnectInv, SuccessIsGenuine, NegotiationRespected,
         NoStrayTransportError

\* A failed step completes with its error and no endpoint.
LEMMA CompleteFails ==
    ASSUME ConnectInv, Keeps, up' = up, TypeOK', NEW e,
           Complete(e, no_endpoint), failed(e),
           e.cat = "socks" \/ (link' # "up" /\ e # eof)
    PROVE  ConnectInv'
<1>1. NegotiationRespected'
  BY KeepsDialogue DEF ConnectInv
<1>2. StageInv'
  BY DEF StageInv, Complete
<1>3. SuccessIsGenuine' /\ NoStrayTransportError'
  BY DEF Complete, SuccessIsGenuine, NoStrayTransportError
<1> QED
  BY <1>1, <1>2, <1>3 DEF ConnectInv

\* A write fails, and the operation with it, or adds one message to what was
\* written and goes on at label.
LEMMA WriteCases ==
    ASSUME ConnectInv, NEW kind \in Kind, NEW bytes \in Seq(Byte),
           NEW label \in Reading, WriteMessage(kind, bytes, label)
    PROVE  \/ ConnectInv'
           \/ /\ TypeOK' /\ Keeps /\ pc' = label
              /\ pos' = pos /\ n' = n /\ down' = down
              /\ Len(up') = Len(up) + 1
              /\ \A i \in 1..Len(up) : up'[i] = up[i]
              /\ up'[Len(up) + 1].kind = kind
<1> DEFINE m == [kind |-> kind, bytes |-> bytes]
<1>1. PICK e \in write_results :
         /\ Write(e)
         /\ up' = IF failed(e) THEN up ELSE Append(up, m)
         /\ Proceed(e, label)
         /\ UNCHANGED <<args, answers, app>>
  BY DEF WriteMessage
<1>2. TypeOK /\ StreamTypeOK
  BY DEF ConnectInv, TypeOK
<1>3. /\ down' = down /\ pos' = pos /\ n' = n /\ link' = link
      /\ stream_ec' = e
  BY <1>1 DEF Write
<1>4. \/ e = no_error
      \/ e \in transport_error /\ e # eof /\ link # "up"
  BY <1>2, WriteFacts
<1>5. m \in [kind : Kind, bytes : Seq(Byte)]
  OBVIOUS
<1> HIDE DEF m
<1>6. up \in Seq([kind : Kind, bytes : Seq(Byte)])
  BY <1>2 DEF TypeOK
<1>7. Keeps
  BY <1>1, <1>2, <1>3 DEF Keeps, StreamTypeOK, args
<1>8. up' \in Seq([kind : Kind, bytes : Seq(Byte)])
  <2>1. Append(up, m) \in Seq([kind : Kind, bytes : Seq(Byte)])
    BY <1>5, <1>6, AppendProperties
  <2> QED
    BY <1>1, <1>6, <2>1
<1>9. StreamTypeOK'
  BY <1>2, <1>3, <1>4 DEF StreamTypeOK
<1>10. CASE failed(e)
  <2>1. Complete(e, no_endpoint)
    BY <1>1, <1>10 DEF Proceed
  <2>2. e \in transport_error /\ e # eof /\ link # "up" /\ e \in error_code
    BY <1>4, <1>10, ErrorFacts
  <2>3. no_endpoint \in endpoint
    BY NoEndpoint
  <2>4. TypeOK'
    BY <1>1, <1>2, <1>8, <1>9, <2>1, <2>2, <2>3 DEF TypeOK, Complete, args
  <2> QED
    BY <1>1, <1>3, <1>7, <1>10, <2>1, <2>2, <2>4, CompleteFails
<1>11. CASE ~failed(e)
  <2>1. pc' = label /\ ec' = ec /\ ep' = ep
    BY <1>1, <1>11 DEF Proceed, GoTo
  <2>2. TypeOK'
    BY <1>1, <1>2, <1>8, <1>9, <2>1 DEF TypeOK, args
  <2>3. /\ Len(up') = Len(up) + 1
        /\ \A i \in 1..Len(up) : up'[i] = up[i]
        /\ up'[Len(up) + 1] = m
    BY <1>1, <1>5, <1>6, <1>11, AppendProperties
  <2>4. m.kind = kind
    BY DEF m
  <2> QED
    BY <1>3, <1>7, <2>1, <2>2, <2>3, <2>4
<1> QED
  BY <1>10, <1>11

\* The dialogue stays legal when a message is added that is legal in its
\* place, provided the request was not written yet.
LEMMA DialogueGrows ==
    ASSUME TypeOK, TypeOK', Keeps, NegotiationRespected,
           Len(up') = Len(up) + 1,
           \A i \in 1..Len(up) : up'[i] = up[i] /\ up[i].kind # "request",
           LET z == Len(up) + 1
               k == up'[z].kind
           IN  /\ (z = 1) = (k = "greeting")
               /\ k = "userpass" => z = 2 /\ UserpassChosen'
               /\ k = "request" =>
                     \E b \in {2, 4} : Negotiated(b)' /\ z = 1 + b \div 2
    PROVE  NegotiationRespected'
<1>1. Len(up) \in Nat /\ DOMAIN up = 1..Len(up)
      /\ DOMAIN up' = 1..Len(up')
  BY DEF TypeOK
<1> SUFFICES ASSUME NEW i \in 1..(Len(up) + 1)
             PROVE  /\ (i = 1) = (up'[i].kind = "greeting")
                    /\ up'[i].kind = "userpass" =>
                          i = 2 /\ UserpassChosen'
                    /\ up'[i].kind = "request" =>
                          /\ i = Len(up')
                          /\ \E b \in {2, 4} : Negotiated(b)' /\ i = 1 + b \div 2
  BY <1>1 DEF NegotiationRespected, UserpassChosen
<1>2. CASE i \in 1..Len(up)
  <2>1. up'[i] = up[i] /\ up[i].kind # "request"
    BY <1>2
  <2>2. (i = 1) = (up[i].kind = "greeting")
    BY <1>1, <1>2 DEF NegotiationRespected
  <2>3. up[i].kind = "userpass" => i = 2 /\ UserpassChosen
    BY <1>1, <1>2 DEF NegotiationRespected, UserpassChosen
  <2> QED
    BY <2>1, <2>2, <2>3, KeepsUserpassChosen
<1>3. CASE i = Len(up) + 1
  BY <1>3
<1> QED
  BY <1>1, <1>2, <1>3

\* Writing the greeting keeps ConnectInv (authenticate, connect_op).
LEMMA WriteGreetingInv ==
    ASSUME ConnectInv, WriteGreeting
    PROVE  ConnectInv'
<1>1. /\ TypeOK /\ NegotiationRespected
      /\ pos = 0 /\ n = 0 /\ Len(up) = 0 /\ opt \in Opts /\ target \in Targets
  BY DEF ConnectInv, TypeOK, StageInv, WriteGreeting
<1>2. prepare_greeting(opt) \in Seq(Byte)
  BY <1>1, MessageTypes
<1>3. CASE /\ TypeOK' /\ Keeps /\ pc' = "read_choice"
           /\ pos' = pos /\ n' = n /\ down' = down
           /\ Len(up') = Len(up) + 1
           /\ \A i \in 1..Len(up) : up'[i] = up[i]
           /\ up'[Len(up) + 1].kind = "greeting"
  <2>1. \A i \in 1..Len(up) : up[i].kind # "request"
    BY <1>1
  <2>2. NegotiationRespected'
    BY <1>1, <1>3, <2>1, DialogueGrows
  <2>3. StageInv'
    BY <1>1, <1>3 DEF StageInv
  <2> QED
    BY <1>3, <2>2, <2>3 DEF ConnectInv, SuccessIsGenuine, NoStrayTransportError
<1> QED
  BY <1>2, <1>3, WriteCases DEF WriteGreeting, Kind, Reading

\* Writing the credentials keeps ConnectInv: the server has chosen userpass.
LEMMA WriteUserpassInv ==
    ASSUME ConnectInv, WriteUserpass
    PROVE  ConnectInv'
<1>1. /\ TypeOK /\ NegotiationRespected
      /\ pos = 2 /\ n = 0 /\ Len(up) = 1 /\ UserpassChosen
      /\ opt \in Opts /\ target \in Targets
  BY DEF ConnectInv, TypeOK, StageInv, WriteUserpass
<1>2. prepare_userpass_request(opt) \in Seq(Byte)
  BY <1>1, MessageTypes
<1>3. CASE /\ TypeOK' /\ Keeps /\ pc' = "read_userpass"
           /\ pos' = pos /\ n' = n /\ down' = down
           /\ Len(up') = Len(up) + 1
           /\ \A i \in 1..Len(up) : up'[i] = up[i]
           /\ up'[Len(up) + 1].kind = "userpass"
  <2>1. \A i \in 1..Len(up) : up[i].kind # "request"
    BY <1>1 DEF NegotiationRespected, TypeOK
  <2>2. UserpassChosen'
    BY <1>1, <1>3, KeepsUserpassChosen
  <2>3. NegotiationRespected'
    BY <1>1, <1>3, <2>1, <2>2, DialogueGrows
  <2>4. StageInv'
    BY <1>1, <1>3, <2>2 DEF StageInv
  <2> QED
    BY <1>3, <2>3, <2>4 DEF ConnectInv, SuccessIsGenuine, NoStrayTransportError
<1> QED
  BY <1>2, <1>3, WriteCases DEF WriteUserpass, Kind, Reading

\* Writing the request keeps ConnectInv: the negotiation has ended well.
LEMMA WriteRequestInv ==
    ASSUME ConnectInv, WriteRequest
    PROVE  ConnectInv'
<1>1. /\ TypeOK /\ NegotiationRespected /\ n = 0 /\ Len(up) \in Nat
      /\ opt \in Opts /\ target \in Targets
  BY DEF ConnectInv, TypeOK, StageInv, WriteRequest
<1>2. PICK b \in {2, 4} : Negotiated(b) /\ pos = b /\ Len(up) = Asked(b)
  BY DEF ConnectInv, StageInv, WriteRequest
<1>3. prepare_request(target) \in Seq(Byte)
  BY <1>1, MessageTypes
<1>4. CASE /\ TypeOK' /\ Keeps /\ pc' = "read_reply"
           /\ pos' = pos /\ n' = n /\ down' = down
           /\ Len(up') = Len(up) + 1
           /\ \A i \in 1..Len(up) : up'[i] = up[i]
           /\ up'[Len(up) + 1].kind = "request"
  <2>1. ASSUME NEW i \in 1..Len(up), up[i].kind = "request"
        PROVE  FALSE
    <3>1. i = Len(up) /\ i # 1
      BY <1>1, <2>1 DEF NegotiationRespected, TypeOK
    <3>2. PICK c \in {2, 4} : Negotiated(c) /\ i = 1 + c \div 2
      BY <1>1, <2>1 DEF NegotiationRespected, TypeOK
    <3>3. b = 4 /\ c = 2
      BY <1>2, <3>1, <3>2 DEF Asked
    <3> QED
      BY <1>2, <3>2, <3>3 DEF Negotiated, auth_userpass, no_authentication
  <2>2. Negotiated(b)'
    BY <1>1, <1>2, <1>4, KeepsNegotiated
  <2>3. NegotiationRespected'
    BY <1>1, <1>2, <1>4, <2>1, <2>2, DialogueGrows DEF Asked
  <2>4. StageInv'
    BY <1>1, <1>2, <1>4, <2>2 DEF StageInv, Asked
  <2> QED
    BY <1>4, <2>3, <2>4 DEF ConnectInv, SuccessIsGenuine, NoStrayTransportError
<1> QED
  BY <1>3, <1>4, WriteCases DEF WriteRequest, Kind, Reading

(***************************************************************************)
(* Reads.                                                                  *)
(***************************************************************************)
\* What every turn keeps.
LEMMA TurnKeeps ==
    ASSUME TypeOK, NEW o, o.k \in Nat, pos + o.k <= Len(down),
           o.ec \in {no_error} \cup transport_error,
           Transfer(o) \/ TransferLast(o), UNCHANGED args
    PROVE  /\ Keeps /\ StreamTypeOK'
           /\ pos' = pos + o.k /\ down' = down /\ link' = link
<1>1. /\ pos' = pos + o.k /\ stream_ec' = o.ec /\ down' = down /\ link' = link
      /\ n' \in {0, n + o.k}
  BY DEF Transfer, TransferLast
<1>2. pos \in Nat /\ n \in 0..pos /\ down \in Seq(Byte) /\ Len(down) \in Nat
  BY DEF TypeOK, StreamTypeOK
<1>3. pos' \in 0..Len(down') /\ n' \in 0..pos'
  BY <1>1, <1>2
<1>4. StreamTypeOK'
  BY <1>1, <1>2, <1>3 DEF TypeOK, StreamTypeOK
<1>5. Keeps
  BY <1>1, <1>2 DEF Keeps, args
<1> QED
  BY <1>1, <1>4, <1>5

\* A turn after which the read goes on keeps ConnectInv.
LEMMA KeepReadingInv ==
    ASSUME ConnectInv, KeepReading
    PROVE  ConnectInv'
<1>1. PICK o \in Turn : More(o) /\ Transfer(o)
  BY DEF KeepReading
<1>2. /\ TypeOK /\ StageInv /\ NegotiationRespected /\ pc \in Reading
      /\ n \in Nat /\ pos \in Nat
  BY DEF ConnectInv, KeepReading, TypeOK, StreamTypeOK
<1>3. /\ o.k \in Nat /\ pos + o.k <= Len(down)
      /\ o.ec = no_error /\ n + o.k < ReadSize
  BY <1>1, <1>2, TurnFacts
<1>4. UNCHANGED <<args, pc, up, ec, ep, answers, app>>
  BY DEF KeepReading
<1>5. /\ Keeps /\ StreamTypeOK' /\ pos' = pos + o.k /\ n' = n + o.k
      /\ down' = down
  BY <1>1, <1>2, <1>3, <1>4, TurnKeeps DEF Transfer, args
<1>6. TypeOK'
  BY <1>2, <1>4, <1>5 DEF TypeOK, args
<1>7. NegotiationRespected'
  BY <1>2, <1>4, <1>5, KeepsDialogue
<1>8. StageInv'
  <2>1. CASE pc = "read_choice"
    BY <2>1, <1>2, <1>3, <1>4, <1>5 DEF StageInv, ReadSize
  <2>2. CASE pc = "read_userpass"
    <3>1. UserpassChosen'
      BY <2>2, <1>2, <1>5, KeepsUserpassChosen DEF StageInv
    <3> QED
      BY <2>2, <3>1, <1>2, <1>3, <1>4, <1>5 DEF StageInv, ReadSize
  <2>3. CASE pc = "read_reply"
    <3>1. PICK b \in {2, 4} :
             Negotiated(b) /\ pos = b + n /\ Len(up) = Asked(b) + 1
      BY <2>3, <1>2 DEF StageInv
    <3>2. Negotiated(b)'
      BY <3>1, <1>2, <1>5, KeepsNegotiated
    <3>3. pos' = b + n' /\ n' < 22 /\ Len(up') = Asked(b) + 1
      BY <2>3, <3>1, <1>2, <1>3, <1>4, <1>5 DEF ReadSize
    <3> QED
      BY <2>3, <3>2, <3>3, <1>4 DEF StageInv, Asked
  <2> QED
    BY <1>2, <2>1, <2>2, <2>3 DEF Reading
<1>9. pc' # "done"
  BY <1>2, <1>4 DEF Reading
<1> QED
  BY <1>6, <1>7, <1>8, <1>9
     DEF ConnectInv, SuccessIsGenuine, NoStrayTransportError

\* The read of the server's choice, and its validation, keep ConnectInv.
LEMMA ReadChoiceInv ==
    ASSUME ConnectInv, ReadChoice
    PROVE  ConnectInv'
<1> DEFINE R(o) == choice_result(buffer(o.k), o.ec)
<1>1. PICK o \in Turn :
        /\ ~More(o) /\ TransferLast(o)
        /\ IF failed(R(o)) THEN Complete(R(o), no_endpoint)
                           ELSE GoTo(after_choice(buffer(o.k)))
  BY DEF ReadChoice
<1>2. /\ TypeOK /\ StreamTypeOK /\ StageInv /\ NegotiationRespected
      /\ pc \in Reading /\ pc = "read_choice" /\ opt \in Opts
      /\ n \in Nat /\ pos = n /\ n < 2 /\ Len(up) = 1
  BY DEF ConnectInv, ReadChoice, TypeOK, StreamTypeOK, Reading, StageInv
<1>3. /\ o.k \in Nat /\ pos + o.k <= Len(down) /\ n + o.k <= 2
      /\ \/ o.ec = no_error /\ n + o.k = 2
         \/ o.ec \in transport_error /\ o.k = 0 /\ link # "up"
  BY <1>1, <1>2, TurnFacts DEF ReadSize
<1>4. UNCHANGED <<args, up, answers, app>>
  BY DEF ReadChoice
<1>5. /\ Keeps /\ StreamTypeOK' /\ pos' = pos + o.k /\ n' = 0
      /\ down' = down /\ link' = link
  BY <1>1, <1>2, <1>3, <1>4, TurnKeeps DEF TransferLast, args
<1>6. /\ buffer(o.k) \in Seq(Byte) /\ Len(buffer(o.k)) = n + o.k
      /\ \A i \in 1..(n + o.k) : buffer(o.k)[i] = down[(pos - n) + i]
  BY <1>2, <1>3, BufferFacts
<1>7. \/ /\ failed(R(o)) /\ R(o) \in error_code
         /\ R(o).cat = "socks" \/ (link # "up" /\ R(o) # eof)
      \/ /\ ~failed(R(o)) /\ n + o.k = 2
         /\ buffer(o.k)[1] = 5
         /\ buffer(o.k)[2] = 0 \/ (buffer(o.k)[2] = 2 /\ opt.is_userpass)
  <2>1. CASE o.ec \in {no_error, eof}
    <3>1. o.ec = eof => Len(buffer(o.k)) < 2
      <4>1. no_error # eof
        BY DEF no_error, eof
      <4> QED
        BY <1>2, <1>3, <1>6, <4>1
    <3>2. R(o) = validate_server_choice(buffer(o.k), opt, o.ec)
      BY <2>1, ErrorFacts DEF choice_result
    <3> QED
      BY <1>2, <1>3, <1>6, <2>1, <3>1, <3>2, ChoiceFacts
  <2>2. CASE o.ec \notin {no_error, eof}
    <3>1. R(o) = o.ec /\ o.ec \in transport_error /\ link # "up"
      BY <1>3, <2>2, ErrorFacts DEF choice_result
    <3> QED
      BY <2>2, <3>1, ErrorFacts
  <2> QED
    BY <2>1, <2>2
<1> HIDE DEF R
<1>8. no_endpoint \in endpoint
  BY NoEndpoint
<1>9. CASE failed(R(o))
  <2>1. Complete(R(o), no_endpoint)
    BY <1>1, <1>9
  <2>2. TypeOK'
    BY <1>2, <1>4, <1>5, <1>7, <1>8, <1>9, <2>1 DEF TypeOK, Complete, args
  <2> QED
    BY <1>4, <1>5, <1>7, <1>9, <2>1, <2>2, CompleteFails
<1>10. CASE ~failed(R(o))
  <2>1. GoTo(after_choice(buffer(o.k)))
    BY <1>1, <1>10
  <2>2. /\ n + o.k = 2 /\ down[1] = 5
        /\ down[2] = 0 \/ (down[2] = 2 /\ opt.is_userpass)
        /\ buffer(o.k)[2] = down[2]
    BY <1>2, <1>6, <1>7, <1>10
  <2>3. /\ pos' = 2 /\ down'[1] = 5 /\ down'[2] = down[2] /\ opt' = opt
        /\ Len(up') = 1
    BY <1>2, <1>4, <1>5, <2>2 DEF args
  <2>4. NegotiationRespected'
    BY <1>2, <1>4, <1>5, KeepsDialogue
  <2>5. CASE down[2] = 2
    <3>1. pc' = "write_userpass" /\ ec' = ec /\ ep' = ep
      BY <2>1, <2>2, <2>5 DEF GoTo, after_choice, auth_userpass
    <3>2. TypeOK'
      BY <1>2, <1>4, <1>5, <3>1 DEF TypeOK, Writing, args
    <3>3. StageInv'
      BY <1>5, <2>2, <2>3, <2>5, <3>1
         DEF StageInv, UserpassChosen, socks_5, auth_userpass
    <3> QED
      BY <2>4, <3>1, <3>2, <3>3
         DEF ConnectInv, SuccessIsGenuine, NoStrayTransportError
  <2>6. CASE down[2] = 0
    <3>1. pc' = "write_request" /\ ec' = ec /\ ep' = ep
      BY <2>1, <2>2, <2>6 DEF GoTo, after_choice, auth_userpass
    <3>2. TypeOK'
      BY <1>2, <1>4, <1>5, <3>1 DEF TypeOK, Writing, args
    <3>3. Negotiated(2)'
      BY <2>3, <2>6 DEF Negotiated, socks_5, no_authentication
    <3>4. StageInv'
      BY <1>5, <2>3, <3>1, <3>3 DEF StageInv, Asked
    <3> QED
      BY <2>4, <3>1, <3>2, <3>4
         DEF ConnectInv, SuccessIsGenuine, NoStrayTransportError
  <2> QED
    BY <2>2, <2>5, <2>6
<1> QED
  BY <1>9, <1>10

\* The end of the read of the userpass reply, whatever makes e of it.
LEMMA UserpassReplyInv ==
    ASSUME ConnectInv, pc = "read_userpass", NEW o \in Turn,
           ~More(o), TransferLast(o), UNCHANGED <<args, up, answers, app>>,
           NEW e, Proceed(e, "write_request"),
           e = userpass_result(buffer(o.k), o.ec)
    PROVE  ConnectInv'
<1>1. /\ TypeOK /\ StreamTypeOK /\ StageInv /\ NegotiationRespected
      /\ pc \in Reading /\ n \in Nat /\ pos \in Nat
      /\ pos = 2 + n /\ n < 2 /\ Len(up) = 2 /\ UserpassChosen
  BY DEF ConnectInv, TypeOK, StreamTypeOK, Reading, StageInv
<1>2. /\ o.k \in Nat /\ pos + o.k <= Len(down) /\ n + o.k <= 2
      /\ \/ o.ec = no_error /\ n + o.k = 2
         \/ o.ec \in transport_error /\ o.k = 0 /\ link # "up"
  BY <1>1, TurnFacts DEF ReadSize
<1>3. /\ Keeps /\ StreamTypeOK' /\ pos' = pos + o.k /\ n' = 0
      /\ down' = down /\ link' = link
  BY <1>1, <1>2, TurnKeeps DEF TransferLast, args
<1>4. /\ buffer(o.k) \in Seq(Byte) /\ Len(buffer(o.k)) = n + o.k
      /\ \A i \in 1..(n + o.k) : buffer(o.k)[i] = down[(pos - n) + i]
  BY <1>1, <1>2, BufferFacts
<1> DEFINE V == validate_userpass_reply(buffer(o.k), o.ec)
<1>5. o.ec # no_error => Len(buffer(o.k)) < 2
  BY <1>1, <1>2, <1>4
<1>6. /\ V \in error_code /\ V # eof
      /\ failed(V) => V.cat = "socks"
      /\ ~failed(V) => /\ Len(buffer(o.k)) = 2
                       /\ buffer(o.k)[1] = 1 /\ buffer(o.k)[2] = 0
  BY <1>2, <1>4, <1>5, UserpassFacts
<1>7. e = V \/ (e = o.ec /\ o.ec \in transport_error \ {eof})
  BY <1>2, <1>6, ErrorFacts
     DEF userpass_result, sync_userpass_result, async_userpass_result
<1> HIDE DEF V
<1>8. /\ e \in error_code
      /\ failed(e) => e.cat = "socks" \/ (link # "up" /\ e # eof)
      /\ ~failed(e) => /\ n + o.k = 2
                       /\ buffer(o.k)[1] = 1 /\ buffer(o.k)[2] = 0
  BY <1>2, <1>4, <1>6, <1>7, ErrorFacts
<1>9. CASE failed(e)
  <2>1. Complete(e, no_endpoint)
    BY <1>9 DEF Proceed
  <2>2. no_endpoint \in endpoint
    BY NoEndpoint
  <2>3. TypeOK'
    BY <1>1, <1>3, <1>8, <2>1, <2>2 DEF TypeOK, Complete, args
  <2> QED
    BY <1>3, <1>8, <1>9, <2>1, <2>3, CompleteFails
<1>10. CASE ~failed(e)
  <2>1. pc' = "write_request" /\ ec' = ec /\ ep' = ep
    BY <1>10 DEF Proceed, GoTo
  <2>2. NegotiationRespected'
    BY <1>1, <1>3, KeepsDialogue
  <2>3. TypeOK'
    BY <1>1, <1>3, <2>1 DEF TypeOK, Writing, args
  <2>4. down[3] = 1 /\ down[4] = 0 /\ pos' = 4
    BY <1>1, <1>2, <1>3, <1>4, <1>8, <1>10
  <2>5. Negotiated(4)'
    BY <1>1, <1>3, <2>4 DEF Negotiated, UserpassChosen, args
  <2>6. StageInv'
    BY <1>1, <1>3, <2>1, <2>4, <2>5 DEF StageInv, Asked
  <2> QED
    BY <2>1, <2>2, <2>3, <2>6
       DEF ConnectInv, SuccessIsGenuine, NoStrayTransportError
<1> QED
  BY <1>9, <1>10

\* The read of the CONNECT reply and parse_reply_v5 keep ConnectInv: this is
\* the step that reports success.
LEMMA ReadReplyInv ==
    ASSUME ConnectInv, ReadReply
    PROVE  ConnectInv'
<1> DEFINE R(o) == reply_result(buffer(o.k), o.ec)
<1>1. PICK o \in Turn :
        ~More(o) /\ TransferLast(o) /\ Complete(R(o).ec, R(o).ep)
  BY DEF ReadReply
<1>2. /\ TypeOK /\ StreamTypeOK /\ StageInv /\ NegotiationRespected
      /\ pc \in Reading /\ pc = "read_reply" /\ n \in Nat /\ pos \in Nat
      /\ Len(down) \in Nat
  BY DEF ConnectInv, ReadReply, TypeOK, StreamTypeOK, Reading
<1>3. PICK b \in {2, 4} : Negotiated(b) /\ pos = b + n /\ n < 22
  BY <1>2 DEF StageInv
<1>4. /\ o.k \in Nat /\ pos + o.k <= Len(down)
      /\ \/ o.ec = no_error
         \/ o.ec \in transport_error /\ link # "up"
  BY <1>1, <1>2, TurnFacts
<1>5. UNCHANGED <<args, up, answers, app>>
  BY DEF ReadReply
<1>6. /\ Keeps /\ StreamTypeOK' /\ pos' = pos + o.k
      /\ down' = down /\ link' = link
  BY <1>1, <1>2, <1>4, <1>5, TurnKeeps DEF args
<1> DEFINE B == buffer(o.k)
           z == n + o.k
<1>7. /\ B \in Seq(Byte) /\ Len(B) = z
      /\ \A i \in 1..z : B[i] = down[b + i]
  <2>1. pos - n = b
    BY <1>2, <1>3
  <2>2. /\ B \in Seq(Byte) /\ Len(B) = z
        /\ \A i \in 1..z : B[i] = down[(pos - n) + i]
    BY <1>2, <1>4, BufferFacts
  <2> QED
    BY <2>1, <2>2
<1>8. ASSUME NEW i \in 1..z, NEW j \in 1..z
      PROVE  SubSeq(B, i, j) = SubSeq(down, b + i, b + j)
  <2>1. pos - n = b
    BY <1>2, <1>3
  <2>2. SubSeq(B, i, j) = SubSeq(down, (pos - n) + i, (pos - n) + j)
    BY <1>2, <1>4, BufferSubSeq
  <2> QED
    BY <2>1, <2>2
<1> HIDE DEF B
<1>9. no_endpoint \in endpoint
  BY NoEndpoint
<1>10. \/ R(o) = reply_error(o.ec) /\ o.ec \in transport_error \ {eof}
       \/ R(o) = reply_error(socks(bad_reply_size))
       \/ Len(B) \in {10, 22} /\ R(o) = parse_reply_v5(B)
  BY <1>4, ErrorFacts DEF reply_result, B
<1> HIDE DEF R
<1>11. NegotiationRespected'
  BY <1>2, <1>5, <1>6, KeepsDialogue
<1>12. StageInv'
  BY <1>1 DEF StageInv, Complete
<1>13. /\ R(o).ec \in error_code /\ R(o).ep \in endpoint
       /\ R(o).ec.cat = "socks" \/ (link # "up" /\ R(o).ec # eof)
       /\ ~failed(R(o).ec) =>
             /\ Len(B) \in {10, 22} /\ R(o) = parse_reply_v5(B)
  <2>1. CASE R(o) = reply_error(o.ec) /\ o.ec \in transport_error \ {eof}
    <3>1. R(o).ec = o.ec /\ R(o).ep = no_endpoint
      BY <2>1 DEF reply_error
    <3> QED
      BY <1>4, <1>9, <2>1, <3>1, ErrorFacts
  <2>2. CASE R(o) = reply_error(socks(bad_reply_size))
    <3>1. R(o).ec = socks(bad_reply_size) /\ R(o).ep = no_endpoint
      BY <2>2 DEF reply_error
    <3>2. bad_reply_size \in 160..166
      BY DEF bad_reply_size
    <3> QED
      BY <1>9, <3>1, <3>2, ErrorFacts, ClientErrors
  <2>3. CASE Len(B) \in {10, 22} /\ R(o) = parse_reply_v5(B)
    BY <1>7, <2>3, ParseFacts
  <2> QED
    BY <1>10, <2>1, <2>2, <2>3
<1>14. TypeOK'
  BY <1>1, <1>2, <1>5, <1>6, <1>13 DEF TypeOK, Complete, args
<1>15. NoStrayTransportError'
  BY <1>1, <1>6, <1>13 DEF NoStrayTransportError, Complete
<1>16. ASSUME ~failed(R(o).ec)
       PROVE  Negotiated(b)' /\ GrantedAfter(b)'
  <2>1. Negotiated(b)'
    BY <1>2, <1>3, <1>6, KeepsNegotiated
  <2>2. /\ z \in {10, 22} /\ B[1] = 5 /\ B[2] = 0
        /\ (z = 10 /\ B[4] = 1) \/ (z = 22 /\ B[4] = 4)
        /\ R(o).ep.addr = SubSeq(B, 5, z - 2)
        /\ R(o).ep.port = to_port(B[z - 1], B[z])
    BY <1>7, <1>13, <1>16, ParseFacts
  <2>3. pos' = b + z
    BY <1>2, <1>3, <1>4, <1>6
  <2>4. B[1] = down[b + 1] /\ B[2] = down[b + 2] /\ B[4] = down[b + 4]
    <3>1. 1 \in 1..z /\ 2 \in 1..z /\ 4 \in 1..z
      BY <2>2
    <3> QED
      BY <1>7, <3>1
  <2>5. B[z - 1] = down[b + z - 1] /\ B[z] = down[b + z]
    <3>1. z - 1 \in 1..z /\ z \in 1..z /\ b + (z - 1) = b + z - 1
      BY <2>2
    <3> QED
      BY <1>7, <3>1
  <2>6. SubSeq(B, 5, z - 2) = SubSeq(down, b + 5, b + z - 2)
    <3>1. 5 \in 1..z /\ z - 2 \in 1..z /\ b + (z - 2) = b + z - 2
      BY <2>2
    <3> QED
      BY <1>8, <3>1
  <2>7. ep' = R(o).ep
    BY <1>1 DEF Complete
  <2>8. /\ down' = down
        /\ (pos' = b + 10 /\ down[b + 4] = 1) \/ (pos' = b + 22 /\ down[b + 4] = 4)
        /\ down[b + 1] = 5 /\ down[b + 2] = 0
    BY <1>6, <2>2, <2>3, <2>4
  <2>9. /\ ep'.addr = SubSeq(down', b + 5, pos' - 2)
        /\ ep'.port = to_port(down'[pos' - 1], down'[pos'])
    <3>1. pos' - 2 = b + z - 2 /\ pos' - 1 = b + z - 1
      BY <2>2, <2>3
    <3> QED
      BY <3>1, <1>6, <2>2, <2>3, <2>5, <2>6, <2>7
  <2> QED
    BY <2>1, <2>8, <2>9 DEF GrantedAfter, socks_5, ip_v4, ip_v6
<1>17. SuccessIsGenuine'
  BY <1>1, <1>16 DEF SuccessIsGenuine, Complete
<1> QED
  BY <1>11, <1>12, <1>14, <1>15, <1>17 DEF ConnectInv

(***************************************************************************)
(* Steps of the environment.                                               *)
(***************************************************************************)
\* A step that leaves the operation alone, takes nothing from the stream and
\* only adds to it keeps the invariant.
LEMMA QuietStep ==
    ASSUME ConnectInv, TypeOK', UNCHANGED op_vars,
           pos' = pos, n' = n, link' = link \/ link = "up",
           NEW m \in Seq(Byte), down' = down \o m \/ down' = down
    PROVE  ConnectInv'
<1>1. /\ TypeOK /\ StageInv /\ NegotiationRespected /\ SuccessIsGenuine
      /\ NoStrayTransportError
  BY DEF ConnectInv
<1>2. /\ down \in Seq(Byte) /\ Len(down) \in Nat /\ pos \in Nat
      /\ pos <= Len(down) /\ n \in Nat
  BY <1>1 DEF TypeOK, StreamTypeOK
<1>3. /\ mode' = mode /\ opt' = opt /\ target' = target /\ pc' = pc
      /\ up' = up /\ ec' = ec /\ ep' = ep
  BY DEF op_vars, args
<1>4. \A i \in 1..pos : down'[i] = down[i]
  BY <1>2, ConcatProperties
<1>5. Keeps
  BY <1>2, <1>3, <1>4 DEF Keeps
<1>6. NegotiationRespected'
  BY <1>1, <1>3, <1>5, KeepsDialogue
<1>7. StageInv'
  <2>1. CASE pc \in {"write_greeting", "read_choice", "done"}
    BY <2>1, <1>1, <1>3 DEF StageInv
  <2>2. CASE pc \in {"write_userpass", "read_userpass"}
    <3>1. UserpassChosen'
      BY <2>2, <1>1, <1>5, KeepsUserpassChosen DEF StageInv
    <3> QED
      BY <2>2, <3>1, <1>1, <1>3 DEF StageInv
  <2>3. CASE pc = "write_request"
    <3>1. PICK b \in {2, 4} :
             Negotiated(b) /\ pos = b /\ n = 0 /\ Len(up) = Asked(b)
      BY <2>3, <1>1 DEF StageInv
    <3>2. Negotiated(b)'
      BY <3>1, <1>1, <1>5, KeepsNegotiated
    <3> QED
      BY <2>3, <3>1, <3>2, <1>3 DEF StageInv, Asked
  <2>4. CASE pc = "read_reply"
    <3>1. PICK b \in {2, 4} : /\ Negotiated(b) /\ pos = b + n /\ n < 22
                              /\ Len(up) = Asked(b) + 1
      BY <2>4, <1>1 DEF StageInv
    <3>2. Negotiated(b)'
      BY <3>1, <1>1, <1>5, KeepsNegotiated
    <3> QED
      BY <2>4, <3>1, <3>2, <1>3 DEF StageInv, Asked
  <2> QED
    BY <1>1, <2>1, <2>2, <2>3, <2>4 DEF TypeOK, Reading, Writing
<1>8. ASSUME pc = "done", ~failed(ec)
      PROVE  \E b \in {2, 4} : Negotiated(b)' /\ GrantedAfter(b)'
  <2>1. PICK b \in {2, 4} : Negotiated(b) /\ GrantedAfter(b)
    BY <1>1, <1>8 DEF SuccessIsGenuine
  <2>2. Negotiated(b)'
    BY <2>1, <1>1, <1>5, KeepsNegotiated
  <2>3. pos \in {b + 10, b + 22}
    BY <2>1 DEF GrantedAfter
  <2>4. /\ down'[b + 1] = down[b + 1] /\ down'[b + 2] = down[b + 2]
        /\ down'[b + 4] = down[b + 4]
        /\ down'[pos - 1] = down[pos - 1] /\ down'[pos] = down[pos]
    BY <1>2, <1>4, <2>3
  <2>5. SubSeq(down', b + 5, pos - 2) = SubSeq(down, b + 5, pos - 2)
    <3>1. b + 5 \in 1..Len(down) /\ pos - 2 \in 1..Len(down)
      BY <1>2, <2>3
    <3>2. SubSeq(down \o m, b + 5, pos - 2) = SubSeq(down, b + 5, pos - 2)
      BY <1>2, <3>1, SubSeqOfConcat1
    <3> QED
      BY <3>2
  <2>6. GrantedAfter(b)'
    BY <1>3, <2>1, <2>4, <2>5 DEF GrantedAfter
  <2> QED
    BY <2>2, <2>6
<1>9. SuccessIsGenuine'
  BY <1>3, <1>8 DEF SuccessIsGenuine
<1>10. NoStrayTransportError'
  BY <1>1, <1>3 DEF NoStrayTransportError
<1> QED
  BY <1>6, <1>7, <1>9, <1>10 DEF ConnectInv

\* The loss of the connection keeps ConnectInv.
LEMMA LinkBecomesInv ==
    ASSUME ConnectInv, NEW l \in {"shut", "reset", "closed"},
           LinkBecomes(l), UNCHANGED <<op_vars, answers, app>>
    PROVE  ConnectInv'
<1>1. /\ link = "up" /\ link' = l /\ down' = down /\ pos' = pos /\ n' = n
      /\ stream_ec' = stream_ec
  BY DEF LinkBecomes
<1>2. TypeOK'
  BY <1>1 DEF ConnectInv, TypeOK, StreamTypeOK, op_vars, args
<1>3. <<>> \in Seq(Byte)
  OBVIOUS
<1> QED
  BY <1>1, <1>2, <1>3, QuietStep

\* More bytes from the peer keep ConnectInv.
LEMMA PeerSendsInv ==
    ASSUME ConnectInv, NEW m \in Seq(Byte), PeerSends(m), UNCHANGED op_vars,
           answers' \in Seq(Seq(Byte)), app' \in 0..MaxApp
    PROVE  ConnectInv'
<1>1. /\ link' = link /\ down' = down \o m /\ pos' = pos /\ n' = n
      /\ stream_ec' = stream_ec
  BY DEF PeerSends
<1>2. /\ down \in Seq(Byte) /\ Len(down) \in Nat /\ pos \in 0..Len(down)
  BY DEF ConnectInv, TypeOK, StreamTypeOK
<1>3. down' \in Seq(Byte) /\ Len(down') = Len(down) + Len(m)
  BY <1>1, <1>2, ConcatProperties
<1>4. pos' \in 0..Len(down')
  BY <1>1, <1>2, <1>3
<1>5. TypeOK'
  BY <1>1, <1>3, <1>4
     DEF ConnectInv, TypeOK, StreamTypeOK, op_vars, args
<1> QED
  BY <1>1, <1>5, QuietStep

\* Every step of the environment keeps ConnectInv.
LEMMA EnvironmentInv ==
    ASSUME ConnectInv, Environment
    PROVE  ConnectInv'
<1>1. /\ answers \in Seq(Seq(Byte)) /\ app \in 0..MaxApp
      /\ up \in Seq([kind : Kind, bytes : Seq(Byte)]) /\ MaxApp \in Nat
  BY ConnectAssumption DEF ConnectInv, TypeOK
<1>2. CASE PeerAnswers
  <2>1. PICK m \in Answers[up[Len(up)].kind] :
           PeerSends(m) /\ answers' = Append(answers, m)
    BY <1>2 DEF PeerAnswers
  <2>2. Len(up) \in 1..Len(up)
    BY <1>1, <1>2 DEF PeerAnswers
  <2>3. up[Len(up)].kind \in Kind
    <3>1. up[Len(up)] \in [kind : Kind, bytes : Seq(Byte)]
      BY <1>1, <2>2, ElementOfSeq
    <3> QED
      BY <3>1
  <2>4. m \in Seq(Byte)
    BY <2>1, <2>3, ConnectAssumption
  <2>5. answers' \in Seq(Seq(Byte))
    BY <1>1, <2>1, <2>4, AppendProperties
  <2> QED
    BY <1>1, <1>2, <2>1, <2>4, <2>5, PeerSendsInv DEF PeerAnswers
<1>3. CASE TargetSpeaks
  <2>1. PICK d \in AppData : PeerSends(d)
    BY <1>3 DEF TargetSpeaks
  <2>2. d \in Seq(Byte)
    BY ConnectAssumption
  <2>3. app' \in 0..MaxApp
    BY <1>1, <1>3 DEF TargetSpeaks
  <2> QED
    BY <1>1, <1>3, <2>1, <2>2, <2>3, PeerSendsInv DEF TargetSpeaks
<1>4. CASE PeerShutsDown
  BY <1>4, LinkBecomesInv DEF PeerShutsDown
<1>5. CASE PeerResets
  BY <1>5, LinkBecomesInv DEF PeerResets
<1>6. CASE ApplicationCloses
  BY <1>6, LinkBecomesInv DEF ApplicationCloses
<1> QED
  BY <1>2, <1>3, <1>4, <1>5, <1>6 DEF Environment

(***************************************************************************)
(* The theorems.                                                           *)
(***************************************************************************)
\* Every step of the operation and of its environment keeps ConnectInv.
THEOREM NextConnectInv == ConnectInv /\ [Next]_vars => ConnectInv'
<1> SUFFICES ASSUME ConnectInv, [Next]_vars PROVE ConnectInv'
  OBVIOUS
<1>1. CASE WriteGreeting
  BY <1>1, WriteGreetingInv
<1>2. CASE ReadChoice
  BY <1>2, ReadChoiceInv
<1>3. CASE WriteUserpass
  BY <1>3, WriteUserpassInv
<1>4. CASE ReadUserpassReply
  BY <1>4, UserpassReplyInv DEF ReadUserpassReply
<1>5. CASE WriteRequest
  BY <1>5, WriteRequestInv
<1>6. CASE ReadReply
  BY <1>6, ReadReplyInv
<1>7. CASE KeepReading
  BY <1>7, KeepReadingInv
<1>8. CASE Environment
  BY <1>8, EnvironmentInv
<1>9. CASE UNCHANGED vars
  <2>1. TypeOK'
    BY <1>9 DEF vars, stream_vars, args, ConnectInv, TypeOK, StreamTypeOK
  <2>2. <<>> \in Seq(Byte)
    OBVIOUS
  <2> QED
    BY <1>9, <2>1, <2>2, QuietStep DEF vars, stream_vars, op_vars
<1> QED
  BY <1>1, <1>2, <1>3, <1>4, <1>5, <1>6, <1>7, <1>8, <1>9
     DEF Next, Operation, connect, connect_op, authenticate,
         write_connect_request, read_connect_reply

\* ConnectInv holds in every reachable state.
THEOREM ConnectInvariance == Spec => []ConnectInv
<1>1. Init => ConnectInv
  BY InitConnectInv
<1>2. ConnectInv /\ [Next]_vars => ConnectInv'
  BY NextConnectInv
<1> QED
  BY <1>1, <1>2, PTL DEF Spec

\* The state of a connect operation is always well typed.
THEOREM TypeCorrect == Spec => []TypeOK
<1>1. ConnectInv => TypeOK
  BY DEF ConnectInv
<1> QED
  BY <1>1, ConnectInvariance, PTL

\* Whatever the peer sends and however it is cut into segments, success is
\* reported only after a genuine negotiation and a granting reply, of which
\* exactly the bytes were read.
THEOREM SuccessGenuine == Spec => []SuccessIsGenuine
<1>1. ConnectInv => SuccessIsGenuine
  BY DEF ConnectInv
<1> QED
  BY <1>1, ConnectInvariance, PTL

\* The credentials and the request leave the client only when the
\* negotiation permits it.
THEOREM DialogueLegal == Spec => []NegotiationRespected
<1>1. ConnectInv => NegotiationRespected
  BY DEF ConnectInv
<1> QED
  BY <1>1, ConnectInvariance, PTL

\* The caller never sees an end of file, and no transport error from a
\* stream that works.
THEOREM NoStrayError == Spec => []NoStrayTransportError
<1>1. ConnectInv => NoStrayTransportError
  BY DEF ConnectInv
<1> QED
  BY <1>1, ConnectInvariance, PTL

\* At every stage the offset into the peer's bytes is the one the messages
\* written so far account for.
THEOREM StageKept == Spec => []StageInv
<1>1. ConnectInv => StageInv
  BY DEF ConnectInv
<1> QED
  BY <1>1, ConnectInvariance, PTL

(***************************************************************************)
(* What the caller is told.  OutcomeInv is inductive beside ConnectInv: it *)
(* keeps account of which answer each byte of the peer belongs to, for as  *)
(* long as nothing but answers was sent.                                   *)
(***************************************************************************)
RequestWritten == up # <<>> /\ up[Len(up)].kind = "request"

\* All answers so far had the two bytes of an answer before the reply.
AllTwo == \A i \in 1..Len(answers) : Len(answers[i]) = 2

\* Where the last answer starts, when those before it had two bytes each.
Before == 2 * (Len(answers) - 1)

\* The last answer is the end of what the peer has sent.  An operation that
\* is done with its reply outstanding gets none any more, because it has
\* seen the end of the stream.
AccountInv ==
    /\ answers = <<>> => down = <<>>
    /\ app # 0 => Answered
    /\ app = 0 /\ answers # <<>> /\ Aligned =>
          /\ Len(down) = Before + Len(Reply)
          /\ \A i \in 1..Len(Reply) : down[Before + i] = Reply[i]
    /\ /\ pc = "done" /\ RequestWritten /\ Len(answers) < Len(up)
       /\ AllTwo /\ stream_ec \in {no_error, eof}
       => link # "up"

OutcomeInv ==
    /\ TransportErrorKept
    /\ AccountInv
    /\ ReplyReportedAlone

\* Before the reply is awaited the request was not written: a message of its
\* kind is the last one, and the stage says how many there are.
LEMMA NoRequestYet ==
    ASSUME ConnectInv, pc \notin {"read_reply", "done"}
    PROVE  /\ ~RequestWritten
           /\ pc = "read_userpass" => Len(up) = 2 /\ up[2].kind = "userpass"
<1>1. /\ TypeOK /\ StageInv /\ NegotiationRespected
      /\ up \in Seq([kind : Kind, bytes : Seq(Byte)])
      /\ Len(up) \in Nat /\ DOMAIN up = 1..Len(up)
  BY DEF ConnectInv, TypeOK
<1>2. ASSUME NEW i \in 1..Len(up), up[i].kind = "request"
      PROVE  FALSE
  <2>1. PICK c \in {2, 4} : Negotiated(c) /\ i = 1 + c \div 2
    BY <1>1, <1>2 DEF NegotiationRespected
  <2>2. i = Len(up) /\ i >= 2
    <3>1. i = Len(up)
      BY <1>1, <1>2, Zenon DEF NegotiationRespected
    <3>2. i = 2 \/ i = 3
      BY <2>1
    <3> QED
      BY <3>1, <3>2
  <2>3. CASE pc \in {"write_greeting", "read_choice", "write_userpass"}
    <3>1. Len(up) = 0 \/ Len(up) = 1
      BY <1>1, <2>3 DEF StageInv
    <3> QED
      BY <2>2, <3>1
  <2>4. CASE pc = "read_userpass"
    <3>1. Len(up) = 2 /\ down[2] = auth_userpass
      BY <1>1, <2>4 DEF StageInv, UserpassChosen
    <3>2. c = 2
      BY <2>1, <2>2, <3>1
    <3> QED
      BY <2>1, <3>1, <3>2 DEF Negotiated, auth_userpass, no_authentication
  <2>5. CASE pc = "write_request"
    <3>1. PICK b \in {2, 4} : Negotiated(b) /\ Len(up) = Asked(b)
      BY <1>1, <2>5 DEF StageInv
    <3>2. b = 4 /\ c = 2
      BY <2>1, <2>2, <3>1 DEF Asked
    <3> QED
      BY <2>1, <3>1, <3>2 DEF Negotiated, auth_userpass, no_authentication
  <2> QED
    BY <1>1, <2>3, <2>4, <2>5 DEF TypeOK, Reading, Writing
<1>3. ~RequestWritten
  <2>1. up # <<>> => Len(up) \in 1..Len(up)
    BY <1>1
  <2> QED
    BY <1>2, <2>1 DEF RequestWritten
<1>4. ASSUME pc = "read_userpass"
      PROVE  Len(up) = 2 /\ up[2].kind = "userpass"
  <2>1. Len(up) = 2
    BY <1>1, <1>4 DEF StageInv
  <2>2. 2 \in DOMAIN up /\ 2 \in 1..Len(up)
    BY <1>1, <2>1
  <2>3. up[2].kind \in Kind
    <3>1. up[2] \in [kind : Kind, bytes : Seq(Byte)]
      BY <1>1, <2>2, ElementOfSeq
    <3> QED
      BY <3>1
  <2>4. up[2].kind # "greeting" /\ up[2].kind # "request"
    <3>1. (2 = 1) = (up[2].kind = "greeting")
      BY <1>1, <2>2, Zenon DEF NegotiationRespected
    <3> QED
      BY <1>2, <2>2, <3>1
  <2> QED
    BY <2>1, <2>3, <2>4 DEF Kind
<1> QED
  BY <1>3, <1>4

\* What a step of the operation may do to what its caller and its peer see.
\* If it completes it writes nothing, reports the error of a stream that
\* failed (but for the asynchronous userpass reply), and an endpoint only
\* with a success, which comes only from the reply.
OperationStep ==
    /\ pc # "done"
    /\ down' = down /\ link' = link /\ mode' = mode
    /\ answers' = answers /\ app' = app
    /\ pc' # "done" => ec' = ec /\ ep' = ep
    /\ pc' = "done" =>
          /\ up' = up
          /\ \/ stream_ec' \in {no_error, eof}
             \/ ec' = stream_ec'
             \/ /\ pc = "read_userpass" /\ mode = "async"
                /\ ec' = socks(bad_reply_size)
          /\ failed(ec') => ep' = no_endpoint
          /\ ~failed(ec') => pc = "read_reply" /\ ec'.cat = "socks"
    /\ pc = "read_reply" => pc' \in {"read_reply", "done"} /\ up' = up
    /\ pc' = "read_reply" => pc \in {"write_request", "read_reply"}

\* The three writes are such steps.
LEMMA WriteStep ==
    ASSUME ConnectInv, NEW kind, NEW bytes, NEW label \in Reading,
           WriteMessage(kind, bytes, label),
           pc \in Writing, label = "read_reply" => pc = "write_request"
    PROVE  OperationStep
<1>1. PICK e \in write_results :
         /\ Write(e)
         /\ up' = IF failed(e) THEN up
                  ELSE Append(up, [kind |-> kind, bytes |-> bytes])
         /\ Proceed(e, label)
         /\ UNCHANGED <<args, answers, app>>
  BY DEF WriteMessage
<1>2. down' = down /\ link' = link /\ stream_ec' = e /\ mode' = mode
  BY <1>1 DEF Write, args
<1>3. pc # "done" /\ pc # "read_reply" /\ label # "done"
  BY DEF Writing, Reading
<1>4. CASE failed(e)
  <2>1. pc' = "done" /\ ec' = e /\ ep' = no_endpoint /\ up' = up
    BY <1>1, <1>4 DEF Proceed, Complete
  <2> QED
    BY <1>1, <1>2, <1>3, <1>4, <2>1 DEF OperationStep
<1>5. CASE ~failed(e)
  <2>1. pc' = label /\ ec' = ec /\ ep' = ep
    BY <1>1, <1>5 DEF Proceed, GoTo
  <2> QED
    BY <1>1, <1>2, <1>3, <2>1 DEF OperationStep
<1> QED
  BY <1>4, <1>5

\* So is the end of the read of the server's choice ...
LEMMA ReadChoiceStep ==
    ASSUME ConnectInv, ReadChoice
    PROVE  OperationStep
<1> DEFINE R(o) == choice_result(buffer(o.k), o.ec)
<1>1. PICK o \in Turn :
        /\ ~More(o) /\ TransferLast(o)
        /\ IF failed(R(o)) THEN Complete(R(o), no_endpoint)
                           ELSE GoTo(after_choice(buffer(o.k)))
  BY DEF ReadChoice
<1>2. /\ pc = "read_choice" /\ mode' = mode /\ up' = up
      /\ answers' = answers /\ app' = app
      /\ down' = down /\ link' = link /\ stream_ec' = o.ec
  BY <1>1 DEF ReadChoice, TransferLast, args
<1>3. CASE failed(R(o))
  <2>1. pc' = "done" /\ ec' = R(o) /\ ep' = no_endpoint
    BY <1>1, <1>3 DEF Complete
  <2>2. \/ o.ec \in {no_error, eof}
        \/ R(o) = o.ec
    <3>1. TypeOK /\ StageInv /\ pc \in Reading
      BY <1>2 DEF ConnectInv, Reading
    <3>2. o.ec \in {no_error} \cup transport_error
      BY <1>1, <3>1, TurnFacts
    <3> QED
      BY <3>2, ErrorFacts DEF choice_result
  <2> HIDE DEF R
  <2> QED
    BY <1>2, <1>3, <2>1, <2>2 DEF OperationStep
<1>4. CASE ~failed(R(o))
  <2>1. pc' \in {"write_userpass", "write_request"} /\ ec' = ec /\ ep' = ep
    BY <1>1, <1>4 DEF GoTo, after_choice
  <2> QED
    BY <1>2, <2>1 DEF OperationStep
<1> QED
  BY <1>3, <1>4

\* ... of the reply to the credentials ...
LEMMA ReadUserpassStep ==
    ASSUME ConnectInv, ReadUserpassReply
    PROVE  OperationStep
<1> DEFINE R(o) == userpass_result(buffer(o.k), o.ec)
<1>1. PICK o \in Turn :
        ~More(o) /\ TransferLast(o) /\ Proceed(R(o), "write_request")
  BY DEF ReadUserpassReply
<1>2. /\ pc = "read_userpass" /\ mode' = mode /\ up' = up
      /\ answers' = answers /\ app' = app
      /\ down' = down /\ link' = link /\ stream_ec' = o.ec
  BY <1>1 DEF ReadUserpassReply, TransferLast, args
<1>3. CASE failed(R(o))
  <2>1. pc' = "done" /\ ec' = R(o) /\ ep' = no_endpoint
    BY <1>1, <1>3 DEF Proceed, Complete
  <2>2. /\ TypeOK /\ StreamTypeOK /\ StageInv /\ pc \in Reading
        /\ n \in Nat /\ n < 2 /\ mode \in {"sync", "async"}
    BY <1>2, ConnectAssumption
       DEF ConnectInv, TypeOK, StreamTypeOK, Reading, StageInv
  <2>3. /\ o.k \in Nat /\ pos + o.k <= Len(down)
        /\ \/ o.ec = no_error
           \/ o.ec \in transport_error /\ o.k = 0
    BY <1>1, <2>2, TurnFacts
  <2>4. Len(buffer(o.k)) = n + o.k
    BY <2>2, <2>3, BufferFacts
  <2>5. ASSUME o.ec \notin {no_error, eof}
        PROVE  \/ R(o) = o.ec
               \/ mode = "async" /\ R(o) = socks(bad_reply_size)
    <3>1. o.ec \in transport_error /\ failed(o.ec) /\ Len(buffer(o.k)) # 2
      BY <2>2, <2>3, <2>4, <2>5, ErrorFacts
    <3>2. CASE mode = "sync"
      BY <2>5, <3>1, <3>2 DEF userpass_result, sync_userpass_result
    <3>3. CASE mode = "async"
      <4>1. validate_userpass_reply(buffer(o.k), o.ec) = socks(bad_reply_size)
        BY <3>1 DEF validate_userpass_reply
      <4>2. socks(bad_reply_size) # eof
        BY DEF socks, eof
      <4> QED
        BY <3>3, <4>1, <4>2 DEF userpass_result, async_userpass_result
    <3> QED
      BY <2>2, <3>2, <3>3
  <2> HIDE DEF R
  <2> QED
    BY <1>2, <1>3, <2>1, <2>5 DEF OperationStep
<1>4. CASE ~failed(R(o))
  <2>1. pc' = "write_request" /\ ec' = ec /\ ep' = ep
    BY <1>1, <1>4 DEF Proceed, GoTo
  <2> QED
    BY <1>2, <2>1 DEF OperationStep
<1> QED
  BY <1>3, <1>4

\* ... and of the reply to the request.
LEMMA ReadReplyStep ==
    ASSUME ConnectInv, ReadReply
    PROVE  OperationStep
<1> DEFINE B(o) == buffer(o.k)
           R(o) == reply_result(B(o), o.ec)
<1>1. PICK o \in Turn :
        ~More(o) /\ TransferLast(o) /\ Complete(R(o).ec, R(o).ep)
  BY DEF ReadReply
<1>2. /\ pc = "read_reply" /\ mode' = mode /\ up' = up
      /\ answers' = answers /\ app' = app
      /\ down' = down /\ link' = link /\ stream_ec' = o.ec
      /\ pc' = "done" /\ ec' = R(o).ec /\ ep' = R(o).ep
  BY <1>1 DEF ReadReply, TransferLast, Complete, args
<1>3. TypeOK /\ StreamTypeOK /\ StageInv /\ pc \in Reading
  BY <1>2 DEF ConnectInv, TypeOK, Reading
<1>4. /\ o.k \in Nat /\ pos + o.k <= Len(down)
      /\ o.ec \in {no_error} \cup transport_error
  BY <1>1, <1>3, TurnFacts
<1>5. B(o) \in Seq(Byte)
  BY <1>3, <1>4, BufferFacts
<1> HIDE DEF B
<1>6. \/ failed(o.ec) /\ R(o) = reply_error(o.ec)
      \/ o.ec \in {no_error, eof} /\ R(o) = reply_error(socks(bad_reply_size))
      \/ /\ o.ec \in {no_error, eof} /\ R(o) = parse_reply_v5(B(o))
         /\ Len(B(o)) \in {10, 22}
  BY <1>4, ErrorFacts DEF reply_result
<1> HIDE DEF R
<1>7. CASE failed(o.ec) /\ R(o) = reply_error(o.ec)
  BY <1>2, <1>7 DEF OperationStep, reply_error
<1>8. CASE o.ec \in {no_error, eof} /\ R(o) = reply_error(socks(bad_reply_size))
  <2>1. R(o).ep = no_endpoint /\ R(o).ec.cat = "socks"
    BY <1>8 DEF reply_error, socks
  <2> QED
    BY <1>2, <1>8, <2>1 DEF OperationStep
<1>9. CASE /\ o.ec \in {no_error, eof} /\ R(o) = parse_reply_v5(B(o))
           /\ Len(B(o)) \in {10, 22}
  <2>1. /\ failed(R(o).ec) => R(o).ep = no_endpoint
        /\ R(o).ec.cat = "socks"
    BY <1>5, <1>9, ParseFacts
  <2> QED
    BY <1>2, <1>9, <2>1 DEF OperationStep
<1> QED
  BY <1>6, <1>7, <1>8, <1>9

\* Every step of connect and of connect_op is such a step.
LEMMA OperationSteps ==
    ASSUME ConnectInv, Operation
    PROVE  OperationStep
<1>1. CASE WriteGreeting
  BY <1>1, WriteStep DEF WriteGreeting, Reading, Writing
<1>2. CASE ReadChoice
  BY <1>2, ReadChoiceStep
<1>3. CASE WriteUserpass
  BY <1>3, WriteStep DEF WriteUserpass, Reading, Writing
<1>4. CASE ReadUserpassReply
  BY <1>4, ReadUserpassStep
<1>5. CASE WriteRequest
  BY <1>5, WriteStep DEF WriteRequest, Reading, Writing
<1>6. CASE ReadReply
  BY <1>6, ReadReplyStep
<1>7. CASE KeepReading
  BY <1>7 DEF KeepReading, Transfer, OperationStep, Reading, args
<1> QED
  BY <1>1, <1>2, <1>3, <1>4, <1>5, <1>6, <1>7
     DEF Operation, connect, connect_op, authenticate,
         write_connect_request, read_connect_reply

\* The verdict of a reply that can be read, when nothing but the answers was
\* sent: the bytes read are the reply, or those of it that carry the verdict.
LEMMA VerdictRead ==
    ASSUME ConnectInv, OutcomeInv, ReadReply, app = 0, ReadableReply,
           stream_ec' \in {no_error, eof}
    PROVE  ec' = socks(to_reply_code(Reply[2]))
<1> DEFINE B(o) == buffer(o.k)
           R(o) == reply_result(B(o), o.ec)
<1>1. PICK o \in Turn :
        ~More(o) /\ TransferLast(o) /\ Complete(R(o).ec, R(o).ep)
  BY DEF ReadReply
<1>2. pc = "read_reply" /\ o.ec \in {no_error, eof} /\ ec' = R(o).ec
  BY <1>1 DEF ReadReply, TransferLast, Complete
<1>3. /\ TypeOK /\ StreamTypeOK /\ StageInv /\ pc \in Reading
      /\ n \in Nat /\ pos \in Nat /\ Len(down) \in Nat
      /\ answers \in Seq(Seq(Byte)) /\ Len(answers) \in Nat
      /\ Len(up) = Len(answers) /\ answers # <<>>
  BY <1>2 DEF ConnectInv, TypeOK, StreamTypeOK, Reading, ReadableReply,
              Answered
<1>4. PICK b \in {2, 4} : pos = b + n /\ n < 22 /\ Len(up) = Asked(b) + 1
  BY <1>2, <1>3 DEF StageInv
<1>5. Before = b
  <2>1. Asked(b) \in Nat /\ 2 * Asked(b) = b
    <3>1. CASE b = 2
      BY <3>1 DEF Asked
    <3>2. CASE b = 4
      BY <3>2 DEF Asked
    <3> QED
      BY <1>4, <3>1, <3>2
  <2>2. Len(answers) - 1 = Asked(b)
    BY <1>3, <1>4, <2>1
  <2> QED
    BY <2>1, <2>2 DEF Before
<1>6. /\ Len(down) = b + Len(Reply)
      /\ \A i \in 1..Len(Reply) : down[b + i] = Reply[i]
  BY <1>3, <1>5 DEF OutcomeInv, AccountInv, ReadableReply
<1>7. /\ o.k \in Nat /\ pos + o.k <= Len(down) /\ n + o.k <= 22
      /\ o.ec = no_error => \/ n + o.k = 22
                            \/ /\ n + o.k = 10
                               /\ to_address_type(B(o)[4]) = ip_v4
      /\ o.ec = eof => pos = Len(down) /\ o.k = 0
  <2>1. no_error # eof
    BY DEF no_error, eof
  <2> QED
    BY <1>1, <1>2, <1>3, <2>1, TurnFacts DEF ReadSize
<1>8. /\ B(o) \in Seq(Byte) /\ Len(B(o)) = n + o.k
      /\ \A i \in 1..(n + o.k) : B(o)[i] = down[b + i]
  <2>1. /\ B(o) \in Seq(Byte) /\ Len(B(o)) = n + o.k
        /\ \A i \in 1..(n + o.k) : B(o)[i] = down[(pos - n) + i]
    BY <1>3, <1>7, BufferFacts
  <2>2. pos - n = b
    BY <1>3, <1>4
  <2> QED
    BY <2>1, <2>2
<1> HIDE DEF B
<1> DEFINE z == n + o.k
<1>9. /\ Len(Reply) \in {10, 22} /\ Reply[1] = 5
      /\ Reply[2] = 0 => \/ Len(Reply) = 10 /\ Reply[4] = 1
                         \/ Len(Reply) = 22 /\ Reply[4] = 4
  BY DEF ReadableReply, socks_5, ip_v4, ip_v6
<1>10. z \in {10, 22} /\ z <= Len(Reply)
  <2> DEFINE y == Len(Reply)
  <2>4. /\ Len(down) = b + y /\ pos = b + n /\ b \in Nat
        /\ o.k \in Nat /\ n \in Nat
        /\ pos + o.k <= Len(down)
        /\ o.ec = eof => pos = Len(down) /\ o.k = 0
    BY <1>3, <1>4, <1>6, <1>7
  <2>5. y \in Nat /\ y \in {10, 22}
    BY <1>9
  <2> HIDE DEF y
  <2>1. z <= y /\ z \in Nat
    BY <2>4, <2>5
  <2>2. CASE o.ec = no_error
    BY <1>7, <2>1, <2>2 DEF y
  <2>3. CASE o.ec = eof
    <3>1. z = y
      BY <2>3, <2>4, <2>5
    <3>2. z \in {10, 22} /\ z <= y
      BY <2>5, <3>1
    <3> QED
      BY <3>2 DEF y
  <2> QED
    BY <1>2, <2>1, <2>2, <2>3 DEF y
<1>11. \A i \in 1..10 : B(o)[i] = Reply[i]
  <2>1. \A i \in 1..10 : i \in 1..z /\ i \in 1..Len(Reply)
    BY <1>9, <1>10
  <2> QED
    BY <1>6, <1>8, <2>1
<1>12. B(o)[1] = 5 /\ B(o)[2] = Reply[2] /\ B(o)[4] = Reply[4]
  BY <1>9, <1>11
<1>13. Reply[2] = 0 => (z = 10 /\ Reply[4] = 1) \/ (z = 22 /\ Reply[4] = 4)
  <2>1. to_address_type(4) # ip_v4
    BY DEF to_address_type, ip_v4, ip_v6, domain_name
  <2>2. CASE Len(Reply) = 10
    BY <1>9, <1>10, <2>2
  <2>3. CASE Len(Reply) = 22 /\ z = 10 /\ o.ec = no_error
    BY <1>7, <1>9, <1>12, <2>1, <2>3
  <2>4. CASE Len(Reply) = 22 /\ z = 10 /\ o.ec = eof
    BY <1>3, <1>4, <1>6, <1>7, <2>4
  <2>5. CASE Len(Reply) = 22 /\ z = 22
    BY <1>9, <2>5
  <2> QED
    BY <1>2, <1>9, <1>10, <2>2, <2>3, <2>4, <2>5
<1>14. R(o) = parse_reply_v5(B(o))
  <2>1. ~(failed(o.ec) /\ o.ec # eof)
    BY <1>2, ErrorFacts
  <2> QED
    BY <1>8, <1>10, <2>1 DEF reply_result
<1>15. Len(B(o)) \in {10, 22} /\ Len(B(o)) = z
  BY <1>8, <1>10
<1> HIDE DEF R, z
<1>16. parse_reply_v5(B(o)).ec = socks(to_reply_code(B(o)[2]))
  BY <1>8, <1>12, <1>13, <1>15, ParseFacts
<1> QED
  BY <1>2, <1>12, <1>14, <1>16

\* An operation that has read a whole reply although it was not answered has
\* read bytes that no answer of two bytes accounts for.
LEMMA UnansweredRead ==
    ASSUME ConnectInv, OutcomeInv, ReadReply, AllTwo,
           Len(answers) < Len(up), stream_ec' \in {no_error, eof}
    PROVE  link # "up"
<1>1. PICK o \in Turn : ~More(o) /\ TransferLast(o)
  BY DEF ReadReply
<1>2. pc = "read_reply" /\ o.ec \in {no_error, eof}
  BY <1>1 DEF ReadReply, TransferLast
<1>3. /\ TypeOK /\ StreamTypeOK /\ StageInv /\ pc \in Reading
      /\ n \in Nat /\ pos \in Nat /\ Len(down) \in Nat
      /\ answers \in Seq(Seq(Byte)) /\ Len(answers) \in Nat
      /\ Len(up) \in Nat
  BY <1>2 DEF ConnectInv, TypeOK, StreamTypeOK, Reading
<1>4. PICK b \in {2, 4} : pos = b + n /\ Len(up) = Asked(b) + 1
  BY <1>2, <1>3 DEF StageInv
<1>5. /\ o.k \in Nat /\ pos + o.k <= Len(down)
      /\ o.ec = no_error => n + o.k >= 10
      /\ o.ec = eof => link # "up"
  <2>1. no_error # eof
    BY DEF no_error, eof
  <2> QED
    BY <1>1, <1>2, <1>3, <2>1, TurnFacts DEF ReadSize
<1>6. ASSUME o.ec = no_error PROVE FALSE
  <2>1. Len(down) >= b + 10
    BY <1>3, <1>4, <1>5, <1>6
  <2>2. app = 0
    BY <1>3 DEF OutcomeInv, AccountInv, Answered
  <2>3. answers # <<>>
    BY <2>1 DEF OutcomeInv, AccountInv
  <2>4. Aligned /\ Len(Reply) = 2
    BY <1>3, <2>3 DEF AllTwo, Aligned, Reply
  <2>5. Len(down) = Before + 2
    BY <2>2, <2>3, <2>4 DEF OutcomeInv, AccountInv
  <2>6. Len(down) = 2 * Len(answers)
    BY <1>3, <2>5 DEF Before
  <2>7. 2 * Len(answers) <= b
    BY <1>3, <1>4 DEF Asked
  <2> QED
    BY <1>3, <2>1, <2>6, <2>7
<1> QED
  BY <1>2, <1>5, <1>6

\* A step of the operation keeps OutcomeInv.
LEMMA OperationOutcome ==
    ASSUME ConnectInv, OutcomeInv, Operation
    PROVE  OutcomeInv'
<1>1. OperationStep
  BY OperationSteps
<1>2. /\ pc # "done" /\ down' = down /\ link' = link /\ mode' = mode
      /\ answers' = answers /\ app' = app
  BY <1>1 DEF OperationStep
<1>3. app # 0 => Answered'
  <2>1. app # 0 => Answered
    BY DEF OutcomeInv, AccountInv
  <2>2. CASE pc = "read_reply"
    <3>1. up' = up
      BY <1>1, <2>2 DEF OperationStep
    <3> QED
      BY <1>2, <2>1, <3>1 DEF Answered
  <2>3. CASE pc # "read_reply"
    BY <1>2, <2>1, <2>3, NoRequestYet DEF Answered, RequestWritten
  <2> QED
    BY <2>2, <2>3
<1>4. /\ answers' = <<>> => down' = <<>>
      /\ app' # 0 => Answered'
      /\ app' = 0 /\ answers' # <<>> /\ Aligned' =>
            /\ Len(down') = Before' + Len(Reply')
            /\ \A i \in 1..Len(Reply') : down'[Before' + i] = Reply'[i]
  <2>1. (Aligned' <=> Aligned) /\ Before' = Before /\ Reply' = Reply
    BY <1>2 DEF Aligned, Before, Reply
  <2> QED
    BY <1>2, <1>3, <2>1 DEF OutcomeInv, AccountInv
<1>5. CASE pc' # "done"
  BY <1>4, <1>5 DEF OutcomeInv, TransportErrorKept, AccountInv,
                    ReplyReportedAlone, ReplyReported
<1>6. CASE pc' = "done"
  <2>1. /\ up' = up
        /\ \/ stream_ec' \in {no_error, eof}
           \/ ec' = stream_ec'
           \/ /\ pc = "read_userpass" /\ mode = "async"
              /\ ec' = socks(bad_reply_size)
    BY <1>1, <1>6 DEF OperationStep
  <2>2. TransportErrorKept'
    BY <1>2, <1>6, <2>1, NoRequestYet DEF TransportErrorKept
  <2>3. CASE pc # "read_reply"
    <3>1. ~RequestWritten' /\ ~Answered'
      BY <1>2, <2>1, <2>3, NoRequestYet DEF RequestWritten, Answered
    <3> QED
      BY <1>4, <2>2, <3>1 DEF OutcomeInv, AccountInv, ReplyReportedAlone,
                              ReplyReported, ReadableReply
  <2>4. CASE pc = "read_reply"
    <3>1. ReadReply
      <4>1. pc # pc'
        BY <1>6, <2>4
      <4> QED
        BY <2>4, <4>1
           DEF Operation, connect, connect_op, authenticate, KeepReading,
               WriteGreeting, ReadChoice, WriteUserpass, ReadUserpassReply,
               WriteRequest, write_connect_request, read_connect_reply
    <3>2. /\ AllTwo' <=> AllTwo
          /\ ReadableReply' <=> ReadableReply
          /\ Reply' = Reply
      BY <1>2, <2>1 DEF AllTwo, ReadableReply, Answered, Aligned, Reply
    <3>3. ReplyReportedAlone'
      BY <1>2, <3>1, <3>2, VerdictRead DEF ReplyReportedAlone, ReplyReported
    <3>4. AccountInv'
      BY <1>2, <1>4, <2>1, <3>1, <3>2, UnansweredRead DEF AccountInv
    <3> QED
      BY <2>2, <3>3, <3>4 DEF OutcomeInv
  <2> QED
    BY <2>3, <2>4
<1> QED
  BY <1>5, <1>6

\* An answer of the peer keeps OutcomeInv: the answer becomes the end of
\* what was sent, and an operation that is done does not miss its reply.
LEMMA PeerAnswersOutcome ==
    ASSUME ConnectInv, OutcomeInv, PeerAnswers
    PROVE  OutcomeInv'
<1>1. PICK m \in Answers[up[Len(up)].kind] :
         PeerSends(m) /\ answers' = Append(answers, m)
  BY DEF PeerAnswers
<1>2. /\ up \in Seq([kind : Kind, bytes : Seq(Byte)]) /\ Len(up) \in Nat
      /\ answers \in Seq(Seq(Byte)) /\ Len(answers) \in Nat
      /\ Len(answers) < Len(up)
      /\ down \in Seq(Byte) /\ Len(down) \in Nat
  BY DEF ConnectInv, TypeOK, StreamTypeOK, PeerAnswers
<1>3. m \in Seq(Byte)
  <2>1. Len(up) \in 1..Len(up)
    BY <1>2
  <2>2. up[Len(up)] \in [kind : Kind, bytes : Seq(Byte)]
    BY <1>2, <2>1, ElementOfSeq
  <2> QED
    BY <1>1, <2>2, ConnectAssumption
<1>4. /\ link = "up" /\ link' = link /\ down' = down \o m
      /\ stream_ec' = stream_ec /\ app' = app /\ mode' = mode
      /\ pc' = pc /\ up' = up /\ ec' = ec
  BY <1>1 DEF PeerSends, PeerAnswers, op_vars, args
<1>5. /\ Len(down') = Len(down) + Len(m) /\ Len(m) \in Nat
      /\ \A i \in 1..Len(m) : down'[Len(down) + i] = m[i]
  BY <1>2, <1>3, <1>4, ConcatProperties
<1>6. /\ Len(answers') = Len(answers) + 1 /\ answers' # <<>>
      /\ \A i \in 1..Len(answers) : answers'[i] = answers[i]
      /\ answers'[Len(answers) + 1] = m
  <2>1. /\ Len(Append(answers, m)) = Len(answers) + 1
        /\ \A i \in 1..Len(answers) : Append(answers, m)[i] = answers[i]
        /\ Append(answers, m)[Len(answers) + 1] = m
    BY <1>2, <1>3, AppendProperties
  <2>2. Append(answers, m) # <<>>
    <3>1. Len(Append(answers, m)) # 0
      BY <1>2, <2>1
    <3>2. Len(<<>>) = 0
      BY EmptySeq
    <3> QED
      BY <3>1, <3>2, Zenon
  <2> QED
    BY <1>1, <2>1, <2>2
<1>7. Reply' = m /\ Before' = 2 * Len(answers)
  BY <1>2, <1>6 DEF Reply, Before
<1>8. Aligned' <=> AllTwo
  <2>1. Len(answers') - 1 = Len(answers)
    BY <1>2, <1>6
  <2> QED
    BY <1>6, <2>1 DEF Aligned, AllTwo
<1>9. app = 0
  BY <1>2 DEF OutcomeInv, AccountInv, Answered
<1>10. AllTwo => Len(down) = 2 * Len(answers)
  <2>1. CASE answers = <<>>
    BY <2>1 DEF OutcomeInv, AccountInv
  <2>2. CASE answers # <<>> /\ AllTwo
    <3>1. Aligned /\ Len(Reply) = 2
      BY <1>2, <2>2 DEF AllTwo, Aligned, Reply
    <3>2. Len(down) = Before + 2
      BY <1>9, <2>2, <3>1 DEF OutcomeInv, AccountInv
    <3> QED
      BY <1>2, <3>2 DEF Before
  <2> QED
    BY <2>1, <2>2
<1>11. Aligned' => /\ Len(down') = Before' + Len(Reply')
                   /\ \A i \in 1..Len(Reply') : down'[Before' + i] = Reply'[i]
  BY <1>5, <1>7, <1>8, <1>10
<1>12. AllTwo' => AllTwo
  BY <1>2, <1>6 DEF AllTwo
<1>13. /\ pc = "done" /\ RequestWritten
       /\ stream_ec \in {no_error, eof}
       => ~AllTwo
  BY <1>2, <1>4 DEF OutcomeInv, AccountInv
<1>14. AccountInv'
  BY <1>4, <1>6, <1>9, <1>11, <1>12, <1>13 DEF AccountInv, RequestWritten
<1>15. ReplyReportedAlone'
  <2>1. ReadableReply' => RequestWritten /\ AllTwo
    BY <1>4, <1>8 DEF ReadableReply, Answered, RequestWritten
  <2> QED
    BY <1>4, <1>13, <2>1 DEF ReplyReportedAlone, ReplyReported
<1>16. TransportErrorKept'
  BY <1>4 DEF OutcomeInv, TransportErrorKept
<1> QED
  BY <1>14, <1>15, <1>16 DEF OutcomeInv

\* So does every other step of the environment.
LEMMA EnvironmentOutcome ==
    ASSUME ConnectInv, OutcomeInv, Environment \/ UNCHANGED vars
    PROVE  OutcomeInv'
<1>1. CASE PeerAnswers
  BY <1>1, PeerAnswersOutcome
<1>2. CASE TargetSpeaks
  <2>1. /\ Answered /\ answers' = answers /\ stream_ec' = stream_ec
        /\ mode' = mode /\ pc' = pc /\ up' = up /\ ec' = ec
        /\ app \in Nat /\ app' = app + 1
    BY <1>2, ConnectAssumption
       DEF TargetSpeaks, PeerSends, op_vars, args, ConnectInv, TypeOK
  <2>2. Answered' /\ app' # 0 /\ answers' # <<>> /\ ~(Len(answers') < Len(up'))
    BY <2>1 DEF Answered, ConnectInv, TypeOK
  <2> QED
    BY <2>1, <2>2 DEF OutcomeInv, TransportErrorKept, AccountInv,
                      ReplyReportedAlone
<1>3. CASE PeerShutsDown \/ PeerResets \/ ApplicationCloses \/ UNCHANGED vars
  <2>1. /\ down' = down /\ answers' = answers /\ stream_ec' = stream_ec
        /\ mode' = mode /\ pc' = pc /\ up' = up /\ ec' = ec /\ app' = app
        /\ link # "up" => link' # "up"
    BY <1>3 DEF PeerShutsDown, PeerResets, ApplicationCloses, LinkBecomes,
                op_vars, args, vars, stream_vars
  <2>2. /\ AllTwo' <=> AllTwo
        /\ ReadableReply' <=> ReadableReply
        /\ Answered' <=> Answered
        /\ Aligned' <=> Aligned
        /\ RequestWritten' <=> RequestWritten
        /\ Reply' = Reply /\ Before' = Before
    BY <2>1 DEF AllTwo, ReadableReply, Answered, Aligned, RequestWritten,
                Reply, Before
  <2>3. AccountInv'
    BY <2>1, <2>2 DEF OutcomeInv, AccountInv
  <2>4. TransportErrorKept' /\ ReplyReportedAlone'
    BY <2>1, <2>2 DEF OutcomeInv, TransportErrorKept, ReplyReportedAlone,
                      ReplyReported
  <2> QED
    BY <2>3, <2>4 DEF OutcomeInv
<1> QED
  BY <1>1, <1>2, <1>3 DEF Environment

\* OutcomeInv holds in every reachable state.
THEOREM OutcomeInvariance == Spec => []OutcomeInv
<1>1. Init => OutcomeInv
  <2> SUFFICES ASSUME Init PROVE OutcomeInv
    OBVIOUS
  <2>1. pc # "done" /\ answers = <<>> /\ down = <<>> /\ app = 0
    BY DEF Init, StreamInit
  <2> QED
    BY <2>1 DEF OutcomeInv, TransportErrorKept, AccountInv,
                ReplyReportedAlone, ReplyReported
<1>2. ConnectInv /\ OutcomeInv /\ [Next]_vars => OutcomeInv'
  BY OperationOutcome, EnvironmentOutcome DEF Next
<1> QED
  BY <1>1, <1>2, ConnectInvariance, PTL DEF Spec

\* The caller is told the error of a stream that failed, at every stage but
\* one of the asynchronous operation.
THEOREM ErrorKept == Spec => []TransportErrorKept
<1>1. OutcomeInv => TransportErrorKept
  BY DEF OutcomeInv
<1> QED
  BY <1>1, OutcomeInvariance, PTL

\* The verdict the server sent is the one the caller gets, also when the
\* connection is closed behind it, as long as nothing else follows the reply.
THEOREM VerdictReported == Spec => []ReplyReportedAlone
<1>1. OutcomeInv => ReplyReportedAlone
  BY DEF OutcomeInv
<1> QED
  BY <1>1, OutcomeInvariance, PTL

(***************************************************************************)
(* Refinement.                                                             *)
(***************************************************************************)
\* The beginning of a grant stays one, and an operation that has succeeded
\* has read one.
LEMMA GrantStays ==
    ASSUME down \in Seq(Byte), NEW m \in Seq(Byte), down' = down \o m,
           GrantSent
    PROVE  GrantSent'
<1> DEFINE b == IF down[2] = auth_userpass THEN 4 ELSE 2
<1>1. /\ Len(down) \in Nat /\ Len(m) \in Nat
      /\ Len(down') = Len(down) + Len(m)
      /\ \A i \in 1..Len(down) : down'[i] = down[i]
  BY ConcatProperties
<1>2. /\ b \in {2, 4} /\ Len(down) >= b + 2
      /\ down[b + 1] = socks_5 /\ down[b + 2] = 0
  BY DEF GrantSent
<1>3. down'[2] = down[2]
  BY <1>1, <1>2
<1> HIDE DEF b
<1>4. down'[b + 1] = down[b + 1] /\ down'[b + 2] = down[b + 2]
  BY <1>1, <1>2
<1>5. Len(down') >= b + 2 /\ Len(down') >= 2
  BY <1>1, <1>2
<1>6. b = IF down'[2] = auth_userpass THEN 4 ELSE 2
  BY <1>3 DEF b
<1> QED
  BY <1>2, <1>4, <1>5, <1>6 DEF GrantSent

\* A success was granted by bytes that the server has sent.
LEMMA GrantRead ==
    ASSUME TypeOK', SuccessIsGenuine', pc' = "done", ~failed(ec')
    PROVE  GrantSent'
<1>1. PICK b \in {2, 4} : Negotiated(b)' /\ GrantedAfter(b)'
  BY DEF SuccessIsGenuine
<1>2. pos' \in Nat /\ Len(down') \in Nat /\ pos' <= Len(down')
  BY DEF TypeOK, StreamTypeOK
<1>3. pos' >= b + 10 /\ down'[b + 1] = socks_5 /\ down'[b + 2] = 0
  BY <1>1 DEF GrantedAfter
<1>4. b = IF down'[2] = auth_userpass THEN 4 ELSE 2
  BY <1>1 DEF Negotiated, auth_userpass, no_authentication
<1>5. Len(down') >= b + 2 /\ Len(down') >= 2
  BY <1>2, <1>3
<1> QED
  BY <1>3, <1>4, <1>5 DEF GrantSent

\* More bytes from the peer are a grant to the caller, or nothing.
LEMMA SendsService ==
    ASSUME ConnectInv, NEW m \in Seq(Byte), PeerSends(m), UNCHANGED op_vars
    PROVE  [Service!Next]_(Service!vars)
<1>1. /\ down \in Seq(Byte) /\ down' = down \o m
      /\ link = "up" /\ link' = link
      /\ pc' = pc /\ ec' = ec /\ ep' = ep
  BY DEF ConnectInv, TypeOK, StreamTypeOK, PeerSends, op_vars
<1>2. CASE GrantSent' = GrantSent
  BY <1>1, <1>2 DEF Service!vars
<1>3. CASE ~GrantSent /\ GrantSent'
  <2>1. Service!Grant
    BY <1>1, <1>3 DEF Service!Grant
  <2> QED
    BY <2>1 DEF Service!Next
<1> QED
  BY <1>1, <1>2, <1>3, GrantStays DEF GrantSent

\* The loss of the connection is one to the caller.
LEMMA LossService ==
    ASSUME NEW l \in {"shut", "reset", "closed"}, LinkBecomes(l),
           UNCHANGED op_vars
    PROVE  [Service!Next]_(Service!vars)
<1>1. /\ link = "up" /\ link' = l /\ down' = down
      /\ pc' = pc /\ ec' = ec /\ ep' = ep
  BY DEF LinkBecomes, op_vars
<1>2. GrantSent' = GrantSent
  BY <1>1 DEF GrantSent
<1>3. Service!Lose
  BY <1>1, <1>2 DEF Service!Lose
<1> QED
  BY <1>3 DEF Service!Next

\* A step of the operation asks for the target, completes, or is not seen by
\* the caller; success is behind a request that was written and granted.
LEMMA OperationService ==
    ASSUME ConnectInv, ConnectInv', Operation
    PROVE  [Service!Next]_(Service!vars)
<1>1. OperationStep
  BY OperationSteps
<1>2. pc # "done" /\ down' = down /\ link' = link
  BY <1>1 DEF OperationStep
<1>3. GrantSent' = GrantSent
  BY <1>2 DEF GrantSent
<1>4. CASE pc' # "done"
  <2>1. ec' = ec /\ ep' = ep
    BY <1>1, <1>4 DEF OperationStep
  <2>2. CASE pc' = "read_reply" /\ pc # "read_reply"
    <3>1. Service!Ask
      BY <1>2, <1>3, <2>1, <2>2 DEF Service!Ask
    <3> QED
      BY <3>1 DEF Service!Next
  <2>3. CASE (pc' = "read_reply") <=> (pc = "read_reply")
    BY <1>2, <1>3, <1>4, <2>1, <2>3 DEF Service!vars
  <2> QED
    BY <1>1, <1>4, <2>2, <2>3 DEF OperationStep
<1>5. CASE pc' = "done"
  <2>1. Service!Complete(ec')
    BY <1>2, <1>3, <1>5 DEF Service!Complete
  <2>2. /\ TypeOK' /\ SuccessIsGenuine' /\ NoStrayTransportError'
        /\ ec' \in error_code /\ ep' \in endpoint
    BY DEF ConnectInv, TypeOK
  <2>3. Service!failed(ec') <=> failed(ec')
    BY DEF failed, Service!failed, request_granted, Service!request_granted
  <2>4. ec'.cat = "socks" \/ (link # "up" /\ ec' # eof)
    BY <1>2, <1>5, <2>2 DEF NoStrayTransportError
  <2>5. CASE failed(ec')
    <3>1. ep' = no_endpoint
      BY <1>1, <1>5, <2>5 DEF OperationStep
    <3>2. ec' # eof
      BY <2>4 DEF eof
    <3>3. ec' \in {c \in error_code : Service!failed(c)} /\ ec' # Service!eof
      BY <2>2, <2>3, <2>5, <3>2 DEF eof, Service!eof
    <3>4. Service!Fail
      BY <2>1, <2>4, <3>1, <3>3
         DEF Service!Fail, no_endpoint, Service!no_endpoint
    <3> QED
      BY <3>4 DEF Service!Next
  <2>6. CASE ~failed(ec')
    <3>1. pc = "read_reply" /\ ec'.cat = "socks"
      BY <1>1, <1>5, <2>6 DEF OperationStep
    <3>2. GrantSent'
      BY <1>5, <2>2, <2>6, GrantRead
    <3>4. ec' \in {c \in error_code : c.cat = "socks" /\ ~Service!failed(c)}
      BY <2>2, <2>3, <2>6, <3>1
    <3>5. Service!Succeed
      BY <1>3, <2>1, <2>2, <3>1, <3>2, <3>4 DEF Service!Succeed
    <3> QED
      BY <3>5 DEF Service!Next
  <2> QED
    BY <2>5, <2>6
<1> QED
  BY <1>4, <1>5

\* A SOCKS5 connect, synchronous or not, is a ConnectService: its initial
\* states are initial states of the service, and every step is a step of it
\* or none.  (That it ends when the connection is lost is left to the model
\* checker.)
THEOREM RefinesService == Spec => Service!Safety
<1>1. Init => Service!Init
  <2> SUFFICES ASSUME Init PROVE Service!Init
    OBVIOUS
  <2>1. /\ pc = "write_greeting" /\ down = <<>> /\ link = "up"
        /\ ec = no_error /\ ep = no_endpoint
    BY DEF Init, StreamInit
  <2>2. GrantSent = FALSE
    BY <2>1 DEF GrantSent
  <2> QED
    BY <2>1, <2>2 DEF Service!Init, no_error, Service!no_error,
                      no_endpoint, Service!no_endpoint
<1>2. ConnectInv /\ ConnectInv' /\ [Next]_vars
        => [Service!Next]_(Service!vars)
  <2> SUFFICES ASSUME ConnectInv, ConnectInv', [Next]_vars
               PROVE  [Service!Next]_(Service!vars)
    OBVIOUS
  <2>1. CASE Operation
    BY <2>1, OperationService
  <2>2. CASE PeerAnswers
    <3>1. PICK m \in Answers[up[Len(up)].kind] : PeerSends(m)
      BY <2>2 DEF PeerAnswers
    <3>2. /\ up \in Seq([kind : Kind, bytes : Seq(Byte)])
          /\ Len(up) \in 1..Len(up)
      BY <2>2 DEF ConnectInv, TypeOK, PeerAnswers
    <3>3. up[Len(up)] \in [kind : Kind, bytes : Seq(Byte)]
      BY <3>2, ElementOfSeq
    <3>4. m \in Seq(Byte)
      BY <3>1, <3>3, ConnectAssumption
    <3> QED
      BY <2>2, <3>1, <3>4, SendsService DEF PeerAnswers
  <2>3. CASE TargetSpeaks
    BY <2>3, SendsService, ConnectAssumption DEF TargetSpeaks
  <2>4. CASE PeerShutsDown
    BY <2>4, LossService DEF PeerShutsDown
  <2>5. CASE PeerResets
    BY <2>5, LossService DEF PeerResets
  <2>6. CASE ApplicationCloses
    BY <2>6, LossService DEF ApplicationCloses
  <2>7. CASE UNCHANGED vars
    BY <2>7 DEF vars, stream_vars, op_vars, Service!vars, GrantSent
  <2> QED
    BY <2>1, <2>2, <2>3, <2>4, <2>5, <2>6, <2>7 DEF Next, Environment
<1> QED
  BY <1>1, <1>2, ConnectInvariance, PTL DEF Spec, Service!Safety
=============================================================================
