------------------------ MODULE SocksConnectV4Proofs ------------------------
(***************************************************************************)
(* Proofs about SocksConnectV4, for every set of targets, user ids,        *)
(* answers and application data: the safety properties, and that the       *)
(* operation is a ConnectService as far as safety goes.                    *)
(***************************************************************************)
EXTENDS SocksConnectV4, WireProofs

endpoint_v4 == [kind : {"v4"}, addr : Seq(Byte), port : Port]

(***************************************************************************)
(* The inductive invariant.                                                *)
(***************************************************************************)
\* How far the operation has come: the read in progress is short of eight
\* bytes and began at the first byte of the peer.
StageInvV4 ==
    /\ pc = "write_request" => pos = 0 /\ n = 0 /\ ~sent
    /\ pc = "read_reply" => pos = n /\ n < 8 /\ sent

\* What the peer has sent begins with its one answer.  An operation that is
\* done without an answer will not get one: the connection is lost.
AnswerInv ==
    /\ answers = <<>> => down = <<>>
    /\ answers # <<>> =>
          /\ Len(answers[1]) <= Len(down)
          /\ \A i \in 1..Len(answers[1]) : down[i] = answers[1][i]
    /\ pc = "done" /\ answers = <<>> => link # "up"

ConnectV4Inv ==
    /\ TypeOK
    /\ StageInvV4
    /\ AnswerInv
    /\ SuccessIsGenuineV4
    /\ ReplyReportedV4
    /\ TransportErrorKeptV4

(***************************************************************************)
(* The messages.                                                           *)
(***************************************************************************)
\* The request is a sequence of bytes (connect_v4.ipp: prepare_request_v4).
LEMMA RequestType ==
    ASSUME NEW t \in Targets, NEW u \in Users
    PROVE  prepare_request_v4(t, u) \in Seq(Byte)
<1>1. t.addr \in Seq(Byte) /\ t.port \in Port /\ u \in Seq(Byte)
  BY ConnectV4Assumption
<1>2. port_bytes(t.port) \in Seq(Byte)
  BY <1>1, PortBytes
<1>3. <<socks_4, command_connect>> \in Seq(Byte) /\ <<0>> \in Seq(Byte)
  BY DEF socks_4, command_connect, Byte
<1> QED
  BY <1>1, <1>2, <1>3 DEF prepare_request_v4

\* The code of a SOCKS4 reply byte is an error value, and a success only for
\* the byte 90 (reply_code_v4.ipp: to_reply_code_v4).
LEMMA ReplyCodeV4Facts ==
    ASSUME NEW v \in Byte
    PROVE  /\ to_reply_code_v4(v) \in error
           /\ condition(to_reply_code_v4(v)) = "succeeded" <=> v = 90
           /\ failed(socks(to_reply_code_v4(v))) <=> v # 90
BY DEF to_reply_code_v4, reply_code, unassigned, error, reply_code_v4,
       unassigned_reply_code, condition, request_granted, failed, socks, Byte

\* What parse_reply_v4 makes of eight bytes: the verdict in the second byte
\* if the version is right, and success only for a grant.
LEMMA ParseV4Facts ==
    ASSUME NEW buf \in Seq(Byte), Len(buf) = 8
    PROVE  LET r == parse_reply_v4(buf)
           IN  /\ r.ec \in error_code /\ r.ec.cat = "socks"
               /\ r.ep \in endpoint_v4
               /\ failed(r.ec) => r.ep = no_endpoint
               /\ buf[1] \in {0, 4} => r.ec = socks(to_reply_code_v4(buf[2]))
               /\ ~failed(r.ec) =>
                     /\ buf[1] \in {0, 4} /\ buf[2] = 90
                     /\ r.ep.port = to_port(buf[3], buf[4])
<1> DEFINE e == socks(to_reply_code_v4(buf[2]))
           A == SubSeq(buf, 4, 7)
           P == to_port(buf[3], buf[4])
           good == [ec |-> e, ep |-> [kind |-> "v4", addr |-> A, port |-> P]]
<1>1. \A i \in 1..8 : buf[i] \in Byte
  <2>1. \A i \in 1..Len(buf) : buf[i] \in Byte
    BY ElementOfSeq
  <2> QED
    BY <2>1
<1>2. /\ to_reply_code_v4(buf[2]) \in error
      /\ condition(to_reply_code_v4(buf[2])) = "succeeded" <=> buf[2] = 90
      /\ failed(e) <=> buf[2] # 90
  BY <1>1, ReplyCodeV4Facts
<1>3. e \in error_code /\ e.cat = "socks" /\ e.val = to_reply_code_v4(buf[2])
  BY <1>2, ErrorFacts
<1>4. no_endpoint \in endpoint_v4
  BY NoEndpointType DEF endpoint_v4
<1>5. A \in Seq(Byte)
  BY <1>1, SubSeqProperties
<1>6. P \in Port
  BY <1>1, PortBytes
<1> HIDE DEF A, P
<1>7. [kind |-> "v4", addr |-> A, port |-> P] \in endpoint_v4
  BY <1>5, <1>6 DEF endpoint_v4
<1>8. CASE buf[1] \notin {0, 4}
  <2>1. parse_reply_v4(buf) = reply_error(socks(bad_reply_version))
    BY <1>8 DEF parse_reply_v4
  <2>2. bad_reply_version \in 160..166
    BY DEF bad_reply_version
  <2> QED
    BY <1>4, <1>8, <2>1, <2>2, ErrorFacts, ClientErrors DEF reply_error
<1>9. CASE buf[1] \in {0, 4} /\ buf[2] # 90
  <2>1. parse_reply_v4(buf) = reply_error(e)
    BY <1>2, <1>3, <1>9 DEF parse_reply_v4
  <2>2. parse_reply_v4(buf).ec = e /\ parse_reply_v4(buf).ep = no_endpoint
    BY <2>1 DEF reply_error
  <2> QED
    BY <1>2, <1>3, <1>4, <1>9, <2>2
<1>10. CASE buf[1] \in {0, 4} /\ buf[2] = 90
  <2>1. parse_reply_v4(buf) = good
    BY <1>2, <1>3, <1>10 DEF parse_reply_v4, A, P
  <2>2. /\ parse_reply_v4(buf).ec = e
        /\ parse_reply_v4(buf).ep = [kind |-> "v4", addr |-> A, port |-> P]
    BY <2>1
  <2> HIDE DEF e
  <2>3. parse_reply_v4(buf).ep.port = P
    BY <2>2
  <2> QED
    BY <1>2, <1>3, <1>7, <1>10, <2>2, <2>3 DEF e, P
<1> QED
  BY <1>8, <1>9, <1>10

\* What the operation makes of the bytes read and the error of the read: an
\* error of the stream as it is, the end of file as a reply that is too
\* short, and eight bytes as parse_reply_v4 reads them.
LEMMA ReplyResultFacts ==
    ASSUME NEW buf \in Seq(Byte), NEW e \in {no_error} \cup transport_error,
           e = no_error => Len(buf) = 8,
           e = eof => Len(buf) # 8
    PROVE  LET r == reply_result(buf, e)
           IN  /\ r.ec \in error_code /\ r.ep \in endpoint_v4
               /\ failed(r.ec) => r.ep = no_endpoint
               /\ IF e \in {no_error, eof} THEN r.ec.cat = "socks"
                                          ELSE r.ec = e /\ failed(e)
               /\ e = no_error => r = parse_reply_v4(buf)
               /\ ~failed(r.ec) => e = no_error
<1>1. no_error # eof /\ eof \in transport_error
  BY DEF no_error, eof, transport_error
<1>2. no_endpoint \in endpoint_v4
  BY NoEndpointType DEF endpoint_v4
<1>3. CASE e = no_error
  <2>1. reply_result(buf, e) = parse_reply_v4(buf)
    BY <1>3, ErrorFacts DEF reply_result
  <2> QED
    BY <1>3, <2>1, ParseV4Facts
<1>4. CASE e = eof
  <2>1. reply_result(buf, e) = reply_error(socks(bad_reply_size))
    BY <1>4, Zenon DEF reply_result
  <2>2. bad_reply_size \in 160..166
    BY DEF bad_reply_size
  <2> QED
    BY <1>1, <1>2, <1>4, <2>1, <2>2, ErrorFacts, ClientErrors DEF reply_error
<1>5. CASE e \notin {no_error, eof}
  <2>1. e \in transport_error /\ failed(e) /\ e \in error_code
    BY <1>5, ErrorFacts
  <2>2. reply_result(buf, e) = reply_error(e)
    BY <1>5, <2>1 DEF reply_result
  <2> QED
    BY <1>2, <1>5, <2>1, <2>2 DEF reply_error
<1> QED
  BY <1>3, <1>4, <1>5

\* A result that is a failure carries no endpoint.
LEMMA FailureWithoutEndpoint ==
    ASSUME NEW buf \in Seq(Byte), NEW e \in {no_error} \cup transport_error,
           e = no_error => Len(buf) = 8,
           e = eof => Len(buf) # 8,
           failed(reply_result(buf, e).ec)
    PROVE  reply_result(buf, e).ep = no_endpoint
BY ReplyResultFacts

\* A turn of the loop that reads the reply stays within the eight bytes, and
\* one that ends it without an error has read all of them.
LEMMA TurnV4Facts ==
    ASSUME ConnectV4Inv, pc = "read_reply", NEW o \in Turn
    PROVE  /\ o.k \in Nat /\ pos + o.k <= Len(down) /\ n + o.k <= 8
           /\ \/ o.ec = no_error /\ o.k >= 1
              \/ o.ec \in transport_error /\ o.k = 0 /\ link # "up"
           /\ o.ec = eof => pos = Len(down)
           /\ More(o) <=> o.ec = no_error /\ n + o.k < 8
<1>1. /\ StreamTypeOK /\ n \in Nat /\ pos \in Nat /\ Len(down) \in Nat
      /\ n < 8
  BY DEF ConnectV4Inv, TypeOK, StreamTypeOK, StageInvV4
<1>2. reply_room(n) \in Int /\ reply_room(n) = 8 - n
  BY <1>1 DEF reply_room
<1>3. o \in read_some(reply_room(n))
  BY DEF Turn
<1>4. /\ o.k \in Nat /\ pos + o.k <= Len(down)
      /\ \/ o.ec = no_error /\ o.k >= 1 /\ o.k <= reply_room(n)
         \/ o.ec \in transport_error /\ o.k = 0 /\ link # "up"
      /\ o.ec = eof => link = "shut" /\ pos = Len(down)
  BY <1>1, <1>2, <1>3, ReadSomeFacts
<1>5. n + o.k <= 8
  BY <1>1, <1>2, <1>4
<1>6. reply_room(n + o.k) = 0 <=> n + o.k = 8
  BY <1>1, <1>4 DEF reply_room
<1>7. failed(o.ec) <=> o.ec # no_error
  BY <1>4, ErrorFacts
<1>8. More(o) <=> o.ec = no_error /\ n + o.k < 8
  BY <1>1, <1>4, <1>5, <1>6, <1>7 DEF More
<1> QED
  BY <1>4, <1>5, <1>8

(***************************************************************************)
(* The initial state and the steps.                                        *)
(***************************************************************************)
\* The entry of connect_v4 and the constructor of connect_v4_op establish
\* the invariant.
LEMMA InitV4 == Init => ConnectV4Inv
<1> SUFFICES ASSUME Init PROVE ConnectV4Inv
  OBVIOUS
<1>1. PICK t \in Targets, u \in Users : request = prepare_request_v4(t, u)
  BY DEF Init
<1>2. request \in Seq(Byte)
  BY <1>1, RequestType
<1>3. ec \in error_code
      /\ ep \in [kind : {"v4"}, addr : Seq(Byte), port : Port]
  BY ErrorFacts, NoEndpointType DEF Init
<1>4. TypeOK
  <2>1. StreamTypeOK
    BY DEF Init, StreamInit, StreamTypeOK
  <2>2. app \in 0..MaxApp
    BY ConnectV4Assumption DEF Init
  <2>3. answers \in Seq(Seq(Byte))
    BY DEF Init
  <2>4. /\ mode \in Modes /\ sent \in BOOLEAN
        /\ pc \in {"write_request", "read_reply", "done"}
    BY DEF Init
  <2> QED
    BY <1>2, <1>3, <2>1, <2>2, <2>3, <2>4 DEF TypeOK
<1>5. StageInvV4 /\ AnswerInv
  BY DEF Init, StreamInit, StageInvV4, AnswerInv
<1>6. pc # "done"
  BY DEF Init
<1> QED
  BY <1>4, <1>5, <1>6
     DEF ConnectV4Inv, SuccessIsGenuineV4, ReplyReportedV4,
         TransportErrorKeptV4

\* Writing the request keeps the invariant.
LEMMA WriteRequestV4 ==
    ASSUME ConnectV4Inv, WriteRequest
    PROVE  ConnectV4Inv'
<1>1. PICK e \in write_results :
        /\ Write(e)
        /\ IF failed(e)
           THEN Complete(e, no_endpoint) /\ UNCHANGED sent
           ELSE pc' = "read_reply" /\ sent' = TRUE /\ UNCHANGED <<ec, ep>>
  BY DEF WriteRequest
<1>2. /\ TypeOK /\ StreamTypeOK /\ AnswerInv
      /\ pc = "write_request" /\ pos = 0 /\ n = 0 /\ ~sent
  BY DEF ConnectV4Inv, TypeOK, StageInvV4, WriteRequest
<1>3. /\ down' = down /\ pos' = pos /\ n' = n /\ link' = link
      /\ stream_ec' = e
      /\ mode' = mode /\ request' = request /\ answers' = answers
      /\ app' = app
  BY <1>1 DEF Write, WriteRequest
<1>4. \/ e = no_error
      \/ e \in transport_error /\ e # eof /\ link # "up"
  BY <1>2, WriteFacts
<1>5. StreamTypeOK'
  BY <1>2, <1>3, <1>4 DEF StreamTypeOK
<1>6. CASE failed(e)
  <2>1. e \in transport_error /\ e # eof /\ link # "up" /\ e \in error_code
        /\ e # no_error
    BY <1>4, <1>6, ErrorFacts
  <2>2. pc' = "done" /\ ec' = e /\ ep' = no_endpoint /\ sent' = sent
    BY <1>1, <1>6 DEF Complete
  <2>3. TypeOK'
    BY <1>2, <1>3, <1>5, <2>1, <2>2, NoEndpointType DEF TypeOK
  <2>4. StageInvV4' /\ AnswerInv'
    BY <1>2, <1>3, <2>1, <2>2 DEF StageInvV4, AnswerInv
  <2>5. SuccessIsGenuineV4' /\ TransportErrorKeptV4' /\ ReplyReportedV4'
    BY <1>3, <1>6, <2>1, <2>2
       DEF SuccessIsGenuineV4, TransportErrorKeptV4, ReplyReportedV4
  <2> QED
    BY <2>3, <2>4, <2>5 DEF ConnectV4Inv
<1>7. CASE ~failed(e)
  <2>1. pc' = "read_reply" /\ sent' = TRUE /\ ec' = ec /\ ep' = ep
    BY <1>1, <1>7
  <2>2. TypeOK'
    BY <1>2, <1>3, <1>5, <2>1 DEF TypeOK
  <2>3. StageInvV4' /\ AnswerInv'
    BY <1>2, <1>3, <2>1 DEF StageInvV4, AnswerInv
  <2> QED
    BY <2>1, <2>2, <2>3 DEF ConnectV4Inv, SuccessIsGenuineV4,
                            TransportErrorKeptV4, ReplyReportedV4
<1> QED
  BY <1>6, <1>7

\* Reading the reply keeps the invariant; the turn that ends the read is the
\* step that tells the caller the verdict (connect_v4, connect_v4_op).
LEMMA ReadReplyV4 ==
    ASSUME ConnectV4Inv, ReadReply
    PROVE  ConnectV4Inv'
<1> DEFINE B(o) == buffer(o.k)
           R(o) == reply_result(B(o), o.ec)
<1>1. PICK o \in Turn :
        IF More(o)
        THEN Transfer(o) /\ UNCHANGED <<pc, ec, ep>>
        ELSE TransferLast(o) /\ Complete(R(o).ec, R(o).ep)
  BY DEF ReadReply
<1>2. /\ TypeOK /\ StreamTypeOK /\ AnswerInv
      /\ pc = "read_reply" /\ pos = n /\ n < 8 /\ sent
      /\ n \in Nat /\ pos \in Nat /\ Len(down) \in Nat
      /\ down \in Seq(Byte) /\ answers \in Seq(Seq(Byte))
  BY DEF ConnectV4Inv, TypeOK, StreamTypeOK, StageInvV4, ReadReply
<1>3. /\ o.k \in Nat /\ pos + o.k <= Len(down) /\ n + o.k <= 8
      /\ \/ o.ec = no_error /\ o.k >= 1
         \/ o.ec \in transport_error /\ o.k = 0 /\ link # "up"
      /\ o.ec = eof => pos = Len(down)
      /\ More(o) <=> o.ec = no_error /\ n + o.k < 8
  BY <1>2, TurnV4Facts
<1>4. /\ mode' = mode /\ request' = request /\ sent' = sent
      /\ answers' = answers /\ app' = app
  BY DEF ReadReply
<1>5. /\ down' = down /\ link' = link /\ pos' = pos + o.k
      /\ stream_ec' = o.ec
  BY <1>1 DEF Transfer, TransferLast
<1>6. CASE More(o)
  <2>1. n' = n + o.k /\ pc' = pc /\ ec' = ec /\ ep' = ep
    BY <1>1, <1>6 DEF Transfer
  <2>2. StreamTypeOK'
    BY <1>2, <1>3, <1>5, <2>1 DEF StreamTypeOK
  <2>3. TypeOK'
    BY <1>2, <1>4, <2>1, <2>2 DEF TypeOK
  <2>4. StageInvV4'
    BY <1>2, <1>3, <1>4, <1>5, <1>6, <2>1 DEF StageInvV4
  <2>5. AnswerInv'
    BY <1>2, <1>4, <1>5, <2>1 DEF AnswerInv
  <2> QED
    BY <1>2, <2>1, <2>3, <2>4, <2>5
       DEF ConnectV4Inv, SuccessIsGenuineV4, TransportErrorKeptV4,
           ReplyReportedV4
<1>7. CASE ~More(o)
  <2>1. n' = 0 /\ pc' = "done" /\ ec' = R(o).ec /\ ep' = R(o).ep
    BY <1>1, <1>7 DEF TransferLast, Complete
  <2>2. /\ B(o) \in Seq(Byte) /\ Len(B(o)) = n + o.k
        /\ \A i \in 1..(n + o.k) : B(o)[i] = down[i]
    <3>1. /\ B(o) \in Seq(Byte) /\ Len(B(o)) = n + o.k
          /\ \A i \in 1..(n + o.k) : B(o)[i] = down[(pos - n) + i]
      BY <1>2, <1>3, BufferFacts
    <3> QED
      BY <1>2, <1>3, <3>1
  <2>3. /\ o.ec \in {no_error} \cup transport_error
        /\ o.ec = no_error => n + o.k = 8
        /\ o.ec = eof => o.k = 0 /\ n + o.k # 8
    <3>1. no_error # eof
      BY DEF no_error, eof
    <3> QED
      BY <1>2, <1>3, <1>7, <3>1
  <2> HIDE DEF B
  <2>4. /\ R(o).ec \in error_code /\ R(o).ep \in endpoint_v4
        /\ IF o.ec \in {no_error, eof} THEN R(o).ec.cat = "socks"
                                      ELSE R(o).ec = o.ec /\ failed(o.ec)
        /\ o.ec = no_error => R(o) = parse_reply_v4(B(o))
        /\ ~failed(R(o).ec) => o.ec = no_error
    BY <2>2, <2>3, ReplyResultFacts
  <2> HIDE DEF R
  <2>5. StreamTypeOK'
    BY <1>2, <1>3, <1>5, <2>1, <2>3 DEF StreamTypeOK
  <2>6. TypeOK'
    BY <1>2, <1>4, <2>1, <2>4, <2>5 DEF TypeOK, endpoint_v4
  <2>7. StageInvV4'
    BY <2>1 DEF StageInvV4
  <2>8. AnswerInv'
    <3>1. o.ec = no_error => Len(down) # 0
      BY <1>2, <1>3, ErrorFacts
    <3>2. answers = <<>> => link # "up"
      BY <1>2, <1>3, <3>1 DEF AnswerInv
    <3> QED
      BY <1>2, <1>4, <1>5, <2>1, <3>2 DEF AnswerInv
  <2>9. TransportErrorKeptV4'
    BY <1>5, <2>1, <2>4 DEF TransportErrorKeptV4
  <2>10. ASSUME o.ec = no_error
         PROVE  /\ n + o.k = 8
                /\ \A i \in 1..8 : B(o)[i] = down[i]
                /\ R(o).ec \in error_code /\ R(o).ec.cat = "socks"
                /\ B(o)[1] \in {0, 4} =>
                      R(o).ec = socks(to_reply_code_v4(B(o)[2]))
                /\ ~failed(R(o).ec) =>
                      /\ B(o)[1] \in {0, 4} /\ B(o)[2] = 90
                      /\ R(o).ep.port = to_port(B(o)[3], B(o)[4])
    <3>1. Len(B(o)) = 8 /\ n + o.k = 8
      BY <2>2, <2>3, <2>10
    <3>2. R(o) = parse_reply_v4(B(o)) /\ B(o) \in Seq(Byte)
      BY <2>2, <2>4, <2>10
    <3>3. \A i \in 1..8 : B(o)[i] = down[i]
      BY <2>2, <3>1
    <3> HIDE DEF B, R
    <3> QED
      BY <2>4, <3>1, <3>2, <3>3, ParseV4Facts
  <2>11. SuccessIsGenuineV4'
    <3> SUFFICES ASSUME ~failed(R(o).ec)
                 PROVE  /\ pos' = 8
                        /\ down[1] \in {0, 4} /\ down[2] = 90
                        /\ R(o).ep.port = to_port(down[3], down[4])
      BY <1>2, <1>4, <1>5, <2>1
         DEF SuccessIsGenuineV4, socks_4, request_granted
    <3>1. o.ec = no_error
      BY <2>4
    <3>2. /\ B(o)[1] = down[1] /\ B(o)[2] = down[2] /\ B(o)[3] = down[3]
          /\ B(o)[4] = down[4]
      BY <2>10, <3>1
    <3> QED
      BY <1>2, <1>3, <1>5, <2>10, <3>1, <3>2
  <2>12. ReplyReportedV4'
    <3> SUFFICES ASSUME answers # <<>>, Len(answers[1]) = 8,
                        answers[1][1] \in {0, 4}, o.ec \in {no_error, eof}
                 PROVE  R(o).ec = socks(to_reply_code_v4(answers[1][2]))
      BY <1>4, <1>5, <2>1 DEF ReplyReportedV4, Answered, socks_4
    <3>1. /\ Len(down) >= 8
          /\ down[1] = answers[1][1] /\ down[2] = answers[1][2]
      BY <1>2 DEF AnswerInv
    <3>2. o.ec = no_error
      BY <1>2, <1>3, <3>1
    <3>3. B(o)[1] = down[1] /\ B(o)[2] = down[2]
      BY <2>10, <3>2
    <3> QED
      BY <2>10, <3>1, <3>2, <3>3
  <2> QED
    BY <2>6, <2>7, <2>8, <2>9, <2>11, <2>12 DEF ConnectV4Inv
<1> QED
  BY <1>6, <1>7

\* A step that leaves the operation and its verdict alone, and at most adds
\* to what the peer has sent behind its answer, keeps the invariant.
LEMMA QuietV4 ==
    ASSUME ConnectV4Inv, TypeOK', AnswerInv',
           UNCHANGED <<op_vars, pos, n, stream_ec>>,
           answers' = answers \/ (answers = <<>> /\ link = "up" /\ sent),
           NEW m \in Seq(Byte), down' = down \o m \/ down' = down
    PROVE  ConnectV4Inv'
<1>1. /\ TypeOK /\ StageInvV4 /\ AnswerInv /\ SuccessIsGenuineV4
      /\ ReplyReportedV4 /\ TransportErrorKeptV4
      /\ down \in Seq(Byte) /\ Len(down) \in Nat /\ pos \in Nat
      /\ pos <= Len(down)
  BY DEF ConnectV4Inv, TypeOK, StreamTypeOK
<1>2. /\ mode' = mode /\ request' = request /\ pc' = pc /\ sent' = sent
      /\ ec' = ec /\ ep' = ep
  BY DEF op_vars
<1>3. \A i \in 1..pos : down'[i] = down[i]
  BY <1>1, ConcatProperties
<1>4. StageInvV4' /\ TransportErrorKeptV4'
  BY <1>1, <1>2 DEF StageInvV4, TransportErrorKeptV4
<1>5. SuccessIsGenuineV4'
  <2> SUFFICES ASSUME pc = "done", ~failed(ec)
               PROVE  /\ sent /\ pos = 8
                      /\ down'[1] \in {0, socks_4} /\ down'[2] = request_granted
                      /\ ep.port = to_port(down'[3], down'[4])
    BY <1>2 DEF SuccessIsGenuineV4
  <2>1. /\ sent /\ pos = 8
        /\ down[1] \in {0, socks_4} /\ down[2] = request_granted
        /\ ep.port = to_port(down[3], down[4])
    BY <1>1 DEF SuccessIsGenuineV4
  <2>2. /\ down'[1] = down[1] /\ down'[2] = down[2] /\ down'[3] = down[3]
        /\ down'[4] = down[4]
    BY <1>3, <2>1
  <2> QED
    BY <2>1, <2>2
<1>6. ReplyReportedV4'
  <2>1. pc = "done" => answers' = answers
    BY <1>1 DEF AnswerInv
  <2> QED
    BY <1>1, <1>2, <2>1 DEF ReplyReportedV4, Answered
<1> QED
  BY <1>4, <1>5, <1>6 DEF ConnectV4Inv

\* The peer's answer keeps the invariant.
LEMMA PeerAnswersV4 ==
    ASSUME ConnectV4Inv, PeerAnswers
    PROVE  ConnectV4Inv'
<1>1. PICK m \in Answers : PeerSends(m) /\ answers' = <<m>>
  BY DEF PeerAnswers
<1>2. m \in Seq(Byte)
  BY ConnectV4Assumption
<1>3. /\ TypeOK /\ StreamTypeOK /\ down \in Seq(Byte) /\ down = <<>>
      /\ sent /\ answers = <<>> /\ pos = 0 /\ n = 0
  BY DEF ConnectV4Inv, TypeOK, StreamTypeOK, AnswerInv, PeerAnswers
<1>4. /\ link = "up" /\ link' = link /\ down' = down \o m
      /\ pos' = pos /\ n' = n /\ stream_ec' = stream_ec
      /\ UNCHANGED <<op_vars, app>>
  BY <1>1 DEF PeerSends, PeerAnswers
<1>5. down' = m
  BY <1>2, <1>3, <1>4, ConcatEmptySeq
<1>6. answers' \in Seq(Seq(Byte)) /\ answers'[1] = m /\ answers' # <<>>
  BY <1>1, <1>2
<1>7. StreamTypeOK'
  <2>1. Len(m) \in Nat
    BY <1>2
  <2> QED
    BY <1>2, <1>3, <1>4, <1>5, <2>1 DEF StreamTypeOK
<1>8. TypeOK'
  BY <1>3, <1>4, <1>6, <1>7 DEF TypeOK, op_vars
<1>9. AnswerInv'
  <2>1. Len(m) \in Nat
    BY <1>2
  <2> QED
    BY <1>5, <1>6, <2>1 DEF AnswerInv
<1> QED
  BY <1>2, <1>3, <1>4, <1>8, <1>9, QuietV4

\* What the target says behind the answer keeps the invariant.
LEMMA TargetSpeaksV4 ==
    ASSUME ConnectV4Inv, TargetSpeaks
    PROVE  ConnectV4Inv'
<1>1. PICK d \in AppData : PeerSends(d)
  BY DEF TargetSpeaks
<1>2. d \in Seq(Byte)
  BY ConnectV4Assumption
<1>3. /\ TypeOK /\ StreamTypeOK /\ down \in Seq(Byte) /\ Len(down) \in Nat
      /\ AnswerInv /\ answers \in Seq(Seq(Byte)) /\ answers # <<>>
      /\ app \in 0..MaxApp /\ app < MaxApp /\ MaxApp \in Nat
  BY ConnectV4Assumption
     DEF ConnectV4Inv, TypeOK, StreamTypeOK, TargetSpeaks
<1>4. /\ link' = link /\ down' = down \o d
      /\ pos' = pos /\ n' = n /\ stream_ec' = stream_ec
      /\ answers' = answers /\ app' = app + 1 /\ UNCHANGED op_vars
  BY <1>1 DEF PeerSends, TargetSpeaks
<1>5. /\ down' \in Seq(Byte) /\ Len(down') = Len(down) + Len(d)
      /\ \A i \in 1..Len(down) : down'[i] = down[i]
      /\ Len(d) \in Nat
  BY <1>2, <1>3, <1>4, ConcatProperties
<1>6. StreamTypeOK'
  BY <1>3, <1>4, <1>5 DEF StreamTypeOK
<1>7. TypeOK'
  BY <1>3, <1>4, <1>6 DEF TypeOK, op_vars
<1>8. AnswerInv'
  <2>1. Len(answers[1]) \in Nat
    BY <1>3
  <2>2. /\ Len(answers[1]) <= Len(down)
        /\ \A i \in 1..Len(answers[1]) : down[i] = answers[1][i]
    BY <1>3 DEF AnswerInv
  <2> QED
    BY <1>3, <1>4, <1>5, <2>1, <2>2 DEF AnswerInv
<1> QED
  BY <1>2, <1>4, <1>7, <1>8, QuietV4

\* The loss of the connection keeps the invariant.
LEMMA LinkBecomesV4 ==
    ASSUME ConnectV4Inv, NEW l \in {"shut", "reset", "closed"},
           LinkBecomes(l), UNCHANGED <<op_vars, answers, app>>
    PROVE  ConnectV4Inv'
<1>1. /\ link' = l /\ down' = down /\ pos' = pos /\ n' = n
      /\ stream_ec' = stream_ec
  BY DEF LinkBecomes
<1>2. TypeOK' /\ AnswerInv'
  BY <1>1 DEF ConnectV4Inv, TypeOK, StreamTypeOK, op_vars, AnswerInv
<1>3. <<>> \in Seq(Byte)
  OBVIOUS
<1> QED
  BY <1>1, <1>2, <1>3, QuietV4

(***************************************************************************)
(* The theorems.                                                           *)
(***************************************************************************)
\* Every step of a SOCKS4 connect and of its environment keeps the
\* invariant.
THEOREM NextConnectV4Inv == ConnectV4Inv /\ [Next]_vars => ConnectV4Inv'
<1> SUFFICES ASSUME ConnectV4Inv, [Next]_vars PROVE ConnectV4Inv'
  OBVIOUS
<1>1. CASE WriteRequest
  BY <1>1, WriteRequestV4
<1>2. CASE ReadReply
  BY <1>2, ReadReplyV4
<1>3. CASE PeerAnswers
  BY <1>3, PeerAnswersV4
<1>4. CASE TargetSpeaks
  BY <1>4, TargetSpeaksV4
<1>5. CASE PeerShutsDown
  BY <1>5, LinkBecomesV4 DEF PeerShutsDown
<1>6. CASE PeerResets
  BY <1>6, LinkBecomesV4 DEF PeerResets
<1>7. CASE ApplicationCloses
  BY <1>7, LinkBecomesV4 DEF ApplicationCloses
<1>8. CASE UNCHANGED vars
  <2>1. TypeOK' /\ AnswerInv'
    BY <1>8 DEF vars, stream_vars, op_vars, ConnectV4Inv, TypeOK,
                StreamTypeOK, AnswerInv
  <2>2. <<>> \in Seq(Byte)
    OBVIOUS
  <2> QED
    BY <1>8, <2>1, <2>2, QuietV4 DEF vars, stream_vars
<1> QED
  BY <1>1, <1>2, <1>3, <1>4, <1>5, <1>6, <1>7, <1>8
     DEF Next, Operation, connect_v4, connect_v4_op, Environment

\* The invariant holds in every reachable state of a SOCKS4 connect.
THEOREM ConnectV4Invariance == Spec => []ConnectV4Inv
<1>1. Init => ConnectV4Inv
  BY InitV4
<1>2. ConnectV4Inv /\ [Next]_vars => ConnectV4Inv'
  BY NextConnectV4Inv
<1> QED
  BY <1>1, <1>2, PTL DEF Spec

\* The state of a SOCKS4 connect is always well typed.
THEOREM TypeCorrectV4 == Spec => []TypeOK
<1>1. ConnectV4Inv => TypeOK
  BY DEF ConnectV4Inv
<1> QED
  BY <1>1, ConnectV4Invariance, PTL

\* Success is reported only for eight bytes that grant the request, and no
\* byte behind them is taken from the stream, whatever the peer sends.
THEOREM SuccessGenuineV4 == Spec => []SuccessIsGenuineV4
<1>1. ConnectV4Inv => SuccessIsGenuineV4
  BY DEF ConnectV4Inv
<1> QED
  BY <1>1, ConnectV4Invariance, PTL

\* A whole reply of the right version reaches the caller unless the stream
\* failed, however it is cut into segments and whatever follows it.
THEOREM VerdictReportedV4 == Spec => []ReplyReportedV4
<1>1. ConnectV4Inv => ReplyReportedV4
  BY DEF ConnectV4Inv
<1> QED
  BY <1>1, ConnectV4Invariance, PTL

\* The caller is told the error of a stream that failed, and none of a
\* stream that works.
THEOREM ErrorKeptV4 == Spec => []TransportErrorKeptV4
<1>1. ConnectV4Inv => TransportErrorKeptV4
  BY DEF ConnectV4Inv
<1> QED
  BY <1>1, ConnectV4Invariance, PTL

(***************************************************************************)
(* Refinement.                                                             *)
(***************************************************************************)
\* The beginning of a grant stays one.
LEMMA GrantStays ==
    ASSUME down \in Seq(Byte), NEW m \in Seq(Byte), down' = down \o m,
           GrantSentV4
    PROVE  GrantSentV4'
<1>1. /\ Len(down) \in Nat /\ Len(m) \in Nat /\ Len(down) >= 2
      /\ Len(down') = Len(down) + Len(m)
      /\ \A i \in 1..Len(down) : down'[i] = down[i]
  BY ConcatProperties DEF GrantSentV4
<1>2. down'[1] = down[1] /\ down'[2] = down[2]
  BY <1>1
<1> QED
  BY <1>1, <1>2 DEF GrantSentV4

\* More bytes from the peer are a grant to the caller, or nothing.
LEMMA SendsServiceV4 ==
    ASSUME ConnectV4Inv, NEW m \in Seq(Byte), PeerSends(m), UNCHANGED op_vars
    PROVE  [Service!Next]_(Service!vars)
<1>1. /\ down \in Seq(Byte) /\ down' = down \o m
      /\ link = "up" /\ link' = link
      /\ pc' = pc /\ ec' = ec /\ ep' = ep
  BY DEF ConnectV4Inv, TypeOK, StreamTypeOK, PeerSends, op_vars
<1>2. CASE GrantSentV4' = GrantSentV4
  BY <1>1, <1>2 DEF Service!vars
<1>3. CASE ~GrantSentV4 /\ GrantSentV4'
  <2>1. Service!Grant
    BY <1>1, <1>3 DEF Service!Grant
  <2> QED
    BY <2>1 DEF Service!Next
<1> QED
  BY <1>1, <1>2, <1>3, GrantStays DEF GrantSentV4

\* The loss of the connection is one to the caller.
LEMMA LossServiceV4 ==
    ASSUME NEW l \in {"shut", "reset", "closed"}, LinkBecomes(l),
           UNCHANGED op_vars
    PROVE  [Service!Next]_(Service!vars)
<1>1. /\ link = "up" /\ link' = l /\ down' = down
      /\ pc' = pc /\ ec' = ec /\ ep' = ep
  BY DEF LinkBecomes, op_vars
<1>2. GrantSentV4' = GrantSentV4
  BY <1>1 DEF GrantSentV4
<1>3. Service!Lose
  BY <1>1, <1>2 DEF Service!Lose
<1> QED
  BY <1>3 DEF Service!Next

\* Writing the request is asking for the target, or a failure.
LEMMA WriteServiceV4 ==
    ASSUME ConnectV4Inv, WriteRequest
    PROVE  [Service!Next]_(Service!vars)
<1>1. PICK e \in write_results :
        /\ Write(e)
        /\ IF failed(e)
           THEN Complete(e, no_endpoint) /\ UNCHANGED sent
           ELSE pc' = "read_reply" /\ sent' = TRUE /\ UNCHANGED <<ec, ep>>
  BY DEF WriteRequest
<1>2. StreamTypeOK /\ pc = "write_request"
  BY DEF ConnectV4Inv, TypeOK, WriteRequest
<1>3. down' = down /\ link' = link
  BY <1>1 DEF Write
<1>4. GrantSentV4' = GrantSentV4
  BY <1>3 DEF GrantSentV4
<1>5. \/ e = no_error
      \/ e \in transport_error /\ e # eof /\ link # "up"
  BY <1>2, WriteFacts
<1>6. CASE failed(e)
  <2>1. pc' = "done" /\ ec' = e /\ ep' = no_endpoint
    BY <1>1, <1>6 DEF Complete
  <2>2. e \in error_code /\ e # eof /\ link # "up"
    BY <1>5, <1>6, ErrorFacts
  <2>3. Service!Complete(e)
    BY <1>2, <1>3, <1>4, <2>1 DEF Service!Complete
  <2>4. e \in {c \in error_code : Service!failed(c)} /\ e # Service!eof
    BY <1>6, <2>2 DEF failed, Service!failed, eof, Service!eof,
                      request_granted, Service!request_granted
  <2>5. Service!Fail
    BY <2>1, <2>2, <2>3, <2>4
       DEF Service!Fail, no_endpoint, Service!no_endpoint
  <2> QED
    BY <2>5 DEF Service!Next
<1>7. CASE ~failed(e)
  <2>1. pc' = "read_reply" /\ ec' = ec /\ ep' = ep
    BY <1>1, <1>7
  <2>2. Service!Ask
    BY <1>2, <1>3, <1>4, <2>1 DEF Service!Ask
  <2> QED
    BY <2>2 DEF Service!Next
<1> QED
  BY <1>6, <1>7

\* The turn that ends the read of the reply is the completion the caller
\* sees: a success only behind a grant, a failure without an endpoint.
LEMMA ReadServiceV4 ==
    ASSUME ConnectV4Inv, ConnectV4Inv', ReadReply
    PROVE  [Service!Next]_(Service!vars)
<1> DEFINE B(o) == buffer(o.k)
           R(o) == reply_result(B(o), o.ec)
<1>1. PICK o \in Turn :
        IF More(o)
        THEN Transfer(o) /\ UNCHANGED <<pc, ec, ep>>
        ELSE TransferLast(o) /\ Complete(R(o).ec, R(o).ep)
  BY DEF ReadReply
<1>2. /\ StreamTypeOK /\ pc = "read_reply" /\ pos = n /\ n < 8
      /\ n \in Nat /\ Len(down) \in Nat /\ down \in Seq(Byte)
  BY DEF ConnectV4Inv, TypeOK, StreamTypeOK, StageInvV4, ReadReply
<1>3. /\ o.k \in Nat /\ pos + o.k <= Len(down)
      /\ \/ o.ec = no_error /\ o.k >= 1
         \/ o.ec \in transport_error /\ o.k = 0 /\ link # "up"
      /\ More(o) <=> o.ec = no_error /\ n + o.k < 8
      /\ n + o.k <= 8
  BY <1>2, TurnV4Facts
<1>4. down' = down /\ link' = link /\ pos' = pos + o.k /\ stream_ec' = o.ec
  BY <1>1 DEF Transfer, TransferLast
<1>5. GrantSentV4' = GrantSentV4
  BY <1>4 DEF GrantSentV4
<1>6. CASE More(o)
  BY <1>1, <1>4, <1>5, <1>6 DEF Service!vars
<1>7. CASE ~More(o)
  <2>1. pc' = "done" /\ ec' = R(o).ec /\ ep' = R(o).ep
    BY <1>1, <1>7 DEF Complete
  <2>2. Service!Complete(ec')
    BY <1>2, <1>4, <1>5, <2>1 DEF Service!Complete
  <2>3. /\ ec' \in error_code /\ ep' \in endpoint_v4
        /\ SuccessIsGenuineV4' /\ TransportErrorKeptV4' /\ AnswerInv'
    BY DEF ConnectV4Inv, TypeOK, endpoint_v4
  <2>4. Service!failed(ec') <=> failed(ec')
    BY DEF failed, Service!failed, request_granted, Service!request_granted
  <2>5. /\ ec'.cat = "socks" \/ link # "up"
        /\ ec' # eof
    <3>1. eof.cat # "socks" /\ no_error.cat # "socks"
      BY DEF eof, no_error
    <3> QED
      BY <1>3, <1>4, <2>1, <2>3, <3>1, ErrorFacts DEF TransportErrorKeptV4
  <2>6. CASE failed(ec')
    <3>1. ep' = no_endpoint
      <4>1. /\ B(o) \in Seq(Byte) /\ Len(B(o)) = n + o.k
        BY <1>2, <1>3, BufferFacts
      <4>2. o.ec = no_error => Len(B(o)) = 8
        BY <1>2, <1>3, <1>7, <4>1
      <4>3. o.ec = eof => Len(B(o)) # 8
        <5>1. no_error # eof
          BY DEF no_error, eof
        <5> QED
          BY <1>2, <1>3, <4>1, <5>1
      <4>4. o.ec \in {no_error} \cup transport_error
        BY <1>3
      <4> HIDE DEF B
      <4>5. failed(R(o).ec) => R(o).ep = no_endpoint
        <5>1. /\ R(o) = reply_result(B(o), o.ec)
              /\ o.ec \in {no_error} \cup transport_error
          BY <4>4
        <5> HIDE DEF R
        <5> QED
          BY <4>1, <4>2, <4>3, <5>1, FailureWithoutEndpoint
      <4> QED
        BY <2>1, <2>6, <4>5
    <3>2. ec' \in {c \in error_code : Service!failed(c)} /\ ec' # Service!eof
      BY <2>3, <2>4, <2>5, <2>6 DEF eof, Service!eof
    <3>3. Service!Fail
      BY <1>4, <2>2, <2>5, <3>1, <3>2
         DEF Service!Fail, no_endpoint, Service!no_endpoint
    <3> QED
      BY <3>3 DEF Service!Next
  <2>7. CASE ~failed(ec')
    <3>1. ec'.cat = "socks"
      BY <1>3, <1>4, <2>1, <2>3, <2>7, ErrorFacts DEF TransportErrorKeptV4
    <3>2. pos' = 8 /\ down'[1] \in {0, socks_4} /\ down'[2] = request_granted
      BY <2>1, <2>3, <2>7 DEF SuccessIsGenuineV4
    <3>3. GrantSentV4
      BY <1>2, <1>3, <1>4, <3>2 DEF GrantSentV4
    <3>4. ec' \in {c \in error_code : c.cat = "socks" /\ ~Service!failed(c)}
      BY <2>3, <2>4, <2>7, <3>1
    <3>5. Service!Succeed
      BY <1>2, <2>2, <2>3, <3>3, <3>4 DEF Service!Succeed, endpoint_v4
    <3> QED
      BY <3>5 DEF Service!Next
  <2> QED
    BY <2>6, <2>7
<1> QED
  BY <1>6, <1>7

\* A SOCKS4 connect is a ConnectService: its initial states are initial
\* states of the service, and every step is a step of it or none.  (That it
\* ends when the connection is lost is left to the model checker.)
THEOREM RefinesServiceV4 == Spec => Service!Safety
<1>1. Init => Service!Init
  <2> SUFFICES ASSUME Init PROVE Service!Init
    OBVIOUS
  <2>1. /\ pc = "write_request" /\ down = <<>> /\ link = "up"
        /\ ec = no_error /\ ep = no_endpoint
    BY DEF Init, StreamInit
  <2>2. GrantSentV4 = FALSE
    BY <2>1 DEF GrantSentV4
  <2> QED
    BY <2>1, <2>2 DEF Service!Init, no_error, Service!no_error,
                      no_endpoint, Service!no_endpoint
<1>2. ConnectV4Inv /\ ConnectV4Inv' /\ [Next]_vars
        => [Service!Next]_(Service!vars)
  <2> SUFFICES ASSUME ConnectV4Inv, ConnectV4Inv', [Next]_vars
               PROVE  [Service!Next]_(Service!vars)
    OBVIOUS
  <2>1. CASE WriteRequest
    BY <2>1, WriteServiceV4
  <2>2. CASE ReadReply
    BY <2>2, ReadServiceV4
  <2>3. CASE PeerAnswers
    BY <2>3, SendsServiceV4, ConnectV4Assumption DEF PeerAnswers
  <2>4. CASE TargetSpeaks
    BY <2>4, SendsServiceV4, ConnectV4Assumption DEF TargetSpeaks
  <2>5. CASE PeerShutsDown
    BY <2>5, LossServiceV4 DEF PeerShutsDown
  <2>6. CASE PeerResets
    BY <2>6, LossServiceV4 DEF PeerResets
  <2>7. CASE ApplicationCloses
    BY <2>7, LossServiceV4 DEF ApplicationCloses
  <2>8. CASE UNCHANGED vars
    BY <2>8 DEF vars, stream_vars, op_vars, Service!vars, GrantSentV4
  <2> QED
    BY <2>1, <2>2, <2>3, <2>4, <2>5, <2>6, <2>7, <2>8
       DEF Next, Operation, connect_v4, connect_v4_op, Environment
<1> QED
  BY <1>1, <1>2, ConnectV4Invariance, PTL DEF Spec, Service!Safety
=============================================================================
