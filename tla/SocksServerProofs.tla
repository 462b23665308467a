------------------------- MODULE SocksServerProofs -------------------------
(***************************************************************************)
(* Proofs about SocksServer, for every dialogue a client may have and      *)
(* every endpoint the server's socket may be bound to: whom the server     *)
(* connects for, and what it tells the client.                             *)
(***************************************************************************)
EXTENDS SocksServer, WireProofs

(***************************************************************************)
(* The inductive invariant.                                                *)
(***************************************************************************)
\* The length of the client's greeting, and where its request begins.
GreetingEnd == 2 + down[2]
RequestBegin == GreetingEnd + (IF choice = 2 THEN 513 ELSE 0)

\* A SOCKS5 greeting was read that offers the method chosen.
Greeted ==
    /\ Len(down) >= 2 /\ down[1] = 5 /\ pos >= GreetingEnd
    /\ choice # 255 => \E i \in 3..GreetingEnd : down[i] = choice

\* The client knows the method and, if it is user name and password, that it
\* was authenticated.
Authenticated ==
    /\ Greeted /\ pos >= RequestBegin
    /\ \/ choice = 0 /\ out = <<<<5, 0>>>>
       \/ choice = 2 /\ out = <<<<5, 2>>, <<1, 0>>>>

\* target_ is what the bytes read ask for.
TargetRequested ==
    /\ Requested(RequestRead).rep = 0
    /\ target = Requested(RequestRead).target
    /\ down[1] = 4 => Terminated(RequestRead) \/ pos = 258

\* What the pending operation says about the dialogue so far: how much was
\* read and written, and what the reply about to be written stands for.
StageInv ==
    /\ pc = "read_greeting" => pos = n /\ out = <<>>
    /\ pc = "write_choice" =>
          /\ Greeted /\ pos = GreetingEnd /\ n = 0 /\ out = <<>>
          /\ message = <<5, choice>>
    /\ pc = "read_userpass" =>
          /\ Greeted /\ pos = GreetingEnd + n
          /\ choice = 2 /\ out = <<<<5, 2>>>>
    /\ pc = "write_status" =>
          /\ Greeted /\ pos = GreetingEnd + 513 /\ n = 0
          /\ choice = 2 /\ out = <<<<5, 2>>>>
          /\ message = <<1, 0>>
    /\ pc = "read_request" => Authenticated /\ pos = RequestBegin + n
    /\ pc \in {"resolve", "connect"} => Authenticated /\ TargetRequested
    /\ pc = "connect_v4" =>
          Len(down) >= 1 /\ down[1] = 4 /\ out = <<>> /\ TargetRequested
    /\ pc = "write_reply" =>
          /\ Authenticated
          /\ Len(message) > 2 /\ message[1] = 5
          /\ message[2] = 0 => tsock = "connected" /\ TargetRequested
    /\ pc = "write_reply_v4" =>
          /\ Len(down) >= 1 /\ down[1] = 4 /\ out = <<>>
          /\ Len(message) > 2 /\ message[1] = 4
          /\ message[2] = 90 => tsock = "connected" /\ TargetRequested

ServerInv ==
    /\ TypeOK
    /\ StageInv
    /\ GrantIsGenuine
    /\ NothingBeforeAuthentication

(***************************************************************************)
(* The parsers and the messages.                                           *)
(***************************************************************************)
\* parse_socks_greeting chooses a method the client offered, or refuses.
LEMMA GreetingFacts ==
    ASSUME NEW buf \in Seq(Byte)
    PROVE  LET c == parse_socks_greeting(buf)
           IN  /\ c \in {0, 2, 255, dropped}
               /\ c # dropped => Len(buf) >= 2 /\ Len(buf) = 2 + buf[2]
               /\ c \in {0, 2} => \E i \in 3..Len(buf) : buf[i] = c
<1>1. Len(buf) \in Nat
  OBVIOUS
<1>2. CASE Len(buf) < 2 \/ buf[1] # 5 \/ buf[2] # Len(buf) - 2
  <2>1. parse_socks_greeting(buf) = dropped
    BY <1>2, Zenon DEF parse_socks_greeting
  <2>2. dropped \notin {0, 2}
    BY DEF dropped
  <2> QED
    BY <2>1, <2>2, Zenon
<1>3. CASE ~(Len(buf) < 2 \/ buf[1] # 5 \/ buf[2] # Len(buf) - 2)
  <2> DEFINE methods == {buf[i] : i \in 3..Len(buf)}
  <2>1. parse_socks_greeting(buf)
          = IF 2 \in methods THEN 2 ELSE IF 0 \in methods THEN 0 ELSE 255
    BY <1>3, Zenon DEF parse_socks_greeting
  <2>2. Len(buf) >= 2 /\ Len(buf) = 2 + buf[2]
    BY <1>1, <1>3
  <2> QED
    BY <2>1, <2>2
<1> QED
  BY <1>2, <1>3

\* A target is what accept makes of an address and two bytes of a port.
TargetType == [kind : {"v4", "v6", "domain"}, addr : Seq(Byte), port : Port]

\* What accept returns.
LEMMA AcceptFacts ==
    ASSUME NEW kind \in {"v4", "v6", "domain"}, NEW addr \in Seq(Byte),
           NEW hi \in Byte, NEW lo \in Byte
    PROVE  accept(kind, addr, hi, lo) \in [rep : {0}, target : TargetType]
<1>1. to_port(hi, lo) \in Port
  BY PortBytes
<1>2. [kind |-> kind, addr |-> addr, port |-> to_port(hi, lo)] \in TargetType
  BY <1>1 DEF TargetType
<1> QED
  BY <1>2 DEF accept

\* What refuse returns.
LEMMA RefuseFacts ==
    ASSUME NEW v
    PROVE  refuse(v) \in [rep : {v}, target : TargetType]
<1>1. no_endpoint \in TargetType
  BY NoEndpointType DEF TargetType
<1> QED
  BY <1>1 DEF refuse

\* parse_socks_connect: the reply codes it may refuse with.
LEMMA ConnectFacts ==
    ASSUME NEW buf \in Seq(Byte)
    PROVE  parse_socks_connect(buf)
             \in [rep : {0, 2, 7, 8, dropped}, target : TargetType]
<1> DEFINE r == parse_socks_connect(buf)
           z == Len(buf)
<1>0. \/ r \in {refuse(v) : v \in {2, 7, 8, dropped}}
      \/ r = accept("v4", SubSeq(buf, 5, 8), buf[9], buf[10]) /\ z = 10
      \/ r = accept("v6", SubSeq(buf, 5, 20), buf[21], buf[22]) /\ z = 22
      \/ /\ r = accept("domain", SubSeq(buf, 6, 5 + buf[5]), buf[z - 1], buf[z])
         /\ z > 4 /\ z = 7 + buf[5]
  BY Zenon DEF parse_socks_connect
<1>1. z \in Nat /\ \A i \in 1..z : buf[i] \in Byte
  BY ElementOfSeq
<1> HIDE DEF r
<1>2. CASE r \in {refuse(v) : v \in {2, 7, 8, dropped}}
  <2>1. PICK v \in {2, 7, 8, dropped} : r = refuse(v)
    BY <1>2
  <2>2. r \in [rep : {v}, target : TargetType]
    BY <2>1, RefuseFacts
  <2> QED
    BY <2>2 DEF r
<1>3. CASE r = accept("v4", SubSeq(buf, 5, 8), buf[9], buf[10]) /\ z = 10
  <2>1. SubSeq(buf, 5, 8) \in Seq(Byte) /\ buf[9] \in Byte /\ buf[10] \in Byte
    BY <1>1, <1>3, SubSeqProperties
  <2>2. r \in [rep : {0}, target : TargetType]
    BY <1>3, <2>1, AcceptFacts, Zenon
  <2> QED
    BY <2>2 DEF r
<1>4. CASE r = accept("v6", SubSeq(buf, 5, 20), buf[21], buf[22]) /\ z = 22
  <2>1. SubSeq(buf, 5, 20) \in Seq(Byte) /\ buf[21] \in Byte /\ buf[22] \in Byte
    BY <1>1, <1>4, SubSeqProperties
  <2>2. r \in [rep : {0}, target : TargetType]
    BY <1>4, <2>1, AcceptFacts, Zenon
  <2> QED
    BY <2>2 DEF r
<1>5. CASE /\ r = accept("domain", SubSeq(buf, 6, 5 + buf[5]), buf[z - 1], buf[z])
           /\ z > 4 /\ z = 7 + buf[5]
  <2>1. buf[5] \in Byte
    <3>1. 5 \in 1..z
      BY <1>1, <1>5
    <3> QED
      BY <1>1, <3>1
  <2>2. buf[5] \in Nat
    BY <2>1, BytesAreNumbers
  <2>3. 5 + buf[5] \in Nat /\ 5 + buf[5] <= z
    BY <2>2, <1>5
  <2>4. SubSeq(buf, 6, 5 + buf[5]) \in Seq(Byte)
    <3>1. \A i \in 6..(5 + buf[5]) : buf[i] \in Byte
      BY <1>1, <2>3
    <3> DEFINE y == 5 + buf[5]
    <3>2. y \in Int /\ \A i \in 6..y : buf[i] \in Byte
      BY <2>3, <3>1
    <3> HIDE DEF y
    <3>3. SubSeq(buf, 6, y) \in Seq(Byte)
      BY <3>2, SubSeqProperties
    <3> QED
      BY <3>3 DEF y
  <2>5. z - 1 \in 1..z /\ z \in 1..z
    BY <1>1, <1>5
  <2>6. buf[z - 1] \in Byte /\ buf[z] \in Byte
    BY <1>1, <2>5
  <2>7. r \in [rep : {0}, target : TargetType]
    BY <1>5, <2>4, <2>6, AcceptFacts, Zenon
  <2> QED
    BY <2>7 DEF r
<1> QED
  BY <1>0, <1>2, <1>3, <1>4, <1>5, Zenon

\* parse_socks_connect_v4 refuses with one code.
LEMMA ConnectV4Facts ==
    ASSUME NEW buf \in Seq(Byte), Len(buf) # 0
    PROVE  LET r == parse_socks_connect_v4(buf)
           IN  /\ r \in [rep : {0, 91}, target : TargetType]
               /\ r.rep = 0 => Len(buf) # 1 /\ buf[2] = 1
<1> DEFINE r == parse_socks_connect_v4(buf)
           z == Len(buf)
<1>0. \/ r = refuse(91)
      \/ /\ r = accept("v4", SubSeq(buf, 5, 8), buf[3], buf[4])
         /\ ~(z < 8) /\ z # 1 /\ buf[2] = 1
  BY Zenon DEF parse_socks_connect_v4
<1>1. z \in Nat /\ \A i \in 1..z : buf[i] \in Byte
  BY ElementOfSeq
<1> HIDE DEF r
<1>2. CASE r = refuse(91)
  <2>1. r \in [rep : {91}, target : TargetType]
    BY <1>2, RefuseFacts
  <2> QED
    BY <2>1 DEF r
<1>3. CASE /\ r = accept("v4", SubSeq(buf, 5, 8), buf[3], buf[4])
           /\ ~(z < 8) /\ z # 1 /\ buf[2] = 1
  <2>1. SubSeq(buf, 5, 8) \in Seq(Byte) /\ buf[3] \in Byte /\ buf[4] \in Byte
    BY <1>1, <1>3, SubSeqProperties
  <2>2. r \in [rep : {0}, target : TargetType]
    BY <1>3, <2>1, AcceptFacts, Zenon
  <2> QED
    BY <1>3, <2>2 DEF r
<1> QED
  BY <1>0, <1>2, <1>3, Zenon

\* A byte sequence behind two bytes keeps them in front.
LEMMA HeaderFacts ==
    ASSUME NEW h \in Seq(Byte), NEW t \in Seq(Byte), Len(h) >= 2
    PROVE  /\ h \o t \in Seq(Byte)
           /\ Len(h \o t) = Len(h) + Len(t)
           /\ (h \o t)[1] = h[1] /\ (h \o t)[2] = h[2]
<1>1. Len(h) \in Nat /\ Len(t) \in Nat
  OBVIOUS
<1>2. 1 \in 1..Len(h) /\ 2 \in 1..Len(h)
  BY <1>1
<1> QED
  BY <1>1, <1>2, ConcatProperties

\* The replies: bytes, longer than the two of a choice or a status, with the
\* version and the code in front.
LEMMA ReplyFacts ==
    ASSUME NEW rep \in Byte, NEW bnd \in Bounds
    PROVE  /\ connect_reply(rep, bnd) \in Seq(Byte)
           /\ Len(connect_reply(rep, bnd)) > 2
           /\ connect_reply(rep, bnd)[1] = 5 /\ connect_reply(rep, bnd)[2] = rep
<1> DEFINE e == IF rep # 0 THEN no_endpoint ELSE bnd
           h == <<5, rep, 0, IF e.kind = "v4" THEN 1 ELSE 4>>
           a == e.addr
           p == port_bytes(e.port)
           t == a \o p
<1>1. e \in [kind : {"v4", "v6"}, addr : Seq(Byte), port : Port]
  BY NoEndpointType, ServerAssumption
<1>2. p \in Seq(Byte) /\ a \in Seq(Byte)
  BY <1>1, PortBytes
<1> HIDE DEF e
<1>3. /\ h \in Seq(Byte) /\ Len(h) = 4 /\ Len(h) >= 2 /\ h[1] = 5 /\ h[2] = rep
  BY DEF Byte
<1>4. connect_reply(rep, bnd) = h \o a \o p
  BY Zenon DEF connect_reply, e
<1> HIDE DEF h, a, p
<1>5. h \o a \in Seq(Byte) /\ Len(h \o a) = 4 + Len(a)
        /\ (h \o a)[1] = 5 /\ (h \o a)[2] = rep
  <2>1. /\ h \o a \in Seq(Byte) /\ Len(h \o a) = Len(h) + Len(a)
        /\ (h \o a)[1] = h[1] /\ (h \o a)[2] = h[2]
    BY <1>2, <1>3, HeaderFacts
  <2> QED
    BY <2>1, <1>3, Zenon
<1>6. Len(a) \in Nat /\ Len(p) \in Nat
  BY <1>2
<1> DEFINE g == h \o a
<1>7. g \in Seq(Byte) /\ Len(g) >= 2 /\ Len(g) > 2 /\ g[1] = 5 /\ g[2] = rep
  BY <1>5, <1>6
<1> HIDE DEF g
<1>8. /\ g \o p \in Seq(Byte) /\ Len(g \o p) = Len(g) + Len(p)
      /\ (g \o p)[1] = 5 /\ (g \o p)[2] = rep
  BY <1>2, <1>7, HeaderFacts
<1>9. Len(g \o p) > 2
  BY <1>6, <1>7, <1>8
<1> QED
  BY <1>4, <1>8, <1>9, Zenon DEF g

\* The same of a SOCKS4 reply.
LEMMA ReplyV4Facts ==
    ASSUME NEW rep \in Byte, NEW bnd \in Bounds
    PROVE  /\ connect_reply_v4(rep, bnd) \in Seq(Byte)
           /\ Len(connect_reply_v4(rep, bnd)) > 2
           /\ connect_reply_v4(rep, bnd)[1] = 4
           /\ connect_reply_v4(rep, bnd)[2] = rep
<1> DEFINE e == IF rep # 90 THEN no_endpoint ELSE bnd
           h == <<4, rep>>
           p == port_bytes(e.port)
           a == IF e.kind = "v4" THEN e.addr ELSE <<0, 0, 0, 0>>
<1>1. e \in [kind : {"v4", "v6"}, addr : Seq(Byte), port : Port]
  BY NoEndpointType, ServerAssumption
<1> HIDE DEF e
<1>2. p \in Seq(Byte)
  BY <1>1, PortBytes
<1>3. Len(p) = 2
  BY DEF port_bytes
<1>4. a \in Seq(Byte)
  <2>1. <<0, 0, 0, 0>> \in Seq(Byte)
    BY DEF Byte
  <2>2. e.addr \in Seq(Byte)
    BY <1>1
  <2> QED
    BY <2>1, <2>2, Zenon
<1>5. h \in Seq(Byte) /\ Len(h) = 2 /\ Len(h) >= 2 /\ h[1] = 4 /\ h[2] = rep
  BY DEF Byte
<1>6. connect_reply_v4(rep, bnd) = h \o p \o a
  BY Zenon DEF connect_reply_v4, e
<1> HIDE DEF h, p, a
<1>7. h \o p \in Seq(Byte) /\ Len(h \o p) = 2 + Len(p)
        /\ (h \o p)[1] = 4 /\ (h \o p)[2] = rep
  <2>1. /\ h \o p \in Seq(Byte) /\ Len(h \o p) = Len(h) + Len(p)
        /\ (h \o p)[1] = h[1] /\ (h \o p)[2] = h[2]
    BY <1>2, <1>5, HeaderFacts
  <2> QED
    BY <2>1, <1>5, Zenon
<1> DEFINE g == h \o p
<1>8. g \in Seq(Byte) /\ Len(g) = 4 /\ Len(g) >= 2 /\ g[1] = 4 /\ g[2] = rep
  BY <1>3, <1>7
<1> HIDE DEF g
<1>9. /\ g \o a \in Seq(Byte) /\ Len(g \o a) = Len(g) + Len(a)
      /\ (g \o a)[1] = 4 /\ (g \o a)[2] = rep
  BY <1>4, <1>8, HeaderFacts
<1>10. Len(a) \in Nat
  BY <1>4
<1>11. Len(g \o a) > 2
  BY <1>8, <1>9, <1>10
<1> QED
  BY <1>6, <1>9, <1>11, Zenon DEF g

(***************************************************************************)
(* The read loop.                                                          *)
(***************************************************************************)
\* A completion condition returns a number.
LEMMA ConditionType ==
    ASSUME NEW buf \in Seq(Byte), NEW e
    PROVE  completion_condition(buf, e) \in Int
<1>0. Len(buf) \in Nat /\ \A i \in 1..Len(buf) : buf[i] \in Byte
  BY ElementOfSeq
<1>1. Len(buf) \in Nat /\ \A i \in 1..Len(buf) : buf[i] \in Nat
  BY <1>0, BytesAreNumbers
<1>2. greeting_cond(buf, e) \in Int
  BY <1>1 DEF greeting_cond
<1>3. userpass_cond(buf, e) \in Int
  <2> DEFINE idlen == buf[2]
             pwlen == IF Len(buf) > 2 + idlen THEN buf[3 + idlen] ELSE 256
  <2>1. ~(Len(buf) < 2) => idlen \in Nat /\ pwlen \in Nat
    <3>1. ~(Len(buf) < 2) => idlen \in Nat
      BY <1>1
    <3>2. idlen \in Nat /\ Len(buf) > 2 + idlen => 3 + idlen \in 1..Len(buf)
      BY <1>1
    <3> QED
      BY <1>1, <3>1, <3>2
  <2>2. ~(Len(buf) < 2) => 3 + idlen + pwlen \in Int
    BY <2>1
  <2> HIDE DEF pwlen, idlen
  <2>3. userpass_cond(buf, e) \in {0, 513, 3 + idlen + pwlen}
    BY Zenon DEF userpass_cond, idlen, pwlen
  <2>4. Len(buf) < 2 => userpass_cond(buf, e) \in {0, 513}
    BY Zenon DEF userpass_cond
  <2> QED
    BY <2>2, <2>3, <2>4
<1>4. request_cond(buf, e) \in Int
  <2>1. ~(Len(buf) < 4) => request_size(buf) \in Int
    BY <1>1 DEF request_size
  <2> HIDE DEF request_size
  <2> QED
    BY <1>1, <2>1 DEF request_cond
<1> QED
  BY <1>2, <1>3, <1>4 DEF completion_condition

\* A turn takes no more than buffer_ has room for.
LEMMA TurnFacts ==
    ASSUME TypeOK, pc \in Reading, NEW o \in Turn
    PROVE  /\ o.k \in Nat /\ pos + o.k <= Len(down)
           /\ \/ o.ec = no_error /\ o.k >= 1 /\ n + o.k <= buffer_size
              \/ o.ec \in transport_error /\ o.k = 0
           /\ ~failed(o.ec) => o.ec = no_error /\ o.k >= 1
                                 /\ n + o.k <= buffer_size
<1>1. StreamTypeOK /\ n \in Nat /\ pos \in Nat
  BY DEF TypeOK, StreamTypeOK
<1>2. buffer(0) \in Seq(Byte) /\ Len(buffer(0)) = n
  BY <1>1, BufferFacts DEF StreamTypeOK
<1> DEFINE limit == to_read(buffer(0), no_error)
<1>3. limit \in Int /\ limit <= buffer_size - n /\ buffer_size \in Int
  <2>1. completion_condition(buffer(0), no_error) \in Int
    BY <1>2, ConditionType
  <2>2. buffer_size \in Int
    BY DEF buffer_size
  <2> QED
    BY <1>1, <1>2, <2>1, <2>2 DEF to_read
<1> HIDE DEF limit
<1>4. o \in read_some(limit)
  BY DEF Turn, limit
<1>5. /\ o.k \in Nat /\ pos + o.k <= Len(down)
      /\ \/ o.ec = no_error /\ o.k >= 1 /\ o.k <= limit
         \/ o.ec \in transport_error /\ o.k = 0
  BY <1>1, <1>3, <1>4, ReadSomeFacts
<1>6. o.k <= limit => n + o.k <= buffer_size
  BY <1>1, <1>3, <1>5
<1> QED
  BY <1>5, <1>6, ErrorFacts

\* A turn that ends the read without an error has filled buffer_, or the
\* completion condition is satisfied.
LEMMA LastTurn ==
    ASSUME TypeOK, pc \in Reading, NEW o \in Turn, ~failed(o.ec), ~More(o)
    PROVE  \/ n + o.k = buffer_size
           \/ completion_condition(buffer(o.k), o.ec) = 0
<1>1. StreamTypeOK /\ n \in Nat /\ pos \in Nat
  BY DEF TypeOK, StreamTypeOK
<1>2. o.k \in Nat /\ pos + o.k <= Len(down)
  BY TurnFacts
<1>3. Len(buffer(o.k)) = n + o.k
  BY <1>1, <1>2, BufferFacts
<1>4. buffer_size \in Int
  BY DEF buffer_size
<1> QED
  BY <1>1, <1>2, <1>3, <1>4 DEF More, to_read

\* What every turn keeps.
LEMMA TurnKeeps ==
    ASSUME TypeOK, pc \in Reading, NEW o \in Turn,
           Transfer(o) \/ TransferLast(o)
    PROVE  /\ StreamTypeOK'
           /\ pos' = pos + o.k /\ down' = down /\ link' = link
           /\ pos' \in Nat /\ pos' >= pos
<1>1. /\ pos' = pos + o.k /\ stream_ec' = o.ec /\ down' = down /\ link' = link
      /\ n' \in {0, n + o.k}
  BY DEF Transfer, TransferLast
<1>2. /\ pos \in Nat /\ n \in 0..pos /\ down \in Seq(Byte) /\ Len(down) \in Nat
  BY DEF TypeOK, StreamTypeOK
<1>3. /\ o.k \in Nat /\ pos + o.k <= Len(down)
      /\ o.ec \in {no_error} \cup transport_error
  BY TurnFacts
<1>4. pos' \in 0..Len(down') /\ n' \in 0..pos' /\ pos' >= pos
  BY <1>1, <1>2, <1>3
<1> QED
  BY <1>1, <1>2, <1>3, <1>4 DEF TypeOK, StreamTypeOK

(***************************************************************************)
(* What the stages of the handshake have in common.                        *)
(***************************************************************************)
\* What the client is told before the reply: all of it two bytes long.
Negotiation ==
    {<<>>, <<<<5, 0>>>>, <<<<5, 2>>>>, <<<<5, 2>>, <<1, 0>>>>, <<<<5, 255>>>>}

\* Such a dialogue holds no reply.
LEMMA NegotiationFacts ==
    \A x \in Negotiation :
        /\ x \in Seq(Seq(Byte)) /\ Len(x) \in 0..2
        /\ \A i \in 1..Len(x) : Len(x[i]) = 2
        /\ {m \in {x[i] : i \in DOMAIN x} : Len(m) > 2} = {}
<1> SUFFICES ASSUME NEW x \in Negotiation
             PROVE  /\ x \in Seq(Seq(Byte)) /\ Len(x) \in 0..2
                    /\ \A i \in 1..Len(x) : Len(x[i]) = 2
                    /\ {m \in {x[i] : i \in DOMAIN x} : Len(m) > 2} = {}
  OBVIOUS
<1>1. x \in Seq(Seq(Byte)) /\ Len(x) \in 0..2
  <2> DEFINE a == <<5, 0>>
             b == <<5, 2>>
             c == <<1, 0>>
             d == <<5, 255>>
  <2>1. a \in Seq(Byte) /\ b \in Seq(Byte) /\ c \in Seq(Byte) /\ d \in Seq(Byte)
    BY DEF Byte
  <2>2. x \in {<<>>, <<a>>, <<b>>, <<b, c>>, <<d>>}
    BY Zenon DEF Negotiation
  <2> HIDE DEF a, b, c, d
  <2> DEFINE S == Seq(Byte)
  <2>3. a \in S /\ b \in S /\ c \in S /\ d \in S
    BY <2>1
  <2> HIDE DEF S
  <2>4. /\ <<>> \in Seq(S) /\ <<a>> \in Seq(S) /\ <<b>> \in Seq(S)
        /\ <<b, c>> \in Seq(S) /\ <<d>> \in Seq(S)
    BY <2>3
  <2>5. /\ Len(<<>>) = 0 /\ Len(<<a>>) = 1 /\ Len(<<b>>) = 1
        /\ Len(<<b, c>>) = 2 /\ Len(<<d>>) = 1
    OBVIOUS
  <2>6. x \in Seq(S) /\ Len(x) \in {0, 1, 2}
    BY <2>2, <2>4, <2>5, Zenon
  <2> QED
    BY <2>6 DEF S
<1>2. ASSUME NEW i \in 1..Len(x) PROVE Len(x[i]) = 2
  BY DEF Negotiation
<1>3. DOMAIN x = 1..Len(x)
  BY <1>1
<1>4. ASSUME NEW i \in DOMAIN x PROVE ~(Len(x[i]) > 2)
  <2>1. Len(x[i]) = 2
    BY <1>2, <1>3, Zenon
  <2> QED
    BY <2>1
<1> QED
  BY <1>1, <1>2, <1>4

\* Until the reply is written the client has been told of the negotiation
\* only.
LEMMA OutBeforeReply ==
    ASSUME StageInv, TypeOK, pc \notin {"relay", "ended"}
    PROVE  out \in Negotiation
<1>1. pc \in Reading \cup Writing \cup {"resolve", "connect", "connect_v4"}
  BY DEF TypeOK
<1>2. CASE pc \in {"read_greeting", "write_choice", "connect_v4",
                   "write_reply_v4"}
  <2>1. out = <<>>
    BY <1>2 DEF StageInv
  <2> QED
    BY <2>1, Zenon DEF Negotiation
<1>3. CASE pc \in {"read_userpass", "write_status"}
  <2>1. out = <<<<5, 2>>>>
    BY <1>3 DEF StageInv
  <2> QED
    BY <2>1, Zenon DEF Negotiation
<1>4. CASE pc \in {"read_request", "resolve", "connect", "write_reply"}
  <2>1. Authenticated
    BY <1>4 DEF StageInv
  <2> QED
    BY <2>1, Zenon DEF Authenticated, Negotiation
<1> QED
  BY <1>1, <1>2, <1>3, <1>4 DEF Reading, Writing

\* While the handshake goes on, the stages say what the properties ask for.
LEMMA DuringHandshake ==
    TypeOK /\ StageInv /\ pc \notin {"relay", "ended"}
      => GrantIsGenuine /\ NothingBeforeAuthentication
<1> SUFFICES ASSUME TypeOK, StageInv, pc \notin {"relay", "ended"}
             PROVE  GrantIsGenuine /\ NothingBeforeAuthentication
  OBVIOUS
<1>1. out \in Negotiation
  BY OutBeforeReply
<1>2. Replies = {}
  BY <1>1, NegotiationFacts DEF Replies
<1>3. GrantIsGenuine
  BY <1>2 DEF GrantIsGenuine
<1>4. NothingBeforeAuthentication
  <2> SUFFICES ASSUME down[1] = 5, out # <<>>
               PROVE  /\ out[1][2] # 255
                           => \E i \in 3..(2 + down[2]) : down[i] = out[1][2]
                      /\ /\ pc \in {"read_request", "resolve", "connect",
                                    "write_reply", "relay"}
                         /\ out[1][2] = 2
                         => Len(out) >= 2 /\ out[2] = <<1, 0>>
    BY DEF NothingBeforeAuthentication
  <2>1. CASE pc \in {"read_userpass", "write_status"}
    <3>1. Greeted /\ choice = 2 /\ out[1][2] = 2
      BY <2>1 DEF StageInv
    <3> QED
      BY <2>1, <3>1 DEF Greeted, GreetingEnd
  <2>2. CASE pc \in {"read_request", "resolve", "connect", "write_reply"}
    <3>1. Authenticated
      BY <2>2 DEF StageInv
    <3>2. /\ out[1][2] = choice /\ choice # 255
          /\ choice = 2 => Len(out) = 2 /\ out[2] = <<1, 0>>
      BY <3>1 DEF Authenticated
    <3> QED
      BY <3>1, <3>2 DEF Authenticated, Greeted, GreetingEnd
  <2>3. CASE pc \in {"read_greeting", "write_choice", "connect_v4",
                     "write_reply_v4"}
    BY <2>3 DEF StageInv
  <2> QED
    BY <2>1, <2>2, <2>3 DEF TypeOK, Reading, Writing
<1> QED
  BY <1>3, <1>4

\* The same of the next state.
LEMMA DuringHandshakePrimed ==
    (TypeOK /\ StageInv /\ pc \notin {"relay", "ended"})'
      => (GrantIsGenuine /\ NothingBeforeAuthentication)'
BY DuringHandshake, PTL

\* A connection that ends without a word more keeps the invariant.
LEMMA EndsQuietly ==
    ASSUME ServerInv, pc \notin {"relay", "ended"}, TypeOK',
           pc' = "ended", UNCHANGED <<down, out>>
    PROVE  ServerInv'
<1>1. StageInv'
  BY DEF StageInv
<1>2. out \in Negotiation
  BY OutBeforeReply DEF ServerInv
<1>3. Replies' = {}
  BY <1>2, NegotiationFacts DEF Replies
<1>4. GrantIsGenuine'
  BY <1>3 DEF GrantIsGenuine
<1>5. NothingBeforeAuthentication'
  BY DEF ServerInv, NothingBeforeAuthentication
<1> QED
  BY <1>1, <1>4, <1>5 DEF ServerInv

\* The handshake goes on.
LEMMA GoesOn ==
    ASSUME TypeOK', StageInv', pc' \notin {"relay", "ended"}
    PROVE  ServerInv'
BY DuringHandshakePrimed DEF ServerInv

\* The greeting is within what was read.
LEMMA GreetingRead ==
    ASSUME TypeOK, Greeted
    PROVE  /\ down[2] \in Nat /\ GreetingEnd \in Nat
           /\ GreetingEnd >= 2 /\ GreetingEnd <= pos /\ pos <= Len(down)
           /\ pos \in Nat /\ Len(down) \in Nat
<1>1. down \in Seq(Byte) /\ pos \in Nat /\ pos <= Len(down) /\ Len(down) \in Nat
  BY DEF TypeOK, StreamTypeOK
<1>2. 2 \in 1..Len(down)
  BY <1>1 DEF Greeted
<1>3. down[2] \in Byte
  BY <1>1, <1>2, ElementOfSeq
<1>4. down[2] \in Nat
  BY <1>3, BytesAreNumbers
<1>5. pos >= GreetingEnd
  BY DEF Greeted
<1> QED
  BY <1>1, <1>4, <1>5 DEF GreetingEnd

\* What was read of the greeting stays when more arrives or is read.
LEMMA GreetedGrows ==
    ASSUME TypeOK, Greeted, choice' = choice,
           pos' \in Nat, pos' >= pos,
           Len(down') \in Nat, Len(down') >= Len(down),
           \A i \in 1..Len(down) : down'[i] = down[i]
    PROVE  /\ Greeted' /\ GreetingEnd' = GreetingEnd
           /\ RequestBegin' = RequestBegin
<1>1. /\ down[2] \in Nat /\ GreetingEnd \in Nat
      /\ GreetingEnd >= 2 /\ GreetingEnd <= pos /\ pos <= Len(down)
      /\ pos \in Nat /\ Len(down) \in Nat
  BY GreetingRead
<1>2. Len(down) >= 2 /\ down[1] = 5
  BY DEF Greeted
<1>3. 1 \in 1..Len(down) /\ 2 \in 1..Len(down)
  BY <1>1, <1>2
<1>4. down'[1] = 5 /\ down'[2] = down[2]
  BY <1>2, <1>3
<1>5. GreetingEnd' = GreetingEnd
  BY <1>4 DEF GreetingEnd
<1>6. Len(down') >= 2 /\ pos' >= GreetingEnd'
  BY <1>1, <1>2, <1>5
<1>7. ASSUME choice' # 255
      PROVE  \E i \in 3..GreetingEnd' : down'[i] = choice'
  <2>1. PICK i \in 3..GreetingEnd : down[i] = choice
    BY <1>7 DEF Greeted
  <2>2. i \in 1..Len(down)
    BY <1>1
  <2>3. down'[i] = choice'
    BY <2>1, <2>2
  <2> QED
    BY <1>5, <2>3, Zenon
<1>8. Greeted'
  BY <1>4, <1>6, <1>7 DEF Greeted
<1>9. RequestBegin' = RequestBegin
  BY <1>5, Zenon DEF RequestBegin
<1> QED
  BY <1>5, <1>8, <1>9

\* Where the request begins is known once the greeting was read.
LEMMA RequestBeginType ==
    ASSUME TypeOK, Greeted
    PROVE  RequestBegin \in Nat /\ RequestBegin >= GreetingEnd
BY GreetingRead DEF RequestBegin

\* The positions in the stream are numbers.
LEMMA StreamNumbers ==
    StreamTypeOK => pos \in Nat /\ n \in Nat /\ Len(down) \in Nat
BY DEF StreamTypeOK

\* The same of the next state.
LEMMA StreamNumbersPrimed ==
    StreamTypeOK' => pos' \in Nat /\ n' \in Nat /\ Len(down') \in Nat
BY DEF StreamTypeOK

\* The read in progress goes on, with more bytes sent or read.
LEMMA ReadGoesOn ==
    ASSUME ServerInv, pc \in Reading, StreamTypeOK',
           UNCHANGED <<pc, choice, out>>, TypeOK',
           pos' >= pos, pos' = (pos - n) + n',
           Len(down') >= Len(down),
           \A i \in 1..Len(down) : down'[i] = down[i]
    PROVE  ServerInv'
<1>1. /\ pos \in Nat /\ n \in Nat /\ pos' \in Nat /\ n' \in Nat
      /\ Len(down) \in Nat /\ Len(down') \in Nat
  <2>1. StreamTypeOK
    BY DEF ServerInv, TypeOK
  <2> QED
    BY <2>1, StreamNumbers, StreamNumbersPrimed, Zenon
<1>2. TypeOK /\ StageInv
  BY DEF ServerInv
<1>3. CASE pc = "read_greeting"
  <2>1. pos = n /\ out = <<>>
    BY <1>2, <1>3 DEF StageInv
  <2>2. pos' = n'
    BY <1>1, <2>1
  <2>3. StageInv'
    BY <1>3, <2>1, <2>2 DEF StageInv
  <2> QED
    BY <1>3, <2>3, GoesOn
<1>4. CASE pc = "read_userpass"
  <2>1. /\ Greeted /\ pos = GreetingEnd + n
        /\ choice = 2 /\ out = <<<<5, 2>>>>
    BY <1>2, <1>4 DEF StageInv
  <2>2. Greeted' /\ GreetingEnd' = GreetingEnd
    BY <1>1, <1>2, <2>1, GreetedGrows
  <2>3. GreetingEnd \in Nat
    BY <1>2, <2>1, GreetingRead
  <2>4. pos' = GreetingEnd' + n'
    <3> DEFINE g == GreetingEnd
    <3>1. pos - n = g
      BY <1>1, <2>1, <2>3
    <3> HIDE DEF g
    <3>2. pos' = g + n'
      BY <1>1, <3>1
    <3> QED
      BY <2>2, <3>2 DEF g
  <2>5. StageInv'
    BY <1>4, <2>1, <2>2, <2>4 DEF StageInv
  <2> QED
    BY <1>4, <2>5, GoesOn
<1>5. CASE pc = "read_request"
  <2>1. Authenticated /\ pos = RequestBegin + n
    BY <1>2, <1>5 DEF StageInv
  <2>2. Greeted /\ pos >= RequestBegin
    BY <2>1 DEF Authenticated
  <2>3. Greeted' /\ RequestBegin' = RequestBegin
    BY <1>1, <1>2, <2>2, GreetedGrows
  <2>4. RequestBegin \in Nat
    BY <1>2, <2>2, RequestBeginType
  <2>5. pos' = RequestBegin' + n' /\ pos' >= RequestBegin'
    <3> DEFINE g == RequestBegin
    <3>1. pos - n = g
      BY <1>1, <2>1, <2>4
    <3> HIDE DEF g
    <3>2. pos' = g + n'
      BY <1>1, <3>1
    <3>3. pos' >= g
      BY <1>1, <3>1
    <3> QED
      BY <2>3, <3>2, <3>3 DEF g
  <2>6. Authenticated'
    BY <2>1, <2>3, <2>5 DEF Authenticated
  <2>7. StageInv'
    BY <1>5, <2>5, <2>6 DEF StageInv
  <2> QED
    BY <1>5, <2>7, GoesOn
<1> QED
  BY <1>3, <1>4, <1>5 DEF Reading

\* The initial state.
LEMMA InitServerInv == Init => ServerInv
<1> SUFFICES ASSUME Init PROVE ServerInv
  OBVIOUS
<1>1. StreamTypeOK
  BY DEF Init, StreamInit, StreamTypeOK
<1>2. no_endpoint \in TargetType
  BY NoEndpointType DEF TargetType
<1>3. TypeOK
  BY <1>1, <1>2, ServerAssumption
     DEF Init, TypeOK, Reading, Writing, TargetType
<1>4. StageInv
  BY DEF Init, StreamInit, StageInv
<1>5. pc \notin {"relay", "ended"}
  BY DEF Init
<1> QED
  BY <1>3, <1>4, <1>5, DuringHandshake DEF ServerInv

\* A turn that leaves the read going.
LEMMA KeepReadingStep ==
    ASSUME ServerInv, KeepReading
    PROVE  ServerInv'
<1>1. PICK o \in Turn : Transfer(o)
  BY DEF KeepReading
<1>2. TypeOK /\ pc \in Reading
  BY DEF ServerInv, KeepReading
<1>3. /\ StreamTypeOK' /\ pos' = pos + o.k /\ down' = down
      /\ pos' \in Nat /\ pos' >= pos
  BY <1>1, <1>2, TurnKeeps
<1>4. o.k \in Nat /\ n' = n + o.k
  BY <1>1, <1>2, TurnFacts DEF Transfer
<1>5. pos' = (pos - n) + n'
  <2>1. pos \in Nat /\ n \in Nat
    BY <1>2 DEF TypeOK, StreamTypeOK
  <2> QED
    BY <1>3, <1>4, <2>1
<1>6. UNCHANGED svars
  BY DEF KeepReading
<1>7. TypeOK'
  BY <1>2, <1>3, <1>6 DEF TypeOK, svars
<1>8. /\ Len(down') >= Len(down)
      /\ \A i \in 1..Len(down) : down'[i] = down[i]
  BY <1>2, <1>3 DEF TypeOK, StreamTypeOK
<1>9. UNCHANGED <<pc, choice, out>>
  BY <1>6 DEF svars
<1> QED
  BY <1>2, <1>3, <1>5, <1>7, <1>8, <1>9, ReadGoesOn

\* The client sends its next message.
LEMMA ClientSendsStep ==
    ASSUME ServerInv, ClientSends
    PROVE  ServerInv'
<1> DEFINE m == Head(script)
<1>1. /\ script # <<>> /\ pc \in Reading /\ down' = down \o m
      /\ script' = Tail(script)
      /\ UNCHANGED <<pos, n, link, stream_ec>>
      /\ UNCHANGED <<pc, choice, target, tsock, message, out, server>>
  BY DEF ClientSends, PeerSends
<1>2. TypeOK /\ StreamTypeOK /\ script \in Seq(Seq(Byte)) /\ down \in Seq(Byte)
  BY DEF ServerInv, TypeOK, StreamTypeOK
<1>3. m \in Seq(Byte) /\ script' \in Seq(Seq(Byte))
  <2> DEFINE S == Seq(Byte)
  <2> HIDE DEF S
  <2>1. script \in Seq(S)
    BY <1>2 DEF S
  <2>2. Head(script) \in S /\ Tail(script) \in Seq(S)
    BY <1>1, <2>1
  <2> QED
    BY <1>1, <2>2 DEF S
<1> HIDE DEF m
<1>4. /\ down' \in Seq(Byte) /\ Len(down') = Len(down) + Len(m)
      /\ \A i \in 1..Len(down) : down'[i] = down[i]
  BY <1>1, <1>2, <1>3, ConcatProperties
<1>5. Len(down) \in Nat /\ Len(m) \in Nat
  BY <1>2, <1>3
<1>6. Len(down') >= Len(down)
  BY <1>4, <1>5
<1>7. StreamTypeOK'
  <2>1. pos \in 0..Len(down')
    BY <1>2, <1>4, <1>5, <1>6 DEF StreamTypeOK
  <2> QED
    BY <1>1, <1>2, <1>4, <2>1 DEF StreamTypeOK
<1>8. TypeOK'
  BY <1>1, <1>2, <1>3, <1>7 DEF TypeOK
<1>9. pos' >= pos /\ pos' = (pos - n) + n'
  BY <1>1, <1>2 DEF StreamTypeOK
<1> QED
  BY <1>1, <1>4, <1>6, <1>7, <1>8, <1>9, ReadGoesOn

(***************************************************************************)
(* The replies.                                                            *)
(***************************************************************************)
\* do_connect_reply writes the code, or ends the server.
LEMMA StartReply ==
    ASSUME NEW rep \in Byte, do_connect_reply(rep)
    PROVE  \/ pc' = "ended" /\ message' = message /\ server' = "terminated"
           \/ /\ pc' = "write_reply" /\ server' = server
              /\ message' \in Seq(Byte) /\ Len(message') > 2
              /\ message'[1] = 5 /\ message'[2] = rep
<1>1. CASE tsock' = "closed"
  BY <1>1 DEF do_connect_reply, Reply
<1>2. CASE tsock' # "closed"
  <2>1. /\ pc' = "write_reply" /\ server' = server
        /\ message' \in {connect_reply(rep, bnd) : bnd \in Bounds}
    BY <1>2 DEF do_connect_reply, Reply
  <2>2. PICK bnd \in Bounds : message' = connect_reply(rep, bnd)
    BY <2>1
  <2>3. /\ message' \in Seq(Byte) /\ Len(message') > 2
        /\ message'[1] = 5 /\ message'[2] = rep
    BY <2>2, ReplyFacts, Zenon
  <2> QED
    BY <2>1, <2>3
<1> QED
  BY <1>1, <1>2

\* The same of do_connect_reply_v4.
LEMMA StartReplyV4 ==
    ASSUME NEW rep \in Byte, do_connect_reply_v4(rep)
    PROVE  \/ pc' = "ended" /\ message' = message /\ server' = "terminated"
           \/ /\ pc' = "write_reply_v4" /\ server' = server
              /\ message' \in Seq(Byte) /\ Len(message') > 2
              /\ message'[1] = 4 /\ message'[2] = rep
<1>1. CASE tsock' = "closed"
  BY <1>1 DEF do_connect_reply_v4, Reply
<1>2. CASE tsock' # "closed"
  <2>1. /\ pc' = "write_reply_v4" /\ server' = server
        /\ message' \in {connect_reply_v4(rep, bnd) : bnd \in Bounds}
    BY <1>2 DEF do_connect_reply_v4, Reply
  <2>2. PICK bnd \in Bounds : message' = connect_reply_v4(rep, bnd)
    BY <2>1
  <2>3. /\ message' \in Seq(Byte) /\ Len(message') > 2
        /\ message'[1] = 4 /\ message'[2] = rep
    BY <2>2, ReplyV4Facts, Zenon
  <2> QED
    BY <2>1, <2>3
<1> QED
  BY <1>1, <1>2

\* A SOCKS5 reply that grants only what was asked for and connected keeps
\* the invariant.
LEMMA ReplyStep ==
    ASSUME ServerInv, pc \notin {"relay", "ended"}, StreamTypeOK',
           NEW rep \in Byte, do_connect_reply(rep),
           UNCHANGED <<down, script, choice, target, out>>,
           tsock' \in {"closed", "open", "connected"},
           Authenticated',
           rep = 0 => tsock' = "connected" /\ TargetRequested'
    PROVE  ServerInv'
<1>1. \/ pc' = "ended" /\ message' = message /\ server' = "terminated"
      \/ /\ pc' = "write_reply" /\ server' = server
         /\ message' \in Seq(Byte) /\ Len(message') > 2
         /\ message'[1] = 5 /\ message'[2] = rep
  BY StartReply
<1>2. TypeOK'
  BY <1>1 DEF ServerInv, TypeOK, Writing
<1>3. CASE pc' = "ended"
  BY <1>2, <1>3, EndsQuietly
<1>4. CASE pc' # "ended"
  <2>1. pc' = "write_reply" /\ StageInv'
    BY <1>1, <1>4 DEF StageInv
  <2> QED
    BY <1>2, <2>1, GoesOn
<1> QED
  BY <1>3, <1>4

\* The same of a SOCKS4 reply.
LEMMA ReplyV4Step ==
    ASSUME ServerInv, pc \notin {"relay", "ended"}, StreamTypeOK',
           NEW rep \in Byte, do_connect_reply_v4(rep),
           UNCHANGED <<down, script, choice, target, out>>,
           tsock' \in {"closed", "open", "connected"},
           Len(down) >= 1, down[1] = 4, out = <<>>,
           rep = 90 => tsock' = "connected" /\ TargetRequested'
    PROVE  ServerInv'
<1>1. \/ pc' = "ended" /\ message' = message /\ server' = "terminated"
      \/ /\ pc' = "write_reply_v4" /\ server' = server
         /\ message' \in Seq(Byte) /\ Len(message') > 2
         /\ message'[1] = 4 /\ message'[2] = rep
  BY StartReplyV4
<1>2. TypeOK'
  BY <1>1 DEF ServerInv, TypeOK, Writing
<1>3. CASE pc' = "ended"
  BY <1>2, <1>3, EndsQuietly
<1>4. CASE pc' # "ended"
  <2>1. pc' = "write_reply_v4" /\ StageInv'
    BY <1>1, <1>4 DEF StageInv
  <2> QED
    BY <1>2, <2>1, GoesOn
<1> QED
  BY <1>3, <1>4

\* The bytes of the request: all that was read, or what follows the
\* negotiation.
LEMMA RequestReadV4 ==
    (down # <<>> /\ down[1] = 4) => RequestRead = SubSeq(down, 1, pos)
BY Zenon DEF RequestRead, RequestIn

\* The same of a SOCKS5 dialogue.
LEMMA RequestReadV5 ==
    ~(down # <<>> /\ down[1] = 4) /\ out # <<>>
      => RequestRead
           = SubSeq(down, 3 + down[2] + (IF choice = 2 THEN 513 ELSE 0), pos)
BY Zenon DEF RequestRead, RequestIn

\* Both of the next state.
LEMMA RequestReadPrimed ==
    /\ (down # <<>> /\ down[1] = 4)'
         => (RequestRead = SubSeq(down, 1, pos))'
    /\ (~(down # <<>> /\ down[1] = 4) /\ out # <<>>)'
         => (RequestRead = SubSeq(down, 3 + down[2]
                                   + (IF choice = 2 THEN 513 ELSE 0), pos))'
BY RequestReadV4, RequestReadV5, PTL

\* What was established stays when the stream and the request do.
LEMMA EstablishedKept ==
    ASSUME UNCHANGED <<down, pos, choice, out>>
    PROVE  /\ Authenticated => Authenticated'
           /\ UNCHANGED target /\ TargetRequested => TargetRequested'
<1>1. down' = down /\ pos' = pos /\ choice' = choice /\ out' = out
  OBVIOUS
<1>2. Authenticated => Authenticated'
  <2>1. GreetingEnd' = GreetingEnd /\ RequestBegin' = RequestBegin
    BY <1>1, SMT DEF GreetingEnd, RequestBegin
  <2>2. Greeted => Greeted'
    BY <1>1, <2>1 DEF Greeted
  <2> QED
    BY <1>1, <2>1, <2>2, Zenon DEF Authenticated
<1>3. RequestRead' = RequestRead
  BY <1>1, SMT DEF RequestRead, RequestIn
<1>4. /\ (Requested(RequestRead))' = Requested(RequestRead)
      /\ (Terminated(RequestRead))' = Terminated(RequestRead)
  BY <1>1, <1>3, Zenon DEF Requested, Terminated
<1>5. UNCHANGED target /\ TargetRequested => TargetRequested'
  BY <1>1, <1>4, Zenon DEF TargetRequested
<1> QED
  BY <1>2, <1>5

\* The resolver's handler, and the outcomes of the connection to the target.
LEMMA TargetSteps ==
    ASSUME ServerInv,
           \/ ResolveFails \/ ResolveSucceeds
           \/ do_target_connect \/ do_target_connect_v4
    PROVE  ServerInv'
<1>1. TypeOK /\ StageInv /\ StreamTypeOK /\ 4 \in Byte /\ 0 \in Byte
        /\ 90 \in Byte /\ 91 \in Byte
  BY DEF ServerInv, TypeOK, Byte
<1>2. UNCHANGED <<down, pos, n, link, stream_ec, script, choice, target, out>>
  BY DEF ResolveFails, ResolveSucceeds, do_target_connect,
         do_target_connect_v4, stream_vars
<1>3. StreamTypeOK'
  BY <1>1, <1>2 DEF StreamTypeOK
<1>4. CASE ResolveFails
  <2>1. pc = "resolve" /\ tsock' = tsock /\ do_connect_reply(4)
    BY <1>4 DEF ResolveFails
  <2>2. Authenticated'
    BY <1>1, <1>2, <2>1, EstablishedKept DEF StageInv
  <2>3. tsock' \in {"closed", "open", "connected"}
    BY <1>1, <2>1 DEF TypeOK
  <2> QED
    BY <1>1, <1>2, <1>3, <2>1, <2>2, <2>3, ReplyStep
<1>5. CASE ResolveSucceeds
  <2>1. /\ pc = "resolve" /\ pc' = "connect"
        /\ UNCHANGED <<tsock, message, server>>
    BY <1>5 DEF ResolveSucceeds
  <2>2. Authenticated' /\ TargetRequested'
    BY <1>1, <1>2, <2>1, EstablishedKept DEF StageInv
  <2>3. StageInv'
    BY <2>1, <2>2 DEF StageInv
  <2>4. TypeOK'
    BY <1>1, <1>2, <1>3, <2>1 DEF TypeOK
  <2> QED
    BY <2>1, <2>3, <2>4, GoesOn
<1>6. CASE do_target_connect
  <2>1. PICK outcome \in connect_outcomes :
          pc = "connect" /\ tsock' = outcome
            /\ do_connect_reply(target_reply(outcome))
    BY <1>6 DEF do_target_connect
  <2>2. Authenticated' /\ TargetRequested'
    BY <1>1, <1>2, <2>1, EstablishedKept DEF StageInv
  <2>3. /\ target_reply(outcome) \in Byte
        /\ target_reply(outcome) = 0 => tsock' = "connected"
    BY <1>1, <2>1 DEF target_reply
  <2>4. tsock' \in {"closed", "open", "connected"}
    BY <2>1 DEF connect_outcomes
  <2> QED
    BY <1>2, <1>3, <2>1, <2>2, <2>3, <2>4, ReplyStep
<1>7. CASE do_target_connect_v4
  <2>1. PICK outcome \in connect_outcomes :
          pc = "connect_v4" /\ tsock' = outcome
            /\ do_connect_reply_v4(target_reply_v4(outcome))
    BY <1>7 DEF do_target_connect_v4
  <2>2. Len(down) >= 1 /\ down[1] = 4 /\ out = <<>> /\ TargetRequested'
    BY <1>1, <1>2, <2>1, EstablishedKept DEF StageInv
  <2>3. /\ target_reply_v4(outcome) \in Byte
        /\ target_reply_v4(outcome) = 90 => tsock' = "connected"
    BY <1>1, <2>1 DEF target_reply_v4
  <2>4. tsock' \in {"closed", "open", "connected"}
    BY <2>1 DEF connect_outcomes
  <2> QED
    BY <1>2, <1>3, <2>1, <2>2, <2>3, <2>4, ReplyV4Step
<1> QED
  BY <1>4, <1>5, <1>6, <1>7

(***************************************************************************)
(* The handlers of the reads.                                              *)
(***************************************************************************)
\* What a turn that ends a read without an error leaves in buffer_.
LEMMA LastBuffer ==
    ASSUME TypeOK, pc \in Reading, NEW o \in Turn, TransferLast(o),
           ~failed(o.ec), ~More(o)
    PROVE  /\ buffer(o.k) \in Seq(Byte)
           /\ o.k \in Nat /\ o.ec = no_error
           /\ Len(buffer(o.k)) = n + o.k /\ Len(buffer(o.k)) >= 1
           /\ \A i \in 1..(n + o.k) : buffer(o.k)[i] = down[(pos - n) + i]
           /\ \/ n + o.k = buffer_size
              \/ completion_condition(buffer(o.k), no_error) = 0
           /\ n' = 0
<1>1. StreamTypeOK
  BY DEF TypeOK
<1>2. o.k \in Nat /\ pos + o.k <= Len(down) /\ o.ec = no_error /\ o.k >= 1
  BY TurnFacts
<1>3. /\ buffer(o.k) \in Seq(Byte) /\ Len(buffer(o.k)) = n + o.k
      /\ \A i \in 1..(n + o.k) : buffer(o.k)[i] = down[(pos - n) + i]
  BY <1>1, <1>2, BufferFacts
<1>4. Len(buffer(o.k)) >= 1
  <2>1. n \in Nat
    BY <1>1, StreamNumbers
  <2> QED
    BY <1>2, <1>3, <2>1
<1>5. \/ n + o.k = buffer_size
      \/ completion_condition(buffer(o.k), no_error) = 0
  BY <1>2, LastTurn, Zenon
<1>6. n' = 0
  BY DEF TransferLast
<1> QED
  BY <1>2, <1>3, <1>4, <1>5, <1>6

\* A handler that ends the connection.
LEMMA EndStep ==
    ASSUME ServerInv, pc \in Reading, StreamTypeOK', End,
           UNCHANGED <<down, script, out>>
    PROVE  ServerInv'
<1>1. TypeOK'
  BY DEF End, ServerInv, TypeOK
<1>2. pc \notin {"relay", "ended"} /\ pc' = "ended"
  BY DEF Reading, End
<1> QED
  BY <1>1, <1>2, EndsQuietly

\* The answer to a SOCKS5 greeting.
LEMMA GreetingStep ==
    ASSUME ServerInv, pc = "read_greeting", StreamTypeOK',
           NEW buf \in Seq(Byte), AnswerGreeting(buf), n' = 0,
           UNCHANGED <<down, script, out>>,
           pos' = Len(buf), \A i \in 1..Len(buf) : buf[i] = down[i],
           buf[1] = 5
    PROVE  ServerInv'
<1>1. CASE parse_socks_greeting(buf) = dropped
  <2>1. End
    BY <1>1 DEF AnswerGreeting
  <2> QED
    BY <2>1, EndStep DEF Reading
<1>2. CASE parse_socks_greeting(buf) # dropped
  <2> DEFINE c == parse_socks_greeting(buf)
  <2>1. /\ c \in {0, 2, 255} /\ Len(buf) >= 2 /\ Len(buf) = 2 + buf[2]
        /\ c \in {0, 2} => \E i \in 3..Len(buf) : buf[i] = c
    BY <1>2, GreetingFacts
  <2>2. /\ choice' = c /\ pc' = "write_choice" /\ message' = <<5, c>>
        /\ UNCHANGED <<tsock, server, target>>
    BY <1>2 DEF AnswerGreeting, StartWrite
  <2> HIDE DEF c
  <2>3. /\ Len(buf) \in Nat /\ pos' \in Nat /\ pos' <= Len(down')
        /\ Len(down') \in Nat
    BY DEF StreamTypeOK
  <2>4. 1 \in 1..Len(buf) /\ 2 \in 1..Len(buf)
    BY <2>1, <2>3
  <2>5. down'[1] = 5 /\ down'[2] = buf[2]
    BY <2>4
  <2>6. Len(down') >= 2 /\ GreetingEnd' = Len(buf)
    BY <2>1, <2>3, <2>5 DEF GreetingEnd
  <2>7. choice' # 255 => \E i \in 3..GreetingEnd' : down'[i] = choice'
    <3> SUFFICES ASSUME choice' # 255
                 PROVE  \E i \in 3..GreetingEnd' : down'[i] = choice'
      OBVIOUS
    <3>1. PICK i \in 3..Len(buf) : buf[i] = c
      BY <2>1, <2>2
    <3>2. i \in 1..Len(buf)
      BY <2>3
    <3>3. down'[i] = choice'
      BY <2>2, <3>1, <3>2
    <3> QED
      BY <2>6, <3>3, Zenon
  <2>8. Greeted' /\ pos' = GreetingEnd'
    <3>1. pos' >= GreetingEnd' /\ pos' = GreetingEnd'
      BY <2>3, <2>6
    <3> QED
      BY <2>5, <2>6, <2>7, <3>1 DEF Greeted
  <2>9. out' = <<>>
    BY DEF ServerInv, StageInv
  <2>10. StageInv'
    BY <2>2, <2>8, <2>9 DEF StageInv
  <2>11. message' \in Seq(Byte)
    BY <2>1, <2>2 DEF Byte
  <2>12. TypeOK'
    BY <2>1, <2>2, <2>11 DEF ServerInv, TypeOK, Writing
  <2> QED
    BY <2>2, <2>10, <2>12, GoesOn
<1> QED
  BY <1>1, <1>2

\* What a SOCKS4 request that was read to its end asks for.
LEMMA RequestV4Read ==
    ASSUME NEW buf \in Seq(Byte), Len(buf) >= 1,
           pos' = Len(buf), buf = SubSeq(down', 1, pos'),
           down' # <<>>, down'[1] = 4, buf[1] = 4,
           \/ Len(buf) = 258
           \/ greeting_cond(buf, no_error) = 0,
           parse_socks_connect_v4(buf).rep = 0,
           target' = parse_socks_connect_v4(buf).target
    PROVE  TargetRequested'
<1>1. RequestRead' = buf
  BY DEF RequestRead, RequestIn
<1>2. (Requested(RequestRead))' = parse_socks_connect_v4(buf)
  BY <1>1, Zenon DEF Requested
<1>3. (Terminated(RequestRead))' = Terminated(buf)
  BY <1>1, Zenon DEF Terminated
<1>4. Len(buf) \in Nat /\ Len(buf) # 0
  OBVIOUS
<1>5. Len(buf) # 1 /\ buf[2] = 1
  BY <1>4, ConnectV4Facts, Zenon
<1>6. Terminated(buf) \/ Len(buf) = 258
  <2> SUFFICES ASSUME greeting_cond(buf, no_error) = 0, ~Terminated(buf)
               PROVE  Len(buf) = 258
    OBVIOUS
  <2>1. ~failed(no_error) /\ Len(buf) > 0 /\ 4 # 5
    BY <1>4, ErrorFacts
  <2>2. ~(Len(buf) = 1 \/ buf[2] # 1)
    BY <1>5
  <2>3. greeting_cond(buf, no_error) = 258 - Len(buf)
    BY <2>1, <2>2, Zenon DEF greeting_cond, Terminated
  <2>4. 258 - Len(buf) = 0
    BY <2>3, Zenon
  <2>5. \A z \in Nat : 258 - z = 0 => z = 258
    OBVIOUS
  <2> QED
    BY <1>4, <2>4, <2>5, Zenon
<1> QED
  BY <1>2, <1>3, <1>6 DEF TargetRequested

\* The answer to a SOCKS4 request.
LEMMA ConnectV4Step ==
    ASSUME ServerInv, pc = "read_greeting", StreamTypeOK',
           NEW buf \in Seq(Byte), AnswerConnectV4(buf), Len(buf) >= 1,
           UNCHANGED <<down, script, out>>,
           pos' = Len(buf), buf = SubSeq(down', 1, pos'),
           down'[1] = 4, buf[1] = 4, Len(down') >= 1,
           \/ Len(buf) = 258
           \/ greeting_cond(buf, no_error) = 0
    PROVE  ServerInv'
<1> DEFINE r == parse_socks_connect_v4(buf)
<1>1. Len(buf) # 0 /\ down' # <<>>
  OBVIOUS
<1>2. r \in [rep : {0, 91}, target : TargetType]
  BY <1>1, ConnectV4Facts
<1>3. out = <<>> /\ out' = <<>> /\ TypeOK
  BY DEF ServerInv, StageInv
<1>4. CASE r.rep = 0
  <2>1. /\ target' = r.target /\ pc' = "connect_v4"
        /\ UNCHANGED <<choice, tsock, message, server>>
    BY <1>4 DEF AnswerConnectV4
  <2>2. TargetRequested'
    BY <1>1, <1>4, <2>1, RequestV4Read
  <2>3. StageInv'
    BY <1>3, <2>1, <2>2 DEF StageInv
  <2>4. target' \in TargetType
    BY <1>2, <2>1
  <2>5. TypeOK'
    BY <1>3, <2>1, <2>4 DEF TypeOK, TargetType
  <2> QED
    BY <2>1, <2>3, <2>5, GoesOn
<1>5. CASE r.rep # 0
  <2>1. r.rep = 91 /\ 91 \in Byte
    BY <1>2, <1>5 DEF Byte
  <2>2. UNCHANGED <<choice, target, tsock>> /\ do_connect_reply_v4(r.rep)
    BY <1>5 DEF AnswerConnectV4
  <2>3. do_connect_reply_v4(91)
    BY <2>1, <2>2, Zenon
  <2>4. tsock' \in {"closed", "open", "connected"}
    BY <1>3, <2>2 DEF TypeOK
  <2> HIDE DEF r
  <2> QED
    BY <1>3, <2>1, <2>2, <2>3, <2>4, ReplyV4Step
<1> QED
  BY <1>4, <1>5

\* The handler of the first read.
LEMMA ReadGreetingStep ==
    ASSUME ServerInv, ReadGreeting
    PROVE  ServerInv'
<1>1. /\ TypeOK /\ StageInv /\ pc = "read_greeting" /\ pc \in Reading
      /\ UNCHANGED <<script, out>>
  BY DEF ServerInv, ReadGreeting, Reading
<1> DEFINE Handler(o) ==
              LET buf == buffer(o.k) IN
              IF failed(o.ec) THEN End
              ELSE IF buf[1] = 5 THEN AnswerGreeting(buf)
              ELSE IF buf[1] = 4 THEN AnswerConnectV4(buf)
              ELSE End
<1>2. PICK o \in Turn : TransferLast(o) /\ ~More(o) /\ Handler(o)
  BY DEF ReadGreeting
<1>3. StreamTypeOK' /\ pos' = pos + o.k /\ down' = down
  BY <1>1, <1>2, TurnKeeps
<1>4. CASE End
  BY <1>1, <1>3, <1>4, EndStep
<1>5. CASE ~failed(o.ec) /\ ~End
  <2> DEFINE buf == buffer(o.k)
  <2>1. /\ buf \in Seq(Byte) /\ o.k \in Nat /\ Len(buf) = n + o.k
        /\ Len(buf) >= 1 /\ n' = 0
        /\ \A i \in 1..(n + o.k) : buf[i] = down[(pos - n) + i]
        /\ \/ n + o.k = buffer_size
           \/ completion_condition(buf, no_error) = 0
    BY <1>1, <1>2, <1>5, LastBuffer
  <2>2. pos = n /\ pos \in Nat /\ Len(down) \in Nat /\ pos' <= Len(down)
    BY <1>1, <1>3, StreamNumbers DEF StageInv, StreamTypeOK, TypeOK
  <2>3. \/ Len(buf) = 258
        \/ greeting_cond(buf, no_error) = 0
    BY <1>1, <2>1 DEF buffer_size, completion_condition
  <2>4. buf = SubSeq(down', 1, pos')
    <3>1. (pos - n) + 1 = 1
      BY <2>2
    <3> QED
      BY <1>3, <3>1, Zenon DEF buffer
  <2>5. \A i \in 1..Len(buf) : buf[i] = down[i]
    <3> SUFFICES ASSUME NEW i \in 1..Len(buf) PROVE buf[i] = down[i]
      OBVIOUS
    <3>1. i \in 1..(n + o.k) /\ (pos - n) + i = i
      BY <2>1, <2>2
    <3> QED
      BY <2>1, <3>1, Zenon
  <2>6. pos' = Len(buf) /\ Len(down') >= 1
    BY <1>3, <2>1, <2>2
  <2>7. buf[1] = down'[1]
    <3>1. 1 \in 1..Len(buf)
      BY <2>1
    <3> QED
      BY <1>3, <2>5, <3>1
  <2>8. \/ buf[1] = 5 /\ AnswerGreeting(buf)
        \/ buf[1] = 4 /\ AnswerConnectV4(buf)
    BY <1>2, <1>5, Zenon
  <2> HIDE DEF buf
  <2>9. CASE buf[1] = 5 /\ AnswerGreeting(buf)
    BY <1>1, <1>3, <2>1, <2>5, <2>6, <2>9, GreetingStep
  <2>10. CASE buf[1] = 4 /\ AnswerConnectV4(buf)
    BY <1>1, <1>3, <2>1, <2>3, <2>4, <2>6, <2>7, <2>10, ConnectV4Step
  <2> QED
    BY <2>8, <2>9, <2>10
<1> QED
  BY <1>2, <1>4, <1>5, Zenon

\* A user name and password message that is taken was read to the end of
\* buffer_: its completion condition does not come to 0 before.
LEMMA UserpassRead ==
    ASSUME NEW buf \in Seq(Byte), parse_userpass_greeting(buf).ok
    PROVE  userpass_cond(buf, no_error) # 0
<1> DEFINE z == Len(buf)
           idlen == buf[2]
           passlen == buf[3 + idlen]
<1>1. ~(z < 2 \/ buf[1] # 1 \/ z < idlen + 3 \/ z < idlen + 3 + passlen)
  <2> SUFFICES ASSUME z < 2 \/ buf[1] # 1 \/ z < idlen + 3
                        \/ z < idlen + 3 + passlen
               PROVE  FALSE
    OBVIOUS
  <2>1. parse_userpass_greeting(buf)
          = [ok |-> FALSE, user |-> <<>>, pass |-> <<>>]
    BY Zenon DEF parse_userpass_greeting
  <2> QED
    BY <2>1
<1>2. z \in Nat /\ \A i \in 1..z : buf[i] \in Byte
  BY ElementOfSeq
<1>3. idlen \in Nat
  <2>1. 2 \in 1..z
    BY <1>1, <1>2
  <2>2. idlen \in Byte
    BY <1>2, <2>1
  <2> QED
    BY <2>2, BytesAreNumbers
<1>4. passlen \in Nat
  <2>1. 3 + idlen \in 1..z
    BY <1>1, <1>2, <1>3
  <2>2. passlen \in Byte
    BY <1>2, <2>1
  <2> QED
    BY <2>2, BytesAreNumbers
<1>5. z > 2 + idlen
  BY <1>1, <1>2, <1>3
<1>6. userpass_cond(buf, no_error) = 3 + idlen + passlen
  BY <1>1, <1>5, ErrorFacts, Zenon DEF userpass_cond
<1> HIDE DEF idlen, passlen
<1>7. 3 + idlen + passlen # 0
  BY <1>3, <1>4
<1> QED
  BY <1>6, <1>7, Zenon

\* The handler of the read of user name and password.
LEMMA ReadUserpassStep ==
    ASSUME ServerInv, ReadUserpass
    PROVE  ServerInv'
<1>1. /\ TypeOK /\ StageInv /\ pc = "read_userpass" /\ pc \in Reading
      /\ UNCHANGED <<script, out>>
  BY DEF ServerInv, ReadUserpass, Reading
<1>2. PICK o \in Turn :
        /\ TransferLast(o) /\ ~More(o)
        /\ IF failed(o.ec) \/ ~parse_userpass_greeting(buffer(o.k)).ok
           THEN End
           ELSE /\ StartWrite("write_status", <<1, 0>>)
                /\ UNCHANGED <<choice, target>>
  BY DEF ReadUserpass
<1>3. /\ StreamTypeOK' /\ pos' = pos + o.k /\ down' = down
      /\ pos' \in Nat /\ pos' >= pos
  BY <1>1, <1>2, TurnKeeps
<1>4. CASE failed(o.ec) \/ ~parse_userpass_greeting(buffer(o.k)).ok
  <2>1. End
    BY <1>2, <1>4
  <2> QED
    BY <1>1, <1>3, <2>1, EndStep
<1>5. CASE ~(failed(o.ec) \/ ~parse_userpass_greeting(buffer(o.k)).ok)
  <2>1. /\ pc' = "write_status" /\ message' = <<1, 0>>
        /\ UNCHANGED <<tsock, server, choice, target>>
    BY <1>2, <1>5 DEF StartWrite
  <2>2. /\ buffer(o.k) \in Seq(Byte) /\ o.k \in Nat /\ n' = 0
        /\ \/ n + o.k = buffer_size
           \/ completion_condition(buffer(o.k), no_error) = 0
    BY <1>1, <1>2, <1>5, LastBuffer
  <2>3. completion_condition(buffer(o.k), no_error) # 0
    <3>1. userpass_cond(buffer(o.k), no_error) # 0
      BY <1>5, <2>2, UserpassRead, Zenon
    <3> QED
      BY <1>1, <3>1 DEF completion_condition
  <2>4. n + o.k = 513
    BY <1>1, <2>2, <2>3 DEF buffer_size
  <2>5. /\ Greeted /\ pos = GreetingEnd + n
        /\ choice = 2 /\ out = <<<<5, 2>>>>
    BY <1>1 DEF StageInv
  <2>6. Greeted' /\ GreetingEnd' = GreetingEnd
    BY <1>1, <1>3, <2>1, <2>5, StreamNumbers, GreetedGrows DEF TypeOK
  <2>7. pos' = GreetingEnd' + 513
    <3>1. GreetingEnd \in Nat /\ n \in Nat
      BY <1>1, <2>5, GreetingRead, StreamNumbers DEF TypeOK
    <3>2. pos' = GreetingEnd + n + o.k
      BY <1>3, <2>5
    <3>3. GreetingEnd + n + o.k = GreetingEnd + (n + o.k)
      BY <2>2, <3>1
    <3> QED
      BY <2>4, <2>6, <3>2, <3>3
  <2>8. StageInv'
    BY <1>1, <2>1, <2>2, <2>5, <2>6, <2>7 DEF StageInv
  <2>9. message' \in Seq(Byte)
    BY <2>1 DEF Byte
  <2>10. TypeOK'
    BY <1>1, <1>3, <2>1, <2>9 DEF TypeOK, Writing
  <2> QED
    BY <2>1, <2>8, <2>10, GoesOn
<1> QED
  BY <1>4, <1>5

\* A client that is authenticated was told so.
LEMMA ToldSomething == Authenticated => out # <<>>
<1>1. <<<<5, 0>>>> # <<>> /\ <<<<5, 2>>, <<1, 0>>>> # <<>>
  OBVIOUS
<1> QED
  BY <1>1, Zenon DEF Authenticated

\* The request that was read begins behind the negotiation.
LEMMA RequestRangeRead ==
    ASSUME TypeOK, Authenticated, pos = RequestBegin + n,
           NEW k \in Nat, pos' = pos + k, UNCHANGED <<down, choice, out>>
    PROVE  RequestRead' = buffer(k)
<1>1. Greeted /\ out # <<>>
  BY ToldSomething DEF Authenticated
<1>2. /\ down[2] \in Nat /\ GreetingEnd \in Nat /\ RequestBegin \in Nat
      /\ n \in Nat
  BY <1>1, GreetingRead, RequestBeginType, StreamNumbers DEF TypeOK
<1>3. ~(down # <<>> /\ down[1] = 4)
  BY <1>1 DEF Greeted
<1> DEFINE w == IF choice = 2 THEN 513 ELSE 0
<1>4. w \in Nat
  OBVIOUS
<1> HIDE DEF w
<1>5. (pos - n) + 1 = 3 + down[2] + w
  <2>1. RequestBegin = 2 + down[2] + w
    BY Zenon DEF RequestBegin, GreetingEnd, w
  <2>2. (pos - n) + 1 = RequestBegin + 1
    BY <1>2
  <2>3. 2 + down[2] + w + 1 = 3 + down[2] + w
    BY <1>2, <1>4
  <2> QED
    BY <2>1, <2>2, <2>3, Zenon
<1>6. RequestRead' = SubSeq(down, 3 + down[2] + w, pos')
  <2>1. down' = down /\ choice' = choice /\ out' = out
    OBVIOUS
  <2>2. ~(down' # <<>> /\ down'[1] = 4) /\ out' # <<>>
    BY <1>1, <1>3, <2>1, Zenon
  <2>3. RequestRead'
          = SubSeq(down', 3 + down'[2] + (IF choice' = 2 THEN 513 ELSE 0),
                   pos')
    BY <2>2, RequestReadPrimed
  <2> QED
    BY <2>1, <2>3, SMT DEF w
<1> QED
  BY <1>5, <1>6, Zenon DEF buffer

\* The handler of the read of the request.
LEMMA ReadRequestStep ==
    ASSUME ServerInv, ReadRequest
    PROVE  ServerInv'
<1>1. /\ TypeOK /\ StageInv /\ pc = "read_request" /\ pc \in Reading
      /\ UNCHANGED <<script, out>>
  BY DEF ServerInv, ReadRequest, Reading
<1> DEFINE Handler(o) ==
             LET r == parse_socks_connect(buffer(o.k)) IN
             IF failed(o.ec) \/ r.rep = dropped THEN End
             ELSE IF r.rep = 0
             THEN /\ target' = r.target
                  /\ pc' = IF r.target.kind = "domain" THEN "resolve"
                                                       ELSE "connect"
                  /\ UNCHANGED <<choice, tsock, message, server>>
             ELSE /\ UNCHANGED <<choice, target, tsock>>
                  /\ do_connect_reply(r.rep)
<1>2. PICK o \in Turn : TransferLast(o) /\ ~More(o) /\ Handler(o)
  BY DEF ReadRequest
<1>3. /\ StreamTypeOK' /\ pos' = pos + o.k /\ down' = down
      /\ pos' \in Nat /\ pos' >= pos
  BY <1>1, <1>2, TurnKeeps
<1> DEFINE r == parse_socks_connect(buffer(o.k))
<1>4. CASE failed(o.ec) \/ r.rep = dropped
  <2>1. End
    BY <1>2, <1>4, Zenon
  <2> QED
    BY <1>1, <1>3, <2>1, EndStep
<1>5. CASE ~(failed(o.ec) \/ r.rep = dropped)
  <2>1. buffer(o.k) \in Seq(Byte) /\ o.k \in Nat
    BY <1>1, <1>2, <1>5, LastBuffer
  <2>2. r \in [rep : {0, 2, 7, 8, dropped}, target : TargetType]
    BY <2>1, ConnectFacts
  <2>3. \/ /\ r.rep = 0 /\ target' = r.target
           /\ pc' = IF r.target.kind = "domain" THEN "resolve" ELSE "connect"
           /\ UNCHANGED <<choice, tsock, message, server>>
        \/ /\ r.rep # 0 /\ UNCHANGED <<choice, target, tsock>>
           /\ do_connect_reply(r.rep)
    BY <1>2, <1>5, Zenon
  <2>4. choice' = choice /\ out' = out
    BY <1>1, <2>3
  <2>5. Authenticated /\ pos = RequestBegin + n
    BY <1>1 DEF StageInv
  <2>6. Greeted /\ pos >= RequestBegin
    BY <2>5 DEF Authenticated
  <2>7. Greeted' /\ RequestBegin' = RequestBegin /\ RequestBegin \in Nat
    BY <1>1, <1>3, <2>4, <2>6, StreamNumbers, GreetedGrows, RequestBeginType
       DEF TypeOK
  <2>8. Authenticated'
    <3>1. pos' >= RequestBegin'
      BY <1>1, <1>3, <2>6, <2>7, StreamNumbers DEF TypeOK
    <3> QED
      BY <2>4, <2>5, <2>7, <3>1 DEF Authenticated
  <2>9. RequestRead' = buffer(o.k)
    BY <1>1, <1>3, <2>1, <2>4, <2>5, RequestRangeRead
  <2>10. down'[1] = 5
    BY <2>7 DEF Greeted
  <2>11. (Requested(RequestRead))' = r
    BY <2>9, <2>10 DEF Requested
  <2> HIDE DEF r
  <2>12. CASE r.rep = 0
    <3>1. /\ target' = r.target /\ pc' \in {"resolve", "connect"}
          /\ UNCHANGED <<tsock, message, server>>
      BY <2>3, <2>12
    <3>2. TargetRequested'
      BY <2>10, <2>11, <2>12, <3>1 DEF TargetRequested
    <3>3. StageInv'
      BY <2>8, <3>1, <3>2 DEF StageInv
    <3>4. target' \in TargetType
      BY <2>2, <3>1
    <3>5. TypeOK'
      BY <1>1, <1>3, <2>4, <3>1, <3>4 DEF TypeOK, TargetType
    <3> QED
      BY <3>1, <3>3, <3>5, GoesOn
  <2>13. CASE r.rep # 0
    <3>1. r.rep \in {2, 7, 8}
      BY <1>5, <2>2, <2>13 DEF r
    <3>2. r.rep \in Byte
      BY <3>1 DEF Byte
    <3>3. UNCHANGED <<target, tsock>> /\ do_connect_reply(r.rep)
      BY <2>3, <2>13
    <3>4. tsock' \in {"closed", "open", "connected"} /\ pc \notin {"relay", "ended"}
      BY <1>1, <3>3 DEF TypeOK
    <3> QED
      BY <1>1, <1>3, <2>4, <2>8, <2>13, <3>2, <3>3, <3>4, ReplyStep
  <2> QED
    BY <2>12, <2>13
<1> QED
  BY <1>4, <1>5

(***************************************************************************)
(* The handlers of the writes.                                             *)
(***************************************************************************)
\* A write fails, and the connection ends, or its message has reached the
\* client.
LEMMA WrittenFacts ==
    ASSUME TypeOK, NEW label, Written(label)
    PROVE  /\ StreamTypeOK'
           /\ UNCHANGED <<down, pos, n, script, choice, target, tsock,
                          message, server>>
           /\ \/ pc' = "ended" /\ out' = out
              \/ pc' = label /\ out' = Append(out, message)
<1>1. PICK e \in write_results :
        /\ Write(e)
        /\ IF failed(e) THEN pc' = "ended" /\ UNCHANGED out
           ELSE pc' = label /\ out' = Append(out, message)
  BY DEF Written
<1>2. e \in {no_error} \cup transport_error
  BY WriteFacts DEF TypeOK
<1>3. StreamTypeOK'
  BY <1>1, <1>2 DEF TypeOK, StreamTypeOK, Write
<1> QED
  BY <1>1, <1>3 DEF Written, Write

\* What the written message adds to what the client was told.
LEMMA AppendOut ==
    ASSUME TypeOK, out' = Append(out, message)
    PROVE  /\ out' \in Seq(Seq(Byte)) /\ Len(out') = Len(out) + 1
           /\ \A i \in 1..Len(out) : out'[i] = out[i]
           /\ out'[Len(out) + 1] = message
           /\ Len(out) \in Nat /\ DOMAIN out' = 1..Len(out')
<1> DEFINE S == Seq(Byte)
<1>1. out \in Seq(S) /\ message \in S
  BY DEF TypeOK
<1> HIDE DEF S
<1>2. /\ out' \in Seq(S) /\ Len(out') = Len(out) + 1
      /\ \A i \in 1..Len(out) : out'[i] = out[i]
      /\ out'[Len(out) + 1] = message
      /\ Len(out) \in Nat /\ DOMAIN out' = 1..Len(out')
  BY <1>1, AppendProperties
<1> QED
  BY <1>2 DEF S

\* What the write handlers share: the message is lost, and the connection
\* ends, or it is told to the client.
LEMMA LostWrite ==
    ASSUME ServerInv, pc \in Writing, NEW label, Written(label),
           pc' = "ended", out' = out
    PROVE  ServerInv'
<1>1. TypeOK'
  BY WrittenFacts DEF ServerInv, TypeOK
<1>2. UNCHANGED <<down, out>> /\ pc \notin {"relay", "ended"}
  BY WrittenFacts DEF ServerInv, Writing
<1> QED
  BY <1>1, <1>2, EndsQuietly

\* The handler of do_server_choice.
LEMMA WriteChoiceStep ==
    ASSUME ServerInv, WriteChoice
    PROVE  ServerInv'
<1>1. TypeOK /\ StageInv /\ pc = "write_choice" /\ pc \in Writing
        /\ Written(after_choice)
  BY DEF ServerInv, WriteChoice, Writing
<1>2. /\ StreamTypeOK'
      /\ UNCHANGED <<down, pos, n, script, choice, target, tsock, message,
                     server>>
      /\ \/ pc' = "ended" /\ out' = out
         \/ pc' = after_choice /\ out' = Append(out, message)
  BY <1>1, WrittenFacts
<1>3. CASE pc' = "ended" /\ out' = out
  BY <1>1, <1>3, LostWrite
<1>4. CASE pc' = after_choice /\ out' = Append(out, message)
  <2>1. /\ Greeted /\ pos = GreetingEnd /\ n = 0 /\ out = <<>>
        /\ message = <<5, choice>> /\ choice \in {0, 2, 255}
    BY <1>1 DEF StageInv, TypeOK
  <2>2. out' = <<message>>
    BY <1>4, <2>1
  <2>3. out' = <<<<5, choice>>>> /\ out'[1][2] = choice
    BY <2>1, <2>2
  <2>4. GreetingEnd' = GreetingEnd /\ RequestBegin' = RequestBegin
    BY <1>2, SMT DEF GreetingEnd, RequestBegin
  <2>5. Greeted'
    BY <1>2, <2>1, <2>4 DEF Greeted
  <2>6. out' \in Seq(Seq(Byte))
    BY <1>1, <1>4, AppendOut
  <2>7. TypeOK'
    BY <1>1, <1>2, <1>4, <2>1, <2>6 DEF TypeOK, after_choice, Reading
  <2>8. CASE choice = 255
    <3>1. pc' = "ended"
      BY <1>4, <2>8 DEF after_choice
    <3>2. StageInv'
      BY <3>1 DEF StageInv
    <3>3. out' \in Negotiation
      BY <2>3, <2>8, Zenon DEF Negotiation
    <3>4. Replies' = {}
      BY <3>3, NegotiationFacts DEF Replies
    <3>5. GrantIsGenuine'
      BY <3>1, <3>4 DEF GrantIsGenuine
    <3>6. NothingBeforeAuthentication'
      BY <2>3, <2>8, <3>1 DEF NothingBeforeAuthentication
    <3> QED
      BY <2>7, <3>2, <3>5, <3>6 DEF ServerInv
  <2>9. CASE choice = 2
    <3>1. pc' = "read_userpass"
      BY <1>4, <2>9 DEF after_choice
    <3>2. pos' = GreetingEnd' + n'
      BY <1>1, <1>2, <2>1, <2>4, GreetingRead
    <3>3. choice' = 2 /\ out' = <<<<5, 2>>>>
      BY <1>2, <2>3, <2>9
    <3>4. StageInv'
      BY <2>5, <3>1, <3>2, <3>3 DEF StageInv
    <3> QED
      BY <2>7, <3>1, <3>4, GoesOn
  <2>10. CASE choice = 0
    <3>1. pc' = "read_request"
      BY <1>4, <2>10 DEF after_choice
    <3>2. RequestBegin = GreetingEnd
      BY <1>1, <2>1, <2>10, GreetingRead DEF RequestBegin
    <3>3. pos' = RequestBegin' + n' /\ pos' >= RequestBegin'
      BY <1>1, <1>2, <2>1, <2>4, <3>2, GreetingRead
    <3>4. choice' = 0 /\ out' = <<<<5, 0>>>>
      BY <1>2, <2>3, <2>10
    <3>5. Authenticated'
      BY <2>5, <3>3, <3>4 DEF Authenticated
    <3>6. StageInv'
      BY <3>1, <3>3, <3>5 DEF StageInv
    <3> QED
      BY <2>7, <3>1, <3>6, GoesOn
  <2> QED
    BY <2>1, <2>8, <2>9, <2>10
<1> QED
  BY <1>2, <1>3, <1>4

\* Two messages, one after the other.
LEMMA AppendPair ==
    ASSUME NEW a, NEW b
    PROVE  Append(<<a>>, b) = <<a, b>>
<1> DEFINE S == {a, b}
           s == Append(<<a>>, b)
           t == <<a, b>>
<1>1. t \in Seq(S) /\ Len(t) = 2 /\ t[1] = a /\ t[2] = b
  OBVIOUS
<1>2. <<a>> \in Seq(S) /\ Len(<<a>>) = 1 /\ <<a>>[1] = a /\ b \in S
  OBVIOUS
<1>3. s \in Seq(S) /\ Len(s) = 2 /\ s[1] = a /\ s[2] = b
  BY <1>2, AppendProperties
<1> HIDE DEF s, t, S
<1>4. \A i \in 1..Len(s) : s[i] = t[i]
  BY <1>1, <1>3
<1>5. s = t
  BY <1>1, <1>3, <1>4, SeqEqual
<1> QED
  BY <1>5 DEF s, t

\* The handler of the write of the authentication's status.
LEMMA WriteStatusStep ==
    ASSUME ServerInv, WriteStatus
    PROVE  ServerInv'
<1>1. TypeOK /\ StageInv /\ pc = "write_status" /\ pc \in Writing
        /\ Written("read_request")
  BY DEF ServerInv, WriteStatus, Writing
<1>2. /\ StreamTypeOK'
      /\ UNCHANGED <<down, pos, n, script, choice, target, tsock, message,
                     server>>
      /\ \/ pc' = "ended" /\ out' = out
         \/ pc' = "read_request" /\ out' = Append(out, message)
  BY <1>1, WrittenFacts
<1>3. CASE pc' = "ended" /\ out' = out
  BY <1>1, <1>3, LostWrite
<1>4. CASE pc' = "read_request" /\ out' = Append(out, message)
  <2>1. /\ Greeted /\ pos = GreetingEnd + 513 /\ n = 0
        /\ choice = 2 /\ out = <<<<5, 2>>>> /\ message = <<1, 0>>
    BY <1>1 DEF StageInv
  <2>2. out' = <<<<5, 2>>, <<1, 0>>>>
    BY <1>4, <2>1, AppendPair
  <2>3. GreetingEnd' = GreetingEnd /\ RequestBegin' = RequestBegin
    BY <1>2, SMT DEF GreetingEnd, RequestBegin
  <2>4. Greeted'
    BY <1>2, <2>1, <2>3 DEF Greeted
  <2>5. RequestBegin = GreetingEnd + 513
    BY <2>1, Zenon DEF RequestBegin
  <2>6. pos' = RequestBegin' + n' /\ pos' >= RequestBegin'
    <3>1. GreetingEnd \in Nat
      BY <1>1, <2>1, GreetingRead
    <3> QED
      BY <1>2, <2>1, <2>3, <2>5, <3>1
  <2>7. Authenticated'
    BY <1>2, <2>1, <2>2, <2>4, <2>6, Zenon DEF Authenticated
  <2>8. StageInv'
    BY <1>4, <2>6, <2>7 DEF StageInv
  <2>9. out' \in Seq(Seq(Byte))
    BY <1>1, <1>4, AppendOut
  <2>10. TypeOK'
    BY <1>1, <1>2, <1>4, <2>9 DEF TypeOK, Reading
  <2> QED
    BY <1>4, <2>8, <2>10, GoesOn
<1> QED
  BY <1>2, <1>3, <1>4

\* A reply that is written is the only one, and the only message of more
\* than two bytes.
LEMMA OnlyReply ==
    ASSUME TypeOK, out \in Negotiation, out' = Append(out, message),
           Len(message) > 2
    PROVE  Replies' = {message}
<1>1. /\ Len(out') = Len(out) + 1
      /\ \A i \in 1..Len(out) : out'[i] = out[i]
      /\ out'[Len(out) + 1] = message
      /\ Len(out) \in Nat /\ DOMAIN out' = 1..Len(out')
  BY AppendOut
<1>2. ASSUME NEW m \in Replies' PROVE m = message
  <2>1. PICK i \in DOMAIN out' : m = out'[i] /\ Len(m) > 2
    BY DEF Replies
  <2>2. i \in 1..Len(out) \/ i = Len(out) + 1
    BY <1>1
  <2>3. CASE i \in 1..Len(out)
    <3>1. m = out[i] /\ Len(out[i]) = 2
      BY <1>1, <2>1, <2>3, NegotiationFacts, Zenon
    <3>2. ~(2 > 2)
      OBVIOUS
    <3> QED
      BY <2>1, <3>1, <3>2, Zenon
  <2> QED
    BY <1>1, <2>1, <2>2, <2>3, Zenon
<1>3. message \in Replies'
  <2>1. Len(out) + 1 \in DOMAIN out'
    BY <1>1
  <2> QED
    BY <1>1, <2>1, Zenon DEF Replies
<1> QED
  BY <1>2, <1>3, Zenon

\* What the bytes read ask for does not change when a reply is written.
LEMMA RequestKept ==
    ASSUME UNCHANGED <<down, pos, choice, target>>,
           \/ down # <<>> /\ down[1] = 4
           \/ out # <<>> /\ out' # <<>>,
           TargetRequested
    PROVE  TargetRequested'
<1>1. down' = down /\ pos' = pos /\ choice' = choice /\ target' = target
  OBVIOUS
<1>2. RequestRead' = RequestRead
  <2>1. CASE down # <<>> /\ down[1] = 4
    BY <1>1, <2>1, RequestReadV4, RequestReadPrimed, Zenon
  <2>2. CASE ~(down # <<>> /\ down[1] = 4)
    <3>1. out # <<>> /\ out' # <<>>
      BY <2>2
    <3>2. RequestRead
            = SubSeq(down, 3 + down[2] + (IF choice = 2 THEN 513 ELSE 0), pos)
      BY <2>2, <3>1, RequestReadV5, Zenon
    <3>3. RequestRead'
            = SubSeq(down, 3 + down[2] + (IF choice = 2 THEN 513 ELSE 0), pos)
      <4>1. ~(down' # <<>> /\ down'[1] = 4)
        BY <1>1, <2>2, Zenon
      <4>2. RequestRead'
              = SubSeq(down', 3 + down'[2] + (IF choice' = 2 THEN 513 ELSE 0),
                       pos')
        BY <3>1, <4>1, RequestReadPrimed
      <4> QED
        BY <1>1, <4>2, SMT
    <3> QED
      BY <3>2, <3>3, Zenon
  <2> QED
    BY <2>1, <2>2
<1>3. /\ (Requested(RequestRead))' = Requested(RequestRead)
      /\ (Terminated(RequestRead))' = Terminated(RequestRead)
  BY <1>1, <1>2, Zenon DEF Requested, Terminated
<1> QED
  BY <1>1, <1>3, Zenon DEF TargetRequested

\* The handlers of the writes of the replies.
LEMMA WriteReplySteps ==
    ASSUME ServerInv, WriteReply \/ WriteReplyV4
    PROVE  ServerInv'
<1> DEFINE grant == IF pc = "write_reply" THEN 0 ELSE 90
           label == IF message[2] = grant THEN "relay" ELSE "ended"
<1>1. /\ TypeOK /\ StageInv /\ pc \in {"write_reply", "write_reply_v4"}
      /\ pc \in Writing /\ Written(label) /\ NothingBeforeAuthentication
  BY DEF ServerInv, WriteReply, WriteReplyV4, Writing
<1>2. label \in {"relay", "ended"}
  OBVIOUS
<1> HIDE DEF grant
<1>3. /\ StreamTypeOK'
      /\ UNCHANGED <<down, pos, n, script, choice, target, tsock, message,
                     server>>
      /\ \/ pc' = "ended" /\ out' = out
         \/ pc' = label /\ out' = Append(out, message)
  BY <1>1, WrittenFacts
<1>4. CASE pc' = "ended" /\ out' = out
  BY <1>1, <1>4, LostWrite
<1>5. CASE pc' = label /\ out' = Append(out, message)
  <2>1. /\ out' \in Seq(Seq(Byte)) /\ Len(out') = Len(out) + 1
        /\ \A i \in 1..Len(out) : out'[i] = out[i]
        /\ Len(out) \in Nat
    BY <1>1, <1>5, AppendOut
  <2>2. TypeOK'
    BY <1>1, <1>2, <1>3, <1>5, <2>1 DEF TypeOK
  <2>3. StageInv'
    BY <1>2, <1>5 DEF StageInv
  <2>4. /\ Len(message) > 2
        /\ message[1] = IF pc = "write_reply" THEN 5 ELSE 4
        /\ message[2] = grant => tsock = "connected" /\ TargetRequested
    BY <1>1 DEF StageInv, grant
  <2>5. out \in Negotiation
    BY <1>1, OutBeforeReply
  <2>6. Replies' = {message}
    BY <1>1, <1>5, <2>4, <2>5, OnlyReply
  <2>7. Granted(message) <=> message[2] = grant
    BY <1>1, <2>4 DEF Granted, grant
  <2>8. TargetRequested => TargetRequested'
    <3>1. CASE pc = "write_reply_v4"
      <4>1. down # <<>> /\ down[1] = 4
        BY <1>1, <3>1 DEF StageInv
      <4> QED
        BY <1>3, <4>1, RequestKept
    <3>2. CASE pc = "write_reply"
      <4>1. out # <<>>
        BY <1>1, <3>2, ToldSomething DEF StageInv
      <4>2. Len(out') # 0
        BY <2>1
      <4>3. out' # <<>>
        BY <4>2
      <4> QED
        BY <1>3, <4>1, <4>3, RequestKept
    <3> QED
      BY <1>1, <3>1, <3>2
  <2>9. GrantIsGenuine'
    <3>1. ASSUME Granted(message)
          PROVE  tsock' = "connected" /\ TargetRequested'
      BY <1>3, <2>4, <2>7, <2>8, <3>1
    <3>2. pc' = "relay" => Granted(message)
      BY <1>5, <2>7
    <3>3. \A m \in Replies' :
            (Granted(m))' => tsock' = "connected" /\ TargetRequested'
      BY <2>6, <3>1 DEF Granted
    <3>4. pc' = "relay" => \E m \in Replies' : (Granted(m))'
      BY <2>6, <3>2 DEF Granted
    <3> QED
      BY <3>3, <3>4, Zenon DEF GrantIsGenuine, TargetRequested
  <2>10. NothingBeforeAuthentication'
    <3>1. CASE pc = "write_reply_v4"
      <4>1. down'[1] = 4
        BY <1>1, <1>3, <3>1 DEF StageInv
      <4> QED
        BY <4>1 DEF NothingBeforeAuthentication
    <3>2. CASE pc = "write_reply"
      <4>1. Authenticated
        BY <1>1, <3>2 DEF StageInv
      <4>2. /\ Len(out) >= 1 /\ out[1][2] = choice
            /\ choice = 2 => Len(out) >= 2 /\ out[2] = <<1, 0>>
        BY <4>1 DEF Authenticated
      <4>3. /\ out'[1][2] = choice
            /\ choice = 2 => Len(out') >= 2 /\ out'[2] = <<1, 0>>
        <5>1. out'[1] = out[1]
          BY <2>1, <4>2
        <5>2. choice = 2 => Len(out') >= 2 /\ out'[2] = out[2]
          BY <2>1, <4>2
        <5> QED
          BY <4>2, <5>1, <5>2
      <4>4. choice # 255 => \E i \in 3..(2 + down[2]) : down[i] = choice
        BY <4>1 DEF Authenticated, Greeted, GreetingEnd
      <4> QED
        BY <1>3, <4>3, <4>4 DEF NothingBeforeAuthentication
    <3> QED
      BY <1>1, <3>1, <3>2
  <2> QED
    BY <2>2, <2>3, <2>9, <2>10 DEF ServerInv
<1> QED
  BY <1>3, <1>4, <1>5

(***************************************************************************)
(* The theorems.                                                           *)
(***************************************************************************)
\* A client that leaves, or no step at all, leaves the dialogue as it was.
LEMMA OutsideStep ==
    ASSUME ServerInv, ClientLeaves \/ UNCHANGED vars
    PROVE  ServerInv'
<1>1. UNCHANGED <<down, pos, n, stream_ec>> /\ UNCHANGED svars
        /\ link' \in {link, "shut", "reset"}
  BY DEF ClientLeaves, LinkBecomes, vars, stream_vars
<1>2. UNCHANGED <<pc, choice, target, tsock, message, out>>
  BY <1>1 DEF svars
<1>3. TypeOK'
  BY <1>1 DEF ServerInv, TypeOK, StreamTypeOK, svars
<1>4. /\ RequestRead' = RequestRead /\ Replies' = Replies
      /\ GreetingEnd' = GreetingEnd /\ RequestBegin' = RequestBegin
  <2>1. RequestRead' = RequestRead
    BY <1>1, <1>2, SMT DEF RequestRead, RequestIn
  <2>2. Replies' = Replies
    BY <1>1, <1>2, Zenon DEF Replies
  <2>3. GreetingEnd' = GreetingEnd /\ RequestBegin' = RequestBegin
    BY <1>1, <1>2, SMT DEF GreetingEnd, RequestBegin
  <2> QED
    BY <2>1, <2>2, <2>3
<1>5. /\ (Requested(RequestRead))' = Requested(RequestRead)
      /\ (Terminated(RequestRead))' = Terminated(RequestRead)
  BY <1>1, <1>4, Zenon DEF Requested, Terminated
<1>6. StageInv'
  <2>1. /\ TargetRequested => TargetRequested'
        /\ Authenticated => Authenticated'
    BY <1>1, <1>2, EstablishedKept
  <2>2. Greeted => Greeted'
    BY <1>1, <1>2, <1>4 DEF Greeted
  <2> QED
    BY <1>1, <1>2, <1>4, <2>1, <2>2 DEF ServerInv, StageInv
<1>7. GrantIsGenuine'
  BY <1>1, <1>2, <1>4, <1>5 DEF ServerInv, GrantIsGenuine, Granted
<1>8. NothingBeforeAuthentication'
  BY <1>1, <1>2 DEF ServerInv, NothingBeforeAuthentication
<1> QED
  BY <1>3, <1>6, <1>7, <1>8 DEF ServerInv

\* Every step keeps the invariant.
LEMMA NextServerInv == ServerInv /\ [Next]_vars => ServerInv'
<1> SUFFICES ASSUME ServerInv, [Next]_vars PROVE ServerInv'
  OBVIOUS
<1>1. CASE KeepReading
  BY <1>1, KeepReadingStep
<1>2. CASE ReadGreeting
  BY <1>2, ReadGreetingStep
<1>3. CASE ReadUserpass
  BY <1>3, ReadUserpassStep
<1>4. CASE ReadRequest
  BY <1>4, ReadRequestStep
<1>5. CASE ResolveFails \/ ResolveSucceeds
           \/ do_target_connect \/ do_target_connect_v4
  BY <1>5, TargetSteps
<1>6. CASE WriteChoice
  BY <1>6, WriteChoiceStep
<1>7. CASE WriteStatus
  BY <1>7, WriteStatusStep
<1>8. CASE WriteReply \/ WriteReplyV4
  BY <1>8, WriteReplySteps
<1>9. CASE ClientSends
  BY <1>9, ClientSendsStep
<1>10. CASE ClientLeaves \/ UNCHANGED vars
  BY <1>10, OutsideStep
<1> QED
  BY <1>1, <1>2, <1>3, <1>4, <1>5, <1>6, <1>7, <1>8, <1>9, <1>10
     DEF Next, Connection

\* The invariant holds of every dialogue.
THEOREM ServerInvariance == Spec => []ServerInv
BY InitServerInv, NextServerInv, PTL DEF Spec

\* The connection's state has its types: buffer_ holds no more than was
\* sent, a target is an endpoint, and what is written are bytes, whatever a
\* client sends.
THEOREM TypeCorrectServer == Spec => []TypeOK
<1>1. ServerInv => TypeOK
  BY DEF ServerInv
<1> QED
  BY <1>1, ServerInvariance, PTL

\* Whatever a client sends, in whatever segments: it is told that its
\* request was granted only when the server is connected to the target that
\* the bytes read behind the negotiation name, and only such a client is
\* relayed (do_connect_reply, do_connect_reply_v4).
THEOREM GrantGenuine == Spec => []GrantIsGenuine
<1>1. ServerInv => GrantIsGenuine
  BY DEF ServerInv
<1> QED
  BY <1>1, ServerInvariance, PTL

\* The server chooses a method that the client offered, and takes no request
\* before the status of the authentication it asked for was written.
THEOREM AuthenticationFirst == Spec => []NothingBeforeAuthentication
<1>1. ServerInv => NothingBeforeAuthentication
  BY DEF ServerInv
<1> QED
  BY <1>1, ServerInvariance, PTL

(***************************************************************************)
(* What the client meant.                                                  *)
(***************************************************************************)
\* The server has heard the first message of one of the clients, and that
\* client has its other messages still to send.
FirstSaid ==
    \E c \in Clients : c # <<>> /\ down = c[1] /\ script = Tail(c)

\* The target is the one asked for, or the request was cut behind VN.
Understood ==
    \/ WellFormed(RequestSent) => target = Requested(RequestSent).target
    \/ down[1] = 4 /\ pos = 1

\* No message reaches into the next, and once the request was read it is
\* understood, unless the connection was lost before.
HeardInv ==
    /\ pc = "read_greeting" =>
          (down = <<>> /\ script \in Clients) \/ FirstSaid
    /\ pc = "write_choice" => FirstSaid
    /\ pc = "read_userpass" =>
          /\ Len(down) <= GreetingEnd + 513
          /\ Len(down) = GreetingEnd => FirstSaid
    /\ pc \in {"resolve", "connect", "connect_v4", "write_reply",
               "write_reply_v4", "relay"} => Understood
    /\ pc = "ended" => Understood \/ (failed(stream_ec) /\ Replies = {})

\* The form of a request that parse_socks_connect accepts.
LEMMA RequestForm ==
    ASSUME NEW s \in Seq(Byte), parse_socks_connect(s).rep = 0
    PROVE  /\ Len(s) >= 5 /\ Len(s) <= 262
           /\ s[1] = 5 /\ s[2] = 1 /\ s[3] = 0
           /\ \/ s[4] = 1 /\ Len(s) = 10
              \/ s[4] = 4 /\ Len(s) = 22
              \/ s[4] = 3 /\ Len(s) = 7 + s[5]
<1>1. \A v \in {2, 7, 8, dropped} : refuse(v).rep # 0
  BY DEF refuse, dropped
<1> DEFINE z == Len(s)
<1>2. /\ z # 0 /\ s[1] = 5 /\ z # 1 /\ s[2] = 1 /\ z # 2 /\ s[3] = 0 /\ z # 3
      /\ \/ s[4] = 1 /\ z = 10
         \/ s[4] = 4 /\ z = 22
         \/ s[4] = 3 /\ z > 4 /\ z = 7 + s[5]
  BY <1>1, Zenon DEF parse_socks_connect
<1>3. z \in Nat
  OBVIOUS
<1>4. z > 4 => s[5] \in Byte
  BY <1>3, ElementOfSeq
<1>5. z > 4 => s[5] \in Nat /\ s[5] <= 255
  BY <1>4, BytesAreNumbers
<1> HIDE DEF z
<1>6. z >= 5 /\ z <= 262
  BY <1>2, <1>3, <1>5
<1> QED
  BY <1>2, <1>6, Zenon DEF z

\* do_read_connect_request reads a whole request: its completion condition
\* and parse_socks_connect agree about the length.
LEMMA WholeRequest ==
    ASSUME NEW s \in Seq(Byte), parse_socks_connect(s).rep = 0,
           NEW buf \in Seq(Byte), Len(buf) >= 1, Len(buf) <= Len(s),
           \A i \in 1..Len(buf) : buf[i] = s[i],
           Len(buf) = 263 \/ request_cond(buf, no_error) = 0
    PROVE  buf = s
<1>1. PICK z \in Nat : z = Len(buf)
  OBVIOUS
<1>2. PICK size \in Nat : size = Len(s)
  OBVIOUS
<1>3. /\ size >= 5 /\ size <= 262 /\ s[1] = 5 /\ s[2] = 1 /\ s[3] = 0
      /\ \/ s[4] = 1 /\ size = 10
         \/ s[4] = 4 /\ size = 22
         \/ s[4] = 3 /\ size = 7 + s[5]
  <2>1. /\ Len(s) >= 5 /\ Len(s) <= 262
        /\ s[1] = 5 /\ s[2] = 1 /\ s[3] = 0
        /\ \/ s[4] = 1 /\ Len(s) = 10
           \/ s[4] = 4 /\ Len(s) = 22
           \/ s[4] = 3 /\ Len(s) = 7 + s[5]
    BY RequestForm
  <2> QED
    BY <1>2, <2>1, Zenon
<1>4. s[5] \in Nat /\ s[5] <= 255
  <2>1. s[5] \in Byte
    BY <1>2, <1>3, ElementOfSeq
  <2> QED
    BY <2>1, BytesAreNumbers
<1>5. z >= 1 /\ z <= size /\ \A i \in 1..z : buf[i] = s[i]
  BY <1>1, <1>2
<1>6. z = size
  <2> SUFFICES ASSUME z < size PROVE FALSE
    BY <1>5
  <2>1. request_cond(buf, no_error) = 0
    <3>1. z # 263
      BY <1>3, <1>5
    <3> QED
      BY <1>1, <3>1, Zenon
  <2>2. ~ \/ failed(no_error)
          \/ z >= 1 /\ buf[1] # 5
          \/ z >= 2 /\ buf[2] # 1
          \/ z >= 3 /\ buf[3] # 0
    BY <1>3, <1>5, ErrorFacts
  <2>3. CASE z < 4
    <3>1. request_cond(buf, no_error) = 263 - z
      BY <1>1, <2>2, <2>3, Zenon DEF request_cond
    <3> QED
      BY <2>1, <2>3, <3>1
  <2>4. CASE ~(z < 4)
    <3>1. buf[4] = s[4] /\ (z > 4 => buf[5] = s[5])
      BY <1>5, <2>4
    <3>2. PICK q \in Nat : q = request_size(buf) /\ q > z
      <4>1. CASE s[4] = 1
        <5>1. request_size(buf) = 10
          BY <3>1, <4>1, Zenon DEF request_size
        <5>2. size = 10
          BY <1>3, <4>1
        <5> QED
          BY <5>1, <5>2
      <4>2. CASE s[4] = 4
        <5>1. 4 # 1 /\ 4 # 3
          OBVIOUS
        <5>2. request_size(buf) = 22
          BY <3>1, <4>2, <5>1, Zenon DEF request_size
        <5>3. size = 22
          BY <1>3, <4>2
        <5> QED
          BY <5>2, <5>3
      <4>3. CASE s[4] = 3
        <5>1. 3 # 1
          OBVIOUS
        <5>2. request_size(buf) = 7 + (IF z > 4 THEN buf[5] ELSE 256)
          BY <1>1, <3>1, <4>3, <5>1, Zenon DEF request_size
        <5>3. size = 7 + s[5]
          BY <1>3, <4>3
        <5>4. CASE z > 4
          BY <1>4, <3>1, <5>2, <5>3, <5>4
        <5>5. CASE ~(z > 4)
          BY <5>2, <5>5
        <5> QED
          BY <5>4, <5>5
      <4> QED
        BY <1>3, <4>1, <4>2, <4>3
    <3>3. request_cond(buf, no_error) = q - z
      <4>1. z < q
        BY <3>2
      <4> QED
        BY <1>1, <2>2, <2>4, <3>2, <4>1, Zenon DEF request_cond
    <3> QED
      BY <2>1, <3>2, <3>3
  <2> QED
    BY <2>3, <2>4
<1> QED
  BY <1>1, <1>2, <1>5, <1>6, SeqEqual, Zenon

\* start reads a SOCKS4 request beyond the address, unless it ends the read
\* at the first byte or at a CMD other than CONNECT.
LEMMA RequestV4Taken ==
    ASSUME NEW s \in Seq(Byte), parse_socks_connect_v4(s).rep = 0,
           NEW buf \in Seq(Byte), Len(buf) >= 1, Len(buf) <= Len(s),
           \A i \in 1..Len(buf) : buf[i] = s[i],
           Len(buf) = 258 \/ greeting_cond(buf, no_error) = 0
    PROVE  \/ Len(buf) = 1
           \/ parse_socks_connect_v4(buf) = parse_socks_connect_v4(s)
<1>1. PICK z \in Nat : z = Len(buf)
  OBVIOUS
<1>2. PICK size \in Nat : size = Len(s)
  OBVIOUS
<1>3. \A v \in {91, dropped} : refuse(v).rep # 0
  BY DEF refuse, dropped
<1>4. /\ s[1] = 4 /\ s[2] = 1 /\ ~(size < 8) /\ size # 0 /\ size # 1
      /\ parse_socks_connect_v4(s)
           = accept("v4", SubSeq(s, 5, 8), s[3], s[4])
  BY <1>2, <1>3, Zenon DEF parse_socks_connect_v4
<1>5. z >= 1 /\ z <= size /\ \A i \in 1..z : buf[i] = s[i]
  BY <1>1, <1>2
<1> SUFFICES ASSUME z # 1
             PROVE  parse_socks_connect_v4(buf) = parse_socks_connect_v4(s)
  BY <1>1
<1>6. buf[1] = 4 /\ buf[2] = 1 /\ z > 0
  BY <1>4, <1>5
<1>7. z >= 9
  <2> SUFFICES ASSUME z < 9 PROVE FALSE
    BY <1>1
  <2>1. greeting_cond(buf, no_error) = 0
    <3>1. z # 258
      OBVIOUS
    <3> QED
      BY <1>1, <3>1, Zenon
  <2>2. ~(\E i \in 9..z : buf[i] = 0)
    BY <1>1
  <2>3. ~failed(no_error) /\ 4 # 5
    BY ErrorFacts
  <2>4. greeting_cond(buf, no_error) = 258 - z
    BY <1>1, <1>6, <2>2, <2>3, Zenon DEF greeting_cond
  <2> QED
    BY <2>1, <2>4
<1>8. buf[3] = s[3] /\ buf[4] = s[4]
  BY <1>5, <1>7
<1>9. SubSeq(buf, 5, 8) = SubSeq(s, 5, 8)
  <2> DEFINE a == SubSeq(buf, 5, 8)
             b == SubSeq(s, 5, 8)
  <2>1. /\ a \in Seq(Byte) /\ Len(a) = 4
        /\ \A i \in 1..4 : a[i] = buf[4 + i]
    BY <1>1, <1>7
  <2>2. /\ b \in Seq(Byte) /\ Len(b) = 4
        /\ \A i \in 1..4 : b[i] = s[4 + i]
    BY <1>2, <1>5, <1>7
  <2> HIDE DEF a, b
  <2>3. \A i \in 1..4 : buf[4 + i] = s[4 + i]
    BY <1>5, <1>7
  <2>4. Len(a) = Len(b) /\ \A i \in 1..Len(a) : a[i] = b[i]
    BY <2>1, <2>2, <2>3
  <2>5. a = b
    BY <2>1, <2>2, <2>4, SeqEqual, Zenon
  <2> QED
    BY <2>5, Zenon DEF a, b
<1>10. ~(z = 0) /\ ~(buf[1] # 4 \/ z = 1) /\ ~(buf[2] # 1 \/ z < 8)
  BY <1>6, <1>7
<1>11. parse_socks_connect_v4(buf)
         = accept("v4", SubSeq(buf, 5, 8), buf[3], buf[4])
  BY <1>1, <1>10, Zenon DEF parse_socks_connect_v4
<1> QED
  BY <1>4, <1>8, <1>9, <1>11, Zenon

\* Where the request is in all that the client has sent.
LEMMA RequestSentFacts ==
    /\ (down # <<>> /\ down[1] = 4) => RequestSent = SubSeq(down, 1, Len(down))
    /\ ~(down # <<>> /\ down[1] = 4) /\ out = <<>> => RequestSent = <<>>
    /\ ~(down # <<>> /\ down[1] = 4) /\ out # <<>>
         => RequestSent = SubSeq(down, 3 + down[2]
                                  + (IF choice = 2 THEN 513 ELSE 0), Len(down))
BY Zenon DEF RequestSent, RequestIn

\* A client that has asked for nothing is understood.
LEMMA NothingAsked ==
    /\ RequestSent = <<>> => Understood
    /\ ~(down # <<>> /\ down[1] = 4) /\ out = <<>> => Understood
BY RequestSentFacts, Zenon DEF Understood, WellFormed

\* The same of the next state.
LEMMA NothingAskedPrimed ==
    /\ (RequestSent = <<>>)' => Understood'
    /\ (~(down # <<>> /\ down[1] = 4) /\ out = <<>>)' => Understood'
BY NothingAsked, PTL

\* A message that ends before the request begins asks for nothing.
LEMMA NothingBehind ==
    ASSUME TypeOK, Greeted, out # <<>>, Len(down) <= RequestBegin
    PROVE  Understood
<1>1. ~(down # <<>> /\ down[1] = 4)
  BY DEF Greeted
<1> DEFINE w == IF choice = 2 THEN 513 ELSE 0
<1>2. down[2] \in Nat /\ w \in Nat /\ Len(down) \in Nat /\ down \in Seq(Byte)
  BY GreetingRead DEF TypeOK, StreamTypeOK
<1>3. RequestBegin = 2 + down[2] + w
  BY Zenon DEF RequestBegin, GreetingEnd
<1>4. RequestSent = SubSeq(down, 3 + down[2] + w, Len(down))
  BY <1>1, RequestSentFacts, Zenon
<1> HIDE DEF w
<1> DEFINE a == 3 + down[2] + w
<1>5. a \in Int /\ a > Len(down)
  BY <1>2, <1>3
<1> HIDE DEF a
<1>6. SubSeq(down, a, Len(down)) = <<>>
  BY <1>2, <1>5, EmptySeq, SubSeqProperties
<1> QED
  BY <1>4, <1>6, NothingAsked, Zenon DEF a

\* The same of the next state.
LEMMA NothingBehindPrimed ==
    (TypeOK /\ Greeted /\ out # <<>> /\ Len(down) <= RequestBegin)'
      => Understood'
<1>1. (TypeOK /\ Greeted /\ out # <<>> /\ Len(down) <= RequestBegin)
        => Understood
  BY NothingBehind
<1> QED
  BY <1>1, PTL

\* What was understood stays so while the stream and the target do.
LEMMA UnderstoodKept ==
    ASSUME UNCHANGED <<down, pos, choice, target>>,
           \/ down # <<>> /\ down[1] = 4
           \/ out # <<>> /\ out' # <<>>
           \/ out' = out,
           Understood
    PROVE  Understood'
<1>1. down' = down /\ pos' = pos /\ choice' = choice /\ target' = target
  OBVIOUS
<1>2. RequestSent' = RequestSent
  <2>1. CASE down # <<>> /\ down[1] = 4
    BY <1>1, <2>1, SMT DEF RequestSent, RequestIn
  <2>2. CASE out # <<>> /\ out' # <<>>
    BY <1>1, <2>2, SMT DEF RequestSent, RequestIn
  <2>3. CASE out' = out
    BY <1>1, <2>3, SMT DEF RequestSent, RequestIn
  <2> QED
    BY <2>1, <2>2, <2>3
<1>3. /\ (Requested(RequestSent))' = Requested(RequestSent)
      /\ (WellFormed(RequestSent))' = WellFormed(RequestSent)
  BY <1>1, <1>2, Zenon DEF Requested, WellFormed, Terminated
<1> QED
  BY <1>1, <1>3, Zenon DEF Understood

\* A connection that has ended has told the client what it had before.
LEMMA NoReply ==
    ASSUME TypeOK, StageInv, pc \notin {"relay", "ended"}, out' = out
    PROVE  Replies' = {}
<1>1. out' \in Negotiation
  BY OutBeforeReply
<1> QED
  BY <1>1, NegotiationFacts DEF Replies

\* What was said stays said.
LEMMA FirstSaidKept ==
    FirstSaid /\ UNCHANGED <<down, script>> => FirstSaid'
BY Zenon DEF FirstSaid

\* The first message of a client who sends one a turn.
LEMMA FirstMessage ==
    ASSUME OneMessagePerTurn, TypeOK, FirstSaid, Len(down) >= 2, down[1] = 5
    PROVE  Len(down) <= GreetingEnd
BY Zenon DEF FirstSaid, OneMessagePerTurn, GreetingEnd

\* A turn of the read loop leaves what was said.
LEMMA HeardKeepReading ==
    ASSUME HeardInv, KeepReading
    PROVE  HeardInv'
<1>1. pc \in Reading /\ UNCHANGED <<down, script, pc>>
  BY DEF KeepReading, Transfer, svars
<1>2. GreetingEnd' = GreetingEnd
  BY <1>1, Zenon DEF GreetingEnd
<1>3. FirstSaid => FirstSaid'
  BY <1>1, FirstSaidKept
<1> QED
  BY <1>1, <1>2, <1>3 DEF HeardInv, Reading

\* The answer to a SOCKS4 request, whatever it is, is for what was asked.
LEMMA HeardConnectV4 ==
    ASSUME StreamTypeOK', NEW buf \in Seq(Byte), AnswerConnectV4(buf),
           Len(buf) >= 1, Len(buf) <= Len(down'),
           pos' = Len(buf), \A i \in 1..Len(buf) : buf[i] = down'[i],
           buf[1] = 4,
           \/ Len(buf) = 258
           \/ greeting_cond(buf, no_error) = 0
    PROVE  Understood' /\ pc' \in {"connect_v4", "write_reply_v4", "ended"}
<1> DEFINE r == parse_socks_connect_v4(buf)
<1>1. Len(buf) \in Nat /\ down' \in Seq(Byte) /\ Len(down') \in Nat
  BY DEF StreamTypeOK
<1>2. 1 \in 1..Len(buf) /\ down' # <<>>
  BY <1>1
<1>3. down'[1] = 4
  BY <1>2, Zenon
<1>4. PICK s \in Seq(Byte) : s = down'
  BY <1>1
<1>5. RequestSent' = s
  <2>1. RequestSent' = SubSeq(down', 1, Len(down'))
    BY <1>2, <1>3, Zenon DEF RequestSent, RequestIn
  <2>2. SubSeq(s, 1, Len(s)) = s
    OBVIOUS
  <2> QED
    BY <1>4, <2>1, <2>2, Zenon
<1>6. (Requested(RequestSent))' = parse_socks_connect_v4(s)
  BY <1>3, <1>5, Zenon DEF Requested
<1>7. \/ r.rep = 0 /\ target' = r.target /\ pc' = "connect_v4"
      \/ r.rep # 0 /\ pc' \in {"write_reply_v4", "ended"}
  <2>1. CASE r.rep = 0
    BY <2>1 DEF AnswerConnectV4
  <2>2. CASE r.rep # 0
    BY <2>2 DEF AnswerConnectV4, do_connect_reply_v4, Reply
  <2> QED
    BY <2>1, <2>2
<1>8. parse_socks_connect_v4(s).rep = 0
        => Len(buf) = 1 \/ r = parse_socks_connect_v4(s)
  BY <1>4, RequestV4Taken
<1> HIDE DEF r
<1>9. Understood'
  <2> SUFFICES ASSUME (WellFormed(RequestSent))', pos' # 1
               PROVE  target' = (Requested(RequestSent).target)'
    BY <1>3, Zenon DEF Understood
  <2>1. parse_socks_connect_v4(s).rep = 0
    BY <1>6, Zenon DEF WellFormed
  <2>2. r = parse_socks_connect_v4(s)
    BY <1>8, <2>1, Zenon
  <2> QED
    BY <1>6, <1>7, <2>1, <2>2, Zenon
<1> QED
  BY <1>7, <1>9

\* The handler of the first read.
LEMMA HeardGreeting ==
    ASSUME ServerInv, HeardInv, ReadGreeting
    PROVE  HeardInv'
<1>1. /\ TypeOK /\ StageInv /\ pc = "read_greeting" /\ pc \in Reading
      /\ UNCHANGED <<script, out>> /\ out = <<>> /\ out' = <<>>
  BY DEF ServerInv, StageInv, ReadGreeting, Reading
<1> DEFINE Handler(o) ==
              LET buf == buffer(o.k) IN
              IF failed(o.ec) THEN End
              ELSE IF buf[1] = 5 THEN AnswerGreeting(buf)
              ELSE IF buf[1] = 4 THEN AnswerConnectV4(buf)
              ELSE End
<1>2. PICK o \in Turn : TransferLast(o) /\ ~More(o) /\ Handler(o)
  BY DEF ReadGreeting
<1>3. StreamTypeOK' /\ pos' = pos + o.k /\ down' = down /\ stream_ec' = o.ec
  BY <1>1, <1>2, TurnKeeps DEF TransferLast
<1>4. CASE failed(o.ec)
  <2>1. pc' = "ended" /\ failed(stream_ec)'
    BY <1>2, <1>3, <1>4, Zenon DEF End, failed
  <2>2. Replies' = {}
    BY <1>1, NoReply
  <2> QED
    BY <2>1, <2>2 DEF HeardInv
<1>5. CASE ~failed(o.ec)
  <2> DEFINE buf == buffer(o.k)
  <2>1. /\ buf \in Seq(Byte) /\ o.k \in Nat /\ Len(buf) = n + o.k
        /\ Len(buf) >= 1
        /\ \A i \in 1..(n + o.k) : buf[i] = down[(pos - n) + i]
        /\ \/ n + o.k = buffer_size
           \/ completion_condition(buf, no_error) = 0
    BY <1>1, <1>2, <1>5, LastBuffer
  <2>2. pos = n /\ pos \in Nat /\ Len(down) \in Nat /\ pos' <= Len(down)
    BY <1>1, <1>3, StreamNumbers DEF StageInv, StreamTypeOK, TypeOK
  <2>3. \/ Len(buf) = 258
        \/ greeting_cond(buf, no_error) = 0
    BY <1>1, <2>1 DEF buffer_size, completion_condition
  <2>4. \A i \in 1..Len(buf) : buf[i] = down'[i]
    <3> SUFFICES ASSUME NEW i \in 1..Len(buf) PROVE buf[i] = down'[i]
      OBVIOUS
    <3>1. i \in 1..(n + o.k) /\ (pos - n) + i = i
      BY <2>1, <2>2
    <3> QED
      BY <1>3, <2>1, <3>1, Zenon
  <2>5. pos' = Len(buf) /\ Len(buf) <= Len(down')
    BY <1>3, <2>1, <2>2
  <2>6. buf[1] = down'[1] /\ down # <<>>
    <3>1. 1 \in 1..Len(buf) /\ Len(down) # 0
      BY <2>1, <2>2, <2>5, <1>3
    <3> QED
      BY <2>4, <3>1
  <2>7. \/ buf[1] = 5 /\ AnswerGreeting(buf)
        \/ buf[1] = 4 /\ AnswerConnectV4(buf)
        \/ buf[1] # 4 /\ End
    BY <1>2, <1>5, Zenon
  <2> HIDE DEF buf
  <2>8. CASE buf[1] # 4 /\ (End \/ AnswerGreeting(buf))
    <3>1. Understood'
      BY <1>1, <2>6, <2>8, NothingAskedPrimed
    <3>2. pc' \in {"ended", "write_choice"}
      BY <2>8 DEF End, AnswerGreeting, StartWrite
    <3>3. FirstSaid'
      <4>1. FirstSaid
        BY <1>1, <2>6, Zenon DEF HeardInv
      <4> QED
        BY <1>1, <1>3, <4>1, FirstSaidKept
    <3> QED
      BY <3>1, <3>2, <3>3 DEF HeardInv
  <2>9. CASE buf[1] = 4 /\ AnswerConnectV4(buf)
    <3>1. Understood' /\ pc' \in {"connect_v4", "write_reply_v4", "ended"}
      BY <1>3, <2>1, <2>3, <2>4, <2>5, <2>9, HeardConnectV4
    <3> QED
      BY <3>1 DEF HeardInv
  <2> QED
    BY <2>7, <2>8, <2>9
<1> QED
  BY <1>4, <1>5

\* The handler of the read of user name and password.
LEMMA HeardUserpass ==
    ASSUME ServerInv, ServerInv', HeardInv, ReadUserpass
    PROVE  HeardInv'
<1>1. /\ TypeOK /\ StageInv /\ pc = "read_userpass" /\ pc \in Reading
      /\ UNCHANGED <<script, out>> /\ TypeOK'
  BY DEF ServerInv, ReadUserpass, Reading
<1>2. PICK o \in Turn :
        /\ TransferLast(o) /\ ~More(o)
        /\ IF failed(o.ec) \/ ~parse_userpass_greeting(buffer(o.k)).ok
           THEN End
           ELSE /\ StartWrite("write_status", <<1, 0>>)
                /\ UNCHANGED <<choice, target>>
  BY DEF ReadUserpass
<1>3. /\ StreamTypeOK' /\ pos' = pos + o.k /\ down' = down /\ stream_ec' = o.ec
      /\ pos' \in Nat /\ pos' >= pos
  BY <1>1, <1>2, TurnKeeps DEF TransferLast
<1>4. CASE failed(o.ec)
  <2>1. pc' = "ended" /\ failed(stream_ec)'
    BY <1>2, <1>3, <1>4, Zenon DEF End, failed
  <2>2. Replies' = {}
    BY <1>1, NoReply
  <2> QED
    BY <2>1, <2>2 DEF HeardInv
<1>5. CASE ~failed(o.ec) /\ ~parse_userpass_greeting(buffer(o.k)).ok
  <2>1. pc' = "ended" /\ choice' = choice
    BY <1>2, <1>5 DEF End
  <2>2. Greeted /\ choice = 2 /\ out = <<<<5, 2>>>> /\ GreetingEnd \in Nat
    BY <1>1, GreetingRead DEF StageInv
  <2>3. Greeted' /\ RequestBegin' = RequestBegin
    BY <1>1, <1>3, <2>1, <2>2, StreamNumbers, GreetedGrows DEF TypeOK
  <2>4. Len(down) <= GreetingEnd + 513
    BY <1>1 DEF HeardInv
  <2>5. RequestBegin = GreetingEnd + 513
    BY <2>2, Zenon DEF RequestBegin
  <2>6. Len(down') <= RequestBegin' /\ out' # <<>>
    BY <1>1, <1>3, <2>2, <2>3, <2>4, <2>5
  <2>7. Understood'
    BY <1>1, <2>3, <2>6, NothingBehindPrimed
  <2> QED
    BY <2>1, <2>7 DEF HeardInv
<1>6. CASE ~(failed(o.ec) \/ ~parse_userpass_greeting(buffer(o.k)).ok)
  <2>1. pc' = "write_status"
    BY <1>2, <1>6 DEF StartWrite
  <2> QED
    BY <2>1 DEF HeardInv
<1> QED
  BY <1>4, <1>5, <1>6

\* What was read of the request is where the request was sent.
LEMMA RequestRange ==
    ASSUME TypeOK, Authenticated, pos = RequestBegin + n,
           NEW k \in Nat, pos + k <= Len(down), UNCHANGED <<down, choice, out>>
    PROVE  /\ RequestSent' \in Seq(Byte) /\ n + k <= Len(RequestSent')
           /\ \A i \in 1..(n + k) :
                RequestSent'[i] = down[(pos - n) + i]
<1>1. Greeted /\ out # <<>>
  BY ToldSomething DEF Authenticated
<1>2. /\ down[2] \in Nat /\ RequestBegin \in Nat
      /\ n \in Nat /\ pos \in Nat /\ Len(down) \in Nat /\ down \in Seq(Byte)
  BY <1>1, GreetingRead, RequestBeginType, StreamNumbers
     DEF TypeOK, StreamTypeOK
<1>3. ~(down # <<>> /\ down[1] = 4)
  BY <1>1 DEF Greeted
<1> DEFINE w == IF choice = 2 THEN 513 ELSE 0
<1>4. w \in Nat
  OBVIOUS
<1>5. RequestSent' = SubSeq(down, 3 + down[2] + w, Len(down))
  <2>1. down' = down /\ choice' = choice /\ out' = out
    OBVIOUS
  <2>2. RequestSent' = RequestSent
    BY <2>1, SMT DEF RequestSent, RequestIn
  <2>3. RequestSent = SubSeq(down, 3 + down[2] + w, Len(down))
    BY <1>1, <1>3, RequestSentFacts, Zenon
  <2> QED
    BY <2>2, <2>3, Zenon
<1> HIDE DEF w
<1>6. RequestBegin = 2 + down[2] + w
  BY Zenon DEF RequestBegin, GreetingEnd, w
<1> DEFINE b == RequestBegin
<1>7. b \in Nat /\ pos = b + n /\ 3 + down[2] + w = b + 1
  <2>1. 3 + down[2] + w = (2 + down[2] + w) + 1
    BY <1>2, <1>4
  <2> QED
    BY <1>2, <1>6, <2>1, Zenon
<1> HIDE DEF b
<1>8. RequestSent' = SubSeq(down, b + 1, Len(down))
  BY <1>5, <1>7, Zenon
<1>9. b + n + k <= Len(down)
  BY <1>7
<1> DEFINE s == SubSeq(down, b + 1, Len(down))
<1>10. s \in Seq(Byte)
  BY <1>2, <1>7
<1>11. /\ Len(s) = IF b + 1 <= Len(down) THEN Len(down) - (b + 1) + 1 ELSE 0
       /\ \A i \in 1..(Len(down) - (b + 1) + 1) : s[i] = down[(b + 1) + i - 1]
  <2>1. \A i \in (b + 1)..Len(down) : down[i] \in Byte
    BY <1>2, <1>7
  <2>2. b + 1 \in Int /\ Len(down) \in Int
    BY <1>2, <1>7
  <2> QED
    BY <2>1, <2>2, SubSeqProperties
<1> HIDE DEF s
<1>12. n + k <= Len(s)
  BY <1>2, <1>7, <1>9, <1>11
<1>13. ASSUME NEW i \in 1..(n + k) PROVE s[i] = down[(pos - n) + i]
  <2>1. i \in 1..(Len(down) - (b + 1) + 1)
    BY <1>2, <1>7, <1>9
  <2>2. (b + 1) + i - 1 = (pos - n) + i
    BY <1>2, <1>7
  <2> QED
    BY <1>11, <2>1, <2>2
<1> QED
  BY <1>8, <1>10, <1>12, <1>13 DEF s

\* The handler of the read of the request.
LEMMA HeardRequest ==
    ASSUME ServerInv, HeardInv, ReadRequest
    PROVE  HeardInv'
<1>1. /\ TypeOK /\ StageInv /\ pc = "read_request" /\ pc \in Reading
      /\ UNCHANGED <<script, out>>
  BY DEF ServerInv, ReadRequest, Reading
<1> DEFINE Handler(o) ==
             LET r == parse_socks_connect(buffer(o.k)) IN
             IF failed(o.ec) \/ r.rep = dropped THEN End
             ELSE IF r.rep = 0
             THEN /\ target' = r.target
                  /\ pc' = IF r.target.kind = "domain" THEN "resolve"
                                                       ELSE "connect"
                  /\ UNCHANGED <<choice, tsock, message, server>>
             ELSE /\ UNCHANGED <<choice, target, tsock>>
                  /\ do_connect_reply(r.rep)
<1>2. PICK o \in Turn : TransferLast(o) /\ ~More(o) /\ Handler(o)
  BY DEF ReadRequest
<1>3. /\ StreamTypeOK' /\ pos' = pos + o.k /\ down' = down /\ stream_ec' = o.ec
  BY <1>1, <1>2, TurnKeeps DEF TransferLast
<1> DEFINE buf == buffer(o.k)
           r == parse_socks_connect(buf)
<1>4. CASE failed(o.ec)
  <2>1. pc' = "ended" /\ failed(stream_ec)'
    BY <1>2, <1>3, <1>4, Zenon DEF End, failed
  <2>2. Replies' = {}
    BY <1>1, NoReply
  <2> QED
    BY <2>1, <2>2 DEF HeardInv
<1>5. CASE ~failed(o.ec)
  <2>1. /\ buf \in Seq(Byte) /\ o.k \in Nat /\ Len(buf) = n + o.k
        /\ Len(buf) >= 1
        /\ \A i \in 1..(n + o.k) : buf[i] = down[(pos - n) + i]
        /\ \/ n + o.k = buffer_size
           \/ completion_condition(buf, no_error) = 0
    BY <1>1, <1>2, <1>5, LastBuffer
  <2>2. \/ r.rep = dropped /\ pc' = "ended" /\ choice' = choice
        \/ /\ r.rep = 0 /\ target' = r.target
           /\ pc' \in {"resolve", "connect"} /\ choice' = choice
        \/ /\ r.rep # 0 /\ choice' = choice
           /\ pc' \in {"write_reply", "ended"}
    <3>1. CASE r.rep = dropped
      BY <1>2, <1>5, <3>1, Zenon DEF End
    <3>2. CASE r.rep # dropped /\ r.rep = 0
      BY <1>2, <1>5, <3>2, Zenon
    <3>3. CASE r.rep # dropped /\ r.rep # 0
      <4>1. UNCHANGED <<choice, target, tsock>> /\ do_connect_reply(r.rep)
        BY <1>2, <1>5, <3>3, Zenon
      <4>2. pc' \in {"write_reply", "ended"}
        BY <4>1 DEF do_connect_reply, Reply
      <4> QED
        BY <3>3, <4>1, <4>2
    <3> QED
      BY <3>1, <3>2, <3>3
  <2>3. \/ Len(buf) = 263
        \/ request_cond(buf, no_error) = 0
    BY <1>1, <2>1 DEF buffer_size, completion_condition
  <2>4. Authenticated /\ pos = RequestBegin + n /\ down[1] = 5
    BY <1>1 DEF StageInv, Authenticated, Greeted
  <2>5. pos + o.k <= Len(down)
    BY <1>1, TurnFacts
  <2> HIDE DEF buf
  <2>6. PICK s : s = RequestSent'
    OBVIOUS
  <2>7. /\ s \in Seq(Byte) /\ Len(buf) <= Len(s)
        /\ \A i \in 1..Len(buf) : buf[i] = s[i]
    <3>1. UNCHANGED <<down, choice, out>>
      BY <1>1, <1>3, <2>2
    <3>2. /\ RequestSent' \in Seq(Byte) /\ n + o.k <= Len(RequestSent')
          /\ \A i \in 1..(n + o.k) : RequestSent'[i] = down[(pos - n) + i]
      BY <1>1, <2>1, <2>4, <2>5, <3>1, RequestRange
    <3> QED
      BY <2>1, <2>6, <3>2
  <2>8. (Requested(RequestSent))' = parse_socks_connect(s)
    <3>1. down'[1] # 4
      BY <1>3, <2>4
    <3> QED
      BY <2>6, <3>1, Zenon DEF Requested
  <2>9. parse_socks_connect(s).rep = 0 => buf = s
    BY <2>1, <2>3, <2>7, WholeRequest
  <2>10. dropped # 0
    BY DEF dropped
  <2>11. Understood'
    <3> SUFFICES ASSUME (WellFormed(RequestSent))'
                 PROVE  target' = (Requested(RequestSent).target)'
      BY Zenon DEF Understood
    <3>1. parse_socks_connect(s).rep = 0
      BY <2>8, Zenon DEF WellFormed
    <3>2. r = parse_socks_connect(s)
      BY <2>9, <3>1, Zenon
    <3> QED
      BY <2>2, <2>8, <2>10, <3>1, <3>2, Zenon
  <2> QED
    BY <2>2, <2>11 DEF HeardInv
<1> QED
  BY <1>4, <1>5

\* The resolver's handler, and the outcomes of the connection to the target.
LEMMA HeardTarget ==
    ASSUME HeardInv,
           \/ ResolveFails \/ ResolveSucceeds
           \/ do_target_connect \/ do_target_connect_v4
    PROVE  HeardInv'
<1>1. UNCHANGED <<down, pos, choice, target, out>>
  BY DEF ResolveFails, ResolveSucceeds, do_target_connect,
         do_target_connect_v4, stream_vars
<1>2. pc \in {"resolve", "connect", "connect_v4"}
  BY DEF ResolveFails, ResolveSucceeds, do_target_connect,
         do_target_connect_v4
<1>3. pc' \in {"connect", "write_reply", "write_reply_v4", "ended"}
  BY DEF ResolveFails, ResolveSucceeds, do_target_connect,
         do_target_connect_v4, do_connect_reply, do_connect_reply_v4, Reply
<1>4. Understood'
  BY <1>1, <1>2, UnderstoodKept DEF HeardInv
<1> QED
  BY <1>3, <1>4 DEF HeardInv

\* A write that fails leaves its error behind.
LEMMA WriteOutcome ==
    ASSUME NEW label, Written(label)
    PROVE  /\ UNCHANGED <<down, pos, n, script, choice, target>>
           /\ \/ pc' = "ended" /\ out' = out /\ failed(stream_ec)'
              \/ pc' = label /\ out' = Append(out, message)
<1>1. PICK e \in write_results :
        /\ Write(e)
        /\ IF failed(e) THEN pc' = "ended" /\ UNCHANGED out
           ELSE pc' = label /\ out' = Append(out, message)
  BY DEF Written
<1>2. UNCHANGED <<down, pos, n>> /\ stream_ec' = e
  BY <1>1 DEF Write
<1>3. failed(e) => failed(stream_ec)'
  BY <1>2, Zenon DEF failed
<1> QED
  BY <1>1, <1>2, <1>3 DEF Written

\* The handler of do_server_choice.
LEMMA HeardChoice ==
    ASSUME OneMessagePerTurn, ServerInv, ServerInv', HeardInv, WriteChoice
    PROVE  HeardInv'
<1>1. /\ TypeOK /\ StageInv /\ pc = "write_choice" /\ Written(after_choice)
      /\ TypeOK' /\ FirstSaid
  BY DEF ServerInv, WriteChoice, HeardInv
<1>2. /\ UNCHANGED <<down, pos, n, script, choice, target>>
      /\ \/ pc' = "ended" /\ out' = out /\ failed(stream_ec)'
         \/ pc' = after_choice /\ out' = Append(out, message)
  BY <1>1, WriteOutcome
<1>3. CASE pc' = "ended" /\ out' = out /\ failed(stream_ec)'
  <2>1. Replies' = {}
    BY <1>1, <1>3, NoReply
  <2> QED
    BY <1>3, <2>1 DEF HeardInv
<1>4. CASE pc' = after_choice /\ out' = Append(out, message)
  <2>1. Greeted /\ Len(down) >= 2 /\ down[1] = 5 /\ choice \in {0, 2, 255}
    BY <1>1 DEF StageInv, Greeted, TypeOK
  <2>2. Len(down) <= GreetingEnd /\ GreetingEnd \in Nat /\ Len(down) \in Nat
    BY <1>1, <2>1, FirstMessage, GreetingRead
  <2>3. GreetingEnd' = GreetingEnd /\ RequestBegin' = RequestBegin /\ Greeted'
    <3>1. /\ pos' \in Nat /\ pos' >= pos
          /\ Len(down') \in Nat /\ Len(down') >= Len(down)
          /\ \A i \in 1..Len(down) : down'[i] = down[i]
      BY <1>1, <1>2, <2>2, StreamNumbers DEF TypeOK
    <3> QED
      BY <1>1, <1>2, <2>1, <3>1, GreetedGrows
  <2>4. FirstSaid'
    BY <1>1, <1>2, FirstSaidKept
  <2>5. CASE choice = 255
    <3>1. pc' = "ended"
      BY <1>4, <2>5 DEF after_choice
    <3>2. RequestBegin = GreetingEnd + 0
      BY <2>5 DEF RequestBegin
    <3>3. Len(down') <= RequestBegin'
      BY <1>2, <2>2, <2>3, <3>2
    <3>4. out' # <<>>
      <4>1. Len(out') = Len(out) + 1 /\ Len(out) \in Nat
        BY <1>1, <1>4, AppendOut
      <4>2. Len(out') # 0
        BY <4>1
      <4> QED
        BY <4>2
    <3>5. Understood'
      BY <1>1, <2>3, <3>3, <3>4, NothingBehindPrimed
    <3> QED
      BY <3>1, <3>5 DEF HeardInv
  <2>6. CASE choice # 255
    <3>1. pc' \in {"read_userpass", "read_request"}
      BY <1>4, <2>6 DEF after_choice
    <3>2. Len(down') <= GreetingEnd' + 513
      BY <1>2, <2>2, <2>3
    <3> QED
      BY <2>4, <3>1, <3>2 DEF HeardInv
  <2> QED
    BY <2>5, <2>6
<1> QED
  BY <1>2, <1>3, <1>4

\* The handler of the write of the authentication's status.
LEMMA HeardStatus ==
    ASSUME ServerInv, HeardInv, WriteStatus
    PROVE  HeardInv'
<1>1. TypeOK /\ StageInv /\ pc = "write_status" /\ Written("read_request")
  BY DEF ServerInv, WriteStatus
<1>2. \/ pc' = "ended" /\ out' = out /\ failed(stream_ec)'
      \/ pc' = "read_request"
  BY <1>1, WriteOutcome
<1>3. out' = out => Replies' = {}
  BY <1>1, NoReply
<1> QED
  BY <1>2, <1>3 DEF HeardInv

\* The handlers of the writes of the replies.
LEMMA HeardReply ==
    ASSUME ServerInv, HeardInv, WriteReply \/ WriteReplyV4
    PROVE  HeardInv'
<1> DEFINE grant == IF pc = "write_reply" THEN 0 ELSE 90
           label == IF message[2] = grant THEN "relay" ELSE "ended"
<1>1. /\ TypeOK /\ StageInv /\ pc \in {"write_reply", "write_reply_v4"}
      /\ Written(label) /\ Understood
  BY DEF ServerInv, WriteReply, WriteReplyV4, HeardInv
<1>2. label \in {"relay", "ended"}
  OBVIOUS
<1> HIDE DEF label
<1>3. /\ UNCHANGED <<down, pos, choice, target>>
      /\ pc' \in {"relay", "ended"}
      /\ out' = out \/ out' = Append(out, message)
  BY <1>1, <1>2, WriteOutcome
<1>4. \/ down # <<>> /\ down[1] = 4
      \/ out # <<>> /\ out' # <<>>
      \/ out' = out
  <2>1. CASE pc = "write_reply_v4"
    BY <1>1, <2>1 DEF StageInv
  <2>2. CASE pc = "write_reply" /\ out' = Append(out, message)
    <3>1. out # <<>>
      BY <1>1, <2>2, ToldSomething DEF StageInv
    <3>2. Len(out') = Len(out) + 1 /\ Len(out) \in Nat
      BY <1>1, <2>2, AppendOut
    <3>3. Len(out') # 0
      BY <3>2
    <3>4. out' # <<>>
      BY <3>3
    <3> QED
      BY <3>1, <3>4
  <2> QED
    BY <1>1, <1>3, <2>1, <2>2
<1>5. Understood'
  BY <1>1, <1>3, <1>4, UnderstoodKept
<1> QED
  BY <1>3, <1>5 DEF HeardInv

\* The client's next message does not reach into the one after.
LEMMA HeardClient ==
    ASSUME OneMessagePerTurn, ServerInv, HeardInv, ClientSends
    PROVE  HeardInv'
<1> DEFINE m == Head(script)
<1>1. /\ script # <<>> /\ pc \in Reading /\ n = 0 /\ pos = Len(down)
      /\ down' = down \o m /\ script' = Tail(script)
      /\ UNCHANGED <<pos, n, pc, choice>>
  BY DEF ClientSends, PeerSends
<1>2. /\ TypeOK /\ StageInv /\ StreamTypeOK /\ script \in Seq(Seq(Byte))
      /\ down \in Seq(Byte) /\ Len(down) \in Nat
  BY DEF ServerInv, TypeOK, StreamTypeOK
<1>3. m \in Seq(Byte) /\ m = script[1]
  <2> DEFINE S == Seq(Byte)
  <2> HIDE DEF S
  <2>1. script \in Seq(S)
    BY <1>2 DEF S
  <2>2. Head(script) \in S /\ Head(script) = script[1]
    BY <1>1, <2>1
  <2> QED
    BY <2>2 DEF S
<1> HIDE DEF m
<1>4. /\ down' \in Seq(Byte) /\ Len(down') = Len(down) + Len(m)
      /\ \A i \in 1..Len(down) : down'[i] = down[i]
      /\ Len(m) \in Nat
  BY <1>1, <1>2, <1>3, ConcatProperties
<1>5. ASSUME NEW c \in Clients, c # <<>>, down = c[1]
      PROVE  /\ Len(down) >= 1 /\ Len(c) \in Nat /\ Len(c) >= 1
             /\ DOMAIN c = 1..Len(c)
  <2> DEFINE S == Seq(Byte)
  <2>1. c \in Seq(S)
    BY ServerAssumption
  <2> HIDE DEF S
  <2>2. Len(c) \in Nat /\ Len(c) >= 1 /\ DOMAIN c = 1..Len(c)
    BY <1>5, <2>1, EmptySeq, LenProperties
  <2>3. 1 \in DOMAIN c
    BY <2>2
  <2>4. down # <<>>
    BY <1>5, <2>3, Zenon DEF OneMessagePerTurn
  <2>5. Len(down) >= 1
    BY <1>2, <2>4
  <2> QED
    BY <2>2, <2>5
<1>6. CASE pc = "read_greeting"
  <2>1. Len(down) = 0
    BY <1>1, <1>2, <1>6 DEF StageInv
  <2>2. ~FirstSaid
    <3> SUFFICES ASSUME FirstSaid PROVE FALSE
      OBVIOUS
    <3>1. PICK c \in Clients : c # <<>> /\ down = c[1]
      BY DEF FirstSaid
    <3>2. Len(down) >= 1
      BY <1>5, <3>1
    <3> QED
      BY <2>1, <3>2
  <2>3. down = <<>> /\ script \in Clients
    BY <1>6, <2>2 DEF HeardInv
  <2>4. down' = m
    BY <1>1, <1>3, <2>3
  <2>5. FirstSaid'
    BY <1>1, <1>3, <2>3, <2>4, Zenon DEF FirstSaid
  <2> QED
    BY <1>1, <1>6, <2>5 DEF HeardInv
<1>7. CASE pc = "read_userpass"
  <2>1. /\ Greeted /\ choice = 2 /\ Len(down) = GreetingEnd
        /\ GreetingEnd \in Nat
    BY <1>1, <1>2, <1>7, GreetingRead DEF StageInv
  <2>2. PICK c \in Clients : c # <<>> /\ down = c[1] /\ script = Tail(c)
    BY <1>7, <2>1 DEF HeardInv, FirstSaid
  <2>3. Len(c) \in Nat /\ Len(c) >= 1 /\ DOMAIN c = 1..Len(c)
    BY <1>5, <2>2
  <2>4. Len(c) >= 2 /\ m = c[2]
    <3> DEFINE S == Seq(Byte)
    <3>1. c \in Seq(S)
      BY ServerAssumption
    <3> HIDE DEF S
    <3>2. /\ script \in Seq(S) /\ Len(script) = Len(c) - 1
          /\ \A i \in 1..Len(script) : script[i] = c[i + 1]
      BY <2>2, <3>1
    <3>3. Len(script) >= 1
      BY <1>1, <3>2
    <3>4. script[1] = c[2]
      BY <3>2, <3>3
    <3> QED
      BY <1>3, <2>3, <3>2, <3>3, <3>4
  <2>5. c[2] # <<>>
    <3>1. 2 \in DOMAIN c
      BY <2>3, <2>4
    <3> QED
      BY <3>1, Zenon DEF OneMessagePerTurn
  <2>6. Len(c[2]) <= 513
    <3>1. \E i \in 3..Len(c[1]) : c[1][i] = 2
      BY <2>1, <2>2 DEF Greeted
    <3>2. c[1][1] = 5 /\ Len(c[1]) >= 2
      BY <2>1, <2>2 DEF Greeted
    <3> QED
      BY <2>2, <2>4, <3>1, <3>2, Zenon DEF OneMessagePerTurn
  <2>7. Len(m) >= 1 /\ Len(m) <= 513
    <3>1. m # <<>> /\ Len(m) <= 513
      BY <2>4, <2>5, <2>6, Zenon
    <3> QED
      BY <1>3, <3>1
  <2>8. GreetingEnd' = GreetingEnd
    <3>1. /\ pos' \in Nat /\ pos' >= pos
          /\ Len(down') \in Nat /\ Len(down') >= Len(down)
      BY <1>1, <1>2, <1>4, StreamNumbers
    <3> QED
      BY <1>1, <1>2, <1>4, <2>1, <3>1, GreetedGrows
  <2>9. Len(down') <= GreetingEnd' + 513 /\ Len(down') # GreetingEnd'
    BY <1>4, <2>1, <2>7, <2>8
  <2> QED
    BY <1>1, <1>7, <2>9 DEF HeardInv
<1>8. CASE pc = "read_request"
  BY <1>1, <1>8 DEF HeardInv
<1> QED
  BY <1>1, <1>6, <1>7, <1>8 DEF Reading

\* A client that leaves, or no step at all.
LEMMA HeardOutside ==
    ASSUME HeardInv, ClientLeaves \/ UNCHANGED vars
    PROVE  HeardInv'
<1>1. UNCHANGED <<down, pos, stream_ec, script, pc, choice, target, out>>
  BY DEF ClientLeaves, LinkBecomes, vars, stream_vars, svars
<1>2. GreetingEnd' = GreetingEnd /\ Replies' = Replies
  BY <1>1, Zenon DEF GreetingEnd, Replies
<1>3. FirstSaid => FirstSaid'
  BY <1>1, FirstSaidKept
<1>4. Understood => Understood'
  BY <1>1, UnderstoodKept
<1>5. failed(stream_ec) => failed(stream_ec)'
  BY <1>1, Zenon DEF failed
<1> QED
  BY <1>1, <1>2, <1>3, <1>4, <1>5 DEF HeardInv

\* Every step keeps what was heard.
LEMMA NextHeardInv ==
    ASSUME OneMessagePerTurn
    PROVE  ServerInv /\ ServerInv' /\ HeardInv /\ [Next]_vars => HeardInv'
<1> SUFFICES ASSUME ServerInv, ServerInv', HeardInv, [Next]_vars
             PROVE  HeardInv'
  OBVIOUS
<1>1. CASE KeepReading
  BY <1>1, HeardKeepReading
<1>2. CASE ReadGreeting
  BY <1>2, HeardGreeting
<1>3. CASE ReadUserpass
  BY <1>3, HeardUserpass
<1>4. CASE ReadRequest
  BY <1>4, HeardRequest
<1>5. CASE ResolveFails \/ ResolveSucceeds
           \/ do_target_connect \/ do_target_connect_v4
  BY <1>5, HeardTarget
<1>6. CASE WriteChoice
  BY <1>6, HeardChoice
<1>7. CASE WriteStatus
  BY <1>7, HeardStatus
<1>8. CASE WriteReply \/ WriteReplyV4
  BY <1>8, HeardReply
<1>9. CASE ClientSends
  BY <1>9, HeardClient
<1>10. CASE ClientLeaves \/ UNCHANGED vars
  BY <1>10, HeardOutside
<1> QED
  BY <1>1, <1>2, <1>3, <1>4, <1>5, <1>6, <1>7, <1>8, <1>9, <1>10
     DEF Next, Connection

\* Of clients who send one message a turn, and only of a connection that was
\* not lost before it was read: a request that the server can serve is taken
\* for what the client meant, however it is segmented and whatever was read
\* before it, but for a SOCKS4 request cut behind its first byte (start,
\* do_read_connect_request, parse_socks_connect, parse_socks_connect_v4).
THEOREM RequestTaken ==
    ASSUME OneMessagePerTurn
    PROVE  Spec => []RequestUnderstoodUnlessSplit
<1>1. Init => HeardInv
  BY Zenon DEF Init, StreamInit, HeardInv
<1>2. ServerInv /\ ServerInv' /\ HeardInv /\ [Next]_vars => HeardInv'
  BY NextHeardInv
<1>3. ServerInv /\ HeardInv => RequestUnderstoodUnlessSplit
  <2> SUFFICES ASSUME ServerInv, HeardInv,
                      pc \notin Reading \cup {"write_choice", "write_status"},
                      ~failed(stream_ec) \/ Replies # {}
               PROVE  Understood
    BY Zenon DEF RequestUnderstoodUnlessSplit, RequestUnderstood, Understood
  <2>1. pc \in {"resolve", "connect", "connect_v4", "write_reply",
                "write_reply_v4", "relay", "ended"}
    BY DEF ServerInv, TypeOK, Writing
  <2> QED
    BY <2>1 DEF HeardInv
<1> QED
  BY <1>1, <1>2, <1>3, ServerInvariance, PTL DEF Spec
=============================================================================
