----------------------------- MODULE WireProofs -----------------------------
(***************************************************************************)
(* Lemmas that the proofs of the other modules share: error codes, ports,  *)
(* the messages as one side builds them and the other parses them, and the *)
(* stream with the loop of asio::read on it.                               *)
(***************************************************************************)
EXTENDS TcpStream, ServerWire, SequenceTheorems, TLAPS

(***************************************************************************)
(* Error codes and ports.                                                  *)
(***************************************************************************)
\* Every transport error is a failure of another category than socks, and
\* error_code{} is no failure (error.ipp: failed).
LEMMA ErrorFacts ==
    /\ ~failed(no_error)
    /\ \A e \in transport_error : failed(e) /\ e.cat # "socks"
    /\ no_error \notin transport_error
    /\ {no_error} \cup transport_error \subseteq error_code
    /\ \A v \in error : socks(v) \in error_code /\ socks(v).cat = "socks"
                          /\ socks(v).val = v /\ socks(v) # eof
BY DEF failed, no_error, transport_error, eof, broken_pipe,
       connection_reset, operation_aborted, bad_descriptor, error_code, socks

\* The code of a reply byte is an error value, and it is a success only for
\* the byte 0 (reply_code.ipp: to_reply_code).
LEMMA ReplyCodeFacts ==
    ASSUME NEW v \in Byte
    PROVE  /\ to_reply_code(v) \in error
           /\ condition(to_reply_code(v)) = "succeeded" <=> v = 0
           /\ failed(socks(to_reply_code(v))) <=> v # 0
BY DEF to_reply_code, reply_code, unassigned, error, reply_code_v4,
       unassigned_reply_code, condition, request_granted, failed, socks, Byte

\* The numeral is kept out of the steps that need only its type.
LEMMA PortBound == max_port \in Int /\ max_port >= 0
BY SMT DEF max_port

\* A port is two bytes, and two bytes are a port.
LEMMA PortBytes ==
    /\ \A p \in Port : port_bytes(p) \in Seq(Byte)
    /\ \A hi, lo \in Byte : to_port(hi, lo) \in Port
<1>1. ASSUME NEW p \in Port
      PROVE  p \div 256 \in Byte /\ p % 256 \in Byte
  <2>1. p \in Int /\ p >= 0 /\ p <= max_port
    BY PortBound, SMT DEF Port
  <2>2. p \div 256 \in Int /\ p \div 256 >= 0
    BY <2>1, SMT
  <2>3. p \div 256 <= 255
    BY <2>1, SMT DEF max_port
  <2>4. p % 256 \in 0..255
    BY <2>1, SMT
  <2> QED
    BY <2>2, <2>3, <2>4, SMT DEF Byte
<1>2. ASSUME NEW hi \in Byte, NEW lo \in Byte
      PROVE  to_port(hi, lo) \in Port
  <2>1. /\ hi \in Int /\ hi >= 0 /\ hi <= 255
        /\ lo \in Int /\ lo >= 0 /\ lo <= 255
    BY SMT DEF Byte
  <2>2. to_port(hi, lo) \in Int /\ to_port(hi, lo) >= 0
    BY <2>1, SMT DEF to_port
  <2>3. to_port(hi, lo) <= max_port
    BY <2>1, SMT DEF to_port, max_port
  <2> QED
    BY <2>2, <2>3, PortBound, SMT DEF Port
<1> QED
  BY <1>1, <1>2 DEF port_bytes

\* The error values the client produces itself are error codes that fail.
LEMMA ClientErrors ==
    \A v \in 160..166 : v \in error /\ failed(socks(v))
BY DEF error, failed, socks, request_granted

\* The endpoint returned on failure is an IPv4 endpoint.
LEMMA NoEndpointType ==
    no_endpoint \in [kind : {"v4"}, addr : Seq(Byte), port : Port]
<1>1. 0 \in Port
  BY PortBound, SMT DEF Port
<1>2. <<0, 0, 0, 0>> \in Seq(Byte)
  BY SMT DEF Byte
<1> QED
  BY <1>1, <1>2 DEF no_endpoint

(***************************************************************************)
(* Bytes and sequences of them.                                            *)
(***************************************************************************)
\* Three parts, put together from the left or from the right.
Associates(s, t, u) == (s \o t) \o u = s \o (t \o u)

\* It does not matter in which order a message is put together.
LEMMA Associative ==
    ASSUME NEW s \in Seq(Byte), NEW t \in Seq(Byte), NEW u \in Seq(Byte)
    PROVE  Associates(s, t, u)
BY ConcatAssociative DEF Associates

\* A first part put before three others, or joined with them from the left.
Regrouped(s, t, u, w) == s \o (t \o u \o w) = s \o t \o u \o w

\* Four parts may be put together either way.
LEMMA AssociativeFour ==
    ASSUME NEW s \in Seq(Byte), NEW t \in Seq(Byte), NEW u \in Seq(Byte),
           NEW w \in Seq(Byte)
    PROVE  Regrouped(s, t, u, w)
<1>1. PICK q \in Seq(Byte) : q = t \o u
  BY ConcatProperties
<1>2. Associates(s, q, w) /\ Associates(s, t, u)
  BY Associative, Zenon
<1> QED
  BY <1>1, <1>2, Zenon DEF Regrouped, Associates

\* A message of two parts: where the bytes of each are.
LEMMA TwoParts ==
    ASSUME NEW s \in Seq(Byte), NEW t \in Seq(Byte)
    PROVE  /\ s \o t \in Seq(Byte) /\ Len(s \o t) = Len(s) + Len(t)
           /\ Len(s) \in Nat /\ Len(t) \in Nat
           /\ \A i \in 1..Len(s) : (s \o t)[i] = s[i]
           /\ \A i \in 1..Len(t) : (s \o t)[Len(s) + i] = t[i]
<1>1. Len(s) \in Nat /\ Len(t) \in Nat
  BY LenProperties
<1>2. s \o t \in Seq(Byte) /\ Len(s \o t) = Len(s) + Len(t)
  BY ConcatProperties
<1>3. \A i \in 1..Len(s) : (s \o t)[i] = s[i]
  OBVIOUS
<1>4. \A i \in 1..Len(t) : (s \o t)[Len(s) + i] = t[i]
  OBVIOUS
<1> QED
  BY <1>1, <1>2, <1>3, <1>4

\* The part of a sequence from behind place k to place k + n.
LEMMA Cut ==
    ASSUME NEW m \in Seq(Byte), NEW a \in Seq(Byte), NEW k \in Nat,
           k + Len(a) <= Len(m), \A i \in 1..Len(a) : m[k + i] = a[i]
    PROVE  SubSeq(m, k + 1, k + Len(a)) = a
<1> DEFINE z == Len(a)
           b == k + 1
           e == k + z
           u == SubSeq(m, b, e)
<1>1. z \in Nat /\ Len(m) \in Nat
  BY LenProperties
<1> HIDE DEF z
<1>2. b \in Int /\ e \in Int /\ (IF b <= e THEN e - b + 1 ELSE 0) = z
      /\ e - b + 1 = z
  BY <1>1
<1>3. \A i \in b..e : m[i] \in Byte
  <2>1. \A i \in b..e : i \in 1..Len(m)
    BY <1>1 DEF z
  <2> QED
    BY <2>1, ElementOfSeq
<1>4. \A i \in 1..z : b + i - 1 = k + i
  BY <1>1
<1> HIDE DEF b, e
<1>5. /\ u \in Seq(Byte) /\ Len(u) = IF b <= e THEN e - b + 1 ELSE 0
      /\ \A i \in 1..(e - b + 1) : u[i] = m[b + i - 1]
  BY <1>2, <1>3, SubSeqProperties
<1> HIDE DEF u
<1>6. Len(u) = z /\ \A i \in 1..z : u[i] = m[k + i]
  BY <1>2, <1>4, <1>5
<1>7. \A i \in 1..Len(u) : u[i] = a[i]
  BY <1>6 DEF z
<1>8. u = a
  BY <1>5, <1>6, <1>7, SeqEqual DEF z
<1> QED
  BY <1>8 DEF u, b, e, z

\* The bytes m hold h, then a, then t.
FramedBytes(m, h, a, t) ==
    /\ m \in Seq(Byte) /\ Len(m) = Len(h) + Len(a) + Len(t)
    /\ Len(h) \in Nat /\ Len(a) \in Nat /\ Len(t) \in Nat
    /\ \A i \in 1..Len(h) : m[i] = h[i]
    /\ \A i \in 1..Len(t) : m[Len(h) + Len(a) + i] = t[i]
    /\ SubSeq(m, Len(h) + 1, Len(h) + Len(a)) = a

\* A message of three parts: where the bytes of each are.
LEMMA Framed ==
    ASSUME NEW h \in Seq(Byte), NEW a \in Seq(Byte), NEW t \in Seq(Byte)
    PROVE  FramedBytes(h \o a \o t, h, a, t)
<1> DEFINE p == h \o a
           m == p \o t
<1>1. /\ Len(h) \in Nat /\ Len(a) \in Nat
      /\ p \in Seq(Byte) /\ Len(p) = Len(h) + Len(a)
      /\ \A i \in 1..Len(h) : p[i] = h[i]
      /\ \A i \in 1..Len(a) : p[Len(h) + i] = a[i]
  BY TwoParts
<1> HIDE DEF p
<1>2. /\ Len(t) \in Nat
      /\ m \in Seq(Byte) /\ Len(m) = Len(p) + Len(t)
      /\ \A i \in 1..Len(p) : m[i] = p[i]
      /\ \A i \in 1..Len(t) : m[Len(p) + i] = t[i]
  BY <1>1, TwoParts
<1> HIDE DEF m
<1>3. \A i \in 1..Len(h) : m[i] = h[i]
  BY <1>1, <1>2
<1>4. \A i \in 1..Len(t) : m[Len(h) + Len(a) + i] = t[i]
  BY <1>1, <1>2
<1>5. \A i \in 1..Len(a) : m[Len(h) + i] = a[i]
  <2> SUFFICES ASSUME NEW i \in 1..Len(a)
               PROVE  m[Len(h) + i] = a[i]
    OBVIOUS
  <2>1. Len(h) + i \in 1..Len(p)
    BY <1>1
  <2> QED
    BY <1>1, <1>2, <2>1
<1>6. Len(h) + Len(a) <= Len(m)
  BY <1>1, <1>2
<1>7. SubSeq(m, Len(h) + 1, Len(h) + Len(a)) = a
  BY <1>1, <1>2, <1>5, <1>6, Cut
<1>8. Len(m) = Len(h) + Len(a) + Len(t)
  BY <1>1, <1>2
<1>9. FramedBytes(m, h, a, t)
  BY <1>1, <1>2, <1>3, <1>4, <1>7, <1>8, Zenon DEF FramedBytes
<1> QED
  BY <1>9, Zenon DEF m, p

\* A port goes through its two bytes and back.
LEMMA PortRoundTrip ==
    ASSUME NEW p \in Port
    PROVE  /\ port_bytes(p) \in Seq(Byte) /\ Len(port_bytes(p)) = 2
           /\ to_port(port_bytes(p)[1], port_bytes(p)[2]) = p
<1>1. p \in Nat /\ p <= 65535
  <2>1. \A z \in Nat : \A q \in 0..z : q \in Nat /\ q <= z
    OBVIOUS
  <2>2. max_port \in Nat
    BY DEF max_port
  <2>3. p \in Nat /\ p <= max_port
    BY <2>1, <2>2, Zenon DEF Port
  <2> QED
    BY <2>3 DEF max_port
<1>2. /\ p \div 256 \in Nat /\ p % 256 \in 0..255
      /\ p = (p \div 256) * 256 + (p % 256)
  BY <1>1
<1>3. p \div 256 \in 0..255
  BY <1>1, <1>2
<1>4. /\ port_bytes(p) \in Seq(Byte) /\ Len(port_bytes(p)) = 2
      /\ port_bytes(p)[1] = p \div 256 /\ port_bytes(p)[2] = p % 256
  BY <1>2, <1>3 DEF port_bytes, Byte
<1> QED
  BY <1>2, <1>4 DEF to_port

\* A length of at most 255 survives the conversion to a byte.
LEMMA ByteOfLength ==
    ASSUME NEW z \in Nat, z <= 255
    PROVE  byte(z) = z /\ z \in Byte
BY DEF byte, Byte

\* Bytes are numbers.
LEMMA BytesAreNumbers == \A b \in Byte : b \in Nat /\ b <= 255
BY DEF Byte

\* The constants of the messages are bytes.
LEMMA SmallBytes ==
    0 \in Byte /\ 1 \in Byte /\ 2 \in Byte /\ 3 \in Byte /\ 4 \in Byte /\ 5 \in Byte
BY DEF Byte

(***************************************************************************)
(* Negotiation.                                                            *)
(***************************************************************************)
\* The server reads the offer out of the greeting: it picks userpass if the
\* client has credentials, and no authentication otherwise.
LEMMA GreetingParsed ==
    ASSUME NEW o \in Credentials
    PROVE  /\ Len(prepare_greeting(o)) <= 4
           /\ parse_socks_greeting(prepare_greeting(o))
                = IF o.is_userpass THEN 2 ELSE 0
<1> DEFINE m == prepare_greeting(o)
<1>1. o.is_userpass \in BOOLEAN
  BY DEF Credentials
<1>2. CASE o.is_userpass
  <2>1. m = <<5, 2>> \o <<0, 2>>
    BY <1>2 DEF prepare_greeting, prepare_methods, code, byte, socks_5,
                auth_userpass, no_authentication
  <2>2. /\ Len(m) = 4
        /\ m[1] = 5 /\ m[2] = 2 /\ m[3] = 0 /\ m[4] = 2
    BY <2>1
  <2> HIDE DEF m
  <2>3. 2 \in {m[i] : i \in 3..Len(m)}
    BY <2>2
  <2>4. parse_socks_greeting(m) = 2
    BY <2>2, <2>3 DEF parse_socks_greeting
  <2> QED
    BY <1>2, <2>2, <2>4 DEF m
<1>3. CASE ~o.is_userpass
  <2>1. m = <<5, 1>> \o <<0>>
    BY <1>3 DEF prepare_greeting, prepare_methods, code, byte, socks_5,
                auth_userpass, no_authentication
  <2>2. Len(m) = 3 /\ m[1] = 5 /\ m[2] = 1 /\ m[3] = 0
    BY <2>1
  <2> HIDE DEF m
  <2>3. {m[i] : i \in 3..Len(m)} = {0}
    BY <2>2
  <2>4. parse_socks_greeting(m) = 0
    BY <2>2, <2>3 DEF parse_socks_greeting
  <2> QED
    BY <1>3, <2>2, <2>4 DEF m
<1> QED
  BY <1>1, <1>2, <1>3

\* The client accepts the choice that its offer leads to.
LEMMA ChoiceAccepted ==
    ASSUME NEW o \in Credentials, NEW c, c = IF o.is_userpass THEN 2 ELSE 0
    PROVE  validate_server_choice(<<5, c>>, o, no_error) = no_error
<1>1. Len(<<5, c>>) = 2 /\ <<5, c>>[1] = 5 /\ <<5, c>>[2] = c
  OBVIOUS
<1>2. c = code(o)
  BY DEF code, auth_userpass, no_authentication
<1> QED
  BY <1>1, <1>2 DEF validate_server_choice

\* The layout of the message m with the credentials u, of length z, and p.
UserpassBytes(m, u, z, p) ==
    /\ m \in Seq(Byte) /\ Len(m) = 3 + z + Len(p) /\ Len(p) \in Nat
    /\ m[1] = 1 /\ m[2] = z /\ m[3 + z] = z
    /\ SubSeq(m, 3, 2 + z) = u

\* A message that is put together from these parts has this layout.
LEMMA UserpassLayout ==
    ASSUME NEW u \in Seq(Byte), NEW p \in Seq(Byte), NEW z \in Nat,
           z = Len(u), z <= 255
    PROVE  UserpassBytes(<<1, z>> \o u \o <<z>> \o p, u, z, p)
<1> DEFINE h == <<1, z>>
           l == <<z>>
           q == h \o u \o l
           m == q \o p
<1>1. /\ h \in Seq(Byte) /\ Len(h) = 2 /\ h[1] = 1 /\ h[2] = z
      /\ l \in Seq(Byte) /\ Len(l) = 1 /\ l[1] = z
  <2>1. 1 \in Byte /\ z \in Byte
    BY SmallBytes, ByteOfLength, Zenon
  <2> QED
    BY <2>1
<1> HIDE DEF h, l
<1>3. /\ q \in Seq(Byte)
      /\ Len(q) = Len(h) + Len(u) + Len(l)
      /\ Len(h) \in Nat /\ Len(u) \in Nat /\ Len(l) \in Nat
      /\ \A i \in 1..Len(h) : q[i] = h[i]
      /\ \A i \in 1..Len(l) : q[Len(h) + Len(u) + i] = l[i]
      /\ SubSeq(q, Len(h) + 1, Len(h) + Len(u)) = u
  <2>1. h \in Seq(Byte) /\ l \in Seq(Byte)
    BY <1>1, Zenon
  <2>2. FramedBytes(q, h, u, l)
    BY <2>1, Framed, Zenon
  <2> QED
    BY <2>2, Zenon DEF FramedBytes
<1> HIDE DEF q
<1>4. /\ Len(q) = 3 + z /\ q[1] = 1 /\ q[2] = z /\ q[3 + z] = z
  <2>1. Len(q) = 2 + z + 1 /\ 2 + z + 1 = 3 + z
    BY <1>1, <1>3
  <2>2. q[2 + z + 1] = z
    BY <1>1, <1>3
  <2> QED
    BY <1>1, <1>3, <2>1, <2>2
<1>5. \A i \in 1..z : q[2 + i] = u[i]
  <2>1. SubSeq(q, 3, 2 + z) = u
    BY <1>1, <1>3
  <2>2. \A i \in 1..z : SubSeq(q, 3, 2 + z)[i] = q[3 + i - 1]
    BY <1>3, <1>4
  <2>3. \A i \in 1..z : 3 + i - 1 = 2 + i
    OBVIOUS
  <2> QED
    BY <2>1, <2>2, <2>3
<1>6. /\ m \in Seq(Byte) /\ Len(m) = Len(q) + Len(p) /\ Len(p) \in Nat
      /\ \A i \in 1..Len(q) : m[i] = q[i]
  BY <1>3, TwoParts, Zenon
<1> HIDE DEF m
<1>7. Len(m) = 3 + z + Len(p) /\ m[1] = 1 /\ m[2] = z /\ m[3 + z] = z
  <2>1. 1 \in 1..Len(q) /\ 2 \in 1..Len(q) /\ 3 + z \in 1..Len(q)
    BY <1>4
  <2>2. m[1] = q[1] /\ m[2] = q[2] /\ m[3 + z] = q[3 + z]
    BY <1>6, <2>1, Zenon
  <2> QED
    BY <1>4, <1>6, <2>2, Zenon
<1>8. SubSeq(m, 3, 2 + z) = u
  <2>1. \A i \in 1..Len(u) : m[2 + i] = u[i]
    BY <1>4, <1>5, <1>6
  <2>2. 2 + Len(u) <= Len(m)
    BY <1>7, <1>6
  <2>3. SubSeq(m, 2 + 1, 2 + Len(u)) = u
    BY <1>6, <2>1, <2>2, Cut
  <2> QED
    BY <2>3
<1> QED
  BY <1>6, <1>7, <1>8, Zenon DEF UserpassBytes, m, q, h, l

\* The message with the credentials: it fits into the buffer, and where the
\* password is at least as long as the user name, whose length is written
\* for its own, the server finds the message complete and the user in it.
LEMMA UserpassParsed ==
    ASSUME NEW o \in Credentials
    PROVE  /\ Len(prepare_userpass_request(o)) <= 513
           /\ Len(o.user) <= Len(o.pass) =>
                /\ parse_userpass_greeting(prepare_userpass_request(o)).ok
                /\ parse_userpass_greeting(prepare_userpass_request(o)).user
                     = o.user
<1>1. PICK u \in Seq(Byte), p \in Seq(Byte) :
        u = o.user /\ p = o.pass /\ Len(u) <= 255 /\ Len(p) <= 255
  BY DEF Credentials
<1>2. PICK z \in Nat : z = Len(u)
  BY LenProperties
<1>3. byte(Len(o.user)) = z /\ z <= 255
  BY <1>1, <1>2, ByteOfLength
<1>4. PICK m : m = prepare_userpass_request(o)
  OBVIOUS
<1>5. m = <<1, z>> \o u \o <<z>> \o p /\ Len(p) <= 255
  BY <1>1, <1>3, <1>4 DEF prepare_userpass_request
<1>6. /\ m \in Seq(Byte) /\ Len(m) = 3 + z + Len(p) /\ Len(p) \in Nat
      /\ m[1] = 1 /\ m[2] = z /\ m[3 + z] = z
      /\ SubSeq(m, 3, 2 + z) = u
  <2>1. UserpassBytes(m, u, z, p)
    BY <1>2, <1>3, <1>5, UserpassLayout, Zenon
  <2> QED
    BY <2>1, Zenon DEF UserpassBytes
<1>7. Len(m) <= 513
  <2>1. z <= 255 /\ Len(p) <= 255
    BY <1>3, <1>5, Zenon
  <2>2. Len(m) = 3 + z + Len(p) /\ Len(p) \in Nat
    BY <1>6, Zenon
  <2> QED
    BY <2>1, <2>2
<1>8. ASSUME z <= Len(p)
      PROVE  /\ parse_userpass_greeting(m).ok
             /\ parse_userpass_greeting(m).user = u
  <2>1. ~ (\/ Len(m) < 2 \/ m[1] # 1
           \/ Len(m) < m[2] + 3 \/ Len(m) < m[2] + 3 + m[3 + m[2]])
    BY <1>6, <1>8
  <2>2. SubSeq(m, 3, 2 + m[2]) = u
    BY <1>6
  <2> QED
    BY <2>1, <2>2 DEF parse_userpass_greeting
<1> QED
  BY <1>1, <1>2, <1>4, <1>7, <1>8

(***************************************************************************)
(* Requests.                                                               *)
(***************************************************************************)
\* The layout of a SOCKS5 request m: behind the first three bytes the x of
\* the address type k, the y of the address a, and the port p.
RequestBytes(m, k, x, a, y, p) ==
    /\ m \in Seq(Byte) /\ Len(m) = 5 + x + y
    /\ m[1] = 5 /\ m[2] = 1 /\ m[3] = 0
    /\ \A i \in 1..x : m[3 + i] = k[i]
    /\ SubSeq(m, 4 + x, 3 + x + y) = a
    /\ m[4 + x + y] = p[1] /\ m[5 + x + y] = p[2]

\* A request that is put together from these parts has this layout.
LEMMA RequestLayout ==
    ASSUME NEW k \in Seq(Byte), NEW a \in Seq(Byte), NEW p \in Seq(Byte),
           Len(p) = 2
    PROVE  RequestBytes(<<5, 1, 0>> \o (k \o a \o p), k, Len(k), a, Len(a), p)
<1>0. PICK x \in Nat, y \in Nat : x = Len(k) /\ y = Len(a)
  BY LenProperties
<1> DEFINE v == <<5, 1, 0>>
           h == v \o k
           m == h \o a \o p
<1>1. v \in Seq(Byte) /\ Len(v) = 3 /\ v[1] = 5 /\ v[2] = 1 /\ v[3] = 0
  BY SmallBytes
<1> HIDE DEF v
<1>2. /\ h \in Seq(Byte) /\ Len(h) = Len(v) + Len(k)
      /\ \A i \in 1..Len(v) : h[i] = v[i]
      /\ \A i \in 1..Len(k) : h[Len(v) + i] = k[i]
  BY <1>1, TwoParts, Zenon
<1>3. v \o (k \o a \o p) = m
  <2>1. v \in Seq(Byte)
    BY <1>1, Zenon
  <2>2. Regrouped(v, k, a, p)
    BY <2>1, AssociativeFour, Zenon
  <2> QED
    BY <2>2, Zenon DEF Regrouped, m, h
<1> HIDE DEF h
<1>4. /\ m \in Seq(Byte) /\ Len(m) = Len(h) + Len(a) + Len(p)
      /\ \A i \in 1..Len(h) : m[i] = h[i]
      /\ \A i \in 1..Len(p) : m[Len(h) + Len(a) + i] = p[i]
      /\ SubSeq(m, Len(h) + 1, Len(h) + Len(a)) = a
  <2>1. h \in Seq(Byte)
    BY <1>2, Zenon
  <2>2. FramedBytes(m, h, a, p)
    BY <2>1, Framed, Zenon
  <2> QED
    BY <2>2, Zenon DEF FramedBytes
<1> HIDE DEF m
<1>5. Len(h) = 3 + x /\ Len(m) = 5 + x + y
  BY <1>0, <1>1, <1>2, <1>4
<1>6. h[1] = 5 /\ h[2] = 1 /\ h[3] = 0 /\ \A i \in 1..x : h[3 + i] = k[i]
  BY <1>0, <1>1, <1>2
<1>7. /\ m[1] = 5 /\ m[2] = 1 /\ m[3] = 0
      /\ \A i \in 1..x : m[3 + i] = k[i]
  BY <1>4, <1>5, <1>6
<1>8. SubSeq(m, 4 + x, 3 + x + y) = a
  <2>1. (3 + x) + 1 = 4 + x
    OBVIOUS
  <2> QED
    BY <1>0, <1>4, <1>5, <2>1
<1>9. m[4 + x + y] = p[1] /\ m[5 + x + y] = p[2]
  <2>1. (3 + x) + y + 1 = 4 + x + y /\ (3 + x) + y + 2 = 5 + x + y
    OBVIOUS
  <2>2. m[(3 + x) + y + 1] = p[1] /\ m[(3 + x) + y + 2] = p[2]
    BY <1>0, <1>4, <1>5
  <2> QED
    BY <2>1, <2>2
<1>10. <<5, 1, 0>> \o (k \o a \o p) = m
  BY <1>3, Zenon DEF v
<1>11. RequestBytes(m, k, x, a, y, p)
  BY <1>4, <1>5, <1>7, <1>8, <1>9, Zenon DEF RequestBytes
<1> QED
  BY <1>0, <1>10, <1>11, Zenon

\* The parts of a target.
LEMMA TargetParts ==
    ASSUME NEW t \in Target
    PROVE  /\ t = [kind |-> t.kind, addr |-> t.addr, port |-> t.port]
           /\ t.kind \in {"v4", "v6", "domain"}
           /\ t.addr \in Seq(Byte) /\ t.port \in Port
           /\ t.kind = "v4" => Len(t.addr) = 4
           /\ t.kind = "v6" => Len(t.addr) = 16
           /\ t.kind = "domain" => Len(t.addr) <= 255
<1>1. CASE t \in Endpoint
  BY <1>1 DEF Endpoint
<1>2. CASE t \notin Endpoint
  BY <1>2 DEF Target
<1> QED
  BY <1>1, <1>2

\* The server takes the target out of a SOCKS5 request, whatever its kind.
LEMMA RequestParsed ==
    ASSUME NEW t \in Target
    PROVE  /\ Len(prepare_request(t)) <= 513
           /\ parse_socks_connect(prepare_request(t))
                = [rep |-> 0, target |-> t]
<1>1. PICK a \in Seq(Byte), p \in Seq(Byte), y \in Nat :
        /\ a = t.addr /\ p = port_bytes(t.port) /\ y = Len(a)
        /\ Len(p) = 2 /\ to_port(p[1], p[2]) = t.port
  BY TargetParts, PortRoundTrip, LenProperties
<1>2. t = [kind |-> t.kind, addr |-> a, port |-> to_port(p[1], p[2])]
  BY <1>1, TargetParts
<1>3. PICK m : m = prepare_request(t)
  OBVIOUS
<1> DEFINE got(kd) == [rep |-> 0,
                       target |-> [kind |-> kd, addr |-> a,
                                   port |-> to_port(p[1], p[2])]]
<1>4. CASE t.kind = "v4"
  <2> DEFINE k == <<1>>
  <2>1. k \in Seq(Byte) /\ Len(k) = 1 /\ k[1] = 1
    BY SmallBytes
  <2>2. y = 4
    BY <1>1, <1>4, TargetParts
  <2>3. m = <<5, 1, 0>> \o (k \o a \o p)
    BY <1>1, <1>3, <1>4, <2>1
       DEF prepare_request, write_ver_cmd_rsv, write_target_host, socks_5,
           command_connect, ip_v4
  <2> HIDE DEF k
  <2>4. RequestBytes(m, k, 1, a, y, p)
    <3>1. y = Len(a) /\ Len(p) = 2
      BY <1>1
    <3> QED
      BY <2>1, <2>3, <3>1, RequestLayout, Zenon
  <2>5. /\ Len(m) = 10 /\ m[1] = 5 /\ m[2] = 1 /\ m[3] = 0 /\ m[4] = 1
        /\ SubSeq(m, 5, 8) = a /\ m[9] = p[1] /\ m[10] = p[2]
    BY <2>1, <2>2, <2>4 DEF RequestBytes
  <2>6. parse_socks_connect(m) = got("v4")
    <3>1. parse_socks_connect(m)
            = accept("v4", SubSeq(m, 5, 8), m[9], m[10])
      BY <2>5 DEF parse_socks_connect
    <3> QED
      BY <2>5, <3>1, Zenon DEF accept
  <2> QED
    BY <1>2, <1>3, <1>4, <2>5, <2>6
<1>5. CASE t.kind = "v6"
  <2> DEFINE k == <<4>>
  <2>1. k \in Seq(Byte) /\ Len(k) = 1 /\ k[1] = 4
    BY SmallBytes
  <2>2. y = 16
    BY <1>1, <1>5, TargetParts
  <2>3. m = <<5, 1, 0>> \o (k \o a \o p)
    BY <1>1, <1>3, <1>5, <2>1
       DEF prepare_request, write_ver_cmd_rsv, write_target_host, socks_5,
           command_connect, ip_v6
  <2> HIDE DEF k
  <2>4. RequestBytes(m, k, 1, a, y, p)
    <3>1. y = Len(a) /\ Len(p) = 2
      BY <1>1
    <3> QED
      BY <2>1, <2>3, <3>1, RequestLayout, Zenon
  <2>5. /\ Len(m) = 22 /\ m[1] = 5 /\ m[2] = 1 /\ m[3] = 0 /\ m[4] = 4
        /\ SubSeq(m, 5, 20) = a /\ m[21] = p[1] /\ m[22] = p[2]
    BY <2>1, <2>2, <2>4 DEF RequestBytes
  <2>6. parse_socks_connect(m) = got("v6")
    <3>1. parse_socks_connect(m)
            = accept("v6", SubSeq(m, 5, 20), m[21], m[22])
      BY <2>5 DEF parse_socks_connect
    <3> QED
      BY <2>5, <3>1, Zenon DEF accept
  <2> QED
    BY <1>2, <1>3, <1>5, <2>5, <2>6
<1>6. CASE t.kind = "domain"
  <2>1. y <= 255 /\ byte(Len(t.addr)) = y /\ y \in Byte
    BY <1>1, <1>6, TargetParts, ByteOfLength
  <2> DEFINE k == <<3, y>>
  <2>2. k \in Seq(Byte) /\ Len(k) = 2 /\ k[1] = 3 /\ k[2] = y
    BY <2>1, SmallBytes
  <2>3. m = <<5, 1, 0>> \o (k \o a \o p)
    BY <1>1, <1>3, <1>6, <2>1, <2>2
       DEF prepare_request, write_ver_cmd_rsv, write_target_host, socks_5,
           command_connect, domain_name
  <2> HIDE DEF k
  <2>4. RequestBytes(m, k, 2, a, y, p)
    <3>1. y = Len(a) /\ Len(p) = 2
      BY <1>1
    <3> QED
      BY <2>2, <2>3, <3>1, RequestLayout, Zenon
  <2>5. /\ Len(m) = 7 + y /\ m[1] = 5 /\ m[2] = 1 /\ m[3] = 0 /\ m[4] = 3
        /\ m[5] = y /\ SubSeq(m, 6, 5 + y) = a
        /\ m[6 + y] = p[1] /\ m[7 + y] = p[2]
    BY <2>2, <2>4 DEF RequestBytes
  <2>6. Len(m) - 1 = 6 + y /\ Len(m) > 4 /\ Len(m) <= 513
    BY <2>1, <2>5
  <2>7. parse_socks_connect(m) = got("domain")
    <3>1. parse_socks_connect(m)
            = accept("domain", SubSeq(m, 6, 5 + m[5]), m[Len(m) - 1],
                     m[Len(m)])
      BY <2>5, <2>6 DEF parse_socks_connect
    <3> QED
      BY <2>5, <2>6, <3>1, Zenon DEF accept
  <2> QED
    BY <1>2, <1>3, <1>6, <2>6, <2>7
<1> QED
  BY <1>4, <1>5, <1>6, TargetParts

\* The server takes the target out of a SOCKS4 request, whatever the user.
LEMMA RequestV4Parsed ==
    ASSUME NEW t \in Target, t.kind = "v4", NEW u \in Seq(Byte)
    PROVE  parse_socks_connect_v4(prepare_request_v4(t, u))
             = [rep |-> 0, target |-> t]
<1>1. PICK a \in Seq(Byte), p \in Seq(Byte) :
        /\ a = t.addr /\ p = port_bytes(t.port) /\ Len(a) = 4
        /\ Len(p) = 2 /\ to_port(p[1], p[2]) = t.port
  BY TargetParts, PortRoundTrip
<1>2. t = [kind |-> "v4", addr |-> a, port |-> to_port(p[1], p[2])]
  BY <1>1, TargetParts
<1> DEFINE v == <<4, 1>>
           l == <<0>>
           h == v \o p
           w == u \o l
           m == h \o a \o w
<1>3. v \in Seq(Byte) /\ Len(v) = 2 /\ v[1] = 4 /\ v[2] = 1 /\ l \in Seq(Byte)
  BY SmallBytes
<1>4. Len(a) = 4 /\ Len(p) = 2
  BY <1>1
<1> HIDE DEF v, l
<1>5. w \in Seq(Byte) /\ h \in Seq(Byte) /\ h \o a \in Seq(Byte)
  BY <1>3, TwoParts
<1>6. v \o p \o a \o u \o l = m
  <2> DEFINE q == h \o a
  <2> HIDE DEF q
  <2>1. q \in Seq(Byte)
    BY <1>5, Zenon DEF q
  <2>2. u \in Seq(Byte) /\ l \in Seq(Byte)
    BY <1>3, Zenon
  <2>3. Associates(q, u, l)
    BY <2>1, <2>2, Associative, Zenon
  <2> QED
    BY <2>3, Zenon DEF q, Associates
<1>7. prepare_request_v4(t, u) = m
  BY <1>1, <1>6, Zenon
     DEF prepare_request_v4, socks_4, command_connect, v, l
<1> HIDE DEF w
<1>8. /\ Len(h) = Len(v) + Len(p)
      /\ \A i \in 1..Len(v) : h[i] = v[i]
      /\ \A i \in 1..Len(p) : h[Len(v) + i] = p[i]
  BY <1>3, TwoParts, Zenon
<1> HIDE DEF h
<1>9. Len(h) = 4 /\ h[1] = 4 /\ h[2] = 1 /\ h[3] = p[1] /\ h[4] = p[2]
  BY <1>3, <1>4, <1>8
<1>10. /\ m \in Seq(Byte) /\ Len(m) = Len(h) + Len(a) + Len(w)
       /\ Len(w) \in Nat
       /\ \A i \in 1..Len(h) : m[i] = h[i]
       /\ SubSeq(m, Len(h) + 1, Len(h) + Len(a)) = a
  <2>1. FramedBytes(m, h, a, w)
    BY <1>5, Framed, Zenon
  <2> QED
    BY <2>1, Zenon DEF FramedBytes
<1> HIDE DEF m
<1>11. /\ Len(m) >= 8 /\ m[1] = 4 /\ m[2] = 1 /\ m[3] = p[1] /\ m[4] = p[2]
       /\ SubSeq(m, 5, 8) = a
  BY <1>4, <1>9, <1>10
<1>12. parse_socks_connect_v4(m) = accept("v4", SubSeq(m, 5, 8), m[3], m[4])
  <2>1. /\ Len(m) # 0 /\ ~(m[1] # 4 \/ Len(m) = 1)
        /\ ~(m[2] # 1 \/ Len(m) < 8)
    <3>1. Len(m) \in Nat
      BY <1>10, LenProperties
    <3> QED
      BY <1>11, <3>1
  <2> QED
    BY <2>1, Zenon DEF parse_socks_connect_v4
<1>13. parse_socks_connect_v4(m) = [rep |-> 0, target |-> t]
  BY <1>2, <1>11, <1>12, Zenon DEF accept
<1> QED
  BY <1>7, <1>13, Zenon

(***************************************************************************)
(* Replies.                                                                *)
(***************************************************************************)
\* The endpoint of a reply that grants nothing.
LEMMA NoEndpointFacts == no_endpoint \in Endpoint
<1>1. <<0, 0, 0, 0>> \in Seq(Byte) /\ Len(<<0, 0, 0, 0>>) = 4
  BY SmallBytes
<1>2. 0 \in Port
  BY DEF Port, max_port
<1> QED
  BY <1>1, <1>2 DEF no_endpoint, Endpoint

\* What the code of a reply means to the client.
LEMMA VerdictFacts ==
    ASSUME NEW v \in Byte
    PROVE  /\ failed(socks(to_reply_code(v))) <=> v # 0
           /\ condition(to_reply_code(v))
                = IF v = 0 THEN "succeeded" ELSE "reply_error"
           /\ v \in reply_code => to_reply_code(v) = v
           /\ socks(to_reply_code(v)).val = to_reply_code(v)
BY DEF to_reply_code, reply_code, reply_code_v4, unassigned,
       unassigned_reply_code, condition, request_granted, failed, socks, Byte

\* The same for SOCKS4.
LEMMA VerdictV4Facts ==
    ASSUME NEW v \in Byte
    PROVE  /\ failed(socks(to_reply_code_v4(v))) <=> v # 90
           /\ condition(to_reply_code_v4(v))
                = IF v = 90 THEN "succeeded" ELSE "reply_error"
           /\ v \in reply_code_v4 => to_reply_code_v4(v) = v
           /\ socks(to_reply_code_v4(v)).val = to_reply_code_v4(v)
BY DEF to_reply_code_v4, reply_code, reply_code_v4, unassigned,
       unassigned_reply_code, condition, request_granted, failed, socks, Byte

\* The client takes the verdict and, if it is a grant, the bound address out
\* of a SOCKS5 reply.
LEMMA ReplyParsed ==
    ASSUME NEW v \in Byte, NEW b \in Endpoint
    PROVE  parse_reply_v5(connect_reply(v, b))
             = [ec |-> socks(to_reply_code(v)),
                ep |-> IF v = 0 THEN b ELSE no_endpoint]
<1> DEFINE e == IF v # 0 THEN no_endpoint ELSE b
           c == IF e.kind = "v4" THEN 1 ELSE 4
           h == <<5, v, 0, c>>
<1>1. e \in Endpoint /\ e \in Target
  BY NoEndpointFacts DEF Target
<1>2. /\ e = [kind |-> e.kind, addr |-> e.addr, port |-> e.port]
      /\ e.kind \in {"v4", "v6"}
      /\ e.kind = "v4" => Len(e.addr) = 4
      /\ e.kind = "v6" => Len(e.addr) = 16
  <2> HIDE DEF e
  <2> QED
    BY <1>1 DEF Endpoint
<1>3. PICK a \in Seq(Byte), p \in Seq(Byte) :
        /\ a = e.addr /\ p = port_bytes(e.port)
        /\ Len(p) = 2 /\ to_port(p[1], p[2]) = e.port
  <2> HIDE DEF e
  <2> QED
    BY <1>1, TargetParts, PortRoundTrip
<1>4. /\ h \in Seq(Byte) /\ Len(h) = 4
      /\ h[1] = 5 /\ h[2] = v /\ h[3] = 0 /\ h[4] = c
  <2>1. c \in Byte
    BY SmallBytes, Zenon
  <2> HIDE DEF c
  <2> QED
    BY <2>1, SmallBytes
<1> DEFINE m == h \o a \o p
<1>5. connect_reply(v, b) = m
  BY <1>3, Zenon DEF connect_reply
<1> HIDE DEF h, e, c
<1>6. /\ m \in Seq(Byte) /\ Len(m) = Len(h) + Len(a) + Len(p)
      /\ \A i \in 1..Len(h) : m[i] = h[i]
      /\ \A i \in 1..Len(p) : m[Len(h) + Len(a) + i] = p[i]
      /\ SubSeq(m, Len(h) + 1, Len(h) + Len(a)) = a
  <2>1. h \in Seq(Byte)
    BY <1>4, Zenon
  <2>2. FramedBytes(m, h, a, p)
    BY <2>1, Framed, Zenon
  <2> QED
    BY <2>2, Zenon DEF FramedBytes
<1> HIDE DEF m
<1>7. m[1] = 5 /\ m[2] = v /\ m[4] = c
  BY <1>4, <1>6
<1>8. PICK r : r = socks(to_reply_code(v))
  OBVIOUS
<1>9. condition(r.val) = IF v = 0 THEN "succeeded" ELSE "reply_error"
  BY <1>8, VerdictFacts
<1>10. CASE v # 0
  <2>1. parse_reply_v5(m) = reply_error(r)
    <3>1. condition(r.val) # "succeeded"
      BY <1>9, <1>10
    <3> QED
      BY <1>7, <1>8, <3>1 DEF parse_reply_v5
  <2> QED
    BY <1>5, <1>8, <1>10, <2>1 DEF reply_error
<1>11. CASE v = 0 /\ e.kind = "v4"
  <2>1. Len(a) = 4 /\ c = 1 /\ to_address_type(c) = ip_v4 /\ e = b
    BY <1>2, <1>3, <1>11 DEF c, e, to_address_type, ip_v4
  <2>2. /\ Len(m) = 10 /\ SubSeq(m, 5, 8) = a
        /\ m[9] = p[1] /\ m[10] = p[2]
    BY <1>3, <1>4, <1>6, <2>1
  <2>3. condition(r.val) = "succeeded"
    BY <1>9, <1>11
  <2>4. parse_reply_v5(m)
          = [ec |-> r, ep |-> [kind |-> "v4", addr |-> SubSeq(m, 5, 8),
                               port |-> to_port(m[9], m[10])]]
    BY <1>7, <1>8, <2>1, <2>2, <2>3, Zenon DEF parse_reply_v5
  <2>5. e = [kind |-> "v4", addr |-> a, port |-> to_port(p[1], p[2])]
    BY <1>2, <1>3, <1>11, Zenon
  <2> QED
    BY <1>5, <1>8, <1>11, <2>1, <2>2, <2>4, <2>5
<1>12. CASE v = 0 /\ e.kind = "v6"
  <2>1. Len(a) = 16 /\ c = 4 /\ to_address_type(c) = ip_v6 /\ e = b
        /\ ip_v6 # ip_v4
    BY <1>2, <1>3, <1>12 DEF c, e, to_address_type, ip_v6, ip_v4
  <2>2. /\ Len(m) = 22 /\ SubSeq(m, 5, 20) = a
        /\ m[21] = p[1] /\ m[22] = p[2]
    BY <1>3, <1>4, <1>6, <2>1
  <2>3. condition(r.val) = "succeeded"
    BY <1>9, <1>12
  <2>4. parse_reply_v5(m)
          = [ec |-> r, ep |-> [kind |-> "v6", addr |-> SubSeq(m, 5, 20),
                               port |-> to_port(m[21], m[22])]]
    BY <1>7, <1>8, <2>1, <2>2, <2>3, Zenon DEF parse_reply_v5
  <2>5. e = [kind |-> "v6", addr |-> a, port |-> to_port(p[1], p[2])]
    BY <1>2, <1>3, <1>12, Zenon
  <2> QED
    BY <1>5, <1>8, <1>12, <2>1, <2>2, <2>4, <2>5
<1> QED
  BY <1>2, <1>10, <1>11, <1>12

\* The client takes the verdict and the port out of a SOCKS4 reply.
LEMMA ReplyV4Parsed ==
    ASSUME NEW v \in Byte, NEW b \in Endpoint
    PROVE  /\ parse_reply_v4(connect_reply_v4(v, b)).ec
                = socks(to_reply_code_v4(v))
           /\ v = 90 =>
                parse_reply_v4(connect_reply_v4(v, b)).ep.port = b.port
<1> DEFINE e == IF v # 90 THEN no_endpoint ELSE b
           h == <<4, v>>
           a == IF e.kind = "v4" THEN e.addr ELSE <<0, 0, 0, 0>>
<1>1. e \in Target
  BY NoEndpointFacts DEF Target
<1>2. h \in Seq(Byte) /\ Len(h) = 2 /\ h[1] = 4 /\ h[2] = v
  BY SmallBytes
<1>3. a \in Seq(Byte)
  <2>1. <<0, 0, 0, 0>> \in Seq(Byte)
    BY SmallBytes
  <2> HIDE DEF e
  <2>2. e.addr \in Seq(Byte)
    BY <1>1, TargetParts
  <2> QED
    BY <2>1, <2>2
<1>4. PICK p \in Seq(Byte) :
        p = port_bytes(e.port) /\ Len(p) = 2 /\ to_port(p[1], p[2]) = e.port
  <2> HIDE DEF e
  <2> QED
    BY <1>1, TargetParts, PortRoundTrip
<1> DEFINE m == h \o p \o a
<1>5. connect_reply_v4(v, b) = m
  BY <1>4, Zenon DEF connect_reply_v4
<1> HIDE DEF h, a, e
<1>6. /\ \A i \in 1..Len(h) : m[i] = h[i]
      /\ SubSeq(m, Len(h) + 1, Len(h) + Len(p)) = p
      /\ m \in Seq(Byte) /\ Len(m) = Len(h) + Len(p) + Len(a)
      /\ Len(a) \in Nat
  <2>1. h \in Seq(Byte) /\ a \in Seq(Byte)
    BY <1>2, <1>3, Zenon
  <2>2. FramedBytes(m, h, p, a)
    BY <2>1, Framed, Zenon
  <2> QED
    BY <2>2, Zenon DEF FramedBytes
<1> HIDE DEF m
<1>7. m[1] = 4 /\ m[2] = v /\ m[3] = p[1] /\ m[4] = p[2]
  <2>1. m[1] = 4 /\ m[2] = v
    BY <1>2, <1>6
  <2>2. SubSeq(m, 3, 4) = p /\ Len(m) >= 4
    BY <1>2, <1>4, <1>6
  <2>3. SubSeq(m, 3, 4)[1] = m[3] /\ SubSeq(m, 3, 4)[2] = m[4]
    BY <1>6, <2>2
  <2> QED
    BY <2>1, <2>2, <2>3
<1>8. PICK r : r = socks(to_reply_code_v4(v))
  OBVIOUS
<1>9. condition(r.val) = IF v = 90 THEN "succeeded" ELSE "reply_error"
  BY <1>8, VerdictV4Facts
<1>10. CASE v # 90
  <2>1. condition(r.val) # "succeeded"
    BY <1>9, <1>10
  <2>2. parse_reply_v4(m) = reply_error(r)
    BY <1>7, <1>8, <2>1 DEF parse_reply_v4
  <2> QED
    BY <1>5, <1>8, <1>10, <2>2 DEF reply_error
<1>11. CASE v = 90
  <2>1. condition(r.val) = "succeeded" /\ e = b
    BY <1>9, <1>11 DEF e
  <2>2. parse_reply_v4(m)
          = [ec |-> r, ep |-> [kind |-> "v4", addr |-> SubSeq(m, 4, 7),
                               port |-> to_port(m[3], m[4])]]
    BY <1>7, <1>8, <2>1 DEF parse_reply_v4
  <2> QED
    BY <1>4, <1>5, <1>7, <1>8, <2>1, <2>2
<1> QED
  BY <1>10, <1>11

(***************************************************************************)
(* The stream.                                                             *)
(***************************************************************************)
\* What read_some may return: bytes that have arrived and no error, or no
\* byte and an error of the stream; the end of file only from a peer that
\* has shut the connection down.
LEMMA ReadSomeFacts ==
    ASSUME StreamTypeOK, NEW limit \in Int, NEW o \in read_some(limit)
    PROVE  /\ o.k \in Nat /\ pos + o.k <= Len(down)
           /\ \/ o.ec = no_error /\ o.k >= 1 /\ o.k <= limit
              \/ o.ec \in transport_error /\ o.k = 0 /\ link # "up"
           /\ o.ec = eof => link = "shut" /\ pos = Len(down)
<1>1. CASE o \in [k : {k \in 1..limit : link # "closed" /\ pos + k <= Len(down)},
                  ec : {no_error}]
  <2>1. o.ec = no_error /\ no_error # eof
    BY <1>1 DEF no_error, eof
  <2> QED
    BY <1>1, <2>1
<1>2. CASE o \in [k : {0}, ec : read_errors]
  <2>1. o.k = 0 /\ o.ec \in read_errors
    BY <1>2
  <2>2. link # "up" /\ o.ec \in transport_error
    BY <2>1 DEF read_errors, transport_error, StreamTypeOK
  <2>3. o.ec = eof => link = "shut" /\ pos = Len(down)
    BY <2>1 DEF read_errors, StreamTypeOK, eof, connection_reset,
                operation_aborted, bad_descriptor
  <2> QED
    BY <2>1, <2>2, <2>3 DEF StreamTypeOK
<1> QED
  BY <1>1, <1>2 DEF read_some

\* The buffer holds the bytes of the read in progress.
LEMMA BufferFacts ==
    ASSUME StreamTypeOK, NEW k \in Nat, pos + k <= Len(down)
    PROVE  /\ buffer(k) \in Seq(Byte)
           /\ Len(buffer(k)) = n + k
           /\ \A i \in 1..(n + k) : buffer(k)[i] = down[(pos - n) + i]
<1> DEFINE a == (pos - n) + 1
           z == pos + k
<1>1. /\ down \in Seq(Byte) /\ Len(down) \in Nat
      /\ pos \in Nat /\ n \in Nat /\ n <= pos
  BY DEF StreamTypeOK
<1>2. a \in Int /\ z \in Int /\ a >= 1 /\ z <= Len(down) /\ z - a + 1 = n + k
  BY <1>1
<1>3. \A i \in a..z : down[i] \in Byte
  BY <1>1, <1>2
<1> HIDE DEF a, z
<1>4. /\ SubSeq(down, a, z) \in Seq(Byte)
      /\ Len(SubSeq(down, a, z)) = IF a <= z THEN z - a + 1 ELSE 0
      /\ \A i \in 1..(z - a + 1) : SubSeq(down, a, z)[i] = down[a + i - 1]
  BY <1>2, <1>3, SubSeqProperties
<1>5. Len(SubSeq(down, a, z)) = n + k
  BY <1>1, <1>2, <1>4
<1>6. \A i \in 1..(n + k) : SubSeq(down, a, z)[i] = down[(pos - n) + i]
  BY <1>1, <1>2, <1>4 DEF a
<1>7. buffer(k) = SubSeq(down, a, z)
  BY DEF a, z, buffer
<1> QED
  BY <1>4, <1>5, <1>6, <1>7

\* A part of the buffer is a part of what the peer sent.
LEMMA BufferSubSeq ==
    ASSUME StreamTypeOK, NEW k \in Nat, pos + k <= Len(down),
           NEW i \in 1..(n + k), NEW j \in 1..(n + k)
    PROVE  SubSeq(buffer(k), i, j)
             = SubSeq(down, (pos - n) + i, (pos - n) + j)
<1> DEFINE a == (pos - n) + 1
           z == pos + k
<1>1. /\ down \in Seq(Byte) /\ Len(down) \in Nat
      /\ pos \in Nat /\ n \in Nat /\ n <= pos
  BY DEF StreamTypeOK
<1>2. a \in 1..Len(down) /\ z \in 1..Len(down) /\ z - a + 1 = n + k
  BY <1>1
<1>3. i \in 1..(z - a + 1) /\ j \in 1..(z - a + 1)
  BY <1>2
<1> HIDE DEF a, z
<1>4. SubSeq(SubSeq(down, a, z), i, j) = SubSeq(down, a + i - 1, a + j - 1)
  BY <1>1, <1>2, <1>3, SubSeqOfSubSeq
<1>5. a + i - 1 = (pos - n) + i /\ a + j - 1 = (pos - n) + j
  BY <1>1 DEF a
<1> QED
  BY <1>4, <1>5 DEF buffer, a, z

\* The result of a write: success on a link that works, or an error that is
\* not the end of file.
LEMMA WriteFacts ==
    ASSUME StreamTypeOK, NEW e \in write_results
    PROVE  \/ e = no_error
           \/ e \in transport_error /\ e # eof /\ link # "up"
BY DEF write_results, StreamTypeOK, transport_error, eof, broken_pipe,
       connection_reset, operation_aborted, bad_descriptor, no_error
=============================================================================
