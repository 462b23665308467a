----------------------------- MODULE ServerWire -----------------------------
(***************************************************************************)
(* The messages as the example server parses and builds them               *)
(* (example/server/async/socks_server_async.cpp).  A parser is given the   *)
(* whole of buffer_, resized to the bytes that were read.                  *)
(***************************************************************************)
EXTENDS SocksWire

\* The parser reports a failure and the connection ends without an answer.
dropped == 256

\* Mutant: the server takes the client's first method, whatever it is.
parse_socks_greeting_first(buf) ==
    IF Len(buf) < 3 \/ buf[1] # 5 \/ buf[2] # Len(buf) - 2 THEN dropped
    ELSE buf[3]

\* parse_socks_greeting: the method the server answers with.
parse_socks_greeting(buf) ==
    IF Len(buf) < 2 \/ buf[1] # 5 \/ buf[2] # Len(buf) - 2 THEN dropped
    ELSE LET methods == {buf[i] : i \in 3..Len(buf)}
         IN  IF 2 \in methods THEN 2
             ELSE IF 0 \in methods THEN 0
             ELSE 255

\* parse_userpass_greeting: the user name and the password it takes from a
\* message that is long enough.  The view of the password begins at PWLEN.
parse_userpass_greeting(buf) ==
    LET idlen == buf[2]
        passlen == buf[3 + idlen]
    IN  IF \/ Len(buf) < 2 \/ buf[1] # 1
           \/ Len(buf) < idlen + 3 \/ Len(buf) < idlen + 3 + passlen
        THEN [ok |-> FALSE, user |-> <<>>, pass |-> <<>>]
        ELSE [ok |-> TRUE, user |-> SubSeq(buf, 3, 2 + idlen),
              pass |-> SubSeq(buf, 3 + idlen, 2 + idlen + passlen)]

\* What parse_socks_connect does with a request: it either goes on to the
\* target (rep = 0), or replies at once with rep.
refuse(rep) == [rep |-> rep, target |-> no_endpoint]
accept(kind, addr, hi, lo) ==
    [rep |-> 0,
     target |-> [kind |-> kind, addr |-> addr, port |-> to_port(hi, lo)]]

parse_socks_connect(buf) ==
    LET z == Len(buf) IN
    IF z = 0 THEN refuse(dropped)
    ELSE IF buf[1] # 5 \/ z = 1 THEN refuse(2)
    ELSE IF buf[2] # 1 THEN refuse(7)
    ELSE IF z = 2 \/ buf[3] # 0 \/ z = 3 THEN refuse(2)
    ELSE IF buf[4] = 1 /\ z = 10
         THEN accept("v4", SubSeq(buf, 5, 8), buf[9], buf[10])
    ELSE IF buf[4] = 4 /\ z = 22
         THEN accept("v6", SubSeq(buf, 5, 20), buf[21], buf[22])
    ELSE IF buf[4] = 3 /\ z > 4 /\ z = 7 + buf[5]
         THEN accept("domain", SubSeq(buf, 6, 5 + buf[5]), buf[z - 1], buf[z])
    ELSE refuse(8)

\* parse_socks_connect_v4; the user id behind the address is ignored.
parse_socks_connect_v4(buf) ==
    IF Len(buf) = 0 THEN refuse(dropped)
    ELSE IF buf[1] # 4 \/ Len(buf) = 1 THEN refuse(91)
    ELSE IF buf[2] # 1 \/ Len(buf) < 8 THEN refuse(91)
    ELSE accept("v4", SubSeq(buf, 5, 8), buf[3], buf[4])

\* Mutant: a reply with an IPv6 bound address is announced as IPv4.
connect_reply_atyp(rep, bnd) ==
    <<5, rep, 0, 1>> \o bnd.addr \o port_bytes(bnd.port)

\* do_connect_reply: a refusal carries 0.0.0.0:0, a success BND.ADDR.
connect_reply(rep, bnd) ==
    LET e == IF rep # 0 THEN no_endpoint ELSE bnd
    IN  <<5, rep, 0, IF e.kind = "v4" THEN 1 ELSE 4>>
          \o e.addr \o port_bytes(e.port)

\* do_connect_reply_v4: an IPv6 bound address is sent as 0.0.0.0.
connect_reply_v4(rep, bnd) ==
    LET e == IF rep # 90 THEN no_endpoint ELSE bnd
    IN  <<4, rep>> \o port_bytes(e.port)
          \o (IF e.kind = "v4" THEN e.addr ELSE <<0, 0, 0, 0>>)
=============================================================================
