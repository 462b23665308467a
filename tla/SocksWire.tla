----------------------------- MODULE SocksWire -----------------------------
(***************************************************************************)
(* The messages of SOCKS4 and SOCKS5 as the library and the example server *)
(* build and parse them.  A message is the sequence of its bytes; byte i   *)
(* of a C++ buffer is element i + 1 here.  An endpoint or a target is a    *)
(* record [kind, addr, port] where addr holds the address (or domain name) *)
(* bytes in network order.                                                 *)
(*                                                                         *)
(* Client side: include/boost/socks/impl/connect.ipp, connect_v4.ipp.      *)
(* Server side: example/server/async/socks_server_async.cpp.               *)
(***************************************************************************)
EXTENDS SocksCodes, Sequences

\* endpoint{}: 0.0.0.0 port 0, what a failed operation returns.
no_endpoint == [kind |-> "v4", addr |-> <<0, 0, 0, 0>>, port |-> 0]

\* std::uint16_t
max_port == 65535
Port == 0..max_port

\* What the arguments of the operations are by their types, and how long they
\* may be: an address of 4 or 16 bytes and a port, or a name; credentials.
\* That credentials have at most 255 bytes each is asserted in
\* prepare_userpass_request; that a name has (the limit of DNS, and of its
\* one-byte length) is left to the caller: write_target_host checks nothing.
Endpoint ==
    {e \in [kind : {"v4", "v6"}, addr : Seq(Byte), port : Port] :
        Len(e.addr) = IF e.kind = "v4" THEN 4 ELSE 16}
Target ==
    Endpoint \cup
    {t \in [kind : {"domain"}, addr : Seq(Byte), port : Port] :
        Len(t.addr) <= 255}
Credentials ==
    {o \in [is_userpass : BOOLEAN, user : Seq(Byte), pass : Seq(Byte)] :
        Len(o.user) <= 255 /\ Len(o.pass) <= 255}

\* A 16-bit port in network order, and back.
port_bytes(p) == <<p \div 256, p % 256>>
to_port(hi, lo) == hi * 256 + lo

(***************************************************************************)
(* Client: requests.                                                       *)
(***************************************************************************)
\* auth_options: none, or userpass with its credentials.
auth_none == [is_userpass |-> FALSE, user |-> <<>>, pass |-> <<>>]
userpass(u, p) == [is_userpass |-> TRUE, user |-> u, pass |-> p]

\* auth_options::code
code(opt) == IF opt.is_userpass THEN auth_userpass ELSE no_authentication

\* prepare_greeting of a list: VER, NMETHODS, METHODS.
prepare_methods(methods) == <<socks_5, byte(Len(methods))>> \o methods

\* prepare_greeting of the options: "no authentication" is always offered.
prepare_greeting(opt) ==
    prepare_methods(IF code(opt) # 0 THEN <<0, code(opt)>> ELSE <<0>>)

\* Mutant: the user name is written before its length.
prepare_userpass_request_swapped(opt) ==
    <<1>> \o opt.user \o <<byte(Len(opt.user))>>
        \o <<byte(Len(opt.user))>> \o opt.pass

\* prepare_userpass_request: VER, IDLEN, ID, PWLEN, PW.  PWLEN is written
\* from opt.user.size().
prepare_userpass_request(opt) ==
    <<1, byte(Len(opt.user))>> \o opt.user
        \o <<byte(Len(opt.user))>> \o opt.pass

write_ver_cmd_rsv == <<socks_5, command_connect, 0>>

\* ATYP, DST.ADDR and DST.PORT; a domain name is preceded by its length
\* cut to one byte.
write_target_host(t) ==
    (IF t.kind = "v4" THEN <<ip_v4>>
     ELSE IF t.kind = "v6" THEN <<ip_v6>>
     ELSE <<domain_name, byte(Len(t.addr))>>)
    \o t.addr \o port_bytes(t.port)

\* Mutant: DST.PORT is written in host order.
prepare_request_swapped(t) ==
    LET m == write_ver_cmd_rsv \o write_target_host(t)
        e == Len(m)
    IN  [m EXCEPT ![e - 1] = m[e], ![e] = m[e - 1]]

prepare_request(t) == write_ver_cmd_rsv \o write_target_host(t)

prepare_request_v4(t, socks_user) ==
    <<socks_4, command_connect>> \o port_bytes(t.port) \o t.addr
        \o socks_user \o <<0>>

(***************************************************************************)
(* Client: replies.  buf holds the n bytes that were read.                 *)
(***************************************************************************)
\* Mutant: any method the server names is accepted.
validate_server_choice_any(buf, opt, ec) ==
    IF Len(buf) < 2 THEN socks(bad_reply_size)
    ELSE IF buf[1] # 5 THEN socks(bad_reply_version) ELSE ec

validate_server_choice(buf, opt, ec) ==
    IF Len(buf) < 2 THEN socks(bad_reply_size)
    ELSE IF buf[1] # 5 THEN socks(bad_reply_version)
    ELSE IF buf[2] # code(opt) /\ buf[2] # 0 THEN socks(bad_server_choice)
    ELSE ec

\* Mutant: the status byte is not looked at.
validate_userpass_reply_nostatus(buf, ec) ==
    IF Len(buf) # 2 THEN socks(bad_reply_size)
    ELSE IF buf[1] # 1 THEN socks(bad_reply_version) ELSE ec

validate_userpass_reply(buf, ec) ==
    IF Len(buf) # 2 THEN socks(bad_reply_size)
    ELSE IF buf[1] # 1 THEN socks(bad_reply_version)
    ELSE IF buf[2] # 0 THEN socks(access_denied)
    ELSE ec

reply_error(e) == [ec |-> e, ep |-> no_endpoint]

\* Mutant: what follows an IPv4 reply in the buffer is passed over.
parse_reply_v5_loose(buf) ==
    LET e == socks(to_reply_code(buf[2]))
    IN  IF buf[1] # 5 \/ condition(e.val) # "succeeded" THEN reply_error(e)
        ELSE [ec |-> e, ep |-> [kind |-> "v4", addr |-> SubSeq(buf, 5, 8),
                                port |-> to_port(buf[9], buf[10])]]

\* parse_reply_v5; its callers pass 10 or 22 bytes.  The error code it is
\* given is overwritten on every path.
parse_reply_v5(buf) ==
    IF buf[1] # 5 THEN reply_error(socks(bad_reply_version))
    ELSE LET e == socks(to_reply_code(buf[2]))
             atyp == to_address_type(buf[4])
    IN  IF condition(e.val) # "succeeded" THEN reply_error(e)
        ELSE IF atyp = ip_v4 THEN
            IF Len(buf) # 10 THEN reply_error(socks(bad_reply_size))
            ELSE [ec |-> e,
                  ep |-> [kind |-> "v4", addr |-> SubSeq(buf, 5, 8),
                          port |-> to_port(buf[9], buf[10])]]
        ELSE IF atyp = ip_v6 THEN
            IF Len(buf) # 22 THEN reply_error(socks(bad_reply_size))
            ELSE [ec |-> e,
                  ep |-> [kind |-> "v6", addr |-> SubSeq(buf, 5, 20),
                          port |-> to_port(buf[21], buf[22])]]
        ELSE reply_error(socks(bad_address_type))

\* Mutant: only version 4 is accepted in a reply.
parse_reply_v4_strict(buf) ==
    IF buf[1] # 4 THEN reply_error(socks(bad_reply_version))
    ELSE LET e == socks(to_reply_code_v4(buf[2])) IN
        IF condition(e.val) # "succeeded" THEN reply_error(e)
        ELSE [ec |-> e, ep |-> [kind |-> "v4", addr |-> SubSeq(buf, 4, 7),
                                port |-> to_port(buf[3], buf[4])]]

\* parse_reply_v4, of 8 bytes.  The address is taken from buffer[3..6].
parse_reply_v4(buf) ==
    IF buf[1] # 0 /\ buf[1] # 4 THEN reply_error(socks(bad_reply_version))
    ELSE LET e == socks(to_reply_code_v4(buf[2])) IN
        IF condition(e.val) # "succeeded" THEN reply_error(e)
        ELSE [ec |-> e, ep |-> [kind |-> "v4", addr |-> SubSeq(buf, 4, 7),
                                port |-> to_port(buf[3], buf[4])]]
=============================================================================
