------------------------------ MODULE MCServer ------------------------------
(***************************************************************************)
(* SocksServer with a small set of clients.                                *)
(***************************************************************************)
EXTENDS SocksServer

to_v4 == <<5, 1, 0, 1, 127, 0, 0, 1, 31, 144>>
to_v6 == <<5, 1, 0, 4>> \o [i \in 1..16 |-> 16 - i] \o <<0, 80>>
to_domain == <<5, 1, 0, 3, 2, 104, 105, 1, 187>>
v4_request == <<4, 1, 0, 80, 10, 0, 0, 7, 117, 0>>

\* The longest user name and password message, the only one that fills
\* buffer_, and a short one.
full_userpass ==
    <<1, 255>> \o [i \in 1..255 |-> 97] \o <<255>> \o [i \in 1..255 |-> 98]
short_userpass == <<1, 1, 97, 2, 98, 99>>

\* Clients that do not authenticate: each kind of target, methods the server
\* knows and does not know, and requests it refuses; clients that
\* authenticate and fill the buffer or do not; SOCKS4 clients that are
\* served and refused.
MCClients ==
    {<<<<5, 1, 0>>, r>> : r \in {to_v4, to_v6, to_domain}}
    \cup {<<<<5, 2, 3, 0>>, to_domain>>,
          <<<<5, 1, 3>>>>,
          <<<<5, 0>>>>,
          <<<<6, 1>>>>,
          <<<<5, 1, 0>>, <<5, 2, 0, 1, 127, 0, 0, 1, 0, 80>>>>,
          <<<<5, 1, 0>>, <<5, 1, 0, 9>>>>,
          <<<<5, 2, 0, 2>>, full_userpass, to_domain>>,
          <<<<5, 2, 0, 2>>, short_userpass, to_v4>>,
          <<v4_request>>,
          <<<<4, 2, 0, 80, 10, 0, 0, 7, 0>>>>}

MCDomain == {<<<<5, 1, 0>>, to_domain>>}
MCUserpass == {<<<<5, 2, 0, 2>>, short_userpass, to_v4>>}

MCBounds == {[kind |-> "v4", addr |-> <<192, 168, 0, 1>>, port |-> 513],
             [kind |-> "v6", addr |-> [i \in 1..16 |-> i], port |-> 65535]}

\* Every client here sends one message a turn.
ASSUME MCOneMessagePerTurn == OneMessagePerTurn
=============================================================================
