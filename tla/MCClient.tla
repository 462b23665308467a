------------------------------ MODULE MCClient ------------------------------
(***************************************************************************)
(* A small instance of SocksClient.                                        *)
(***************************************************************************)
EXTENDS SocksClient

MCEndpoints == {[kind |-> "v4", addr |-> <<10, 0, 0, 7>>, port |-> 80]}

\* Success in both versions, a refusal in both, and a lost connection.
MCCodes == {socks(0), socks(90), socks(5), socks(91), connection_reset}

\* Three addresses, with IPv6 ones first, between and last, or only these.
v4(i) == <<"ipv4", i>>
v6(i) == <<"ipv6", i>>
MCResolutions ==
    {<<v4(1)>>, <<v4(1), v6(2)>>, <<v6(1), v4(2), v4(3)>>,
     <<v4(1), v6(2), v4(3)>>, <<v6(1), v6(2)>>}
=============================================================================
