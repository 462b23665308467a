----------------------------- MODULE MCSession -----------------------------
(***************************************************************************)
(* A small instance of Session.                                            *)
(***************************************************************************)
EXTENDS Session

MCTargets ==
    {[kind |-> "domain", addr |-> <<104, 105>>, port |-> 443],
     [kind |-> "v4", addr |-> <<127, 0, 0, 1>>, port |-> 8080],
     [kind |-> "v6", addr |-> [i \in 1..16 |-> 16 - i], port |-> 80]}

\* No credentials, and short ones.  The longest, the only ones the server's
\* read is satisfied with, can be cut in too many ways for this instance.
MCOpts == {auth_none, userpass(<<65>>, <<66>>)}

\* Twelve bytes make an IPv4 reply as long as an IPv6 one; three do not.
MCAppData == {[i \in 1..12 |-> 0], <<50, 50, 48>>}

MCBounds == {[kind |-> "v4", addr |-> <<192, 168, 0, 1>>, port |-> 513],
             [kind |-> "v6", addr |-> [i \in 1..16 |-> i], port |-> 65535]}
=============================================================================
