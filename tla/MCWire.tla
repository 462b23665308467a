------------------------------- MODULE MCWire -------------------------------
(***************************************************************************)
(* Instances of WireExchange.  Ports and lengths sit on both sides of a    *)
(* byte's limit; reply codes are all 256 bytes.                            *)
(***************************************************************************)
EXTENDS WireExchange

fill(k) == [i \in 1..k |-> (7 * i) % 256]

MCPorts == {0, 1, 80, 255, 256, 443, 65535}

MCAddrs ==
    {[kind |-> "v4", addr |-> fill(4)], [kind |-> "v6", addr |-> fill(16)]}

MCNames == {[kind |-> "domain", addr |-> fill(k)] : k \in {0, 1, 3, 255}}

at(hosts) == {[kind |-> h.kind, addr |-> h.addr, port |-> p] :
                 h \in hosts, p \in MCPorts}

MCTargets == at(MCAddrs \cup MCNames)

MCBounds == at(MCAddrs)

MCUsers == {<<>>, <<65>>, fill(12)}

\* Credentials of equal length, so that PWLEN is right; the longest ones too.
MCOpts == {auth_none, userpass(<<65>>, <<66>>), userpass(fill(255), fill(255))}

\* Credentials of different length.
MCOptsUnequal == {userpass(<<65>>, <<66, 67>>)}
=============================================================================
