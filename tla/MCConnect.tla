----------------------------- MODULE MCConnect -----------------------------
(***************************************************************************)
(* Small instances of SocksConnect.                                        *)
(***************************************************************************)
EXTENDS SocksConnect

MCOpts == {auth_none, userpass(<<65>>, <<66, 67>>)}

MCTargets == {[kind |-> "domain", addr |-> <<97, 98>>, port |-> 443]}

zeros(k) == [i \in 1..k |-> 0]

\* Server choices: no authentication, userpass, none acceptable, another
\* version, one that is cut short, and one that has bytes too many.
MCChoices ==
    {<<5, 0>>, <<5, 2>>, <<5, 255>>, <<4, 0>>, <<5>>, <<5, 0, 5>>}

\* Userpass replies: approved, denied, another version, cut short.
MCApprovals == {<<1, 0>>, <<1, 1>>, <<5, 0>>, <<1>>}

\* CONNECT replies: granted and refused, each with an IPv4 and an IPv6
\* bound address; an unassigned code; a refusal with a domain name of three
\* bytes; a granting one of another version; one cut short.
v4_bound(rep) == <<5, rep, 0, 1, 10, 0, 0, 7, 4, 56>>
v6_bound(rep) == <<5, rep, 0, 4>> \o [i \in 1..18 |-> i]
MCReplies ==
    {v4_bound(0), v6_bound(0), v4_bound(5), v6_bound(4), v4_bound(77),
     <<5, 4, 0, 3, 3, 97, 98, 99, 0, 80>>,
     <<4, 0, 0, 1>> \o zeros(6), <<5, 0, 0, 1, 10>>}

MCAnswers == [greeting |-> MCChoices, userpass |-> MCApprovals,
              request |-> MCReplies]

\* The target greets with twelve bytes, what an IPv4 reply lacks to have the
\* size of an IPv6 one, or with three.
MCAppData == {zeros(12), <<50, 50, 48>>}

NoAppData == {}
=============================================================================
