---------------------------- MODULE MCConnectV4 ----------------------------
(***************************************************************************)
(* A small instance of SocksConnectV4.                                     *)
(***************************************************************************)
EXTENDS SocksConnectV4

MCTargets == {[kind |-> "v4", addr |-> <<10, 0, 0, 9>>, port |-> 443]}

\* An empty user, and one that makes the buffer longer than the reply by
\* more than the terminator.
MCUsers == {<<>>, <<65, 66>>}

bound == <<4, 56, 10, 0, 0, 7>>

\* Granted, with both versions a server may write; each refusal; a code that
\* is not assigned; a SOCKS5 reply; a reply cut short.
MCAnswers == {<<0, 90>> \o bound, <<4, 90>> \o bound, <<4, 91>> \o bound,
              <<4, 92>> \o bound, <<0, 93>> \o bound, <<4, 77>> \o bound,
              <<5, 0, 0, 1, 10, 0, 0, 7, 4, 56>>,
              <<4, 90, 4, 56, 10, 0, 0>>}

MCAppData == {<<50, 50, 48>>}
=============================================================================
