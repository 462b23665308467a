------------------------------ MODULE MCRelay ------------------------------
(***************************************************************************)
(* Small instances of RelayServer.                                         *)
(***************************************************************************)
EXTENDS RelayServer

\* The first client sends two bytes, so that a write can be short, and its
\* target one; the second connection opens and closes beside it.
MCQuota ==
    [p \in Pipes |-> CASE p = <<1, "client">> -> 2
                       [] p = <<1, "target">> -> 1
                       [] OTHER -> 0]

\* One client that sends two bytes.
MCQuotaOne == [p \in Pipes |-> IF p = <<1, "client">> THEN 2 ELSE 0]
=============================================================================
