--------------------------- MODULE ConnectService ---------------------------
(***************************************************************************)
(* What a connect operation of the library promises its caller, whichever  *)
(* of the four it is: connect, async_connect, connect_v4 and               *)
(* async_connect_v4 (include/boost/socks/connect.hpp, connect_v4.hpp).     *)
(* The caller sees no bytes and no stages: the operation asks for a        *)
(* target at some point, the server may grant it, the connection may be    *)
(* lost, and the operation completes once.  SocksConnect and               *)
(* SocksConnectV4 implement this specification; SocksClient uses it.       *)
(***************************************************************************)
EXTENDS SocksWire

CONSTANTS
    Endpoints,  \* what an operation may return as the bound address
    Codes       \* the error codes it may complete with

VARIABLES
    state,      \* "negotiating", "asked" (the request is written) or "done"
    granted,    \* the server has granted the request
    lost,       \* the connection is shut down, reset or closed
    ec, ep      \* what the operation completed with

vars == <<state, granted, lost, ec, ep>>

Init ==
    /\ state = "negotiating"
    /\ granted = FALSE /\ lost = FALSE
    /\ ec = no_error /\ ep = no_endpoint

\* The request leaves the client.
Ask ==
    /\ state = "negotiating"
    /\ state' = "asked"
    /\ UNCHANGED <<granted, lost, ec, ep>>

\* The server grants the request, on a connection that is there.
Grant ==
    /\ ~granted /\ ~lost
    /\ granted' = TRUE
    /\ UNCHANGED <<state, lost, ec, ep>>

Lose ==
    /\ ~lost
    /\ lost' = TRUE
    /\ UNCHANGED <<state, granted, ec, ep>>

Complete(e) ==
    /\ state # "done"
    /\ state' = "done"
    /\ ec' = e
    /\ UNCHANGED <<granted, lost>>

\* Success takes a request that was sent and granted.
Succeed ==
    /\ state = "asked" /\ granted
    /\ \E e \in {c \in Codes : c.cat = "socks" /\ ~failed(c)} : Complete(e)
    /\ ep' \in Endpoints

\* A failure is an error of the library or, once the connection is lost,
\* one of the stream; it is never eof, and comes with no endpoint.
Fail ==
    /\ \E e \in {c \in Codes : failed(c)} :
         /\ e # eof
         /\ e.cat = "socks" \/ lost
         /\ Complete(e)
    /\ ep' = no_endpoint

Next == Ask \/ Grant \/ Lose \/ Succeed \/ Fail

\* What may happen, without what must.
Safety == Init /\ [][Next]_vars

\* An operation whose connection is lost does not wait for ever.
Spec == Safety /\ (lost ~> state = "done")
=============================================================================
