------------------------------- MODULE Tunnel -------------------------------
(***************************************************************************)
(* What a client and a server of this repository give the application      *)
(* together: the application asks for a target, the server joins it to     *)
(* that target or to none, and the application is told once, success only  *)
(* when it was joined.  doc/qbk/connect.qbk describes it.  Session         *)
(* implements this specification.                                          *)
(***************************************************************************)
CONSTANTS
    Asked,      \* what an application may ask for
    None        \* no target

VARIABLES
    asked,      \* the target of the application
    joined,     \* the target the server has connected to
    told        \* "waiting", "success" or "failure"

vars == <<asked, joined, told>>

Init ==
    /\ asked \in Asked
    /\ joined = None
    /\ told = "waiting"

\* The server may join the target also for an application that was told of
\* a failure in the meantime: it cannot know.
Join ==
    /\ joined = None
    /\ joined' = asked
    /\ UNCHANGED <<asked, told>>

TellSuccess ==
    /\ told = "waiting" /\ joined = asked
    /\ told' = "success"
    /\ UNCHANGED <<asked, joined>>

TellFailure ==
    /\ told = "waiting"
    /\ told' = "failure"
    /\ UNCHANGED <<asked, joined>>

Next == Join \/ TellSuccess \/ TellFailure

Spec == Init /\ [][Next]_vars
=============================================================================
