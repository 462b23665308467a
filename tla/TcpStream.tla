----------------------------- MODULE TcpStream -----------------------------
(***************************************************************************)
(* The stream a connect operation runs on, seen from the client: what the  *)
(* peer has sent, how far it was read, and how the connection may fail.    *)
(* The stream and the composed operations asio::read and asio::write are   *)
(* external to the repository; they are modelled from how connect.hpp and  *)
(* connect_v4.hpp call them.                                               *)
(*                                                                         *)
(* TCP delivers bytes in order and without loss, but in segments of any    *)
(* size, so one read_some may return any non-empty part of what has        *)
(* arrived, across the boundaries of the messages the peer wrote.          *)
(***************************************************************************)
EXTENDS SocksWire

VARIABLES
    down,       \* every byte the peer has sent, in order (never shrinks)
    pos,        \* how many of them read_some has taken
    n,          \* bytes_transferred of the asio::read in progress
    link,       \* "up", "shut", "reset" or "closed"
    stream_ec   \* the error code of the last stream operation

stream_vars == <<down, pos, n, link, stream_ec>>

StreamTypeOK ==
    /\ down \in Seq(Byte)
    /\ pos \in 0..Len(down)
    /\ n \in 0..pos
    /\ link \in {"up", "shut", "reset", "closed"}
    /\ stream_ec \in {no_error} \cup transport_error

StreamInit ==
    /\ down = <<>> /\ pos = 0 /\ n = 0
    /\ link = "up" /\ stream_ec = no_error

(***************************************************************************)
(* read_some(limit): either 1..limit bytes and no error, or no byte and an *)
(* error.  End of file is only seen once everything sent was read; after a *)
(* reset, bytes that had already arrived may or may not still be handed    *)
(* over; once the application has closed the stream every operation fails, *)
(* the pending one with operation_aborted, a new one with bad_descriptor.  *)
(***************************************************************************)
read_errors ==
    CASE link = "up" -> {}
      [] link = "shut" -> IF pos = Len(down) THEN {eof} ELSE {}
      [] link = "reset" -> {connection_reset}
      [] link = "closed" -> {operation_aborted, bad_descriptor}

read_some(limit) ==
    [k : {k \in 1..limit : link # "closed" /\ pos + k <= Len(down)},
     ec : {no_error}]
        \cup [k : {0}, ec : read_errors]

\* The bytes of the read in progress once k more have arrived: the buffer
\* the caller passed to asio::read, up to bytes_transferred.
buffer(k) == SubSeq(down, (pos - n) + 1, pos + k)

\* asio::transfer_all, the completion condition of a read of exactly size
\* bytes.  A completion condition returns how much more to read; 0 ends the
\* read.
transfer_all(ec, m, size) == IF failed(ec) THEN 0 ELSE size - m

\* One read_some of the read loop, after which the loop goes on ...
Transfer(o) ==
    /\ pos' = pos + o.k
    /\ n' = n + o.k
    /\ stream_ec' = o.ec
    /\ UNCHANGED <<down, link>>

\* ... and the one that ends it.
TransferLast(o) ==
    /\ pos' = pos + o.k
    /\ n' = 0
    /\ stream_ec' = o.ec
    /\ UNCHANGED <<down, link>>

\* The results of asio::write.  A write to a peer that has sent its FIN may
\* still be taken by the socket; a failed write delivers no whole message.
write_results ==
    CASE link = "up" -> {no_error}
      [] link = "shut" -> {no_error, broken_pipe}
      [] link = "reset" -> {connection_reset, broken_pipe}
      [] link = "closed" -> {operation_aborted, bad_descriptor}

Write(e) ==
    /\ e \in write_results
    /\ stream_ec' = e
    /\ UNCHANGED <<down, pos, n, link>>

(***************************************************************************)
(* What happens to the stream from outside the operation.                  *)
(***************************************************************************)
PeerSends(bytes) ==
    /\ link = "up"
    /\ down' = down \o bytes
    /\ UNCHANGED <<pos, n, link, stream_ec>>

LinkBecomes(l) ==
    /\ link = "up"
    /\ link' = l
    /\ UNCHANGED <<down, pos, n, stream_ec>>
=============================================================================
