---------------------------- MODULE SocksCodes ----------------------------
(***************************************************************************)
(* The numeric vocabulary of Boost.Socks: protocol constants, reply codes, *)
(* address types and error codes.  A boost::system::error_code is a pair   *)
(* of a category and a value, and that is how it is modelled: the value of *)
(* a SOCKS reply and the value of an operating system error live in        *)
(* different categories and are never confused by a comparison.            *)
(***************************************************************************)
EXTENDS Naturals

\* unsigned char
Byte == 0..255

\* static_cast<unsigned char>(v): conversion to an 8-bit unsigned integer.
byte(v) == v % 256

(***************************************************************************)
(* Enumerations.                                                           *)
(***************************************************************************)
socks_4 == 4
socks_5 == 5

command_connect == 1

no_authentication == 0
auth_userpass == 2
no_acceptable_method == 255

ip_v4 == 1
domain_name == 3
ip_v6 == 4
unknown == 255

\* enum class reply_code; every other byte is unassigned.
reply_code == 0..8
\* enum class reply_code_v4.
reply_code_v4 == 90..93
unassigned == 255

(***************************************************************************)
(* Conversions from a byte of the wire.  None of them is the identity: a   *)
(* byte that is no enumerator is folded onto one sentinel.                 *)
(***************************************************************************)
to_address_type(v) ==
    IF v \in {ip_v4, domain_name, ip_v6} THEN v ELSE unknown

\* Mutant: the default branch returns the byte instead of unassigned.
to_reply_code_identity(v) == v

\* Mutant: host_unreachable is missing from the switch.
to_reply_code_gap(v) ==
    IF v \in reply_code \ {4} THEN v ELSE unassigned

to_reply_code(v) ==
    IF v \in reply_code THEN v ELSE unassigned

\* Mutant: the default branch returns the byte instead of unassigned.
to_reply_code_v4_identity(v) == v

to_reply_code_v4(v) ==
    IF v \in reply_code_v4 THEN v ELSE unassigned

(***************************************************************************)
(* Error codes.  enum class error: the reply codes above, the              *)
(* communication errors from 0xA0 on, and unassigned_reply_code = 0xFF.    *)
(***************************************************************************)
socks(v) == [cat |-> "socks", val |-> v]

request_granted == 90
bad_reply_size == 160
bad_reply_version == 161
bad_server_choice == 162
bad_reply_command == 163
bad_reserved_component == 164
bad_address_type == 165
access_denied == 166
unassigned_reply_code == 255

\* Every enumerator of enum class error.
error == reply_code \cup reply_code_v4 \cup (160..166)
         \cup {unassigned_reply_code}

\* error_code{}: value 0 of the system category.
no_error == [cat |-> "system", val |-> 0]

\* The Asio errors a socket reports, with their values on Linux.
eof == [cat |-> "asio.misc", val |-> 2]
broken_pipe == [cat |-> "system", val |-> 32]
connection_reset == [cat |-> "system", val |-> 104]
operation_aborted == [cat |-> "system", val |-> 125]
bad_descriptor == [cat |-> "system", val |-> 9]

transport_error == {eof, broken_pipe, connection_reset, operation_aborted,
                    bad_descriptor}

error_code == {socks(v) : v \in error} \cup {no_error} \cup transport_error

\* Mutant: request_granted (90) is forgotten in socks_category::failed.
failed_v5_only(ec) == ec.val # 0

\* error_category::failed: any non-zero value, except that socks_category
\* overrides it so that request_granted (90) is a success as well.
failed(ec) ==
    IF ec.cat = "socks" THEN ec.val # 0 /\ ec.val # request_granted
                        ELSE ec.val # 0

\* socks_category::default_error_condition, for the values of enum error.
condition(v) ==
    CASE v \in {0, request_granted} -> "succeeded"
      [] v \in (reply_code \cup reply_code_v4 \cup {unassigned_reply_code})
               \ {0, request_granted} -> "reply_error"
      [] v \in 160..166 -> "io_error"
      [] OTHER -> "other"
=============================================================================
