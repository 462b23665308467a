------------------------- MODULE WireExchangeProofs -------------------------
(***************************************************************************)
(* Theorems about the messages, for all credentials, targets, user ids and *)
(* bound addresses that the types and assertions of the source admit: what *)
(* one side builds the other side's parser takes for what it was.          *)
(***************************************************************************)
EXTENDS WireExchange, WireProofs

(***************************************************************************)
(* The inductive invariant: the wire holds the encoding of the input, and  *)
(* the output is what the receiver makes of just that.                     *)
(***************************************************************************)
\* The bytes of a message of kind k with input i.
Encoded(k, i) ==
    IF k = "greeting" THEN prepare_greeting(i)
    ELSE IF k = "userpass" THEN prepare_userpass_request(i)
    ELSE IF k = "request" THEN prepare_request(i)
    ELSE IF k = "request_v4" THEN prepare_request_v4(i.target, i.user)
    ELSE IF k = "reply" THEN connect_reply(i.rep, i.bnd)
    ELSE connect_reply_v4(i.rep, i.bnd)

\* What the receiver of such a message makes of the bytes w.
Decoded(k, i, w) ==
    IF k = "greeting"
    THEN [choice |-> parse_socks_greeting(w),
          ec |-> validate_server_choice(<<5, parse_socks_greeting(w)>>, i,
                                        no_error)]
    ELSE IF k = "userpass" THEN parse_userpass_greeting(w)
    ELSE IF k = "request" THEN parse_socks_connect(w)
    ELSE IF k = "request_v4" THEN parse_socks_connect_v4(w)
    ELSE IF k = "reply" THEN parse_reply_v5(w)
    ELSE parse_reply_v4(w)

AllKinds == {"greeting", "userpass", "request", "request_v4", "reply",
             "reply_v4"}

WireInv ==
    /\ kind \in AllKinds /\ input \in Inputs(kind)
    /\ wire # <<>> => wire = Encoded(kind, input)
    /\ output # <<>> =>
          output = <<Decoded(kind, input, Encoded(kind, input))>>

\* The invariant holds before the message is built.
LEMMA WireInit == Init => WireInv
BY WireAssumption DEF Init, WireInv, AllKinds

\* Building and parsing keep the invariant.
LEMMA NextWireInv == WireInv /\ [Next]_vars => WireInv'
<1> SUFFICES ASSUME WireInv, [Next]_vars
             PROVE  WireInv'
  OBVIOUS
<1>1. ASSUME NEW k \in AllKinds, NEW b, Send(k, b), b = Encoded(k, input)
      PROVE  WireInv'
  BY <1>1, Zenon DEF WireInv, Send
<1>2. ASSUME NEW k \in AllKinds, NEW r, Receive(k, r),
             r = Decoded(k, input, wire)
      PROVE  WireInv'
  <2>1. kind = k /\ wire = Encoded(kind, input) /\ output' = <<r>>
    BY <1>2 DEF WireInv, Receive
  <2>2. UNCHANGED <<kind, input, wire>>
    BY <1>2 DEF Receive
  <2> QED
    BY <1>2, <2>1, <2>2, Zenon DEF WireInv
<1>3. CASE SendGreeting \/ SendUserpass \/ SendRequest
  BY <1>1, <1>3
     DEF SendGreeting, SendUserpass, SendRequest, Encoded, AllKinds
<1>4. CASE SendRequestV4 \/ SendReply \/ SendReplyV4
  BY <1>1, <1>4
     DEF SendRequestV4, SendReply, SendReplyV4, Encoded, AllKinds
<1>5. CASE ReceiveGreeting \/ ReceiveUserpass \/ ReceiveRequest
  BY <1>2, <1>5
     DEF ReceiveGreeting, ReceiveUserpass, ReceiveRequest, Decoded, AllKinds
<1>6. CASE ReceiveRequestV4 \/ ReceiveReply \/ ReceiveReplyV4
  BY <1>2, <1>6
     DEF ReceiveRequestV4, ReceiveReply, ReceiveReplyV4, Decoded, AllKinds
<1>7. CASE UNCHANGED vars
  BY <1>7, Zenon DEF vars, WireInv
<1> QED
  BY <1>3, <1>4, <1>5, <1>6, <1>7 DEF Next

\* The invariant holds in every reachable state.
THEOREM WireInvariance == Spec => []WireInv
BY WireInit, NextWireInv, PTL DEF Spec

(***************************************************************************)
(* The theorems.                                                           *)
(***************************************************************************)
\* The server reads out of each request the target that the client put into
\* it, for all addresses, names and ports (prepare_request and
\* parse_socks_connect, prepare_request_v4 and parse_socks_connect_v4).
THEOREM RequestsUnderstood == Spec => []RequestInterop
<1>1. WireInv => RequestInterop
  <2> SUFFICES ASSUME WireInv, output # <<>>
               PROVE  /\ kind = "request" =>
                            output[1] = [rep |-> 0, target |-> input]
                      /\ kind = "request_v4" =>
                            output[1] = [rep |-> 0, target |-> input.target]
    BY DEF RequestInterop, Received
  <2>1. output[1] = Decoded(kind, input, Encoded(kind, input))
    BY DEF WireInv
  <2>2. input \in Inputs(kind)
    BY DEF WireInv
  <2>3. CASE kind = "request"
    <3>1. input \in Target
      BY <2>2, <2>3, WireAssumption DEF Inputs
    <3>2. output[1] = parse_socks_connect(prepare_request(input))
      BY <2>1, <2>3 DEF Decoded, Encoded
    <3> QED
      BY <2>3, <3>1, <3>2, RequestParsed
  <2>4. CASE kind = "request_v4"
    <3>1. /\ input.target \in Target /\ input.target.kind = "v4"
          /\ input.user \in Seq(Byte)
      BY <2>2, <2>4, WireAssumption DEF Inputs
    <3>2. output[1] = parse_socks_connect_v4(
                        prepare_request_v4(input.target, input.user))
      BY <2>1, <2>4 DEF Decoded, Encoded
    <3> QED
      BY <2>4, <3>1, <3>2, RequestV4Parsed
  <2> QED
    BY <2>3, <2>4
<1> QED
  BY <1>1, WireInvariance, PTL

\* The client reports the server's verdict and its bound address, for every
\* code and every address (do_connect_reply and parse_reply_v5).
THEOREM RepliesUnderstood == Spec => []ReplyInterop
<1>1. WireInv => ReplyInterop
  <2> SUFFICES ASSUME WireInv, output # <<>>, kind = "reply"
               PROVE  /\ failed(output[1].ec) = (input.rep # 0)
                      /\ condition(output[1].ec.val)
                           = IF input.rep = 0 THEN "succeeded"
                                              ELSE "reply_error"
                      /\ input.rep \in reply_code =>
                            output[1].ec = socks(input.rep)
                      /\ output[1].ep = IF input.rep = 0 THEN input.bnd
                                                         ELSE no_endpoint
    BY DEF ReplyInterop, Received
  <2>1. input.rep \in Byte /\ input.bnd \in Endpoint
    BY WireAssumption DEF WireInv, Inputs
  <2>2. output[1] = Decoded(kind, input, Encoded(kind, input))
    BY DEF WireInv
  <2>3. output[1] = parse_reply_v5(connect_reply(input.rep, input.bnd))
    BY <2>2 DEF Decoded, Encoded
  <2>4. PICK v \in Byte, b \in Endpoint : v = input.rep /\ b = input.bnd
    BY <2>1
  <2>5. output[1] = [ec |-> socks(to_reply_code(v)),
                     ep |-> IF v = 0 THEN b ELSE no_endpoint]
    BY <2>3, <2>4, ReplyParsed
  <2>6. /\ output[1].ec = socks(to_reply_code(v))
        /\ output[1].ep = IF v = 0 THEN b ELSE no_endpoint
    BY <2>5
  <2>7. failed(socks(to_reply_code(v))) = (v # 0)
    <3>1. failed(socks(to_reply_code(v))) <=> v # 0
      BY VerdictFacts
    <3>2. failed(socks(to_reply_code(v))) \in BOOLEAN
      BY DEF failed, socks
    <3> QED
      BY <3>1, <3>2, Zenon
  <2> QED
    BY <2>4, <2>6, <2>7, VerdictFacts
<1> QED
  BY <1>1, WireInvariance, PTL

\* The same for the verdict and the port of a SOCKS4 reply
\* (do_connect_reply_v4 and parse_reply_v4).
THEOREM VerdictsV4Understood == Spec => []VerdictV4Interop
<1>1. WireInv => VerdictV4Interop
  <2> SUFFICES ASSUME WireInv, output # <<>>, kind = "reply_v4"
               PROVE  /\ failed(output[1].ec) = (input.rep # 90)
                      /\ condition(output[1].ec.val)
                           = IF input.rep = 90 THEN "succeeded"
                                               ELSE "reply_error"
                      /\ input.rep \in reply_code_v4 =>
                            output[1].ec = socks(input.rep)
                      /\ input.rep = 90 => output[1].ep.port = input.bnd.port
    BY DEF VerdictV4Interop, Received
  <2>1. input.rep \in Byte /\ input.bnd \in Endpoint
    BY WireAssumption DEF WireInv, Inputs
  <2>2. output[1] = Decoded(kind, input, Encoded(kind, input))
    BY DEF WireInv
  <2>3. output[1] = parse_reply_v4(connect_reply_v4(input.rep, input.bnd))
    BY <2>2 DEF Decoded, Encoded
  <2>4. PICK v \in Byte, b \in Endpoint : v = input.rep /\ b = input.bnd
    BY <2>1
  <2>5. /\ output[1].ec = socks(to_reply_code_v4(v))
        /\ v = 90 => output[1].ep.port = b.port
    BY <2>3, <2>4, ReplyV4Parsed
  <2>6. failed(socks(to_reply_code_v4(v))) = (v # 90)
    <3>1. failed(socks(to_reply_code_v4(v))) <=> v # 90
      BY VerdictV4Facts
    <3>2. failed(socks(to_reply_code_v4(v))) \in BOOLEAN
      BY DEF failed, socks
    <3> QED
      BY <3>1, <3>2, Zenon
  <2> QED
    BY <2>4, <2>5, <2>6, VerdictV4Facts
<1> QED
  BY <1>1, WireInvariance, PTL

\* Every message that the assertions admit fits into the 513 bytes of the
\* buffer (prepare_greeting, prepare_userpass_request, prepare_request).
THEOREM MessagesFitAlways == Spec => []MessagesFit
<1>1. WireInv => MessagesFit
  <2> SUFFICES ASSUME WireInv, kind \in {"greeting", "userpass", "request"}
               PROVE  Len(wire) <= buffer_size
    BY DEF MessagesFit
  <2>1. input \in Inputs(kind)
    BY DEF WireInv
  <2>2. Len(Encoded(kind, input)) <= 513
    <3>1. CASE kind = "greeting"
      <4>1. /\ input \in Credentials
            /\ Encoded(kind, input) = prepare_greeting(input)
        BY <2>1, <3>1, WireAssumption DEF Inputs, Encoded
      <4>2. Len(prepare_greeting(input)) \in Nat
        BY DEF prepare_greeting, prepare_methods
      <4> QED
        BY <4>1, <4>2, GreetingParsed
    <3>2. CASE kind = "userpass"
      <4>1. input \in Credentials
        BY <2>1, <3>2, WireAssumption DEF Inputs
      <4>2. Encoded(kind, input) = prepare_userpass_request(input)
        BY <3>2 DEF Encoded
      <4> QED
        BY <4>1, <4>2, UserpassParsed
    <3>3. CASE kind = "request"
      <4>1. input \in Target
        BY <2>1, <3>3, WireAssumption DEF Inputs
      <4>2. Encoded(kind, input) = prepare_request(input)
        BY <3>3 DEF Encoded
      <4> QED
        BY <4>1, <4>2, RequestParsed
    <3> QED
      BY <3>1, <3>2, <3>3
  <2>3. CASE wire = <<>>
    <3>1. Len(<<>>) = 0
      BY EmptySeq
    <3> QED
      BY <2>3, <3>1 DEF buffer_size
  <2>4. CASE wire # <<>>
    BY <2>2, <2>4 DEF WireInv, buffer_size
  <2> QED
    BY <2>3, <2>4
<1> QED
  BY <1>1, WireInvariance, PTL

\* The negotiation is understood on both sides, the message with the
\* credentials under the one condition that the code imposes on them: PWLEN
\* is the length of the user name, so the password must not be shorter
\* (prepare_userpass_request, parse_userpass_greeting).
THEOREM NegotiationUnderstood ==
    ASSUME \A o \in Opts : Len(o.user) <= Len(o.pass)
    PROVE  Spec => []NegotiationInterop
<1>1. WireInv => NegotiationInterop
  <2> SUFFICES ASSUME WireInv, output # <<>>
               PROVE  /\ kind = "greeting" =>
                           /\ output[1].choice
                                = IF input.is_userpass THEN 2 ELSE 0
                           /\ ~failed(output[1].ec)
                      /\ kind = "userpass" =>
                            output[1].ok /\ output[1].user = input.user
    BY DEF NegotiationInterop, Received
  <2>1. output[1] = Decoded(kind, input, Encoded(kind, input))
    BY DEF WireInv
  <2>2. input \in Inputs(kind)
    BY DEF WireInv
  <2>3. CASE kind = "greeting"
    <3>1. input \in Credentials
      BY <2>2, <2>3, WireAssumption DEF Inputs
    <3>2. PICK c : c = parse_socks_greeting(prepare_greeting(input))
      OBVIOUS
    <3>3. output[1] = [choice |-> c,
                       ec |-> validate_server_choice(<<5, c>>, input,
                                                     no_error)]
      BY <2>1, <2>3, <3>2 DEF Decoded, Encoded
    <3>4. c = IF input.is_userpass THEN 2 ELSE 0
      BY <3>1, <3>2, GreetingParsed
    <3>5. validate_server_choice(<<5, c>>, input, no_error) = no_error
      BY <3>1, <3>4, ChoiceAccepted
    <3>6. ~failed(no_error)
      BY DEF failed, no_error
    <3> QED
      BY <2>3, <3>3, <3>4, <3>5, <3>6
  <2>4. CASE kind = "userpass"
    <3>1. input \in Credentials /\ Len(input.user) <= Len(input.pass)
      BY <2>2, <2>4, WireAssumption DEF Inputs
    <3>2. output[1]
            = parse_userpass_greeting(prepare_userpass_request(input))
      BY <2>1, <2>4 DEF Decoded, Encoded
    <3> QED
      BY <2>4, <3>1, <3>2, UserpassParsed
  <2> QED
    BY <2>3, <2>4
<1> QED
  BY <1>1, WireInvariance, PTL
=============================================================================
