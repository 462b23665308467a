------------------------- MODULE SocksClientProofs -------------------------
(***************************************************************************)
(* Theorems about the example clients, for every result of the resolver,   *)
(* every set of error codes of the library and of endpoints: types, that   *)
(* HTTP is spoken only through a granted tunnel to the target of the URL   *)
(* (if it has a host), what the exit status says of the page, and the      *)
(* order of the addresses.                                                 *)
(***************************************************************************)
EXTENDS SocksClient, SequenceTheorems, TLAPS

(***************************************************************************)
(* The inductive invariant.                                                *)
(***************************************************************************)
Preparing == {"parse", "proxy_resolve", "proxy_connect", "socks_connect",
              "target_resolve"}

\* The SOCKS server is not given the name: the client resolves it.
ByAddress == version = 4 /\ urls.target = "name"

\* Before the first operation nothing was resolved or asked for.
PreparingInv ==
    stage \in Preparing =>
        /\ results = <<>> /\ tried = <<>> /\ page = "none"
        /\ state = "negotiating"

\* Resolution is for names that the server cannot be given, and the loop is
\* the synchronous client's.
ResolvedInv ==
    /\ stage = "target_resolve" => ByAddress
    /\ stage = "next" => mode = "sync" /\ results # <<>>
    /\ results # <<>> => ByAddress

\* How far the loop has come.
LoopPosition == Len(results) - Len(rest)

\* What was asked for when the client is in an operation or in the loop: in
\* the loop of the synchronous client everything up to its position, in the
\* asynchronous one the first address.
OrderInv ==
    /\ results # <<>> /\ mode = "sync" => AskedUpTo(LoopPosition)
    /\ results # <<>> /\ mode = "async" =>
          /\ Len(tried) <= 1
          /\ \E k \in 0..Len(results) : AskedUpTo(k)
          /\ tried = <<>> => V4Places(results) = {} /\ stage = "exited"

\* In the loop, the error code is that of the last operation, or tells that
\* there was none so far.
LoopInv ==
    stage = "next" =>
        /\ tried # <<>> => state = "done" /\ failed(ec) /\ err = ec
        /\ tried = <<>> => err = IF rest = results THEN no_error
                                                   ELSE host_not_found

\* An operation at work was asked for a wanted target, and if it is over
\* without failure it was granted.
OperationInv ==
    stage = "operation" =>
        /\ tried # <<>> /\ Wanted(tried[Len(tried)])
        /\ urls.target # "none"
        /\ page = "none"
        /\ ByAddress => results # <<>>
        /\ state = "done" /\ ~failed(ec) => granted

\* HTTP begins after the operations.
PageInv ==
    /\ page # "none" => stage \in {"read", "exited"}
    /\ stage = "read" => page = "asked"

ClientInv ==
    /\ TypeOK /\ PreparingInv /\ ResolvedInv /\ OrderInv /\ LoopInv
    /\ OperationInv /\ PageInv
    /\ TunnelBeforeHttp /\ ExitTruthUnlessHostless /\ AddressesInOrder

(***************************************************************************)
(* Operators.                                                              *)
(***************************************************************************)
\* Which of the error codes of the client are failures.
LEMMA ErrorFacts ==
    /\ no_error \in error_code /\ ~failed(no_error)
    /\ broken_pipe \in error_code /\ failed(broken_pipe)
    /\ connection_reset \in error_code /\ failed(connection_reset)
    /\ \A e \in client_error : failed(e)
    /\ no_error # host_not_found
<1>1. /\ no_error \in error_code
      /\ broken_pipe \in error_code /\ connection_reset \in error_code
  BY DEF error_code, transport_error
<1>2. ~failed(no_error) /\ failed(broken_pipe) /\ failed(connection_reset)
  BY DEF failed, no_error, broken_pipe, connection_reset
<1>3. \A e \in client_error : failed(e)
  BY DEF client_error, failed, invalid_url, connection_refused,
         host_not_found, operation_not_supported, no_protocol_option,
         end_of_stream, partial_message, bad_version, not_connected
<1>4. no_error # host_not_found
  BY DEF no_error, host_not_found
<1> QED
  BY <1>1, <1>2, <1>3, <1>4

\* The library judges an error code as the client does.
LEMMA SameFailure == \A e : Op!failed(e) <=> failed(e)
BY DEF failed, Op!failed, request_granted, Op!request_granted

\* The part of no addresses at all is empty.
LEMMA V4PartEmpty ==
    ASSUME NEW r \in Seq(Address)
    PROVE  IsV4Part(<<>>, r, 0)
<1>1. DOMAIN <<>> = {}
  OBVIOUS
<1> DEFINE f == [i \in {} |-> i]
<1>2. f \in [DOMAIN <<>> -> 1..0]
  BY <1>1
<1>3. {f[i] : i \in DOMAIN <<>>} = {}
  BY <1>1
<1>4. {i \in V4Places(r) : i <= 0} = {}
  BY DEF V4Places
<1> QED
  BY <1>1, <1>2, <1>3, <1>4, Zenon DEF IsV4Part

\* An address that is not IPv4 adds nothing to the part.
LEMMA V4PartSkip ==
    ASSUME NEW s, NEW r \in Seq(Address), NEW k \in Nat,
           k < Len(r), ~is_v4(r[k + 1]), IsV4Part(s, r, k)
    PROVE  IsV4Part(s, r, k + 1)
<1>1. PICK f \in [DOMAIN s -> 1..k] :
        /\ \A i, j \in DOMAIN s : i < j => f[i] < f[j]
        /\ \A i \in DOMAIN s : s[i] = r[f[i]]
        /\ {f[i] : i \in DOMAIN s} = {i \in V4Places(r) : i <= k}
  BY DEF IsV4Part
<1>2. f \in [DOMAIN s -> 1..(k + 1)]
  OBVIOUS
<1>3. {i \in V4Places(r) : i <= k} = {i \in V4Places(r) : i <= k + 1}
  BY DEF V4Places
<1> QED
  BY <1>1, <1>2, <1>3, Zenon DEF IsV4Part

\* An IPv4 address is the next of the part.
LEMMA V4PartTake ==
    ASSUME NEW s \in Seq(Host \cup Address), NEW r \in Seq(Address),
           NEW k \in Nat, k < Len(r), is_v4(r[k + 1]), IsV4Part(s, r, k)
    PROVE  IsV4Part(Append(s, r[k + 1]), r, k + 1)
<1>1. PICK f \in [DOMAIN s -> 1..k] :
        /\ \A i, j \in DOMAIN s : i < j => f[i] < f[j]
        /\ \A i \in DOMAIN s : s[i] = r[f[i]]
        /\ {f[i] : i \in DOMAIN s} = {i \in V4Places(r) : i <= k}
  BY DEF IsV4Part
<1> DEFINE z == Len(s)
           t == Append(s, r[k + 1])
           g == [i \in 1..(z + 1) |-> IF i = z + 1 THEN k + 1 ELSE f[i]]
<1>2. z \in Nat /\ DOMAIN s = 1..z
  OBVIOUS
<1>3. /\ DOMAIN t = 1..(z + 1) /\ t[z + 1] = r[k + 1]
      /\ \A i \in 1..z : t[i] = s[i]
  OBVIOUS
<1> HIDE DEF z, t
<1>4. g[z + 1] = k + 1 /\ \A i \in 1..z : g[i] = f[i] /\ f[i] \in 1..k
  BY <1>2
<1>5. g \in [1..(z + 1) -> 1..(k + 1)]
  BY <1>2
<1> HIDE DEF g
<1>6. \A i, j \in 1..(z + 1) : i < j => g[i] < g[j]
  <2> SUFFICES ASSUME NEW i \in 1..(z + 1), NEW j \in 1..(z + 1), i < j
               PROVE  g[i] < g[j]
    OBVIOUS
  <2>1. i \in 1..z
    BY <1>2
  <2>2. CASE j = z + 1
    BY <1>4, <2>1, <2>2
  <2>3. CASE j # z + 1
    <3>1. j \in 1..z
      BY <1>2, <2>3
    <3> QED
      BY <1>1, <1>2, <1>4, <2>1, <3>1
  <2> QED
    BY <2>2, <2>3
<1>7. \A i \in 1..(z + 1) : t[i] = r[g[i]]
  <2> SUFFICES ASSUME NEW i \in 1..(z + 1)
               PROVE  t[i] = r[g[i]]
    OBVIOUS
  <2>1. CASE i = z + 1
    BY <1>3, <1>4, <2>1
  <2>2. CASE i # z + 1
    <3>1. i \in 1..z
      BY <1>2, <2>2
    <3> QED
      BY <1>1, <1>2, <1>3, <1>4, <3>1
  <2> QED
    BY <2>1, <2>2
<1>8. {g[i] : i \in 1..(z + 1)} = {i \in V4Places(r) : i <= k + 1}
  <2>1. k + 1 \in V4Places(r)
    BY DEF V4Places
  <2>2. ASSUME NEW i \in 1..(z + 1)
        PROVE  g[i] \in V4Places(r) /\ g[i] <= k + 1
    <3>1. CASE i = z + 1
      BY <1>4, <2>1, <3>1
    <3>2. CASE i # z + 1
      <4>1. i \in 1..z
        BY <1>2, <3>2
      <4>2. f[i] \in {q \in V4Places(r) : q <= k}
        BY <1>1, <1>2, <4>1
      <4> QED
        BY <1>4, <4>1, <4>2
    <3> QED
      BY <3>1, <3>2
  <2>3. ASSUME NEW q \in V4Places(r), q <= k + 1
        PROVE  \E i \in 1..(z + 1) : g[i] = q
    <3>1. CASE q = k + 1
      BY <1>2, <1>4, <3>1
    <3>2. CASE q # k + 1
      <4>1. q \in {p \in V4Places(r) : p <= k}
        BY <2>3, <3>2 DEF V4Places
      <4>2. PICK i \in 1..z : f[i] = q
        BY <1>1, <1>2, <4>1
      <4>3. i \in 1..(z + 1) /\ g[i] = q
        BY <1>2, <1>4, <4>2
      <4> QED
        BY <4>3, Zenon
    <3> QED
      BY <3>1, <3>2
  <2> QED
    BY <2>2, <2>3
<1>9. IsV4Part(t, r, k + 1)
  <2> DEFINE D == 1..(z + 1)
  <2>1. /\ DOMAIN t = D /\ g \in [D -> 1..(k + 1)]
        /\ \A i, j \in D : i < j => g[i] < g[j]
        /\ \A i \in D : t[i] = r[g[i]]
        /\ {g[i] : i \in D} = {i \in V4Places(r) : i <= k + 1}
    BY <1>3, <1>5, <1>6, <1>7, <1>8
  <2> HIDE DEF D
  <2> QED
    BY <2>1, Zenon DEF IsV4Part
<1> QED
  BY <1>9, Zenon DEF t

\* The first IPv4 address is the part of those up to its place.
LEMMA V4PartFirst ==
    ASSUME NEW r \in Seq(Address), NEW p \in V4Places(r),
           \A q \in V4Places(r) : p <= q
    PROVE  p \in 1..Len(r) /\ IsV4Part(<<r[p]>>, r, p)
<1>1. p \in 1..Len(r) /\ \A q \in V4Places(r) : q \in Nat
  BY DEF V4Places
<1> DEFINE s == <<r[p]>>
           f == [i \in {1} |-> p]
<1>2. DOMAIN s = {1} /\ s[1] = r[p]
  OBVIOUS
<1>3. f \in [{1} -> 1..p] /\ f[1] = p
  BY <1>1
<1> HIDE DEF s, f
<1>4. {f[i] : i \in {1}} = {i \in V4Places(r) : i <= p}
  <2>1. \A i \in V4Places(r) : i <= p => i = p
    BY <1>1
  <2>2. p <= p
    BY <1>1
  <2> QED
    BY <1>3, <2>1, <2>2
<1>5. \A i, j \in {1} : i < j => f[i] < f[j]
  OBVIOUS
<1>6. \A i \in {1} : s[i] = r[f[i]]
  BY <1>2, <1>3
<1>7. IsV4Part(s, r, p)
  BY <1>2, <1>3, <1>4, <1>5, <1>6, Zenon DEF IsV4Part
<1> QED
  BY <1>1, <1>7 DEF s

\* The part of all addresses is empty only if none of them is IPv4.
LEMMA V4PartAll ==
    ASSUME NEW s \in Seq(Host \cup Address), NEW r \in Seq(Address),
           IsV4Part(s, r, Len(r))
    PROVE  s = <<>> <=> V4Places(r) = {}
<1>1. PICK f \in [DOMAIN s -> 1..Len(r)] :
        {f[i] : i \in DOMAIN s} = {i \in V4Places(r) : i <= Len(r)}
  BY DEF IsV4Part
<1>2. {i \in V4Places(r) : i <= Len(r)} = V4Places(r)
  BY DEF V4Places
<1>3. s = <<>> <=> DOMAIN s = {}
  OBVIOUS
<1> QED
  BY <1>1, <1>2, <1>3

\* The loop is at a place of the list of addresses, and what is left of it
\* begins there.
LEMMA RestFacts ==
    ASSUME TypeOK
    PROVE  /\ results \in Seq(Address) /\ rest \in Seq(Address)
           /\ LoopPosition \in 0..Len(results)
           /\ Len(rest) = Len(results) - LoopPosition
           /\ rest = SubSeq(results, LoopPosition + 1, Len(results))
           /\ rest # <<>> =>
                 /\ LoopPosition < Len(results)
                 /\ Head(rest) = results[LoopPosition + 1]
                 /\ Tail(rest)
                      = SubSeq(results, LoopPosition + 2, Len(results))
<1>1. results \in Seq(Address)
  BY ClientAssumption DEF TypeOK
<1>2. PICK k \in 0..Len(results) : rest = SubSeq(results, k + 1, Len(results))
  BY DEF TypeOK
<1>3. Len(results) \in Nat /\ k \in Nat /\ k <= Len(results)
  BY <1>1
<1> DEFINE z == Len(results)
<1>4. rest \in Seq(Address) /\ Len(rest) = z - k
  BY <1>1, <1>2, <1>3
<1>5. LoopPosition = k
  BY <1>3, <1>4 DEF LoopPosition
<1>6. ASSUME rest # <<>>
      PROVE  /\ k < z /\ Head(rest) = results[k + 1]
             /\ Tail(rest) = SubSeq(results, k + 2, z)
  <2>1. Len(rest) # 0
    BY <1>4, <1>6, EmptySeq
  <2>2. k < z
    BY <1>3, <1>4, <2>1
  <2>3. Head(rest) = results[k + 1]
    BY <1>1, <1>2, <1>3, <2>2
  <2>4. Tail(rest) = SubSeq(results, k + 2, z)
    BY <1>1, <1>2, <1>3, <2>2
  <2> QED
    BY <2>2, <2>3, <2>4
<1> QED
  BY <1>1, <1>2, <1>3, <1>4, <1>5, <1>6

(***************************************************************************)
(* The steps.                                                              *)
(***************************************************************************)
\* The invariant holds before the URLs are parsed.
LEMMA ClientInit == Init => ClientInv
<1> SUFFICES ASSUME Init PROVE ClientInv
  OBVIOUS
<1> USE DEF Init, Op!Init
<1>1. /\ results = <<>> /\ rest = <<>> /\ tried = <<>> /\ stage = "parse"
      /\ page = "none" /\ exit = "none" /\ state = "negotiating"
      /\ err = no_error /\ ec = no_error /\ ep = no_endpoint
      /\ granted = FALSE /\ lost = FALSE
  BY DEF no_error, Op!no_error, no_endpoint, Op!no_endpoint
<1>2. TypeOK
  <2>1. rest = SubSeq(results, 0 + 1, Len(results)) /\ 0 \in 0..Len(results)
    BY <1>1
  <2>2. granted \in BOOLEAN /\ lost \in BOOLEAN
    BY <1>1, Zenon
  <2>3. /\ mode \in {"sync", "async"}
        /\ urls \in [target : Host, scheme : Scheme, proxy : Host]
    BY Zenon
  <2>4. /\ results \in Resolutions \cup {<<>>}
        /\ tried \in Seq(Host \cup Address)
    BY <1>1
  <2> QED
    BY <1>1, <2>1, <2>2, <2>3, <2>4, ErrorFacts DEF TypeOK, Stages
<1>3. PreparingInv /\ ResolvedInv /\ OrderInv /\ LoopInv
  BY <1>1 DEF PreparingInv, ResolvedInv, OrderInv, LoopInv
<1>4. OperationInv /\ PageInv
  BY <1>1 DEF OperationInv, PageInv
<1>5. TunnelBeforeHttp /\ ExitTruthUnlessHostless /\ AddressesInOrder
  BY <1>1 DEF TunnelBeforeHttp, ExitTruthUnlessHostless, AddressesInOrder
<1> QED
  BY <1>2, <1>3, <1>4, <1>5 DEF ClientInv

\* Before the first operation a step goes on or ends the client.
LEMMA ProceedInv ==
    ASSUME ClientInv, NEW e \in error_code \cup client_error,
           stage \in {"parse", "proxy_resolve", "proxy_connect"},
           NEW label \in {"proxy_resolve", "proxy_connect", "socks_connect"},
           Proceed(e, label),
           UNCHANGED <<results, rest, tried, page, op_vars, lost, mode, urls>>
    PROVE  ClientInv'
<1>1. TypeOK /\ PreparingInv /\ ExitTruthUnlessHostless
  BY DEF ClientInv
<1>2. /\ results = <<>> /\ tried = <<>> /\ page = "none"
      /\ state = "negotiating" /\ exit = "none"
  BY <1>1 DEF PreparingInv, Preparing, TypeOK
<1>3. /\ results' = results /\ rest' = rest /\ tried' = tried /\ page' = page
      /\ state' = state /\ granted' = granted /\ ec' = ec /\ ep' = ep
      /\ lost' = lost /\ mode' = mode /\ urls' = urls
  BY DEF op_vars
<1>4. /\ err' = e
      /\ \/ stage' = label /\ exit' = exit
         \/ stage' = "exited" /\ exit' = "failure" /\ failed(e)
  BY DEF Proceed, Fail, Leave, GoOn
<1>5. TypeOK'
  BY <1>1, <1>2, <1>3, <1>4 DEF TypeOK, Stages
<1>6. PreparingInv' /\ ResolvedInv' /\ OrderInv' /\ LoopInv'
  BY <1>2, <1>3, <1>4 DEF PreparingInv, ResolvedInv, OrderInv, LoopInv
<1>7. OperationInv' /\ PageInv'
  BY <1>2, <1>3, <1>4 DEF OperationInv, PageInv
<1>8. TunnelBeforeHttp' /\ ExitTruthUnlessHostless' /\ AddressesInOrder'
  BY <1>2, <1>3, <1>4
     DEF TunnelBeforeHttp, ExitTruthUnlessHostless, AddressesInOrder
<1> QED
  BY <1>5, <1>6, <1>7, <1>8 DEF ClientInv

\* The address of a URL cannot be parsed, and the process is terminated.
LEMMA TerminateInv ==
    ASSUME ClientInv, stage \in {"proxy_resolve", "socks_connect"},
           NEW h \in {urls.proxy, urls.target}, get_endpoint_unchecked(h),
           UNCHANGED <<results, rest, tried, page, op_vars, lost, mode, urls>>
    PROVE  ClientInv'
<1>1. TypeOK /\ PreparingInv
  BY DEF ClientInv
<1>2. results = <<>> /\ page = "none"
  BY <1>1 DEF PreparingInv, Preparing
<1>3. /\ results' = results /\ rest' = rest /\ tried' = tried /\ page' = page
      /\ state' = state /\ granted' = granted /\ ec' = ec /\ ep' = ep
      /\ lost' = lost /\ mode' = mode /\ urls' = urls
  BY DEF op_vars
<1>4. /\ stage' = "exited" /\ exit' = "terminated" /\ err' = err
      /\ "ipv6" \in {urls.proxy, urls.target}
  BY DEF get_endpoint_unchecked, Leave
<1>5. TypeOK'
  BY <1>1, <1>3, <1>4 DEF TypeOK, Stages
<1>6. PreparingInv' /\ ResolvedInv' /\ OrderInv' /\ LoopInv'
  BY <1>2, <1>3, <1>4
     DEF PreparingInv, Preparing, ResolvedInv, OrderInv, LoopInv
<1>7. OperationInv' /\ PageInv'
  BY <1>2, <1>3, <1>4 DEF OperationInv, PageInv
<1>8. TunnelBeforeHttp' /\ ExitTruthUnlessHostless' /\ AddressesInOrder'
  BY <1>2, <1>3, <1>4
     DEF TunnelBeforeHttp, ExitTruthUnlessHostless, AddressesInOrder
<1> QED
  BY <1>5, <1>6, <1>7, <1>8 DEF ClientInv

\* The choice of the operation.
LEMMA SocksConnectInv ==
    ASSUME ClientInv, do_socks_connect, UNCHANGED <<mode, urls>>
    PROVE  ClientInv'
<1>1. TypeOK /\ PreparingInv
  BY DEF ClientInv
<1>2. /\ stage = "socks_connect" /\ results = <<>> /\ tried = <<>>
      /\ page = "none" /\ state = "negotiating" /\ exit = "none"
      /\ urls.target \in Host
  BY <1>1 DEF PreparingInv, Preparing, TypeOK, do_socks_connect
<1>3. /\ results' = results /\ rest' = rest /\ page' = page
      /\ ec' = ec /\ ep' = ep
      /\ lost' = lost /\ mode' = mode /\ urls' = urls /\ err' = err
  BY DEF do_socks_connect, op_vars, GoOn, Leave, StartOperation,
         get_endpoint_unchecked
<1>4. CASE urls.target = "name" /\ version = 4
  <2>1. /\ stage' = "target_resolve" /\ exit' = exit /\ tried' = tried
        /\ state' = state /\ granted' = granted
    BY <1>4 DEF do_socks_connect, op_vars, GoOn
  <2>2. ByAddress'
    BY <1>3, <1>4 DEF ByAddress, version
  <2>3. TypeOK'
    BY <1>1, <1>2, <1>3, <2>1 DEF TypeOK, Stages
  <2>4. PreparingInv' /\ ResolvedInv' /\ OrderInv' /\ LoopInv'
    BY <1>2, <1>3, <2>1, <2>2 DEF PreparingInv, ResolvedInv, OrderInv, LoopInv
  <2>5. OperationInv' /\ PageInv'
    BY <1>2, <1>3, <2>1 DEF OperationInv, PageInv
  <2>6. TunnelBeforeHttp' /\ ExitTruthUnlessHostless' /\ AddressesInOrder'
    BY <1>2, <1>3, <2>1
       DEF TunnelBeforeHttp, ExitTruthUnlessHostless, AddressesInOrder
  <2> QED
    BY <2>3, <2>4, <2>5, <2>6 DEF ClientInv
<1>5. CASE urls.target = "none"
  <2>1. /\ tried' = tried /\ state' = state /\ granted' = granted
        /\ \/ stage' = "write" /\ exit' = exit
           \/ stage' = "exited" /\ exit' = "success" /\ mode = "async"
    <3>1. urls.target # "name"
      BY <1>5
    <3> QED
      BY <1>1, <1>5, <3>1
         DEF do_socks_connect, op_vars, GoOn, Leave, TypeOK
  <2>2. TypeOK'
    BY <1>1, <1>2, <1>3, <2>1 DEF TypeOK, Stages
  <2>3. PreparingInv' /\ ResolvedInv' /\ OrderInv' /\ LoopInv'
    BY <1>2, <1>3, <2>1
       DEF PreparingInv, Preparing, ResolvedInv, OrderInv, LoopInv
  <2>4. OperationInv' /\ PageInv'
    BY <1>2, <1>3, <2>1 DEF OperationInv, PageInv
  <2>5. TunnelBeforeHttp' /\ ExitTruthUnlessHostless' /\ AddressesInOrder'
    BY <1>2, <1>3, <1>5, <2>1
       DEF TunnelBeforeHttp, ExitTruthUnlessHostless, NothingStarted,
           AddressesInOrder
  <2> QED
    BY <2>2, <2>3, <2>4, <2>5 DEF ClientInv
<1>6. CASE /\ ~(urls.target = "name" /\ version = 4) /\ urls.target # "none"
           /\ StartOperation(urls.target)
  <2>1. /\ stage' = "operation" /\ tried' = Append(tried, urls.target)
        /\ state' = "negotiating" /\ granted' = FALSE /\ exit' = exit
    BY <1>6 DEF StartOperation
  <2>2. /\ tried' \in Seq(Host \cup Address) /\ tried' # <<>>
        /\ tried'[Len(tried')] = urls.target
    BY <1>2, <2>1
  <2>3. TypeOK'
    <3>1. granted' \in BOOLEAN
      BY <2>1, Zenon
    <3> QED
      BY <1>1, <1>2, <1>3, <2>1, <2>2, <3>1 DEF TypeOK, Stages
  <2>4. PreparingInv' /\ ResolvedInv' /\ OrderInv' /\ LoopInv'
    BY <1>2, <1>3, <2>1
       DEF PreparingInv, Preparing, ResolvedInv, OrderInv, LoopInv
  <2>5. OperationInv' /\ PageInv'
    <3>1. ~ByAddress' /\ Wanted(urls.target)'
      BY <1>3, <1>6 DEF ByAddress, Wanted, version
    <3> QED
      BY <1>2, <1>3, <1>6, <2>1, <2>2, <3>1 DEF OperationInv, PageInv
  <2>6. TunnelBeforeHttp' /\ ExitTruthUnlessHostless' /\ AddressesInOrder'
    BY <1>2, <1>3, <2>1
       DEF TunnelBeforeHttp, ExitTruthUnlessHostless, AddressesInOrder
  <2> QED
    BY <2>3, <2>4, <2>5, <2>6 DEF ClientInv
<1>7. CASE /\ ~(urls.target = "name" /\ version = 4) /\ urls.target # "none"
           /\ get_endpoint_unchecked(urls.target)
           /\ UNCHANGED <<tried, op_vars>>
  <2>1. UNCHANGED <<results, rest, page, lost>>
    BY DEF do_socks_connect
  <2> QED
    BY <1>2, <1>7, <2>1, TerminateInv
<1> QED
  BY <1>4, <1>5, <1>6, <1>7 DEF do_socks_connect

\* A resolution that fails.
LEMMA TargetResolveFailsInv ==
    ASSUME ClientInv, TargetResolveFails, UNCHANGED <<mode, urls>>
    PROVE  ClientInv'
<1>1. TypeOK /\ PreparingInv
  BY DEF ClientInv
<1>2. /\ stage = "target_resolve" /\ results = <<>> /\ tried = <<>>
      /\ page = "none" /\ state = "negotiating" /\ exit = "none"
  BY <1>1 DEF PreparingInv, Preparing, TypeOK, TargetResolveFails
<1>3. /\ results' = results /\ rest' = rest /\ page' = page /\ tried' = tried
      /\ ec' = ec /\ ep' = ep /\ state' = state /\ granted' = granted
      /\ lost' = lost /\ mode' = mode /\ urls' = urls
      /\ err' = host_not_found /\ stage' = "exited" /\ exit' = "failure"
  BY DEF TargetResolveFails, op_vars, Fail, Leave
<1>4. host_not_found \in client_error /\ failed(host_not_found)
  BY ErrorFacts DEF client_error
<1>5. TypeOK'
  BY <1>1, <1>2, <1>3, <1>4 DEF TypeOK, Stages
<1>6. PreparingInv' /\ ResolvedInv' /\ OrderInv' /\ LoopInv'
  BY <1>2, <1>3 DEF PreparingInv, Preparing, ResolvedInv, OrderInv, LoopInv
<1>7. OperationInv' /\ PageInv'
  BY <1>2, <1>3 DEF OperationInv, PageInv
<1>8. TunnelBeforeHttp' /\ ExitTruthUnlessHostless' /\ AddressesInOrder'
  BY <1>2, <1>3, <1>4
     DEF TunnelBeforeHttp, ExitTruthUnlessHostless, AddressesInOrder
<1> QED
  BY <1>5, <1>6, <1>7, <1>8 DEF ClientInv

\* The resolver returns the addresses of the target.
LEMMA TargetResolveInv ==
    ASSUME ClientInv, TargetResolve, UNCHANGED <<mode, urls>>
    PROVE  ClientInv'
<1>1. TypeOK /\ PreparingInv /\ ResolvedInv
  BY DEF ClientInv
<1>2. /\ stage = "target_resolve" /\ results = <<>> /\ tried = <<>>
      /\ page = "none" /\ state = "negotiating" /\ exit = "none"
      /\ ByAddress /\ mode \in {"sync", "async"}
  BY <1>1 DEF PreparingInv, ResolvedInv, Preparing, TypeOK, TargetResolve
<1>3. PICK r \in Resolutions :
        /\ results' = r
        /\ IF mode = "sync"
           THEN /\ GoOn(no_error, "next")
                /\ rest' = r /\ UNCHANGED <<tried, op_vars>>
           ELSE /\ rest' = <<>>
                /\ IF V4Places(r) = {}
                   THEN Fail(host_not_found) /\ UNCHANGED <<tried, op_vars>>
                   ELSE \E i \in V4Places(r) :
                          /\ \A j \in V4Places(r) : i <= j
                          /\ StartOperation(r[i])
  BY DEF TargetResolve
<1>4. /\ page' = page /\ lost' = lost /\ mode' = mode /\ urls' = urls
      /\ ByAddress' /\ urls'.target = "name" /\ version' = 4
  BY <1>2 DEF TargetResolve, ByAddress, version
<1>5. r \in Seq(Address) /\ r # <<>> /\ Len(r) \in Nat
  BY ClientAssumption
<1>6. /\ host_not_found \in client_error /\ failed(host_not_found)
      /\ no_error \in error_code
  BY ErrorFacts DEF client_error
<1>7. CASE mode = "sync"
  <2>1. /\ stage' = "next" /\ err' = no_error /\ exit' = exit /\ rest' = r
        /\ tried' = tried /\ state' = state /\ granted' = granted
        /\ ec' = ec /\ ep' = ep
    BY <1>3, <1>7 DEF GoOn, op_vars
  <2>2. TypeOK'
    <3>1. r = SubSeq(r, 0 + 1, Len(r)) /\ 0 \in 0..Len(r)
      BY <1>5
    <3> QED
      BY <1>1, <1>2, <1>3, <1>4, <1>6, <2>1, <3>1 DEF TypeOK, Stages
  <2>3. IsV4Part(<<>>, r, 0)
    BY <1>5, V4PartEmpty
  <2>4. LoopPosition' = 0
    BY <1>3, <1>5, <2>1 DEF LoopPosition
  <2>5. AskedUpTo(LoopPosition)' /\ \E k \in 0..Len(r) : AskedUpTo(k)'
    BY <1>2, <1>3, <1>5, <2>1, <2>3, <2>4 DEF AskedUpTo
  <2>6. PreparingInv' /\ ResolvedInv' /\ OrderInv' /\ LoopInv'
    BY <1>2, <1>3, <1>4, <1>5, <1>7, <2>1, <2>5
       DEF PreparingInv, Preparing, ResolvedInv, OrderInv, LoopInv
  <2>7. OperationInv' /\ PageInv'
    BY <1>2, <1>4, <2>1 DEF OperationInv, PageInv
  <2>8. TunnelBeforeHttp' /\ ExitTruthUnlessHostless' /\ AddressesInOrder'
    BY <1>2, <1>3, <1>4, <1>7, <2>1, <2>5
       DEF TunnelBeforeHttp, ExitTruthUnlessHostless, AddressesInOrder
  <2> QED
    BY <2>2, <2>6, <2>7, <2>8 DEF ClientInv
<1>8. CASE mode = "async" /\ V4Places(r) = {}
  <2>1. /\ stage' = "exited" /\ err' = host_not_found /\ exit' = "failure"
        /\ tried' = tried /\ state' = state /\ granted' = granted
        /\ ec' = ec /\ ep' = ep /\ rest' = <<>>
    BY <1>3, <1>8 DEF Fail, Leave, op_vars
  <2>2. TypeOK'
    <3>1. <<>> = SubSeq(r, Len(r) + 1, Len(r)) /\ Len(r) \in 0..Len(r)
      BY <1>5
    <3> QED
      BY <1>1, <1>2, <1>3, <1>4, <1>6, <2>1, <3>1 DEF TypeOK, Stages
  <2>3. \E k \in 0..Len(r) : AskedUpTo(k)'
    BY <1>2, <1>3, <1>5, <2>1, V4PartEmpty DEF AskedUpTo
  <2>4. Len(tried') <= 1
    BY <1>2, <2>1
  <2>5. PreparingInv' /\ ResolvedInv' /\ OrderInv' /\ LoopInv'
    BY <1>2, <1>3, <1>4, <1>5, <1>8, <2>1, <2>3, <2>4
       DEF PreparingInv, Preparing, ResolvedInv, OrderInv, LoopInv
  <2>6. OperationInv' /\ PageInv'
    BY <1>2, <1>4, <2>1 DEF OperationInv, PageInv
  <2>7. TunnelBeforeHttp' /\ ExitTruthUnlessHostless' /\ AddressesInOrder'
    BY <1>2, <1>3, <1>4, <1>6, <1>8, <2>1, <2>3, <2>4
       DEF TunnelBeforeHttp, ExitTruthUnlessHostless, AddressesInOrder
  <2> QED
    BY <2>2, <2>5, <2>6, <2>7 DEF ClientInv
<1>9. CASE mode = "async" /\ V4Places(r) # {}
  <2>1. PICK p \in V4Places(r) :
          (\A q \in V4Places(r) : p <= q) /\ StartOperation(r[p])
    BY <1>3, <1>9
  <2>2. p \in 1..Len(r) /\ IsV4Part(<<r[p]>>, r, p) /\ r[p] \in Address
    BY <1>5, <2>1, V4PartFirst
  <2>3. /\ stage' = "operation" /\ err' = err /\ exit' = exit
        /\ tried' = <<r[p]>> /\ state' = "negotiating" /\ granted' = FALSE
        /\ ec' = ec /\ ep' = ep /\ rest' = <<>>
    BY <1>2, <1>3, <1>9, <2>1 DEF StartOperation
  <2>4. /\ tried' \in Seq(Host \cup Address) /\ Len(tried') = 1
        /\ tried'[1] = r[p] /\ tried' # <<>>
    BY <2>2, <2>3
  <2>5. TypeOK'
    <3>1. <<>> = SubSeq(r, Len(r) + 1, Len(r)) /\ Len(r) \in 0..Len(r)
      BY <1>5
    <3>2. granted' \in BOOLEAN
      BY <2>3, Zenon
    <3> QED
      BY <1>1, <1>2, <1>3, <1>4, <2>3, <2>4, <3>1, <3>2 DEF TypeOK, Stages
  <2>6. \E k \in 0..Len(r) : AskedUpTo(k)'
    BY <1>3, <1>5, <2>2, <2>3 DEF AskedUpTo
  <2>7. PreparingInv' /\ ResolvedInv' /\ OrderInv' /\ LoopInv'
    BY <1>2, <1>3, <1>4, <1>5, <1>9, <2>3, <2>4, <2>6
       DEF PreparingInv, Preparing, ResolvedInv, OrderInv, LoopInv
  <2>8. OperationInv' /\ PageInv'
    <3>1. Wanted(r[p])'
      BY <1>3, <1>4, <2>1 DEF Wanted
    <3> QED
      BY <1>2, <1>3, <1>4, <1>5, <2>3, <2>4, <3>1 DEF OperationInv, PageInv
  <2>9. TunnelBeforeHttp' /\ ExitTruthUnlessHostless' /\ AddressesInOrder'
    BY <1>2, <1>3, <1>4, <1>9, <2>3, <2>4, <2>6
       DEF TunnelBeforeHttp, ExitTruthUnlessHostless, AddressesInOrder
  <2> QED
    BY <2>5, <2>7, <2>8, <2>9 DEF ClientInv
<1> QED
  BY <1>2, <1>7, <1>8, <1>9

\* One turn of the loop over the addresses.
LEMMA NextAddressInv ==
    ASSUME ClientInv, NextAddress, UNCHANGED <<mode, urls>>
    PROVE  ClientInv'
<1>1. TypeOK /\ ResolvedInv /\ OrderInv /\ LoopInv /\ PageInv
  BY DEF ClientInv
<1>2. /\ stage = "next" /\ mode = "sync" /\ results # <<>> /\ ByAddress
      /\ page = "none" /\ exit = "none"
      /\ page \in {"none", "asked", "answered", "ended"}
  BY <1>1 DEF ResolvedInv, TypeOK, PageInv, NextAddress
<1>3. /\ results' = results /\ page' = page /\ lost' = lost
      /\ mode' = mode /\ urls' = urls /\ ec' = ec /\ ep' = ep
      /\ ByAddress' /\ urls.target = "name" /\ version' = 4
      /\ V4Places(results)' = V4Places(results)
  BY <1>2 DEF NextAddress, ByAddress, version, op_vars, StartOperation
<1> DEFINE p == LoopPosition
<1>4. /\ results \in Seq(Address) /\ rest \in Seq(Address)
      /\ p \in 0..Len(results) /\ Len(results) \in Nat
      /\ Len(rest) = Len(results) - p
      /\ rest # <<>> => /\ p < Len(results) /\ Head(rest) = results[p + 1]
                        /\ Tail(rest) = SubSeq(results, p + 2, Len(results))
  BY <1>1, RestFacts
<1>5. AskedUpTo(p) /\ tried \in Seq(Host \cup Address)
  BY <1>1, <1>2 DEF OrderInv, TypeOK
<1>6. /\ host_not_found \in client_error /\ failed(host_not_found)
      /\ ~failed(no_error)
  BY ErrorFacts DEF client_error
<1>7. /\ tried # <<>> => state = "done" /\ failed(ec) /\ err = ec
      /\ tried = <<>> => err = IF rest = results THEN no_error
                                                 ELSE host_not_found
  BY <1>1, <1>2 DEF LoopInv
<1>8. CASE rest = <<>>
  <2>1. failed(err) /\ (tried = <<>> => err = host_not_found)
    BY <1>2, <1>6, <1>7, <1>8
  <2>2. /\ stage' = "exited" /\ exit' = "failure" /\ err' = err
        /\ rest' = rest /\ tried' = tried /\ state' = state
        /\ granted' = granted
    BY <1>8, <2>1 DEF NextAddress, Proceed, Fail, Leave, op_vars
  <2>3. p = Len(results)
    BY <1>4, <1>8, EmptySeq
  <2>4. /\ AskedUpTo(Len(results))' /\ AskedUpTo(LoopPosition)'
        /\ \E k \in 0..Len(results) : AskedUpTo(k)'
    BY <1>3, <1>4, <1>5, <2>2, <2>3 DEF AskedUpTo, LoopPosition
  <2>5. tried = <<>> <=> V4Places(results) = {}
    BY <1>4, <1>5, <2>3, V4PartAll DEF AskedUpTo
  <2>6. TypeOK'
    BY <1>1, <1>3, <2>2 DEF TypeOK, Stages
  <2>7. PreparingInv' /\ ResolvedInv' /\ OrderInv' /\ LoopInv'
    BY <1>2, <1>3, <2>2, <2>4
       DEF PreparingInv, Preparing, ResolvedInv, OrderInv, LoopInv
  <2>8. OperationInv' /\ PageInv'
    BY <1>2, <1>3, <2>2 DEF OperationInv, PageInv
  <2>9. TunnelBeforeHttp' /\ ExitTruthUnlessHostless'
    BY <1>2, <1>3, <2>1, <2>2
       DEF TunnelBeforeHttp, ExitTruthUnlessHostless
  <2>10. AddressesInOrder'
    BY <1>2, <1>3, <1>7, <2>1, <2>2, <2>4, <2>5 DEF AddressesInOrder
  <2> QED
    BY <2>6, <2>7, <2>8, <2>9, <2>10 DEF ClientInv
<1>9. ASSUME rest # <<>>, rest' = Tail(rest)
      PROVE  /\ LoopPosition' = p + 1 /\ p + 1 \in 0..Len(results)
             /\ rest' = SubSeq(results, (p + 1) + 1, Len(results))
             /\ rest' # results
  <2>1. rest' = SubSeq(results, p + 2, Len(results)) /\ p < Len(results)
    BY <1>4, <1>9
  <2>2. Len(rest') = Len(results) - (p + 1)
    BY <1>4, <2>1
  <2>3. LoopPosition' = p + 1
    <3>1. LoopPosition' = Len(results) - Len(rest')
      BY <1>3 DEF LoopPosition
    <3> HIDE DEF p
    <3> QED
      BY <1>4, <2>2, <3>1
  <2>4. p + 1 \in 0..Len(results) /\ Len(rest') # Len(results)
    BY <1>4, <2>1, <2>2
  <2>5. p + 2 = (p + 1) + 1
    BY <1>4
  <2> HIDE DEF p
  <2> QED
    BY <2>1, <2>3, <2>4, <2>5, Zenon
<1>10. CASE rest # <<>> /\ is_v4(Head(rest))
  <2>1. /\ stage' = "operation" /\ exit' = exit /\ err' = err
        /\ rest' = Tail(rest) /\ tried' = Append(tried, results[p + 1])
        /\ state' = "negotiating" /\ granted' = FALSE
    BY <1>4, <1>10 DEF NextAddress, StartOperation
  <2>2. /\ LoopPosition' = p + 1 /\ p + 1 \in 0..Len(results)
        /\ rest' = SubSeq(results, (p + 1) + 1, Len(results))
        /\ results[p + 1] \in Address /\ p + 1 \in V4Places(results)
        /\ p \in Nat /\ p < Len(results) /\ is_v4(results[p + 1])
    BY <1>4, <1>9, <1>10, <2>1 DEF V4Places
  <2> HIDE DEF p
  <2>3. /\ tried' \in Seq(Host \cup Address) /\ tried' # <<>>
        /\ tried'[Len(tried')] = results[p + 1]
    BY <1>5, <2>1, <2>2
  <2>4. IsV4Part(Append(tried, results[p + 1]), results, p + 1)
    BY <1>4, <1>5, <2>2, V4PartTake DEF AskedUpTo
  <2>5. AskedUpTo(LoopPosition)' /\ \E k \in 0..Len(results) : AskedUpTo(k)'
    BY <1>3, <2>1, <2>2, <2>4 DEF AskedUpTo
  <2>6. TypeOK'
    <3>1. granted' \in BOOLEAN
      BY <2>1, Zenon
    <3> QED
      BY <1>1, <1>2, <1>3, <2>1, <2>2, <2>3, <3>1 DEF TypeOK, Stages
  <2>7. PreparingInv' /\ ResolvedInv' /\ OrderInv' /\ LoopInv'
    BY <1>2, <1>3, <2>1, <2>5
       DEF PreparingInv, Preparing, ResolvedInv, OrderInv, LoopInv
  <2>8. OperationInv' /\ PageInv'
    <3>1. PICK a : a = results[p + 1]
      OBVIOUS
    <3>2. Wanted(a)'
      BY <1>3, <2>2, <3>1 DEF Wanted
    <3> QED
      BY <1>2, <1>3, <2>1, <2>3, <3>1, <3>2 DEF OperationInv, PageInv
  <2>9. TunnelBeforeHttp' /\ ExitTruthUnlessHostless' /\ AddressesInOrder'
    BY <1>2, <1>3, <2>1, <2>5
       DEF TunnelBeforeHttp, ExitTruthUnlessHostless, AddressesInOrder
  <2> QED
    BY <2>6, <2>7, <2>8, <2>9 DEF ClientInv
<1>11. CASE rest # <<>> /\ ~is_v4(Head(rest))
  <2>1. /\ stage' = "next" /\ exit' = exit /\ err' = skipped(err)
        /\ rest' = Tail(rest) /\ tried' = tried
        /\ state' = state /\ granted' = granted
    BY <1>11 DEF NextAddress, GoOn, op_vars
  <2>2. /\ LoopPosition' = p + 1 /\ p + 1 \in 0..Len(results)
        /\ rest' = SubSeq(results, (p + 1) + 1, Len(results))
        /\ rest' # results
        /\ p \in Nat /\ p < Len(results) /\ ~is_v4(results[p + 1])
    BY <1>4, <1>9, <1>11, <2>1
  <2> HIDE DEF p
  <2>3. IsV4Part(tried, results, p + 1)
    BY <1>4, <1>5, <2>2, V4PartSkip DEF AskedUpTo
  <2>4. AskedUpTo(LoopPosition)' /\ \E k \in 0..Len(results) : AskedUpTo(k)'
    BY <1>3, <2>1, <2>2, <2>3 DEF AskedUpTo
  <2>5. /\ tried # <<>> => skipped(err) = ec
        /\ tried = <<>> => skipped(err) = host_not_found
        /\ skipped(err) \in {err, host_not_found}
    BY <1>6, <1>7 DEF skipped
  <2>6. TypeOK'
    BY <1>1, <1>2, <1>3, <1>6, <2>1, <2>2, <2>5 DEF TypeOK, Stages
  <2>7. PreparingInv' /\ ResolvedInv' /\ OrderInv' /\ LoopInv'
    BY <1>2, <1>3, <1>7, <2>1, <2>2, <2>4, <2>5
       DEF PreparingInv, Preparing, ResolvedInv, OrderInv, LoopInv
  <2>8. OperationInv' /\ PageInv'
    BY <1>2, <1>3, <2>1 DEF OperationInv, PageInv
  <2>9. TunnelBeforeHttp' /\ ExitTruthUnlessHostless' /\ AddressesInOrder'
    BY <1>2, <1>3, <1>7, <2>1, <2>4
       DEF TunnelBeforeHttp, ExitTruthUnlessHostless, AddressesInOrder
  <2> QED
    BY <2>6, <2>7, <2>8, <2>9 DEF ClientInv
<1> QED
  BY <1>8, <1>10, <1>11

\* The order of the addresses is about what was returned and asked for.
LEMMA OrderKept ==
    ASSUME OrderInv, AddressesInOrder,
           UNCHANGED <<results, rest, tried, mode>>,
           stage # "exited"
    PROVE  /\ OrderInv'
           /\ results # <<>> =>
                 /\ \E k \in 0..Len(results) : AskedUpTo(k)'
                 /\ mode = "async" => Len(tried) <= 1 /\ tried # <<>>
<1>1. /\ results' = results /\ rest' = rest /\ tried' = tried /\ mode' = mode
      /\ LoopPosition' = LoopPosition
      /\ V4Places(results)' = V4Places(results)
      /\ \A k : AskedUpTo(k)' <=> AskedUpTo(k)
  BY DEF LoopPosition, AskedUpTo
<1>2. AskedUpTo(LoopPosition)' <=> AskedUpTo(LoopPosition)
  BY <1>1 DEF AskedUpTo
<1>3. results # <<>> /\ mode = "async" => tried # <<>>
  BY DEF OrderInv
<1> QED
  BY <1>1, <1>2, <1>3 DEF OrderInv, AddressesInOrder

\* The connect operation is at work.
LEMMA OperationStepInv ==
    ASSUME ClientInv, Operation
    PROVE  ClientInv'
<1>1. /\ TypeOK /\ ResolvedInv /\ OrderInv /\ OperationInv /\ PageInv
      /\ AddressesInOrder
  BY DEF ClientInv
<1>2. /\ stage = "operation" /\ exit = "none" /\ page = "none"
  BY <1>1 DEF Operation, TypeOK, PageInv
<1>3. /\ stage' = stage /\ results' = results /\ rest' = rest
      /\ tried' = tried /\ err' = err /\ page' = page /\ exit' = exit
      /\ mode' = mode /\ urls' = urls
  BY DEF Operation, client_vars
<1>4. /\ lost' = lost /\ granted' = granted
      /\ state' \in {"asked", "done"}
      /\ ec' \in error_code /\ ep' \in Endpoints \cup {no_endpoint}
      /\ state' = "done" /\ ~failed(ec') => granted'
  <2>1. CASE Op!Ask
    BY <1>1, <2>1 DEF Op!Ask, TypeOK
  <2>2. CASE Op!Succeed
    BY <2>2, ClientAssumption DEF Op!Succeed, Op!Complete
  <2>3. CASE Op!Fail
    BY <2>3, SameFailure, ClientAssumption
       DEF Op!Fail, Op!Complete, no_endpoint, Op!no_endpoint
  <2> QED
    BY <2>1, <2>2, <2>3 DEF Operation
<1>5. TypeOK'
  BY <1>1, <1>3, <1>4 DEF TypeOK
<1>6. OrderInv' /\ (results # <<>> =>
                      /\ \E k \in 0..Len(results) : AskedUpTo(k)'
                      /\ mode = "async" => Len(tried) <= 1)
  BY <1>1, <1>2, <1>3, OrderKept
<1>7. ByAddress' = ByAddress /\ \A t : Wanted(t)' = Wanted(t)
  BY <1>3 DEF ByAddress, Wanted, version
<1>8. PreparingInv' /\ ResolvedInv' /\ LoopInv'
  BY <1>1, <1>2, <1>3, <1>7
     DEF PreparingInv, Preparing, ResolvedInv, LoopInv
<1>9. OperationInv' /\ PageInv'
  BY <1>1, <1>2, <1>3, <1>4, <1>7 DEF OperationInv, PageInv
<1>10. TunnelBeforeHttp' /\ ExitTruthUnlessHostless' /\ AddressesInOrder'
  BY <1>2, <1>3, <1>6
     DEF TunnelBeforeHttp, ExitTruthUnlessHostless, AddressesInOrder
<1> QED
  BY <1>5, <1>6, <1>8, <1>9, <1>10 DEF ClientInv

\* The outcome of the operation.
LEMMA SocksConnectedInv ==
    ASSUME ClientInv, SocksConnected, UNCHANGED <<mode, urls>>
    PROVE  ClientInv'
<1>1. /\ TypeOK /\ ResolvedInv /\ OrderInv /\ OperationInv /\ PageInv
      /\ AddressesInOrder
  BY DEF ClientInv
<1>2. /\ stage = "operation" /\ exit = "none" /\ page = "none"
      /\ state = "done" /\ tried # <<>> /\ Wanted(tried[Len(tried)])
      /\ urls.target # "none" /\ (ByAddress => results # <<>>)
      /\ ~failed(ec) => granted
      /\ mode \in {"sync", "async"} /\ ec \in error_code
  BY <1>1 DEF SocksConnected, TypeOK, PageInv, OperationInv
<1>3. /\ results' = results /\ rest' = rest /\ tried' = tried
      /\ page' = page /\ mode' = mode /\ urls' = urls /\ state' = state
      /\ granted' = granted /\ ec' = ec /\ ep' = ep /\ lost' = lost
  BY DEF SocksConnected, op_vars
<1>4. OrderInv' /\ (results # <<>> =>
                      /\ \E k \in 0..Len(results) : AskedUpTo(k)'
                      /\ mode = "async" => Len(tried) <= 1)
  BY <1>1, <1>2, <1>3, OrderKept
<1>5. /\ (ByAddress' <=> ByAddress)
      /\ V4Places(results)' = V4Places(results)
      /\ \A t : Wanted(t)' <=> Wanted(t)
  BY <1>3 DEF ByAddress, Wanted, version
<1>6. err' = ec
  BY DEF SocksConnected, GoOn, Fail, Leave
<1>7. CASE ~failed(ec)
  <2>1. stage' = "write" /\ exit' = exit
    BY <1>7 DEF SocksConnected, GoOn
  <2>2. TypeOK'
    BY <1>1, <1>2, <1>3, <1>6, <2>1 DEF TypeOK, Stages
  <2>3. PreparingInv' /\ ResolvedInv' /\ LoopInv'
    BY <1>1, <1>2, <1>3, <1>5, <2>1
       DEF PreparingInv, Preparing, ResolvedInv, LoopInv
  <2>4. OperationInv' /\ PageInv'
    BY <1>2, <1>3, <2>1 DEF OperationInv, PageInv
  <2>5. TunnelBeforeHttp' /\ ExitTruthUnlessHostless' /\ AddressesInOrder'
    BY <1>2, <1>3, <1>4, <1>5, <1>7, <2>1
       DEF TunnelBeforeHttp, ExitTruthUnlessHostless, AddressesInOrder, Last
  <2> QED
    BY <1>4, <2>2, <2>3, <2>4, <2>5 DEF ClientInv
<1>8. CASE failed(ec) /\ mode = "sync" /\ ByAddress
  <2>1. stage' = "next" /\ exit' = exit
    BY <1>8 DEF SocksConnected, after_failure, ByAddress, GoOn
  <2>2. TypeOK'
    BY <1>1, <1>2, <1>3, <1>6, <2>1 DEF TypeOK, Stages
  <2>3. PreparingInv' /\ ResolvedInv' /\ LoopInv'
    BY <1>1, <1>2, <1>3, <1>5, <1>6, <1>8, <2>1
       DEF PreparingInv, Preparing, ResolvedInv, LoopInv
  <2>4. OperationInv' /\ PageInv'
    BY <1>2, <1>3, <2>1 DEF OperationInv, PageInv
  <2>5. TunnelBeforeHttp' /\ ExitTruthUnlessHostless' /\ AddressesInOrder'
    BY <1>2, <1>3, <1>4, <1>8, <2>1
       DEF TunnelBeforeHttp, ExitTruthUnlessHostless, AddressesInOrder
  <2> QED
    BY <1>4, <2>2, <2>3, <2>4, <2>5 DEF ClientInv
<1>9. CASE failed(ec) /\ ~(mode = "sync" /\ ByAddress)
  <2>1. stage' = "exited" /\ exit' = "failure"
    BY <1>9 DEF SocksConnected, after_failure, ByAddress, Fail, Leave
  <2>2. TypeOK'
    BY <1>1, <1>2, <1>3, <1>6, <2>1 DEF TypeOK, Stages
  <2>3. PreparingInv' /\ ResolvedInv' /\ LoopInv'
    BY <1>1, <1>2, <1>3, <1>5, <2>1
       DEF PreparingInv, Preparing, ResolvedInv, LoopInv
  <2>4. OperationInv' /\ PageInv'
    BY <1>2, <1>3, <2>1 DEF OperationInv, PageInv
  <2>5. TunnelBeforeHttp' /\ ExitTruthUnlessHostless'
    BY <1>2, <1>3, <1>6, <1>9, <2>1
       DEF TunnelBeforeHttp, ExitTruthUnlessHostless
  <2>6. results # <<>> => V4Places(results) # {} /\ mode = "async"
    <3>1. results # <<>> => ByAddress
      BY <1>1 DEF ResolvedInv
    <3>2. results # <<>> => \E i \in V4Places(results) : TRUE
      BY <1>2, <3>1 DEF Wanted, ByAddress
    <3> QED
      BY <1>2, <1>9, <3>1, <3>2
  <2>7. AddressesInOrder'
    BY <1>2, <1>3, <1>4, <1>5, <1>6, <2>1, <2>6 DEF AddressesInOrder
  <2> QED
    BY <1>4, <2>2, <2>3, <2>4, <2>5, <2>7 DEF ClientInv
<1> QED
  BY <1>7, <1>8, <1>9

\* What a step of the HTTP exchange keeps: the tunnel and the addresses.
LEMMA ExchangeKeeps ==
    ASSUME ClientInv, stage \in {"write", "read"},
           UNCHANGED <<results, rest, tried, op_vars, lost, mode, urls>>,
           stage' \in {"read", "exited"},
           exit' \in {"none", "success", "failure"},
           (exit' = "none") = (stage' # "exited"),
           err' \in error_code \cup client_error,
           page' \in {"none", "asked", "answered", "ended"},
           stage' = "read" => page' = "asked",
           ExitTruthUnlessHostless'
    PROVE  ClientInv'
<1>1. /\ TypeOK /\ ResolvedInv /\ OrderInv /\ AddressesInOrder
      /\ TunnelBeforeHttp
  BY DEF ClientInv
<1>2. /\ results' = results /\ rest' = rest /\ tried' = tried
      /\ mode' = mode /\ urls' = urls /\ state' = state
      /\ granted' = granted /\ ec' = ec /\ ep' = ep /\ lost' = lost
  BY DEF op_vars
<1>3. /\ (ByAddress' <=> ByAddress)
      /\ \A t : Wanted(t)' <=> Wanted(t)
  BY <1>2 DEF ByAddress, Wanted, version
<1>4. \/ urls.target = "none"
      \/ /\ tried # <<>> /\ Wanted(Last(tried))
         /\ state = "done" /\ granted /\ ~failed(ec)
  BY <1>1 DEF TunnelBeforeHttp
<1>5. OrderInv' /\ (results # <<>> =>
                      /\ \E k \in 0..Len(results) : AskedUpTo(k)'
                      /\ mode = "async" => Len(tried) <= 1)
  BY <1>1, <1>2, OrderKept
<1>6. TypeOK'
  BY <1>1, <1>2 DEF TypeOK, Stages
<1>7. PreparingInv' /\ ResolvedInv' /\ LoopInv' /\ OperationInv' /\ PageInv'
  BY <1>1, <1>2, <1>3
     DEF PreparingInv, Preparing, ResolvedInv, LoopInv, OperationInv, PageInv
<1>8. TunnelBeforeHttp'
  BY <1>2, <1>3, <1>4 DEF TunnelBeforeHttp, Last
<1>9. AddressesInOrder'
  <2>1. results # <<>> => urls.target # "none"
    BY <1>1 DEF ResolvedInv, ByAddress
  <2> QED
    BY <1>2, <1>4, <1>5, <2>1 DEF AddressesInOrder
<1> QED
  BY <1>5, <1>6, <1>7, <1>8, <1>9 DEF ClientInv

\* The HTTP request is written.
LEMMA SocksRequestInv ==
    ASSUME ClientInv, do_socks_request, UNCHANGED <<mode, urls>>
    PROVE  ClientInv'
<1>1. /\ stage = "write" /\ page = "none" /\ exit = "none"
      /\ TypeOK /\ page \in {"none", "asked", "answered", "ended"}
  BY DEF ClientInv, PageInv, TypeOK, do_socks_request
<1>2. PICK e \in {no_error, broken_pipe} :
        /\ Proceed(e, "read")
        /\ page' = IF failed(e) THEN page ELSE "asked"
  BY DEF do_socks_request
<1>3. e \in error_code
  BY <1>2, ErrorFacts
<1>4. /\ err' = e
      /\ \/ stage' = "exited" /\ exit' = "failure" /\ failed(e)
            /\ page' = "none"
         \/ stage' = "read" /\ exit' = "none" /\ page' = "asked"
  BY <1>1, <1>2 DEF Proceed, Fail, Leave, GoOn
<1>5. ExitTruthUnlessHostless'
  BY <1>4 DEF ExitTruthUnlessHostless
<1> QED
  BY <1>1, <1>3, <1>4, <1>5, ExchangeKeeps DEF do_socks_request

\* The HTTP response is read, and the socket shut down.
LEMMA SocksResponseInv ==
    ASSUME ClientInv, do_socks_response, UNCHANGED <<mode, urls>>
    PROVE  ClientInv'
<1>1. stage = "read" /\ page = "asked" /\ exit = "none" /\ TypeOK
  BY DEF ClientInv, PageInv, TypeOK, do_socks_response
<1>2. lost' = lost
  BY DEF do_socks_response
<1>3. PICK r \in {no_error, bad_version}
                  \cup (IF lost THEN {end_of_stream, partial_message,
                                      connection_reset} ELSE {}) :
        /\ page' = IF ~failed(r) THEN "answered"
                   ELSE IF r = end_of_stream THEN "ended" ELSE page
        /\ IF ~read_accepted(r) THEN Fail(r)
           ELSE \E s \in {no_error}
                          \cup (IF lost THEN {not_connected, connection_reset}
                                        ELSE {}) :
                  IF shutdown_accepted(s) THEN Leave(s, "success") ELSE Fail(s)
  BY DEF do_socks_response
<1>4. r \in error_code \cup client_error
  BY <1>3, ErrorFacts DEF client_error
<1>5. page' \in {"none", "asked", "answered", "ended"}
  BY <1>1, <1>3
<1>6. /\ stage' = "exited" /\ exit' \in {"success", "failure"}
      /\ err' \in error_code \cup client_error
      /\ exit' = "failure" =>
            failed(err') /\ (page' \in {"answered", "ended"} => lost)
      /\ exit' = "success" => page' = "answered" \/ (page' = "ended" /\ lost)
  <2>1. CASE ~read_accepted(r)
    <3>1. page' = page /\ failed(r)
      BY <1>3, <2>1 DEF read_accepted
    <3> QED
      BY <1>1, <1>3, <1>4, <2>1, <3>1 DEF Fail, Leave
  <2>2. CASE read_accepted(r)
    <3>1. PICK s \in {no_error}
                      \cup (IF lost THEN {not_connected, connection_reset}
                                    ELSE {}) :
            IF shutdown_accepted(s) THEN Leave(s, "success") ELSE Fail(s)
      BY <1>3, <2>2
    <3>2. s \in error_code \cup client_error
      BY <3>1, ErrorFacts DEF client_error
    <3>3. page' = "answered" \/ (page' = "ended" /\ lost)
      <4>1. ~lost => r \in {no_error, bad_version}
        BY <1>3
      <4>2. bad_version # end_of_stream /\ no_error # end_of_stream
        BY DEF bad_version, end_of_stream, no_error
      <4> QED
        BY <1>3, <2>2, <4>1, <4>2 DEF read_accepted
    <3>4. failed(s) => lost
      BY <3>1, ErrorFacts
    <3> QED
      BY <3>1, <3>2, <3>3, <3>4 DEF shutdown_accepted, Fail, Leave
  <2> QED
    BY <2>1, <2>2
<1>7. ExitTruthUnlessHostless'
  BY <1>2, <1>6 DEF ExitTruthUnlessHostless
<1> QED
  BY <1>1, <1>5, <1>6, <1>7, ExchangeKeeps DEF do_socks_response

\* What the server and the network do.
LEMMA ServerInv ==
    ASSUME ClientInv, Server
    PROVE  ClientInv'
<1>1. /\ TypeOK /\ PreparingInv /\ ResolvedInv /\ OrderInv /\ LoopInv
      /\ OperationInv /\ PageInv /\ TunnelBeforeHttp
      /\ AddressesInOrder
  BY DEF ClientInv
<1>2. /\ stage' = stage /\ results' = results /\ rest' = rest
      /\ tried' = tried /\ err' = err /\ page' = page /\ exit' = exit
      /\ mode' = mode /\ urls' = urls
  BY DEF Server, client_vars
<1>3. /\ state' = state /\ ec' = ec /\ ep' = ep
      /\ lost' \in BOOLEAN /\ granted' \in BOOLEAN
      /\ granted => granted'
      /\ stage # "exited"
  <2>1. CASE stage = "operation" /\ state # "done" /\ Op!Grant
    BY <1>1, <2>1, Zenon DEF Op!Grant, TypeOK
  <2>2. CASE stage \in {"socks_connect", "target_resolve", "next",
                        "operation", "write", "read"} /\ Op!Lose
    <3>1. stage # "exited"
      BY <2>2
    <3> QED
      BY <1>1, <2>2, <3>1, Zenon DEF Op!Lose, TypeOK
  <2> QED
    BY <2>1, <2>2, Zenon DEF Server
<1>4. /\ (ByAddress' <=> ByAddress)
      /\ V4Places(results)' = V4Places(results)
      /\ \A t : Wanted(t)' <=> Wanted(t)
  BY <1>2 DEF ByAddress, Wanted, version
<1>5. OrderInv' /\ (results # <<>> =>
                      /\ \E k \in 0..Len(results) : AskedUpTo(k)'
                      /\ mode = "async" => Len(tried) <= 1)
  BY <1>1, <1>2, <1>3, OrderKept
<1>6. TypeOK'
  BY <1>1, <1>2, <1>3 DEF TypeOK
<1>7. PreparingInv' /\ ResolvedInv' /\ LoopInv'
  BY <1>1, <1>2, <1>3, <1>4 DEF PreparingInv, ResolvedInv, LoopInv
<1>8. OperationInv' /\ PageInv'
  BY <1>1, <1>2, <1>3, <1>4 DEF OperationInv, PageInv
<1>9. exit = "none"
  BY <1>1, <1>3 DEF TypeOK
<1>10. TunnelBeforeHttp' /\ ExitTruthUnlessHostless'
  BY <1>1, <1>2, <1>3, <1>4, <1>9
     DEF TunnelBeforeHttp, ExitTruthUnlessHostless, Last
<1>11. AddressesInOrder'
  BY <1>1, <1>2, <1>3, <1>5, <1>9 DEF AddressesInOrder
<1> QED
  BY <1>5, <1>6, <1>7, <1>8, <1>10, <1>11 DEF ClientInv

\* Nothing changes.
LEMMA StutterInv ==
    ASSUME ClientInv, UNCHANGED vars
    PROVE  ClientInv'
<1>1. /\ stage' = stage /\ results' = results /\ rest' = rest
      /\ tried' = tried /\ err' = err /\ page' = page /\ exit' = exit
      /\ mode' = mode /\ urls' = urls /\ state' = state
      /\ granted' = granted /\ ec' = ec /\ ep' = ep /\ lost' = lost
  BY DEF vars, client_vars, op_vars
<1>2. /\ (ByAddress' <=> ByAddress) /\ LoopPosition' = LoopPosition
      /\ \A t : Wanted(t)' <=> Wanted(t)
      /\ \A k : AskedUpTo(k)' <=> AskedUpTo(k)
      /\ (AskedUpTo(LoopPosition)' <=> AskedUpTo(LoopPosition))
      /\ (AskedUpTo(Len(results))' <=> AskedUpTo(Len(results)))
  BY <1>1 DEF ByAddress, Wanted, version, LoopPosition, AskedUpTo
<1>3. TypeOK' /\ PreparingInv' /\ ResolvedInv' /\ OrderInv' /\ LoopInv'
  BY <1>1, <1>2
     DEF ClientInv, TypeOK, PreparingInv, ResolvedInv, OrderInv, LoopInv
<1>4. /\ OperationInv' /\ PageInv' /\ TunnelBeforeHttp'
      /\ ExitTruthUnlessHostless'
  BY <1>1, <1>2
     DEF ClientInv, OperationInv, PageInv, TunnelBeforeHttp,
         ExitTruthUnlessHostless, NothingStarted, Last
<1>5. AddressesInOrder'
  BY <1>1, <1>2 DEF ClientInv, AddressesInOrder
<1> QED
  BY <1>3, <1>4, <1>5 DEF ClientInv

\* Every step keeps the invariant.
LEMMA NextClientInv == ClientInv /\ [Next]_vars => ClientInv'
<1> SUFFICES ASSUME ClientInv, [Next]_vars PROVE ClientInv'
  OBVIOUS
<1>1. CASE Client
  <2>1. UNCHANGED <<mode, urls>>
    BY <1>1 DEF Client
  <2>2. CASE ParseUrls
    <3>1. parse_urls \in error_code \cup client_error
      BY ErrorFacts DEF parse_urls, client_error
    <3> QED
      BY <2>1, <2>2, <3>1, ProceedInv DEF ParseUrls
  <2>3. CASE do_proxy_resolve
    <3>1. CASE get_endpoint_unchecked(urls.proxy)
      BY <2>1, <2>3, <3>1, TerminateInv DEF do_proxy_resolve
    <3>2. CASE ~get_endpoint_unchecked(urls.proxy)
      <4>1. PICK e \in {no_error, host_not_found, operation_not_supported} :
              Proceed(e, "proxy_connect")
        BY <2>3, <3>2 DEF do_proxy_resolve
      <4>2. e \in error_code \cup client_error
        BY <4>1, ErrorFacts DEF client_error
      <4> QED
        BY <2>1, <2>3, <4>1, <4>2, ProceedInv DEF do_proxy_resolve
    <3> QED
      BY <3>1, <3>2
  <2>4. CASE do_proxy_connect
    <3>1. PICK e \in {no_error, connection_refused} :
            Proceed(e, "socks_connect")
      BY <2>4 DEF do_proxy_connect
    <3>2. e \in error_code \cup client_error
      BY <3>1, ErrorFacts DEF client_error
    <3> QED
      BY <2>1, <2>4, <3>1, <3>2, ProceedInv DEF do_proxy_connect
  <2>5. CASE do_socks_connect
    BY <2>1, <2>5, SocksConnectInv
  <2>6. CASE TargetResolveFails \/ TargetResolve
    BY <2>1, <2>6, TargetResolveFailsInv, TargetResolveInv
  <2>7. CASE NextAddress
    BY <2>1, <2>7, NextAddressInv
  <2>8. CASE SocksConnected
    BY <2>1, <2>8, SocksConnectedInv
  <2>9. CASE do_socks_request \/ do_socks_response
    BY <2>1, <2>9, SocksRequestInv, SocksResponseInv
  <2> QED
    BY <1>1, <2>2, <2>3, <2>4, <2>5, <2>6, <2>7, <2>8, <2>9 DEF Client
<1>2. CASE Operation
  BY <1>2, OperationStepInv
<1>3. CASE Server
  BY <1>3, ServerInv
<1>4. CASE UNCHANGED vars
  BY <1>4, StutterInv
<1> QED
  BY <1>1, <1>2, <1>3, <1>4 DEF Next

(***************************************************************************)
(* The theorems.                                                           *)
(***************************************************************************)
\* ClientInv holds in every reachable state of both clients, whatever the
\* resolver, the library and the server answer.
THEOREM ClientInvariance == Spec => []ClientInv
BY ClientInit, NextClientInv, PTL DEF Spec

\* The state of the clients keeps its types, and what is left of the loop is
\* the end of what the resolver returned (socks_request, socks_client).
THEOREM TypeCorrectClient == Spec => []TypeOK
<1>1. ClientInv => TypeOK
  BY DEF ClientInv
<1> QED
  BY <1>1, ClientInvariance, PTL

\* Unless the URL has no host, the HTTP request is only written through a
\* tunnel that the server granted for the target of the URL, for any number
\* of addresses and refusals before it (resolve_and_connect_v4,
\* do_socks_request).
THEOREM TunnelFirst == Spec => []TunnelBeforeHttp
<1>1. ClientInv => TunnelBeforeHttp
  BY DEF ClientInv
<1> QED
  BY <1>1, ClientInvariance, PTL

\* Both clients exit with success only after the request was written and
\* answered, or met by the end of the connection; the exception is the
\* asynchronous client with a URL that has no host, which starts nothing.
\* Failure comes with an error, and an exception only with an IPv6 address
\* in a URL (socks_request, has_error, get_endpoint_unchecked).
THEOREM ExitTruthful == Spec => []ExitTruthUnlessHostless
<1>1. ClientInv => ExitTruthUnlessHostless
  BY DEF ClientInv
<1> QED
  BY <1>1, ClientInvariance, PTL

\* For every list of addresses: the IPv4 ones are asked for in the order of
\* the resolver, none twice, none left out before giving up, and the error
\* is that of the last operation (resolve_and_connect_v4, do_socks_connect).
THEOREM AddressesOrdered == Spec => []AddressesInOrder
<1>1. ClientInv => AddressesInOrder
  BY DEF ClientInv
<1> QED
  BY <1>1, ClientInvariance, PTL
=============================================================================
