---------------------------- MODULE SocksClient ----------------------------
(***************************************************************************)
(* The two example clients: socks_request of                               *)
(* example/client/sync/socks_client_sync.cpp, and the class socks_client   *)
(* of example/client/async/socks_client_async.cpp.  They fetch a page of a *)
(* target through a SOCKS server; `mode' says which of them runs.  An      *)
(* action runs from one blocking call or suspension to the next.           *)
(*                                                                         *)
(* The connect operation of the library is a ConnectService, which both    *)
(* SocksConnect and SocksConnectV4 implement.  The user information in the *)
(* URL only picks the auth_options of that operation and is left out.      *)
(***************************************************************************)
EXTENDS SocksWire, SequencesExt

CONSTANTS
    Endpoints,      \* what a connect operation may return
    Codes,          \* the error codes it may complete with
    Resolutions     \* what the name of a target may resolve to

\* The hosts of a URL, by host_type; "unparsed" is no URL at all.
Host == {"unparsed", "none", "name", "ipv4", "ipv6"}
Scheme == {"socks5", "socks4", "socks4a", "http"}

\* An address of a name: its family, and a number to tell it from others.
Address == {"ipv4", "ipv6"} \X Nat

ASSUME ClientAssumption ==
    /\ Codes \subseteq error_code
    /\ Resolutions \subseteq Seq(Address) \ {<<>>}

VARIABLES
    mode,       \* "sync" or "async"
    urls,       \* the arguments: the target, and the scheme and the host
                \* of the SOCKS server
    stage,      \* the call the client is in
    results,    \* what the resolver returned for the target
    rest,       \* the part of it the loop has not come to
    tried,      \* the targets asked for, in order
    err,        \* ec, or ec_ in the asynchronous client
    page,       \* the HTTP exchange: "none", "asked", "answered", "ended"
    exit        \* "none", "success", "failure", or "terminated" by an
                \* exception that nobody catches

VARIABLES state, granted, lost, ec, ep

Op == INSTANCE ConnectService

op_vars == <<state, granted, ec, ep>>
client_vars == <<stage, results, rest, tried, err, page, exit>>
vars == <<mode, urls, client_vars, op_vars, lost>>

Stages == {"parse", "proxy_resolve", "proxy_connect", "socks_connect",
           "target_resolve", "next", "operation", "write", "read", "exited"}

\* Errors of the URL parser, the resolver, the socket and the HTTP parser.
invalid_url == [cat |-> "boost.url.grammar", val |-> 1]
connection_refused == [cat |-> "system", val |-> 111]
host_not_found == [cat |-> "asio.netdb", val |-> 1]
operation_not_supported == [cat |-> "system", val |-> 95]
no_protocol_option == [cat |-> "system", val |-> 92]
end_of_stream == [cat |-> "beast.http", val |-> 1]
partial_message == [cat |-> "beast.http", val |-> 2]
bad_version == [cat |-> "beast.http", val |-> 17]
not_connected == [cat |-> "system", val |-> 107]

client_error == {invalid_url, connection_refused, host_not_found,
                 operation_not_supported, no_protocol_option, end_of_stream,
                 partial_message, bad_version, not_connected}

TypeOK ==
    /\ mode \in {"sync", "async"}
    /\ urls \in [target : Host, scheme : Scheme, proxy : Host]
    /\ stage \in Stages
    /\ results \in Resolutions \cup {<<>>}
    /\ \E k \in 0..Len(results) : rest = SubSeq(results, k + 1, Len(results))
    /\ tried \in Seq(Host \cup Address)
    /\ err \in error_code \cup client_error
    /\ page \in {"none", "asked", "answered", "ended"}
    /\ exit \in {"none", "success", "failure", "terminated"}
    /\ (exit = "none") = (stage # "exited")
    /\ state \in {"negotiating", "asked", "done"}
    /\ granted \in BOOLEAN /\ lost \in BOOLEAN
    /\ ec \in error_code /\ ep \in Endpoints \cup {no_endpoint}

Init ==
    /\ mode \in {"sync", "async"}
    /\ urls \in [target : Host, scheme : Scheme, proxy : Host]
    /\ stage = "parse"
    /\ results = <<>> /\ rest = <<>> /\ tried = <<>>
    /\ err = no_error /\ page = "none" /\ exit = "none"
    /\ Op!Init

(***************************************************************************)
(* Where a step leads.                                                     *)
(***************************************************************************)
\* The end of the process: the return of socks_request, or of run when no
\* handler is left.
Leave(e, status) ==
    /\ stage' = "exited"
    /\ exit' = status
    /\ err' = e

GoOn(e, label) ==
    /\ stage' = label
    /\ err' = e
    /\ UNCHANGED exit

\* Mutant: a call that failed is made again.
Fail_again(e) == GoOn(e, stage)

\* fail(): socks_request returns false; or ec_ is set, which main asks for
\* with has_error.
Fail(e) == Leave(e, "failure")

\* Mutant: the return behind fail is forgotten.
Proceed_without_return(e, label) ==
    /\ stage' = label
    /\ err' = e
    /\ exit' = IF failed(e) THEN "failure" ELSE exit

\* Go on at label unless the call just made has failed.
Proceed(e, label) == IF failed(e) THEN Fail(e) ELSE GoOn(e, label)

\* The way out of get_endpoint_unchecked by an exception, for a URL with
\* host h: encoded_host leaves an IPv6 address in its brackets, and value()
\* throws if parse_ipv6_address does not take them.
get_endpoint_unchecked(h) ==
    /\ h = "ipv6"
    /\ Leave(err, "terminated")

\* A connect operation is started on the socket, for host or address t.
StartOperation(t) ==
    /\ stage' = "operation"
    /\ tried' = Append(tried, t)
    /\ state' = "negotiating" /\ granted' = FALSE
    /\ UNCHANGED <<err, exit, ec, ep>>

(***************************************************************************)
(* The steps.                                                              *)
(***************************************************************************)
version == IF urls.scheme = "socks5" THEN 5 ELSE 4

\* What is wrong with the URLs.  The synchronous client has no code for an
\* unfit scheme or host; it prints what the asynchronous one has a code for.
parse_urls ==
    IF urls.target = "unparsed" \/ urls.proxy = "unparsed" THEN invalid_url
    ELSE IF urls.scheme \notin {"socks5", "socks4", "socks4a"}
         THEN no_protocol_option
    ELSE IF version = 4 /\ urls.target = "ipv6" THEN no_protocol_option
    ELSE no_error

ParseUrls ==
    /\ stage = "parse"
    /\ Proceed(parse_urls, "proxy_resolve")
    /\ UNCHANGED <<results, rest, tried, page, op_vars, lost>>

\* An address needs no resolver; another host cannot be interpreted.
do_proxy_resolve ==
    /\ stage = "proxy_resolve"
    /\ \/ \E e \in IF urls.proxy = "name" THEN {no_error, host_not_found}
                ELSE IF urls.proxy \in {"ipv4", "ipv6"} THEN {no_error}
                ELSE {operation_not_supported} :
             Proceed(e, "proxy_connect")
       \/ get_endpoint_unchecked(urls.proxy)
    /\ UNCHANGED <<results, rest, tried, page, op_vars, lost>>

do_proxy_connect ==
    /\ stage = "proxy_connect"
    /\ \E e \in {no_error, connection_refused} : Proceed(e, "socks_connect")
    /\ UNCHANGED <<results, rest, tried, page, op_vars, lost>>

\* Which operation is called.  A target whose host is of
\* no kind the code knows starts none: the synchronous client falls through
\* to the HTTP request, the asynchronous one has nothing left to do.
do_socks_connect ==
    /\ stage = "socks_connect"
    /\ IF urls.target = "name" /\ version = 4
       THEN GoOn(err, "target_resolve") /\ UNCHANGED <<tried, op_vars>>
       ELSE IF urls.target = "none"
       THEN /\ IF mode = "sync" THEN GoOn(err, "write")
                                ELSE Leave(err, "success")
            /\ UNCHANGED <<tried, op_vars>>
       ELSE \/ StartOperation(urls.target)
            \/ /\ get_endpoint_unchecked(urls.target)
               /\ UNCHANGED <<tried, op_vars>>
    /\ UNCHANGED <<results, rest, page, lost>>

\* SOCKS4 knows no names: the client resolves the target's.
TargetResolveFails ==
    /\ stage = "target_resolve"
    /\ Fail(host_not_found)
    /\ UNCHANGED <<results, rest, tried, page, op_vars, lost>>

is_v4(a) == a[1] = "ipv4"

\* The places of the IPv4 addresses in what the resolver returned.
V4Places(r) == {i \in DOMAIN r : is_v4(r[i])}

\* The synchronous client goes through all the addresses; the asynchronous
\* one takes the first that is IPv4, if there is one.
TargetResolve ==
    /\ stage = "target_resolve"
    /\ \E r \in Resolutions :
        /\ results' = r
        /\ IF mode = "sync"
           THEN /\ GoOn(no_error, "next")
                /\ rest' = r /\ UNCHANGED <<tried, op_vars>>
           ELSE /\ rest' = <<>>
                /\ IF V4Places(r) = {}
                   THEN Fail(host_not_found) /\ UNCHANGED <<tried, op_vars>>
                   ELSE \E i \in V4Places(r) :
                          /\ \A j \in V4Places(r) : i <= j
                          /\ StartOperation(r[i])
    /\ UNCHANGED <<page, lost>>

\* Mutant: an IPv6 address always counts as a failure of its own.
skipped_always(e) == host_not_found

\* The error code after an IPv6 address was passed over.
skipped(e) == IF failed(e) THEN e ELSE host_not_found

\* One turn of the loop of resolve_and_connect_v4, up to the call of
\* connect_v4, or its end.
NextAddress ==
    /\ stage = "next"
    /\ IF rest = <<>>
       THEN Proceed(err, "write") /\ UNCHANGED <<rest, tried, op_vars>>
       ELSE /\ rest' = Tail(rest)
            /\ IF is_v4(Head(rest)) THEN StartOperation(Head(rest))
               ELSE GoOn(skipped(err), "next") /\ UNCHANGED <<tried, op_vars>>
    /\ UNCHANGED <<results, page, lost>>

\* The operation is at work, and completes.
Operation ==
    /\ stage = "operation"
    /\ Op!Ask \/ Op!Succeed \/ Op!Fail
    /\ UNCHANGED <<mode, urls, client_vars>>

\* Mutant: the loop ends at the first address that is refused.
after_failure_stop == "exit"

\* Mutant: the result of the last address is not looked at.
after_failure_ignored == "write"

\* Who looks at a failed operation: the loop goes on to the next address.
after_failure ==
    IF mode = "sync" /\ version = 4 /\ urls.target = "name"
    THEN "next" ELSE "exit"

\* cb, or the code behind the call.
SocksConnected ==
    /\ stage = "operation" /\ state = "done"
    /\ IF ~failed(ec) THEN GoOn(ec, "write")
       ELSE IF after_failure = "exit" THEN Fail(ec)
       ELSE GoOn(ec, after_failure)
    /\ UNCHANGED <<results, rest, tried, page, op_vars, lost>>

\* http::write.
do_socks_request ==
    /\ stage = "write"
    /\ \E e \in {no_error} \cup (IF lost THEN {broken_pipe} ELSE {}) :
        /\ Proceed(e, "read")
        /\ page' = IF failed(e) THEN page ELSE "asked"
    /\ UNCHANGED <<results, rest, tried, op_vars, lost>>

\* Mutant: any error of the HTTP parser is taken for the end of the stream.
read_accepted_http(e) == ~failed(e) \/ e.cat = "beast.http"

read_accepted(e) == ~failed(e) \/ e = end_of_stream
shutdown_accepted(e) == ~failed(e) \/ e = not_connected

\* http::read, and behind it the shutdown of the socket.
\* The answer may be no HTTP; if the connection is lost it may be missing,
\* or cut short.
do_socks_response ==
    /\ stage = "read"
    /\ \E r \in {no_error, bad_version}
                  \cup (IF lost THEN {end_of_stream, partial_message,
                                      connection_reset} ELSE {}) :
        /\ page' = IF ~failed(r) THEN "answered"
                   ELSE IF r = end_of_stream THEN "ended" ELSE page
        /\ IF ~read_accepted(r) THEN Fail(r)
           ELSE \E s \in {no_error}
                          \cup (IF lost THEN {not_connected, connection_reset}
                                        ELSE {}) :
                  IF shutdown_accepted(s) THEN Leave(s, "success") ELSE Fail(s)
    /\ UNCHANGED <<results, rest, tried, op_vars, lost>>

Client ==
    /\ \/ ParseUrls
       \/ do_proxy_resolve
       \/ do_proxy_connect
       \/ do_socks_connect
       \/ TargetResolveFails
       \/ TargetResolve
       \/ NextAddress
       \/ SocksConnected
       \/ do_socks_request
       \/ do_socks_response
    /\ UNCHANGED <<mode, urls>>

\* The SOCKS server grants the request, or the connection is lost; a server
\* that refuses a SOCKS4 request closes it.
Server ==
    /\ \/ stage = "operation" /\ state # "done" /\ Op!Grant
       \/ stage \in {"socks_connect", "target_resolve", "next", "operation",
                     "write", "read"} /\ Op!Lose
    /\ UNCHANGED <<mode, urls, client_vars>>

Next == Client \/ Operation \/ Server

(***************************************************************************)
(* A blocking call that can return does so, and run calls the handlers;    *)
(* the resolver and the connection to the server come to an end by         *)
(* themselves.  The connect operation and the read of the response are     *)
(* only known to end when the connection is lost (ConnectService).         *)
(***************************************************************************)
Fairness ==
    /\ WF_vars(Client /\ stage # "read")
    /\ WF_vars(Client /\ lost)
    /\ WF_vars(lost /\ (Operation /\ state' = "done"))

Spec == Init /\ [][Next]_vars /\ Fairness

(***************************************************************************)
(* Properties.                                                             *)
(***************************************************************************)
\* What the client should ask the server for: the host of the URL, or one
\* of the addresses of its name where the server cannot be given the name.
Wanted(t) ==
    IF version = 4 /\ urls.target = "name"
    THEN \E i \in V4Places(results) : t = results[i]
    ELSE t = urls.target

\* "After this point, we can talk to the SOCKS server as if we were talking
\* to the application server": the HTTP request is only written when the
\* last operation, whatever the ones before it, ended well, the server had
\* granted it, and it asked for the target of the URL.  A URL without a
\* host is the exception, see do_socks_connect.
TunnelBeforeHttp ==
    stage \in {"write", "read"} \/ page # "none" =>
        \/ urls.target = "none"
        \/ /\ tried # <<>> /\ Wanted(Last(tried))
           /\ state = "done" /\ granted /\ ~failed(ec)

\* The asynchronous client and a target without a host: do_socks_connect
\* starts nothing, run returns, and has_error finds nothing wrong.
NothingStarted == mode = "async" /\ urls.target = "none"

\* What the status of the process says of the page (socks_request and
\* has_error, as main asks for them).  With one exception, NothingStarted,
\* success means that the request was written, and either answered or met
\* by the end of the connection, which both clients accept in place of an
\* answer; an answer cut short or malformed is none.  Failure comes with the
\* error that is reported; what had been answered by then only fails with
\* a connection that is lost, in the shutdown.  An exception ends the
\* process only for an IPv6 address in a URL, and before any HTTP.
ExitTruthUnlessHostless ==
    /\ exit = "success" /\ ~NothingStarted =>
         page = "answered" \/ (page = "ended" /\ lost)
    /\ exit = "failure" =>
         failed(err) /\ (page \in {"answered", "ended"} => lost)
    /\ exit = "terminated" =>
         page = "none" /\ "ipv6" \in {urls.proxy, urls.target}

\* s consists of the IPv4 addresses among the first k of r, all of them, in
\* the order of r and each once.
IsV4Part(s, r, k) ==
    \E f \in [DOMAIN s -> 1..k] :
        /\ \A i, j \in DOMAIN s : i < j => f[i] < f[j]
        /\ \A i \in DOMAIN s : s[i] = r[f[i]]
        /\ {f[i] : i \in DOMAIN s} = {i \in V4Places(r) : i <= k}

\* The client has asked for what it should among the first k addresses.
AskedUpTo(k) == IsV4Part(tried, results, k)

\* Where the client resolves the target it asks for the IPv4 addresses in
\* the resolver's order, for none of them twice and for none behind one
\* that was granted.  The synchronous client gives up when it has asked for
\* all of them, the asynchronous one after the first; the error reported is
\* that of the last operation (on a socket the server has closed behind an
\* earlier refusal, one of the transport), and host_not_found if there was
\* no address to ask for.
AddressesInOrder ==
    results # <<>> =>
        /\ \E k \in 0..Len(results) : AskedUpTo(k)
        /\ mode = "async" => Len(tried) <= 1
        /\ stage = "next" /\ tried # <<>> => state = "done" /\ failed(ec)
        /\ exit = "failure" /\ (state # "done" \/ failed(ec)) =>
             IF V4Places(results) = {}
             THEN tried = <<>> /\ err = host_not_found
             ELSE /\ mode = "sync" => AskedUpTo(Len(results))
                  /\ tried # <<>> /\ err = ec

\* When the connection to the SOCKS server is lost the client ends, however
\* many addresses it still tries on the dead socket.
ExitsOnceLost == lost ~> exit # "none"
=============================================================================
