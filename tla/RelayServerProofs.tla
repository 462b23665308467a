------------------------- MODULE RelayServerProofs -------------------------
(***************************************************************************)
(* Proofs about RelayServer, for any number of clients and any number of   *)
(* bytes from either side: what the relay writes, and when it is all that  *)
(* was read.                                                               *)
(***************************************************************************)
EXTENDS RelayServer, SequenceTheorems, TLAPS

(***************************************************************************)
(* The inductive invariant.                                                *)
(***************************************************************************)
\* How many of the bytes taken from p are in its buffer and not yet written.
Pending(p) == IF loop[p] = "write" THEN Len(buf[p]) ELSE 0

\* The state of one direction of a relay.  While a write is pending the
\* buffer holds the last bytes taken; what was written came before them, in
\* order; and if no write was short it is everything before them.
PipeInv(p) ==
    /\ Pending(p) <= taken[p]
    /\ loop[p] = "write" =>
         \A i \in 1..Len(buf[p]) :
            buf[p][i] = (taken[p] - Len(buf[p])) + i
    /\ \A i \in 1..Len(got[p]) : got[p][i] <= taken[p] - Pending(p)
    /\ \A i, j \in 1..Len(got[p]) : i < j => got[p][i] < got[p][j]
    /\ ~short[p] => \A i \in 1..Len(got[p]) : got[p][i] = i
    /\ ~short[p] /\ loop[p] # "stopped" => Len(got[p]) = taken[p] - Pending(p)

\* The acceptor: the last connection has no client, the ones behind the
\* waiting one are not there yet, and a relay loop runs only on a connection
\* that has come to the relay.
AcceptInv ==
    /\ peer[client(MaxClients + 1)] = "absent"
    /\ \A c \in Conns : c > accepting => phase[c] = "none"
    /\ \A c \in Conns, s \in Sides :
         phase[c] \notin {"relay", "closed"} => loop[<<c, s>>] = "none"

RelayInv ==
    /\ TypeOK
    /\ AcceptInv
    /\ \A p \in Pipes : PipeInv(p)

(***************************************************************************)
(* The parts of TypeOK that the proofs take one at a time.                 *)
(***************************************************************************)
\* The state of the acceptor and of the two ends of every connection.
AcceptType ==
    /\ server \in {"running", "stopped", "terminated"}
    /\ accepting \in Conns
    /\ phase \in [Conns -> {"none", "accepting", "handshake", "relay", "closed"}]
    /\ peer \in [Pipes -> {"absent", "up", "stalled", "shut", "reset"}]

\* The state of the relay loops.
RelayType ==
    /\ sent \in [Pipes -> Nat] /\ taken \in [Pipes -> Nat]
    /\ loop \in [Pipes -> {"none", "read", "write", "stopped"}]
    /\ buf \in [Pipes -> Seq(Nat)] /\ got \in [Pipes -> Seq(Nat)]
    /\ short \in [Pipes -> BOOLEAN]

\* The bytes of one direction: none is read before it was sent, and none
\* written that was not read.
PipeRange(p) ==
    /\ sent[p] <= Quota[p]
    /\ taken[p] <= sent[p]
    /\ buf[p] \in Seq(1..taken[p])
    /\ got[p] \in Seq(1..taken[p])

\* TypeOK is these three.
LEMMA TypeParts ==
    TypeOK <=> AcceptType /\ RelayType /\ \A p \in Pipes : PipeRange(p)
BY DEF TypeOK, AcceptType, RelayType, PipeRange

\* The same of the next state.
LEMMA TypePartsPrimed ==
    TypeOK' <=> AcceptType' /\ RelayType' /\ \A p \in Pipes : PipeRange(p)'
BY DEF TypeOK, AcceptType, RelayType, PipeRange

\* A pipe is a connection and a side; so is the one back.
LEMMA PipeFacts ==
    ASSUME NEW p \in Pipes
    PROVE  /\ p[1] \in Conns /\ p[2] \in Sides /\ p = <<p[1], p[2]>>
           /\ Other(p) \in Pipes /\ Other(p)[1] = p[1]
BY DEF Pipes, Sides, Other

\* A connection's client is at one end of a pipe.
LEMMA ClientPipe == \A c \in Conns : client(c) \in Pipes
BY DEF Pipes, Sides, client

\* A direction that a step leaves alone keeps its invariants.
LEMMA PipeKept ==
    ASSUME NEW p \in Pipes, PipeInv(p), PipeRange(p), sent[p] = sent'[p],
           taken'[p] = taken[p], loop'[p] = loop[p], buf'[p] = buf[p],
           got'[p] = got[p], short'[p] = short[p]
    PROVE  PipeInv(p)' /\ PipeRange(p)'
BY Zenon DEF PipeInv, PipeRange, Pending

(***************************************************************************)
(* Init.                                                                   *)
(***************************************************************************)
\* Before the first accept no direction has carried anything.
LEMMA InitRelayInv == Init => RelayInv
<1> SUFFICES ASSUME Init PROVE RelayInv
  OBVIOUS
<1>1. 1 \in Conns /\ MaxClients + 1 \in Conns
  BY RelayAssumption DEF Conns
<1>2. AcceptType
  BY <1>1 DEF Init, AcceptType
<1>3. RelayType
  <2>1. <<>> \in Seq(Nat)
    OBVIOUS
  <2> QED
    BY <2>1 DEF Init, RelayType
<1>4. ASSUME NEW p \in Pipes PROVE PipeRange(p) /\ PipeInv(p)
  <2>1. /\ sent[p] = 0 /\ taken[p] = 0 /\ buf[p] = <<>> /\ got[p] = <<>>
        /\ loop[p] = "none" /\ Quota[p] \in Nat
    BY RelayAssumption DEF Init
  <2> QED
    BY <2>1 DEF PipeRange, PipeInv, Pending
<1>5. AcceptInv
  BY <1>1, ClientPipe, RelayAssumption DEF Init, AcceptInv, Conns, Pipes
<1> QED
  BY <1>2, <1>3, <1>4, <1>5, TypeParts DEF RelayInv

(***************************************************************************)
(* The steps that leave the relays alone: the acceptor, a handshake that   *)
(* ends, and what clients, targets and signals do.                         *)
(***************************************************************************)
\* A step that leaves the relays alone has only the acceptor to answer for.
LEMMA RelaysKept ==
    ASSUME RelayInv, UNCHANGED <<sent, relay_vars>>, AcceptType', AcceptInv'
    PROVE  RelayInv'
<1>1. RelayType'
  BY TypeParts DEF RelayInv, RelayType, relay_vars
<1>2. ASSUME NEW p \in Pipes PROVE PipeInv(p)' /\ PipeRange(p)'
  BY PipeKept, TypeParts DEF RelayInv, relay_vars
<1> QED
  BY <1>1, <1>2, TypePartsPrimed DEF RelayInv

\* async_accept has completed: there was a client, so there is a further
\* connection to wait with.
LEMMA AcceptRelayInv ==
    RelayInv /\ (Accept \/ AcceptFails) => RelayInv'
<1> SUFFICES ASSUME RelayInv, Accept \/ AcceptFails PROVE RelayInv'
  OBVIOUS
<1>1. AcceptType /\ RelayType /\ AcceptInv
  BY TypeParts DEF RelayInv
<1>2. /\ accepting \in Conns /\ peer[client(accepting)] # "absent"
      /\ phase[accepting] = "accepting"
      /\ peer' = peer /\ UNCHANGED <<sent, relay_vars>>
  BY <1>1 DEF Accept, AcceptFails, AcceptType
<1>3. accepting + 1 \in Conns
  BY <1>1, <1>2, RelayAssumption DEF AcceptInv, Conns
<1>4. CASE server' = "terminated" /\ UNCHANGED <<accepting, phase>>
  <2>1. AcceptType' /\ AcceptInv'
    BY <1>1, <1>2, <1>4 DEF AcceptType, AcceptInv, relay_vars
  <2> QED
    BY <2>1, <1>2, RelaysKept
<1>5. ASSUME NEW next_phase \in {"handshake", "closed"},
             do_accept(next_phase), server' = server
      PROVE  RelayInv'
  <2>1. AcceptType'
    BY <1>1, <1>2, <1>3, <1>5 DEF AcceptType, do_accept
  <2>2. AcceptInv'
    <3>1. \A c \in Conns : c > accepting' => phase'[c] = "none"
      BY <1>1, <1>2, <1>3, <1>5 DEF AcceptType, AcceptInv, do_accept, Conns
    <3>2. ASSUME NEW c \in Conns, NEW s \in Sides,
                 phase'[c] \notin {"relay", "closed"}
          PROVE  loop[<<c, s>>] = "none"
      BY <1>1, <1>2, <1>3, <1>5, <3>2 DEF AcceptType, AcceptInv, do_accept, Conns
    <3> QED
      BY <1>1, <1>2, <3>1, <3>2 DEF AcceptInv, relay_vars
  <2> QED
    BY <2>1, <2>2, <1>2, RelaysKept
<1> QED
  BY <1>4, <1>5 DEF Accept, AcceptFails

\* A handshake that ends without a relay, or with an exception.
LEMMA HandshakeRelayInv ==
    ASSUME RelayInv, NEW c \in Conns, HandshakeEnds(c) \/ HandshakeThrows(c)
    PROVE  RelayInv'
<1>1. AcceptType /\ RelayType /\ AcceptInv
  BY TypeParts DEF RelayInv
<1>2. AcceptType'
  BY <1>1 DEF AcceptType, HandshakeEnds, HandshakeThrows
<1>3. AcceptInv'
  BY <1>1 DEF AcceptType, AcceptInv, HandshakeEnds, HandshakeThrows, relay_vars
<1> QED
  BY <1>2, <1>3, RelaysKept DEF HandshakeEnds, HandshakeThrows

\* What clients, targets and signals do, except to send.
LEMMA OutsideRelayInv ==
    ASSUME RelayInv,
           \/ ClientConnects
           \/ \E p \in Pipes, l \in {"stalled", "shut", "reset"} :
                 SideBecomes(p, l)
           \/ Signal
           \/ UNCHANGED vars
    PROVE  RelayInv'
<1>1. AcceptType /\ RelayType /\ AcceptInv
  BY TypeParts DEF RelayInv
<1>2. MaxClients + 1 \in Conns /\ client(MaxClients + 1) \in Pipes
  BY RelayAssumption, ClientPipe DEF Conns
<1>3. /\ UNCHANGED <<accepting, phase, sent, relay_vars>>
      /\ server' \in {server, "stopped"}
  BY DEF ClientConnects, SideBecomes, Signal, vars, relay_vars
<1>4. /\ peer' \in [Pipes -> {"absent", "up", "stalled", "shut", "reset"}]
      /\ peer'[client(MaxClients + 1)] = "absent"
  <2>1. CASE ClientConnects
    <3>1. client(accepting) # client(MaxClients + 1)
      BY <1>1, <2>1, RelayAssumption DEF ClientConnects, AcceptType, client, Conns
    <3> QED
      BY <3>1, <2>1, <1>1, <1>2 DEF ClientConnects, AcceptType, AcceptInv
  <2>2. CASE \E p \in Pipes, l \in {"stalled", "shut", "reset"} :
                 SideBecomes(p, l)
    BY <2>2, <1>1, <1>2 DEF SideBecomes, AcceptType, AcceptInv
  <2>3. CASE Signal \/ UNCHANGED vars
    BY <2>3, <1>1 DEF Signal, vars, AcceptType, AcceptInv
  <2> QED
    BY <2>1, <2>2, <2>3
<1>5. AcceptType' /\ AcceptInv'
  BY <1>1, <1>3, <1>4 DEF AcceptType, AcceptInv, relay_vars
<1> QED
  BY <1>3, <1>5, RelaysKept

(***************************************************************************)
(* The steps of the relays.                                                *)
(***************************************************************************)
\* A step of one direction leaves the others alone, so its own invariants
\* are all there is to show.
LEMMA OnePipe ==
    ASSUME RelayInv, NEW p \in Pipes,
           \A q \in Pipes \ {p} :
              /\ sent'[q] = sent[q] /\ taken'[q] = taken[q]
              /\ loop'[q] = loop[q] /\ buf'[q] = buf[q]
              /\ got'[q] = got[q] /\ short'[q] = short[q],
           AcceptType', AcceptInv', RelayType', PipeInv(p)', PipeRange(p)'
    PROVE  RelayInv'
<1>1. ASSUME NEW q \in Pipes \ {p} PROVE PipeInv(q)' /\ PipeRange(q)'
  BY PipeKept, TypeParts DEF RelayInv
<1>2. \A q \in Pipes : PipeInv(q)' /\ PipeRange(q)'
  BY <1>1
<1> QED
  BY <1>2, TypePartsPrimed DEF RelayInv

\* do_relay: the buffers and what was written are those of the connection's
\* beginning, and no write is pending yet.
LEMMA DoRelayRelayInv ==
    ASSUME RelayInv, NEW c \in Conns, do_relay(c)
    PROVE  RelayInv'
<1>1. AcceptType /\ RelayType /\ AcceptInv
  BY TypeParts DEF RelayInv
<1>2. /\ phase[c] = "handshake" /\ <<c, "target">> \in Pipes
      /\ MaxClients + 1 \in Conns /\ client(MaxClients + 1) \in Pipes
      /\ client(MaxClients + 1) # <<c, "target">>
  BY RelayAssumption DEF do_relay, Pipes, Sides, Conns, client
<1>3. AcceptType'
  BY <1>1, <1>2 DEF AcceptType, do_relay
<1>4. RelayType'
  BY <1>1, <1>2 DEF RelayType, do_relay
<1>5. AcceptInv'
  <2>1. peer'[client(MaxClients + 1)] = "absent"
    BY <1>1, <1>2 DEF AcceptInv, AcceptType, do_relay
  <2>2. \A d \in Conns : d > accepting' => phase'[d] = "none"
    BY <1>1, <1>2 DEF AcceptInv, AcceptType, do_relay
  <2>3. ASSUME NEW d \in Conns, NEW s \in Sides,
               phase'[d] \notin {"relay", "closed"}
        PROVE  loop'[<<d, s>>] = "none"
    <3>1. d # c /\ <<d, s>> \in Pipes /\ phase'[d] = phase[d]
      BY <1>1, <2>3 DEF do_relay, AcceptType, Pipes
    <3> QED
      BY <3>1, <2>3, <1>1 DEF do_relay, AcceptInv
  <2> QED
    BY <2>1, <2>2, <2>3 DEF AcceptInv
<1>6. ASSUME NEW p \in Pipes PROVE PipeInv(p)' /\ PipeRange(p)'
  <2>1. PipeInv(p) /\ PipeRange(p)
    BY TypeParts DEF RelayInv
  <2>2. /\ sent'[p] = sent[p] /\ taken'[p] = taken[p] /\ buf'[p] = buf[p]
        /\ got'[p] = got[p] /\ short'[p] = short[p]
    BY DEF do_relay
  <2>3. CASE p[1] # c
    BY <2>1, <2>2, <2>3, PipeKept DEF do_relay
  <2>4. CASE p[1] = c
    <3>1. loop'[p] = "read"
      BY <2>4 DEF do_relay
    <3>2. loop[<<p[1], p[2]>>] = "none"
      BY <2>4, <1>1, <1>2, PipeFacts DEF AcceptInv
    <3>3. loop[p] = "none"
      BY <3>2, PipeFacts
    <3> QED
      BY <3>1, <3>3, <2>1, <2>2 DEF PipeInv, PipeRange, Pending
  <2> QED
    BY <2>3, <2>4
<1> QED
  BY <1>3, <1>4, <1>5, <1>6, TypePartsPrimed DEF RelayInv

\* The acceptor's part does not see what a running relay loop does.
LEMMA LoopStep ==
    ASSUME RelayInv, NEW p \in Pipes, phase[p[1]] = "relay",
           UNCHANGED <<server, accepting, phase, peer>>,
           NEW l \in {"none", "read", "write", "stopped"},
           loop' = [loop EXCEPT ![p] = l]
    PROVE  AcceptType' /\ AcceptInv'
<1>1. AcceptType /\ RelayType /\ AcceptInv
  BY TypeParts DEF RelayInv
<1>2. AcceptType'
  BY <1>1 DEF AcceptType
<1>3. ASSUME NEW c \in Conns, NEW s \in Sides,
             phase'[c] \notin {"relay", "closed"}
      PROVE  loop'[<<c, s>>] = "none"
  <2>1. <<c, s>> \in Pipes /\ <<c, s>> # p
    BY <1>3, PipeFacts DEF Pipes
  <2> QED
    BY <2>1, <1>1, <1>3 DEF AcceptInv, RelayType
<1> QED
  BY <1>1, <1>2, <1>3 DEF AcceptInv

\* The read_some has completed: what was pending before is nothing, so the
\* buffer may be overwritten, and holds the next bytes of its side.
LEMMA RelayFromRelayInv ==
    ASSUME RelayInv, NEW p \in Pipes, RelayFrom(p)
    PROVE  RelayInv'
<1>1. RelayType /\ PipeInv(p) /\ PipeRange(p)
  BY TypeParts DEF RelayInv
<1>2. PICK n \in 1..(sent[p] - taken[p]) :
        /\ buf' = [buf EXCEPT ![p] = chunk(p, n)]
        /\ taken' = [taken EXCEPT ![p] = @ + n]
  BY DEF RelayFrom
<1>3. /\ sent[p] \in Nat /\ taken[p] \in Nat /\ n \in Nat /\ n >= 1
      /\ taken[p] + n <= sent[p]
  BY <1>1, <1>2 DEF RelayType
<1>4. /\ chunk(p, n) \in Seq(1..(taken[p] + n)) /\ chunk(p, n) \in Seq(Nat)
      /\ Len(chunk(p, n)) = n
      /\ \A i \in 1..n : chunk(p, n)[i] = taken[p] + i
  BY <1>3 DEF chunk
<1>5. AcceptType' /\ AcceptInv'
  BY LoopStep DEF RelayFrom
<1>6. RelayType'
  <2>1. UNCHANGED <<sent, got, short>> /\ loop' = [loop EXCEPT ![p] = "write"]
    BY DEF RelayFrom
  <2>2. taken' \in [Pipes -> Nat]
    <3>1. taken[p] + n \in Nat
      BY <1>3
    <3> QED
      BY <1>1, <1>2, <3>1 DEF RelayType
  <2>3. buf' \in [Pipes -> Seq(Nat)]
    BY <1>1, <1>2, <1>4, Zenon DEF RelayType
  <2>4. loop' \in [Pipes -> {"none", "read", "write", "stopped"}]
    BY <1>1, <2>1 DEF RelayType
  <2> QED
    BY <1>1, <2>1, <2>2, <2>3, <2>4 DEF RelayType
<1>7. /\ taken'[p] = taken[p] + n /\ buf'[p] = chunk(p, n) /\ got'[p] = got[p]
      /\ short'[p] = short[p] /\ sent'[p] = sent[p] /\ loop[p] = "read"
      /\ loop'[p] = "write" /\ Len(got[p]) \in Nat
  BY <1>1, <1>2 DEF RelayType, RelayFrom
<1>8. PipeRange(p)'
  <2>1. got[p] \in Seq(1..(taken[p] + n))
    BY <1>1, <1>3 DEF PipeRange
  <2> QED
    BY <2>1, <1>1, <1>3, <1>4, <1>7 DEF PipeRange
<1>9. PipeInv(p)'
  <2>1. Pending(p) = 0 /\ Pending(p)' = n
    BY <1>7, <1>4 DEF Pending
  <2>2. \A i \in 1..Len(got[p]) : got[p][i] \in Nat /\ got[p][i] <= taken[p]
    BY <1>1, <1>3, <2>1 DEF PipeInv, RelayType
  <2>3. Pending(p)' <= taken'[p] /\ taken'[p] - Pending(p)' = taken[p]
    BY <1>3, <1>7, <2>1
  <2>4. \A i \in 1..Len(buf'[p]) :
          buf'[p][i] = (taken'[p] - Len(buf'[p])) + i
    <3>1. /\ Len(buf'[p]) = n /\ taken'[p] - n = taken[p]
          /\ \A i \in 1..n : buf'[p][i] = taken[p] + i
      BY <1>3, <1>4, <1>7
    <3> QED
      BY <3>1, Zenon
  <2>5. /\ \A i, j \in 1..Len(got[p]) : i < j => got[p][i] < got[p][j]
        /\ ~short[p] => \A i \in 1..Len(got[p]) : got[p][i] = i
        /\ ~short[p] => Len(got[p]) = taken[p] - Pending(p)
    BY <1>1, <1>7 DEF PipeInv
  <2>6. ~short[p] => Len(got[p]) = taken[p]
    BY <1>3, <2>1, <2>5
  <2>7. \A i \in 1..Len(got[p]) : got[p][i] <= taken'[p] - Pending(p)'
    BY <2>2, <2>3
  <2> QED
    BY <1>7, <2>3, <2>4, <2>5, <2>6, <2>7, Zenon DEF PipeInv
<1>10. \A q \in Pipes \ {p} :
          /\ sent'[q] = sent[q] /\ taken'[q] = taken[q]
          /\ loop'[q] = loop[q] /\ buf'[q] = buf[q]
          /\ got'[q] = got[q] /\ short'[q] = short[q]
  BY <1>1, <1>2 DEF RelayType, RelayFrom
<1> QED
  BY <1>5, <1>6, <1>8, <1>9, <1>10, OnePipe

\* The write_some has taken k bytes: they follow those written before, and
\* nothing is pending any more, taken or not.
LEMMA RelayToRelayInv ==
    ASSUME RelayInv, NEW p \in Pipes, RelayTo(p)
    PROVE  RelayInv'
<1>1. RelayType /\ PipeInv(p) /\ PipeRange(p)
  BY TypeParts DEF RelayInv
<1>2. PICK k \in 1..Len(buf[p]) :
        /\ got' = [got EXCEPT ![p] = @ \o SubSeq(buf[p], 1, k)]
        /\ short' = [short EXCEPT ![p] = @ \/ k < Len(buf[p])]
        /\ loop' = [loop EXCEPT ![p] = after_write(p, k)]
  BY DEF RelayTo
<1> DEFINE b == buf[p]
           g == got[p]
           t == taken[p]
           w == SubSeq(b, 1, k)
<1>3. /\ t \in Nat /\ sent[p] \in Nat /\ b \in Seq(Nat) /\ g \in Seq(Nat)
      /\ b \in Seq(1..t) /\ g \in Seq(1..t)
      /\ Len(b) \in Nat /\ Len(g) \in Nat /\ k \in Nat
      /\ k >= 1 /\ k <= Len(b)
  BY <1>1, <1>2 DEF RelayType, PipeRange
<1>4. /\ w \in Seq(1..t) /\ Len(w) = k
      /\ \A i \in 1..k : w[i] = b[i]
  <2> HIDE DEF b, g, t
  <2>1. ASSUME NEW i \in 1..k PROVE b[i] \in 1..t
    <3>1. i \in 1..Len(b)
      BY <1>3
    <3> QED
      BY <1>3, <3>1, ElementOfSeq
  <2>2. /\ SubSeq(b, 1, k) \in Seq(1..t) /\ Len(SubSeq(b, 1, k)) = k
        /\ \A i \in 1..(k - 1 + 1) : SubSeq(b, 1, k)[i] = b[1 + i - 1]
    BY <1>3, <2>1, SubSeqProperties
  <2>3. k - 1 + 1 = k /\ \A i \in 1..k : 1 + i - 1 = i
    BY <1>3
  <2> QED
    BY <2>2, <2>3
<1>5. /\ g \o w \in Seq(1..t) /\ g \o w \in Seq(Nat)
      /\ Len(g \o w) = Len(g) + k
      /\ \A i \in 1..Len(g) : (g \o w)[i] = g[i]
      /\ \A i \in 1..k : (g \o w)[Len(g) + i] = w[i]
  <2> HIDE DEF b, g, t, w
  <2>1. /\ g \o w \in Seq(1..t) /\ Len(g \o w) = Len(g) + k
        /\ \A i \in 1..Len(g) : (g \o w)[i] = g[i]
        /\ \A i \in 1..k : (g \o w)[Len(g) + i] = w[i]
    BY <1>3, <1>4, ConcatProperties
  <2> DEFINE h == g \o w
  <2>2. h \in Seq(1..t)
    BY <2>1
  <2> HIDE DEF h
  <2>3. h \in Seq(Nat)
    BY <2>2, <1>3
  <2> QED
    BY <2>1, <2>3 DEF h
<1>6. AcceptType' /\ AcceptInv'
  BY <1>2, LoopStep DEF RelayTo, after_write
<1>7. RelayType'
  BY <1>1, <1>2, <1>5 DEF RelayType, RelayTo, after_write
<1>8. /\ taken'[p] = t /\ buf'[p] = b /\ got'[p] = g \o w
      /\ sent'[p] = sent[p] /\ loop[p] = "write" /\ loop'[p] = "read"
  BY <1>1, <1>2 DEF RelayType, RelayTo, after_write
<1>12. ~short'[p] => ~short[p] /\ ~(k < Len(b))
  BY <1>1, <1>2, Zenon DEF RelayType
<1>9. PipeRange(p)'
  BY <1>1, <1>5, <1>8 DEF PipeRange
<1>10. PipeInv(p)'
  <2>1. Pending(p) = Len(b) /\ Pending(p)' = 0
    BY <1>8 DEF Pending
  <2>2. /\ Len(b) <= t
        /\ \A i \in 1..Len(b) : b[i] = (t - Len(b)) + i
        /\ \A i \in 1..Len(g) : g[i] <= t - Len(b)
        /\ \A i, j \in 1..Len(g) : i < j => g[i] < g[j]
        /\ ~short[p] => \A i \in 1..Len(g) : g[i] = i
        /\ ~short[p] => Len(g) = t - Len(b)
    BY <1>1, <1>8, <2>1 DEF PipeInv
  <2> DEFINE h == g \o w
  <2>3. h \in Seq(Nat) /\ Len(h) = Len(g) + k
    BY <1>5
  <2>4. \A i \in 1..Len(h) :
          \/ i \in 1..Len(g) /\ h[i] = g[i]
          \/ i - Len(g) \in 1..k /\ h[i] = (t - Len(b)) + (i - Len(g))
    <3> SUFFICES ASSUME NEW i \in 1..Len(h), i \notin 1..Len(g)
                 PROVE  /\ i - Len(g) \in 1..k
                        /\ h[i] = (t - Len(b)) + (i - Len(g))
      BY <1>5
    <3>1. i - Len(g) \in 1..k /\ i - Len(g) \in 1..Len(b)
      BY <2>3, <1>3
    <3>2. h[Len(g) + (i - Len(g))] = w[i - Len(g)]
      BY <3>1, <1>5
    <3>3. Len(g) + (i - Len(g)) = i
      BY <1>3, <2>3
    <3> QED
      BY <3>1, <3>2, <3>3, <1>4, <2>2
  <2>10. got'[p] = h
    BY <1>8
  <2>11. taken'[p] = t
    BY <1>8
  <2> HIDE DEF b, g, t, w, h
  <2>12. \A i \in 1..Len(g) : g[i] \in Nat
    BY <1>3
  <2>5. ASSUME NEW i \in 1..Len(h) PROVE h[i] <= t
    <3>1. CASE i \in 1..Len(g) /\ h[i] = g[i]
      BY <3>1, <2>2, <2>12, <1>3
    <3>2. CASE i - Len(g) \in 1..k /\ h[i] = (t - Len(b)) + (i - Len(g))
      BY <3>2, <2>2, <2>3, <1>3
    <3> QED
      BY <3>1, <3>2, <2>4
  <2>6. ASSUME NEW i \in 1..Len(h), NEW j \in 1..Len(h), i < j
        PROVE  h[i] < h[j]
    <3>1. CASE j \in 1..Len(g) /\ h[j] = g[j]
      <4>1. i \in 1..Len(g) /\ h[i] = g[i]
        <5>1. i \in 1..Len(g)
          BY <3>1, <2>3, <2>6, <1>3
        <5>2. ~(i - Len(g) \in 1..k)
          BY <5>1, <1>3
        <5> QED
          BY <5>1, <5>2, <2>4
      <4> QED
        BY <4>1, <3>1, <2>2, <2>6
    <3>2. CASE j - Len(g) \in 1..k /\ h[j] = (t - Len(b)) + (j - Len(g))
      <4>1. CASE i \in 1..Len(g) /\ h[i] = g[i]
        <5>1. g[i] \in Nat /\ g[i] <= t - Len(b)
          BY <4>1, <2>2, <2>12
        <5>2. j - Len(g) >= 1 /\ j \in Int
          BY <3>2, <2>3, <1>3
        <5>3. t \in Int /\ Len(b) \in Int /\ Len(g) \in Int
          BY <1>3
        <5> QED
          BY <5>1, <5>2, <5>3, <4>1, <3>2
      <4>2. CASE i - Len(g) \in 1..k /\ h[i] = (t - Len(b)) + (i - Len(g))
        BY <4>2, <3>2, <2>3, <2>6, <1>3
      <4> QED
        BY <4>1, <4>2, <2>4
    <3> QED
      BY <3>1, <3>2, <2>4
  <2>7. ASSUME ~short[p], NEW i \in 1..Len(h) PROVE h[i] = i
    <3>1. CASE i \in 1..Len(g) /\ h[i] = g[i]
      BY <3>1, <2>2, <2>7
    <3>2. CASE i - Len(g) \in 1..k /\ h[i] = (t - Len(b)) + (i - Len(g))
      <4>1. Len(g) = t - Len(b)
        BY <2>2, <2>7
      <4> QED
        BY <4>1, <3>2, <2>3, <1>3
    <3> QED
      BY <3>1, <3>2, <2>4
  <2>8. ~short[p] /\ k = Len(b) => Len(h) = t
    BY <2>2, <2>3, <1>3
  <2>9. ~short'[p] => ~short[p] /\ k = Len(b)
    <3>1. ~(k < Len(b)) => k = Len(b)
      BY <1>3
    <3> QED
      BY <3>1, <1>12, Zenon
  <2> QED
    <3>1. ~short'[p] => (\A i \in 1..Len(h) : h[i] = i) /\ Len(h) = t - 0
      BY <2>7, <2>8, <2>9, <1>3
    <3>2. t - 0 = t /\ 0 <= t
      BY <1>3
    <3>3. /\ Pending(p)' <= taken'[p]
          /\ \A i \in 1..Len(got'[p]) : got'[p][i] <= taken'[p] - Pending(p)'
      BY <2>1, <2>5, <2>10, <2>11, <3>2, Zenon
    <3>4. \A i, j \in 1..Len(got'[p]) : i < j => got'[p][i] < got'[p][j]
      BY <2>6, <2>10, Zenon
    <3>5. ~short'[p] => /\ \A i \in 1..Len(got'[p]) : got'[p][i] = i
                        /\ Len(got'[p]) = taken'[p] - Pending(p)'
      BY <2>1, <2>10, <2>11, <3>1, Zenon
    <3>6. loop'[p] # "write"
      BY <1>8
    <3> QED
      BY <3>3, <3>4, <3>5, <3>6, Zenon DEF PipeInv
<1>11. \A q \in Pipes \ {p} :
          /\ sent'[q] = sent[q] /\ taken'[q] = taken[q]
          /\ loop'[q] = loop[q] /\ buf'[q] = buf[q]
          /\ got'[q] = got[q] /\ short'[q] = short[q]
  BY <1>1, <1>2 DEF RelayType, RelayTo
<1> QED
  BY <1>6, <1>7, <1>9, <1>10, <1>11, OnePipe

\* A loop stops, at the end of what its side sends or with the side it
\* writes to: what was pending is lost with it.
LEMMA StopRelayInv ==
    ASSUME RelayInv, NEW p \in Pipes, RelayFromFails(p) \/ RelayToFails(p)
    PROVE  RelayInv'
<1>1. AcceptType /\ RelayType /\ AcceptInv /\ PipeInv(p) /\ PipeRange(p)
  BY TypeParts DEF RelayInv
<1>2. /\ Stop(p) /\ phase[p[1]] = "relay" /\ p[1] \in Conns
      /\ loop[p] \in {"read", "write"}
  BY PipeFacts DEF RelayFromFails, RelayToFails
<1>3. after_stop(p) \in {"closed", "relay"}
  BY DEF after_stop
<1>4. AcceptType'
  BY <1>1, <1>2, <1>3 DEF AcceptType, Stop
<1>5. RelayType'
  BY <1>1, <1>2 DEF RelayType, Stop
<1>6. AcceptInv'
  <2>1. \A c \in Conns : c > accepting' => phase'[c] = "none"
    BY <1>1, <1>2 DEF AcceptInv, AcceptType, Stop
  <2>2. ASSUME NEW c \in Conns, NEW s \in Sides,
               phase'[c] \notin {"relay", "closed"}
        PROVE  loop'[<<c, s>>] = "none"
    <3>1. /\ <<c, s>> \in Pipes /\ c # p[1] /\ <<c, s>> # p
          /\ phase'[c] = phase[c]
      BY <2>2, <1>1, <1>2, <1>3, PipeFacts DEF Stop, AcceptType, Pipes
    <3> QED
      BY <3>1, <2>2, <1>1, <1>2 DEF Stop, AcceptInv, RelayType
  <2> QED
    BY <2>1, <2>2, <1>1, <1>2 DEF AcceptInv, Stop
<1>7. /\ sent'[p] = sent[p] /\ taken'[p] = taken[p] /\ buf'[p] = buf[p]
      /\ got'[p] = got[p] /\ short'[p] = short[p] /\ loop'[p] = "stopped"
  BY <1>1, <1>2 DEF Stop, RelayType
<1>8. PipeRange(p)'
  BY <1>1, <1>7 DEF PipeRange
<1>9. PipeInv(p)'
  <2>1. Pending(p)' = 0 /\ Pending(p) \in Nat /\ taken[p] \in Nat
    BY <1>1, <1>7 DEF Pending, RelayType
  <2>2. \A i \in 1..Len(got[p]) : got[p][i] \in Nat
    BY <1>1 DEF RelayType
  <2> QED
    BY <2>1, <2>2, <1>1, <1>7 DEF PipeInv
<1>10. \A q \in Pipes \ {p} :
          /\ sent'[q] = sent[q] /\ taken'[q] = taken[q]
          /\ loop'[q] = loop[q] /\ buf'[q] = buf[q]
          /\ got'[q] = got[q] /\ short'[q] = short[q]
  BY <1>1, <1>2 DEF RelayType, Stop
<1> QED
  BY <1>4, <1>5, <1>6, <1>8, <1>9, <1>10, OnePipe

\* A side sends a byte, which the server may read from now on.
LEMMA SideSendsRelayInv ==
    ASSUME RelayInv, NEW p \in Pipes, SideSends(p)
    PROVE  RelayInv'
<1>1. AcceptType /\ RelayType /\ AcceptInv /\ PipeInv(p) /\ PipeRange(p)
  BY TypeParts DEF RelayInv
<1>2. AcceptType' /\ AcceptInv'
  BY <1>1 DEF SideSends, AcceptType, AcceptInv, relay_vars
<1>3. RelayType'
  BY <1>1 DEF SideSends, RelayType, relay_vars
<1>4. PipeInv(p)'
  BY <1>1, Zenon DEF PipeInv, Pending, SideSends, relay_vars
<1>5. sent[p] \in Nat /\ sent'[p] = sent[p] + 1 /\ Quota[p] \in Nat
  BY <1>1, RelayAssumption DEF SideSends, RelayType
<1>6. PipeRange(p)'
  BY <1>1, <1>5 DEF PipeRange, SideSends, relay_vars, RelayType
<1>7. \A q \in Pipes \ {p} :
          /\ sent'[q] = sent[q] /\ taken'[q] = taken[q]
          /\ loop'[q] = loop[q] /\ buf'[q] = buf[q]
          /\ got'[q] = got[q] /\ short'[q] = short[q]
  BY <1>1 DEF RelayType, SideSends, relay_vars
<1> QED
  BY <1>2, <1>3, <1>4, <1>6, <1>7, OnePipe

(***************************************************************************)
(* The theorems.                                                           *)
(***************************************************************************)
\* The inductive invariant holds for any number of clients and of bytes.
THEOREM RelayInvariance == Spec => []RelayInv
<1>1. RelayInv /\ [Next]_vars => RelayInv'
  <2> SUFFICES ASSUME RelayInv, [Next]_vars PROVE RelayInv'
    OBVIOUS
  <2>1. CASE Accept \/ AcceptFails
    BY <2>1, AcceptRelayInv
  <2>2. ASSUME NEW c \in Conns,
               do_relay(c) \/ HandshakeEnds(c) \/ HandshakeThrows(c)
        PROVE  RelayInv'
    BY <2>2, DoRelayRelayInv, HandshakeRelayInv
  <2>3. ASSUME NEW p \in Pipes,
               \/ RelayFrom(p) \/ RelayFromFails(p)
               \/ RelayTo(p) \/ RelayToFails(p)
        PROVE  RelayInv'
    BY <2>3, RelayFromRelayInv, RelayToRelayInv, StopRelayInv
  <2>4. CASE \E p \in Pipes : SideSends(p)
    BY <2>4, SideSendsRelayInv
  <2>5. CASE \/ ClientConnects
             \/ \E p \in Pipes, l \in {"stalled", "shut", "reset"} :
                   SideBecomes(p, l)
             \/ Signal
             \/ UNCHANGED vars
    BY <2>5, OutsideRelayInv
  <2> QED
    BY <2>1, <2>2, <2>3, <2>4, <2>5 DEF Next, Handler, Outside
<1> QED
  BY <1>1, InitRelayInv, PTL DEF Spec

\* The type invariant of the relay server: the bytes read were sent, and the
\* bytes buffered and written were read, on every connection.
THEOREM TypeCorrectRelay == Spec => []TypeOK
<1>1. RelayInv => TypeOK
  BY DEF RelayInv
<1> QED
  BY <1>1, RelayInvariance, PTL

\* No byte is written twice, out of order or on the wrong side, by any
\* number of relays (do_relay_to_client, do_relay_to_target).
THEOREM RelayOrdered == Spec => []RelayInOrder
<1>1. RelayInv => RelayInOrder
  <2> SUFFICES ASSUME RelayInv, NEW p \in Pipes
               PROVE  /\ \A i, j \in DOMAIN got[p] :
                            i < j => got[p][i] < got[p][j]
                      /\ got[p] # <<>> => Last(got[p]) <= taken[p]
    BY DEF RelayInOrder
  <2>1. RelayType /\ PipeInv(p) /\ PipeRange(p)
    BY TypeParts DEF RelayInv
  <2>2. /\ got[p] \in Seq(Nat) /\ got[p] \in Seq(1..taken[p])
        /\ taken[p] \in Nat /\ DOMAIN got[p] = 1..Len(got[p])
    BY <2>1 DEF RelayType, PipeRange
  <2>3. got[p] # <<>> => got[p][Len(got[p])] \in 1..taken[p]
    BY <2>2
  <2> QED
    BY <2>1, <2>2, <2>3 DEF PipeInv, Last
<1> QED
  BY <1>1, RelayInvariance, PTL

\* In a direction in which no write was short, what one side received is what
\* the other has sent, without a gap, and all that was read once the write is
\* over: a short write is the only way the relay loses a byte.
THEOREM RelayComplete == Spec => []FaithfulUnlessShort
<1>1. RelayInv => FaithfulUnlessShort
  <2> SUFFICES ASSUME RelayInv, NEW p \in Pipes, ~short[p]
               PROVE  Faithful(p)
    BY DEF FaithfulUnlessShort
  <2> DEFINE all == [i \in 1..taken[p] |-> i]
             g == got[p]
  <2>1. RelayType /\ PipeInv(p) /\ PipeRange(p)
    BY TypeParts DEF RelayInv
  <2>2. /\ g \in Seq(Nat) /\ g \in Seq(1..taken[p]) /\ Len(g) \in Nat
        /\ taken[p] \in Nat /\ all \in Seq(Nat) /\ Len(all) = taken[p]
        /\ \A i \in 1..taken[p] : all[i] = i
    BY <2>1 DEF RelayType, PipeRange
  <2>3. \A i \in 1..Len(g) : g[i] = i
    BY <2>1 DEF PipeInv
  <2>4. Len(g) <= taken[p]
    <3>1. Len(g) # 0 => g[Len(g)] \in 1..taken[p]
      BY <2>2
    <3>2. Len(g) # 0 => g[Len(g)] = Len(g)
      BY <2>2, <2>3
    <3>3. Len(g) \in Nat /\ taken[p] \in Nat
      BY <2>2
    <3> HIDE DEF g
    <3> QED
      BY <3>1, <3>2, <3>3
  <2>5. IsPrefix(g, all)
    <3>1. SubSeq(all, 1, Len(g)) = g
      BY <2>2, <2>3, <2>4
    <3> QED
      <4>1. SubSeq(g, 1, Len(g)) = g
        BY <2>2
      <4> QED
        BY <3>1, <4>1, <2>2, <2>4 DEF IsPrefix
  <2>6. loop[p] = "read" => g = all
    <3>1. loop[p] = "read" => Len(g) = taken[p]
      BY <2>1, <2>2 DEF PipeInv, Pending
    <3> HIDE DEF all, g
    <3>2. ASSUME Len(g) = taken[p] PROVE g = all
      <4>1. Len(g) = Len(all) /\ \A i \in 1..Len(g) : g[i] = all[i]
        BY <2>2, <2>3, <3>2
      <4> QED
        BY <2>2, <4>1, SeqEqual
    <3> QED
      BY <3>1, <3>2
  <2> QED
    BY <2>5, <2>6 DEF Faithful
<1> QED
  BY <1>1, RelayInvariance, PTL
=============================================================================
