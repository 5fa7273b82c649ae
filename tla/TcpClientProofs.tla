-------------------------- MODULE TcpClientProofs --------------------------
(***************************************************************************)
(* What a client promises about its registration with epoll, its state and *)
(* the messages it carries, for every number of descriptors and messages   *)
(* and all limits.                                                         *)
(*                                                                         *)
(* The functions of the client call each other with the client as a value, *)
(* so the invariant is a predicate of the client, and the lemmas say for   *)
(* one function each that it keeps its parts.                              *)
(***************************************************************************)
EXTENDS TcpClient, SequenceTheorems, WellFoundedInduction, TLAPS

Byte == [msg : Nat, part : {1, 2}]

Clients ==
  [state : {"kDisconnected", "kConnecting", "kConnected"}, auto : BOOLEAN,
   fd : FDs, events : SUBSET {"IN", "OUT"}, isPooling : BOOLEAN,
   sendbuf : Seq(Byte), recv : Nat,
   conn : {"none", "pending", "up", "eof", "failed", "reset", "dead"},
   inbox : Nat, full : BOOLEAN, wire : Seq(Byte),
   open : [FDs -> {"free", "mine", "other"}],
   ep : [FDs -> SUBSET {"IN", "OUT"}],
   old : BOOLEAN, hist : SUBSET {"cut", "overflow"}]

\* epoll watches what the socket believes it does.
Watch(t) ==
  /\ t.ep = [f \in FDs |-> IF f = t.fd THEN t.events ELSE {}]
  /\ t.isPooling <=> t.events # {}

\* The state of the client, its events and its connection fit together.
Mode(t) ==
  /\ t.state = "kDisconnected" <=> t.events = {}
  /\ t.state = "kConnected" <=> "IN" \in t.events
  /\ t.state # "kDisconnected" => t.open[t.fd] = "mine"
  /\ t.state = "kDisconnected" <=> t.conn = "none"
  /\ t.state = "kConnected" => t.conn \in {"up", "eof", "reset", "dead"}
  /\ t.state = "kConnected" => ("OUT" \in t.events <=> t.sendbuf # <<>>)
  /\ t.state # "kConnected" => t.wire = <<>> /\ ~t.full

Carried(t) == t.wire \o t.sendbuf

\* Byte b can be the i-th of a sequence of messages up to m, and follow byte a.
Placed(b, i, m) == b.part = 1 + ((i - 1) % 2) /\ b.msg <= m
Follows(b, a, i) == IF i % 2 = 0 THEN b.msg = a.msg ELSE b.msg > a.msg

\* The bytes of q are those of messages with growing numbers, up to m; the last
\* message may lack its second byte.
Whole(q, m) ==
  \A i \in 1 .. Len(q) : Placed(q[i], i, m) /\ (i > 1 => Follows(q[i], q[i - 1], i))

\* A message is left half written only by a connection that is lost.
Data(t, m) ==
  "cut" \notin t.hist =>
    /\ ~t.old
    /\ t.state # "kConnected" => t.recv = 0
    /\ Whole(Carried(t), m)
    /\ t.sendbuf # <<>> \/ t.conn # "dead" => Len(Carried(t)) % 2 = 0

Good(t, m) == t \in Clients /\ Watch(t) /\ Mode(t) /\ Data(t, m)

\* The event e, returned by epoll_wait and not handled yet, still applies to t.
Fresh(t, e) ==
  /\ e \subseteq {"IN", "OUT", "HUP", "ERR"}
  /\ e # {} => t.state # "kDisconnected"
  /\ "IN" \in e => t.state = "kConnected"
  /\ "OUT" \in e => /\ "OUT" \in t.events /\ t.conn # "pending"
                    /\ t.full => t.conn \in {"reset", "dead"}

IInv == msgs \in Nat /\ Good(s, msgs) /\ Fresh(s, ev)

-----------------------------------------------------------------------------
(* Sequences of messages *)

\* A message is two bytes.
LEMMA MessageOK ==
  ASSUME NEW m \in Nat
  PROVE  /\ Message(m) \in Seq(Byte) /\ Len(Message(m)) = 2
         /\ Message(m)[1] = [msg |-> m, part |-> 1]
         /\ Message(m)[2] = [msg |-> m, part |-> 2]
  BY DEF Message, Byte

\* Even places.
LEMMA Parity ==
  ASSUME NEW k \in Nat, k % 2 = 0
  PROVE  /\ (k + 1) % 2 = 1 /\ (k + 2) % 2 = 0 /\ (k + 1) - 1 = k /\ (k + 2) - 1 = k + 1
         /\ \A i \in Nat : (k + i) % 2 = i % 2 /\ ((k + i) - 1) % 2 = (i - 1) % 2
<1>1. PICK j \in Nat : k = 2 * j
  <2>1. k = 2 * (k \div 2) /\ k \div 2 \in Nat
    BY SMT
  <2> QED BY <2>1, Zenon
<1>2. \A i \in Int : (2 * j + i) % 2 = i % 2
  BY SMT
<1>3. \A i \in Nat : i - 1 \in Int /\ (k + i) - 1 = k + (i - 1)
  BY SMT
<1>4. 0 % 2 = 0 /\ 1 % 2 = 1 /\ 2 % 2 = 0
  BY SMT
<1>5. (k + 1) - 1 = k /\ (k + 2) - 1 = k + 1
  BY SMT
<1> QED BY <1>1, <1>2, <1>3, <1>4, <1>5, SMT

\* The places of the bytes of a concatenation.
LEMMA ConcatPlaces ==
  ASSUME NEW S, NEW w \in Seq(S), NEW q \in Seq(S)
  PROVE  /\ w \o q \in Seq(S) /\ Len(w) \in Nat /\ Len(q) \in Nat
         /\ Len(w \o q) = Len(w) + Len(q)
         /\ \A i \in 1 .. Len(w) : (w \o q)[i] = w[i] /\ w[i] \in S
         /\ \A i \in 1 .. Len(q) : (w \o q)[Len(w) + i] = q[i] /\ q[i] \in S
<1>1. Len(w) \in Nat /\ Len(q) \in Nat
  BY LenProperties, Zenon
<1>2. w \o q \in Seq(S) /\ Len(w \o q) = Len(w) + Len(q)
  BY ConcatProperties, Zenon
<1>3. \A i \in 1 .. Len(w) + Len(q) :
        (w \o q)[i] = IF i <= Len(w) THEN w[i] ELSE q[i - Len(w)]
  BY ConcatProperties, Zenon
<1>4. \A i \in 1 .. Len(w) : i \in 1 .. Len(w) + Len(q) /\ i <= Len(w)
  BY <1>1, SMT
<1>5. \A i \in 1 .. Len(q) : /\ Len(w) + i \in 1 .. Len(w) + Len(q) /\ ~(Len(w) + i <= Len(w))
                             /\ (Len(w) + i) - Len(w) = i
  BY <1>1, SMT
<1>6. /\ \A i \in 1 .. Len(w) : w[i] \in S
      /\ \A i \in 1 .. Len(q) : q[i] \in S
  BY ElementOfSeq, Zenon
<1> QED BY <1>1, <1>2, <1>3, <1>4, <1>5, <1>6, Zenon

\* Bytes can be concatenated in any order.
LEMMA Associative ==
  \A w, x, r \in Seq(Byte) : (w \o x) \o r = w \o (x \o r)
  BY ConcatAssociative, SMTT(30)

\* The next message can follow whole ones.
LEMMA WholeAppend ==
  ASSUME NEW m \in Nat, NEW q \in Seq(Byte), Whole(q, m), Len(q) % 2 = 0
  PROVE  /\ q \o Message(m + 1) \in Seq(Byte)
         /\ Whole(q \o Message(m + 1), m + 1)
         /\ Len(q \o Message(m + 1)) % 2 = 0
<1> DEFINE d == Message(m + 1)
           r == q \o d
           k == Len(q)
<1>1. d \in Seq(Byte) /\ Len(d) = 2 /\ d[1] = [msg |-> m + 1, part |-> 1]
        /\ d[2] = [msg |-> m + 1, part |-> 2]
  BY MessageOK
<1> HIDE DEF d
<1>2. /\ r \in Seq(Byte) /\ Len(r) = k + 2 /\ k \in Nat
      /\ \A i \in 1 .. k : r[i] = q[i] /\ q[i] \in Byte
      /\ r[k + 1] = d[1] /\ r[k + 2] = d[2]
  <2>1. /\ q \o d \in Seq(Byte) /\ Len(q) \in Nat /\ Len(q \o d) = Len(q) + Len(d)
        /\ \A i \in 1 .. Len(q) : (q \o d)[i] = q[i] /\ q[i] \in Byte
    BY <1>1, ConcatPlaces, ZenonT(30)
  <2>2. \A i \in 1 .. Len(d) : (q \o d)[Len(q) + i] = d[i]
    <3>1. d \in Seq(Byte)
      BY <1>1
    <3> QED BY <3>1, ConcatPlaces, SMTT(20)
  <2>3. 1 \in 1 .. Len(d) /\ 2 \in 1 .. Len(d)
    BY <1>1
  <2> QED BY <1>1, <2>1, <2>2, <2>3, Zenon
<1> HIDE DEF r
<1>3. k % 2 = 0 /\ Whole(q, m)
  OBVIOUS
<1>4. \A i \in 1 .. k : Placed(q[i], i, m) /\ (i > 1 => Follows(q[i], q[i - 1], i))
  BY DEF Whole
<1> HIDE DEF k
<1>5. ASSUME NEW i \in 1 .. k + 2
      PROVE  Placed(r[i], i, m + 1) /\ (i > 1 => Follows(r[i], r[i - 1], i))
  <2>1. CASE i <= k
    <3>1. r[i] = q[i] /\ (i > 1 => r[i - 1] = q[i - 1]) /\ q[i] \in Byte
      BY <1>2, <2>1
    <3>2. Placed(q[i], i, m) => Placed(q[i], i, m + 1)
      BY <3>1 DEF Placed, Byte
    <3> QED BY <2>1, <3>1, <3>2, <1>4, <1>2
  <2>2. CASE i = k + 1
    <3>1. r[i] = d[1]
      BY <1>2, <2>2
    <3>2. i % 2 = 1 /\ (i - 1) % 2 = 0
      BY <1>2, <1>3, <2>2, Parity
    <3>3. Placed(r[i], i, m + 1)
      BY <3>1, <3>2, <1>1 DEF Placed
    <3>4. ASSUME i > 1 PROVE Follows(r[i], r[i - 1], i)
      <4>1. i - 1 = k /\ k \in 1 .. k
        BY <1>2, <2>2, <3>4
      <4>2. r[i - 1] = q[k] /\ q[k] \in Byte /\ Placed(q[k], k, m)
        BY <4>1, <1>2, <1>4, SMTT(30)
      <4>3. q[k].msg <= m /\ q[k].msg \in Nat /\ r[i].msg = m + 1
        BY <4>2, <3>1, <1>1 DEF Placed, Byte
      <4> QED BY <4>2, <4>3, <3>2 DEF Follows
    <3> QED BY <3>3, <3>4
  <2>3. CASE i = k + 2
    <3>1. r[i] = d[2] /\ r[i - 1] = d[1]
      BY <1>2, <2>3
    <3>2. i % 2 = 0 /\ (i - 1) % 2 = 1
      BY <1>2, <1>3, <2>3, Parity
    <3> QED BY <3>1, <3>2, <1>1 DEF Placed, Follows
  <2>4. i <= k \/ i = k + 1 \/ i = k + 2
    BY <1>2
  <2> QED BY <2>1, <2>2, <2>3, <2>4, Zenon
<1>6. Whole(r, m + 1)
  BY <1>2, <1>5 DEF Whole
<1>7. Len(r) % 2 = 0
  BY <1>2, <1>3, Parity
<1> QED BY <1>2, <1>6, <1>7 DEF r, d

\* What precedes in whole messages is whole.
LEMMA WholePrefix ==
  ASSUME NEW m \in Nat, NEW w \in Seq(Byte), NEW q \in Seq(Byte), Whole(w \o q, m)
  PROVE  Whole(w, m)
<1>1. /\ \A i \in 1 .. Len(w) : (w \o q)[i] = w[i]
      /\ Len(w) \in Nat /\ Len(q) \in Nat /\ Len(w \o q) = Len(w) + Len(q)
  BY ConcatPlaces, ZenonT(30)
<1> DEFINE r == w \o q
<1>2. \A i \in 1 .. Len(r) : Placed(r[i], i, m) /\ (i > 1 => Follows(r[i], r[i - 1], i))
  BY ZenonT(30) DEF Whole
<1> HIDE DEF r
<1>3. ASSUME NEW i \in 1 .. Len(w)
      PROVE  Placed(w[i], i, m) /\ (i > 1 => Follows(w[i], w[i - 1], i))
  <2>1. i \in 1 .. Len(r) /\ r[i] = w[i] /\ (i > 1 => r[i - 1] = w[i - 1])
    BY <1>1 DEF r
  <2> QED BY <2>1, <1>2, Zenon
<1> QED BY <1>3 DEF Whole

\* What follows at the beginning of a message is whole.
LEMMA WholeSuffix ==
  ASSUME NEW m \in Nat, NEW w \in Seq(Byte), NEW q \in Seq(Byte), Whole(w \o q, m),
         q # <<>>, ~StartsCut(q)
  PROVE  Len(w) % 2 = 0 /\ Whole(q, m) /\ Len(q) % 2 = Len(w \o q) % 2
<1> DEFINE k == Len(w)
           r == w \o q
<1>1. /\ k \in Nat /\ Len(q) \in Nat /\ Len(r) = k + Len(q)
      /\ \A i \in 1 .. Len(q) : r[k + i] = q[i]
  <2>1. /\ Len(w) \in Nat /\ Len(q) \in Nat /\ Len(w \o q) = Len(w) + Len(q)
        /\ \A i \in 1 .. Len(q) : (w \o q)[Len(w) + i] = q[i]
    BY ConcatPlaces
  <2> QED BY <2>1, Zenon
<1>2. Len(q) > 0
  BY EmptySeq
<1>3. \A i \in 1 .. Len(r) : Placed(r[i], i, m) /\ (i > 1 => Follows(r[i], r[i - 1], i))
  BY DEF Whole
<1> HIDE DEF r, k
<1>4. Placed(r[k + 1], k + 1, m) /\ r[k + 1] = q[1]
  BY <1>1, <1>2, <1>3
<1>5. k % 2 = 0
  <2>1. q[1].part = 1 + ((k + 1 - 1) % 2)
    <3>1. r[k + 1].part = 1 + (((k + 1) - 1) % 2)
      BY <1>4 DEF Placed
    <3> QED BY <1>1, <1>4, <3>1
  <2>2. k + 1 - 1 = k /\ k % 2 \in {0, 1}
    BY <1>1
  <2>3. q[1].part # 2
    BY DEF StartsCut
  <2> QED BY <2>1, <2>2, <2>3
<1>6. ASSUME NEW i \in 1 .. Len(q)
      PROVE  Placed(q[i], i, m) /\ (i > 1 => Follows(q[i], q[i - 1], i))
  <2>1. k + i \in 1 .. Len(r) /\ r[k + i] = q[i] /\ (i > 1 => r[(k + i) - 1] = q[i - 1])
    <3>1. i > 1 => i - 1 \in 1 .. Len(q) /\ k + (i - 1) = (k + i) - 1
      BY <1>1
    <3>2. k + i \in 1 .. Len(r) /\ r[k + i] = q[i]
      BY <1>1
    <3>3. i > 1 => r[k + (i - 1)] = q[i - 1]
      BY <1>1, <3>1
    <3> QED BY <3>1, <3>2, <3>3
  <2>2. (k + i) % 2 = i % 2 /\ ((k + i) - 1) % 2 = (i - 1) % 2
    <3>1. i \in Nat
      BY <1>1
    <3> QED BY <1>1, <1>5, <3>1, Parity, Zenon
  <2>3. Placed(r[k + i], k + i, m) /\ (k + i > 1 => Follows(r[k + i], r[(k + i) - 1], k + i))
    BY <1>3, <2>1, Zenon
  <2>4. i > 1 => k + i > 1
    BY <1>1
  <2>5. Placed(q[i], i, m)
    BY <2>1, <2>2, <2>3, Zenon DEF Placed
  <2>6. i > 1 => Follows(q[i], q[i - 1], i)
    BY <2>1, <2>2, <2>3, <2>4, Zenon DEF Follows
  <2> QED BY <2>5, <2>6
<1>7. Len(q) % 2 = Len(r) % 2
  BY <1>1, <1>5, Parity, ZenonT(30)
<1>8. Whole(q, m)
  BY <1>6, Zenon DEF Whole
<1> QED BY <1>5, <1>7, <1>8 DEF k, r

\* A later number is a bound as well.
LEMMA WholeLater ==
  ASSUME NEW m \in Nat, NEW q \in Seq(Byte), Whole(q, m)
  PROVE  Whole(q, m + 1)
<1>1. \A i \in 1 .. Len(q) : q[i] \in Byte
  BY ElementOfSeq
<1>2. \A b \in Byte, i \in Nat : Placed(b, i, m) => Placed(b, i, m + 1)
  BY DEF Placed, Byte
<1>3. \A i \in 1 .. Len(q) : i \in Nat
  BY LenProperties
<1> QED BY <1>1, <1>2, <1>3, Zenon DEF Whole

-----------------------------------------------------------------------------
(* Registration, descriptors and connections *)

\* u is t, watched for the events evs.
Rewired(t, u, evs) ==
  /\ u \in Clients /\ Watch(u) /\ u.events = evs
  /\ u.state = t.state /\ u.auto = t.auto /\ u.fd = t.fd /\ u.open = t.open
  /\ u.sendbuf = t.sendbuf /\ u.recv = t.recv /\ u.old = t.old /\ u.hist = t.hist
  /\ u.conn = t.conn /\ u.inbox = t.inbox /\ u.full = t.full /\ u.wire = t.wire

\* UpdateEvent makes epoll watch m_iEvents.
LEMMA UpdateEventOK ==
  ASSUME NEW t \in Clients, Watch(t), NEW evs \in SUBSET {"IN", "OUT"}
  PROVE  Rewired(t, UpdateEvent([t EXCEPT !.events = evs]), evs)
<1> DEFINE t0 == [t EXCEPT !.events = evs]
           u == UpdateEvent(t0)
<1>1. /\ t0 \in Clients /\ t0.events = evs /\ t0.fd = t.fd /\ t0.ep = t.ep
      /\ t0.isPooling = t.isPooling
  BY ZenonT(30) DEF Clients
<1>2. CASE ~t.isPooling /\ evs = {}
  <2>1. u = t0 /\ t.events = {} /\ t0.events = t.events
    BY <1>1, <1>2 DEF UpdateEvent, Watch
  <2>2. t0 = t
    BY <2>1, ZenonT(30) DEF Clients
  <2> QED BY <1>2, <2>1, <2>2 DEF Rewired
<1>3. CASE ~(~t.isPooling /\ evs = {})
  <2> DEFINE b == evs # {}
  <2>1. u = [t0 EXCEPT !.ep[t0.fd] = evs, !.isPooling = b] /\ b \in BOOLEAN
    BY <1>1, <1>3 DEF UpdateEvent
  <2>a. b <=> evs # {}
    OBVIOUS
  <2> HIDE DEF b, u, t0
  <2>2. u \in Clients /\ u.events = evs /\ u.isPooling = b
    BY <1>1, <2>1, ZenonT(30) DEF Clients
  <2>3. u.ep = [t.ep EXCEPT ![t.fd] = evs] /\ u.fd = t.fd
    BY <1>1, <2>1 DEF Clients
  <2>4. t.fd \in FDs /\ t.ep = [f \in FDs |-> IF f = t.fd THEN t.events ELSE {}]
    BY DEF Clients, Watch
  <2>5. u.ep = [f \in FDs |-> IF f = u.fd THEN u.events ELSE {}]
    BY <2>2, <2>3, <2>4
  <2>6. Watch(u)
    BY <2>a, <2>2, <2>5 DEF Watch
  <2>7. /\ u.state = t.state /\ u.auto = t.auto /\ u.fd = t.fd /\ u.open = t.open
        /\ u.sendbuf = t.sendbuf /\ u.recv = t.recv /\ u.old = t.old /\ u.hist = t.hist
        /\ u.conn = t.conn /\ u.inbox = t.inbox /\ u.full = t.full /\ u.wire = t.wire
    BY <1>1, <2>1 DEF Clients, t0
  <2> QED BY <2>2, <2>6, <2>7 DEF Rewired, u, t0
<1> QED BY <1>2, <1>3

\* The functions of TcpSocket that change m_iEvents.
LEMMA EnableOK ==
  ASSUME NEW t \in Clients, Watch(t)
  PROVE  /\ Rewired(t, EnableReading(t), t.events \union {"IN"})
         /\ Rewired(t, EnableWriting(t), t.events \union {"OUT"})
         /\ Rewired(t, DisableWriting(t), t.events \ {"OUT"})
         /\ Rewired(t, DisableAll(t), {})
<1>1. t.events \in SUBSET {"IN", "OUT"}
  BY DEF Clients
<1>2. /\ t.events \union {"IN"} \in SUBSET {"IN", "OUT"}
      /\ t.events \union {"OUT"} \in SUBSET {"IN", "OUT"}
      /\ t.events \ {"OUT"} \in SUBSET {"IN", "OUT"}
      /\ {} \in SUBSET {"IN", "OUT"}
  BY <1>1
<1>3. /\ EnableReading(t) = UpdateEvent([t EXCEPT !.events = t.events \union {"IN"}])
      /\ EnableWriting(t) = UpdateEvent([t EXCEPT !.events = t.events \union {"OUT"}])
      /\ DisableWriting(t) = UpdateEvent([t EXCEPT !.events = t.events \ {"OUT"}])
      /\ DisableAll(t) = UpdateEvent([t EXCEPT !.events = {}])
  BY DEF EnableReading, EnableWriting, DisableWriting, DisableAll, kReadEvent, kWriteEvent
<1> QED BY <1>2, <1>3, UpdateEventOK, Zenon

\* u is t in state kDisconnected, without a connection.
Ended(t, u) ==
  /\ u \in Clients /\ Watch(u) /\ u.events = {} /\ u.state = "kDisconnected"
  /\ u.conn = "none" /\ u.inbox = 0 /\ ~u.full /\ u.wire = <<>>
  /\ u.sendbuf = t.sendbuf /\ u.recv = t.recv /\ u.old = t.old /\ u.hist = t.hist

\* DoClose ends the connection and the watch.
LEMMA DoCloseOK ==
  ASSUME NEW t \in Clients, Watch(t)
  PROVE  Ended(t, DoClose(t))
<1> DEFINE a == DisableAll(t)
           u == DoClose(t)
<1>1. Rewired(t, a, {})
  BY EnableOK, Zenon
<1>2. a \in Clients /\ a.ep = [f \in FDs |-> {}] /\ a.fd = t.fd /\ a.events = {} /\ ~a.isPooling
  <2>1. a.ep = [f \in FDs |-> IF f = a.fd THEN {} ELSE {}]
    BY <1>1 DEF Rewired, Watch
  <2> QED BY <1>1, <2>1 DEF Rewired, Watch
<1>3. u = [[[a EXCEPT !.open[t.fd] = "free", !.ep[t.fd] = {}]
             EXCEPT !.conn = "none", !.inbox = 0, !.full = FALSE, !.wire = <<>>]
             EXCEPT !.state = "kDisconnected"]
  BY DEF DoClose, Close, NoConnection
<1> HIDE DEF a, u
<1>4. <<>> \in Seq(Byte)
  OBVIOUS
<1>5. /\ u \in Clients /\ u.events = {} /\ u.state = "kDisconnected" /\ u.isPooling = a.isPooling
      /\ u.conn = "none" /\ u.inbox = 0 /\ ~u.full /\ u.wire = <<>> /\ u.fd = t.fd
      /\ u.sendbuf = a.sendbuf /\ u.recv = a.recv /\ u.old = a.old /\ u.hist = a.hist
      /\ u.ep = [a.ep EXCEPT ![t.fd] = {}]
  BY <1>2, <1>3, <1>4, ZenonT(30) DEF Clients
<1>6. Watch(u)
  <2>1. u.ep = [f \in FDs |-> {}]
    BY <1>2, <1>5, ZenonT(30)
  <2>2. u.ep = [f \in FDs |-> IF f = u.fd THEN u.events ELSE {}]
    BY <1>5, <2>1
  <2> QED BY <1>2, <1>5, <2>2 DEF Watch
<1> QED BY <1>1, <1>5, <1>6 DEF Ended, Rewired, u

\* Every nonempty set of naturals has a least element.
LEMMA LeastNatural ==
  ASSUME NEW S \in SUBSET Nat, S # {}
  PROVE  \E x \in S : \A y \in S : x <= y
<1>1. \E x \in S : \A y \in S : ~(<<y, x>> \in OpToRel(<, Nat))
  BY NatLessThanWellFounded, WFMin, Zenon
<1>2. \A x \in S, y \in S : ~(<<y, x>> \in OpToRel(<, Nat)) => x <= y
  BY SMT DEF OpToRel
<1> QED BY <1>1, <1>2, Zenon

\* A free descriptor can be had.
LEMMA LowestFreeOK ==
  ASSUME NEW t \in Clients, FreeFDs(t) # {}
  PROVE  LowestFree(t) \in FDs /\ t.open[LowestFree(t)] = "free"
<1>1. FreeFDs(t) \in SUBSET Nat
  BY BoundsAssumption DEF FreeFDs, FDs
<1>2. \E f \in FreeFDs(t) : \A g \in FreeFDs(t) : f <= g
  BY <1>1, LeastNatural, Zenon
<1>3. LowestFree(t) \in FreeFDs(t)
  BY <1>2, Zenon DEF LowestFree
<1> QED BY <1>3 DEF FreeFDs

\* u is t with a new socket.
NewSocket(t, u) ==
  /\ u \in Clients /\ Watch(u) /\ u.events = {} /\ u.state = t.state
  /\ u.conn = "none" /\ u.inbox = 0 /\ ~u.full /\ u.wire = <<>>
  /\ u.sendbuf = t.sendbuf /\ u.recv = t.recv /\ u.hist = t.hist
  /\ u.old <=> t.recv > 0
  /\ u.open[u.fd] = "mine"

\* CreateNoBlock gets a descriptor that is not watched.
LEMMA CreateNoBlockOK ==
  ASSUME NEW t \in Clients, Watch(t), t.events = {}, FreeFDs(t) # {}
  PROVE  NewSocket(t, CreateNoBlock(t))
<1> DEFINE f == LowestFree(t)
           b == t.recv > 0
           u == CreateNoBlock(t)
<1>1. f \in FDs
  BY LowestFreeOK
<1>2. u = [[t EXCEPT !.conn = "none", !.inbox = 0, !.full = FALSE, !.wire = <<>>]
            EXCEPT !.fd = f, !.open[f] = "mine", !.old = b]
  BY DEF CreateNoBlock, NoConnection
<1>3. b \in BOOLEAN /\ (b <=> t.recv > 0) /\ <<>> \in Seq(Byte)
  OBVIOUS
<1> HIDE DEF f, b, u
<1>4. /\ u \in Clients /\ u.events = {} /\ u.state = t.state /\ u.isPooling = t.isPooling
      /\ u.conn = "none" /\ u.inbox = 0 /\ ~u.full /\ u.wire = <<>> /\ u.fd = f
      /\ u.sendbuf = t.sendbuf /\ u.recv = t.recv /\ u.hist = t.hist
      /\ u.old = b /\ u.ep = t.ep /\ u.open[f] = "mine"
  BY <1>1, <1>2, <1>3, ZenonT(30) DEF Clients
<1>5. Watch(u)
  <2>1. t.ep = [g \in FDs |-> {}]
    <3>1. t.ep = [g \in FDs |-> IF g = t.fd THEN {} ELSE {}]
      BY DEF Watch
    <3> QED BY <3>1
  <2>2. u.ep = [g \in FDs |-> IF g = u.fd THEN u.events ELSE {}]
    BY <1>4, <2>1
  <2>3. ~u.isPooling
    BY <1>4 DEF Watch
  <2> QED BY <1>4, <2>2, <2>3 DEF Watch
<1> QED BY <1>3, <1>4, <1>5 DEF NewSocket, u

-----------------------------------------------------------------------------
(* Data *)

\* What does not touch the queue and the wire keeps them whole.
LEMMA DataKept ==
  ASSUME NEW m \in Nat, NEW t \in Clients, NEW u \in Clients, Data(t, m),
         u.hist = t.hist, u.wire = t.wire, u.sendbuf = t.sendbuf,
         "cut" \notin t.hist => ~u.old /\ (u.state # "kConnected" => u.recv = 0),
         t.conn = "dead" => u.conn = "dead" \/ t.wire = <<>>
  PROVE  Data(u, m)
<1> SUFFICES ASSUME "cut" \notin u.hist
             PROVE  /\ ~u.old
                    /\ u.state # "kConnected" => u.recv = 0
                    /\ Whole(Carried(u), m)
                    /\ u.sendbuf # <<>> \/ u.conn # "dead" => Len(Carried(u)) % 2 = 0
  BY Zenon DEF Data
<1>1. ~u.old /\ (u.state # "kConnected" => u.recv = 0)
  OBVIOUS
<1>2. Carried(u) = Carried(t)
  BY DEF Carried
<1>3. /\ Whole(Carried(t), m)
      /\ t.sendbuf # <<>> \/ t.conn # "dead" => Len(Carried(t)) % 2 = 0
  BY DEF Data
<1>4. t.sendbuf = <<>> /\ t.wire = <<>> => Len(Carried(t)) % 2 = 0
  <2>1. Len(<<>> \o <<>>) = 0 /\ 0 % 2 = 0
    OBVIOUS
  <2> QED BY <2>1 DEF Carried
<1> QED BY <1>1, <1>2, <1>3, <1>4, Zenon

\* Without anything written, the queue has whole messages.
LEMMA EvenAtStart ==
  ASSUME NEW m \in Nat, NEW t \in Clients, Data(t, m), t.wire = <<>>, "cut" \notin t.hist
  PROVE  Len(Carried(t)) % 2 = 0 /\ Carried(t) = t.sendbuf
<1>1. t.sendbuf \in Seq(Byte)
  BY DEF Clients
<1>2. Carried(t) = t.sendbuf
  BY <1>1, ConcatEmptySeq DEF Carried
<1>3. t.sendbuf = <<>> => Len(Carried(t)) % 2 = 0
  BY <1>2
<1>4. t.sendbuf # <<>> => Len(Carried(t)) % 2 = 0
  BY DEF Data
<1> QED BY <1>2, <1>3, <1>4, ZenonT(30)

-----------------------------------------------------------------------------
(* Connect and the ends of connections *)

\* A client in state kDisconnected without events.
LEMMA DisconnectedMode ==
  ASSUME NEW u \in Clients, u.state = "kDisconnected", u.events = {}, u.conn = "none",
         u.wire = <<>>, ~u.full
  PROVE  Mode(u)
  BY DEF Mode

\* Connect
LEMMA ConnectGood ==
  ASSUME NEW m \in Nat, NEW t, Good(t, m), NEW u \in Connect(t)
  PROVE  Good(u, m) /\ (t.state # "kDisconnected" => u = t)
<1> DEFINE t0 == [t EXCEPT !.auto = TRUE]
           t1 == DisableAll(t0)
           t2 == CreateNoBlock(t1)
<1>1. t \in Clients /\ Watch(t) /\ Mode(t) /\ Data(t, m)
  BY DEF Good
<1>2. CASE t.state # "kDisconnected"
  BY <1>2 DEF Connect
<1>3. CASE t.state = "kDisconnected"
  <2>1. /\ t.events = {} /\ t.conn = "none" /\ t.wire = <<>> /\ ~t.full
        /\ "cut" \notin t.hist => ~t.old /\ t.recv = 0
    BY <1>1, <1>3 DEF Mode, Data
  <2>2. /\ t0 \in Clients /\ Watch(t0)
        /\ t0.events = t.events /\ t0.conn = t.conn /\ t0.wire = t.wire /\ t0.full = t.full
        /\ t0.hist = t.hist /\ t0.old = t.old /\ t0.recv = t.recv
        /\ t0.state = t.state /\ t0.sendbuf = t.sendbuf
    BY <1>1, ZenonT(30) DEF Clients, Watch
  <2> HIDE DEF t0
  <2>3. Rewired(t0, t1, {})
    BY <2>2, EnableOK, Zenon
  <2>4. /\ t1 \in Clients /\ Watch(t1) /\ t1.events = {} /\ t1.state = "kDisconnected"
        /\ t1.conn = "none" /\ t1.wire = <<>> /\ ~t1.full /\ t1.sendbuf = t.sendbuf
        /\ t1.hist = t.hist /\ t1.old = t.old /\ t1.recv = t.recv
    BY <1>3, <2>1, <2>2, <2>3 DEF Rewired
  <2> HIDE DEF t1
  <2>5. Good(t1, m)
    <3>1. Mode(t1)
      BY <2>4, DisconnectedMode
    <3>2. Data(t1, m)
      BY <1>1, <2>1, <2>4, DataKept
    <3> QED BY <2>4, <3>1, <3>2 DEF Good
  <2>6. ASSUME FreeFDs(t1) # {}
        PROVE  /\ NewSocket(t1, t2) /\ Good(t2, m)
               /\ "cut" \notin t2.hist => ~t2.old /\ t2.recv = 0
    <3>1. NewSocket(t1, t2)
      BY <2>4, <2>6, CreateNoBlockOK
    <3> HIDE DEF t2
    <3>2. /\ t2 \in Clients /\ Watch(t2) /\ t2.events = {} /\ t2.state = "kDisconnected"
          /\ t2.conn = "none" /\ t2.wire = <<>> /\ ~t2.full /\ t2.sendbuf = t.sendbuf
          /\ t2.hist = t.hist /\ t2.recv = t.recv /\ (t2.old <=> t.recv > 0)
      BY <2>4, <3>1 DEF NewSocket
    <3>3. "cut" \notin t.hist => ~t2.old /\ t2.recv = 0
      BY <2>1, <3>2
    <3>4. Mode(t2)
      BY <3>2, DisconnectedMode
    <3>5. Data(t2, m)
      BY <1>1, <2>1, <3>2, <3>3, DataKept
    <3> QED BY <3>1, <3>2, <3>3, <3>4, <3>5 DEF Good
  <2>7. CASE u = t1
    BY <1>3, <2>5, <2>7
  <2>8. CASE FreeFDs(t1) # {} /\ u = t2
    BY <1>3, <2>6, <2>8
  <2>9. CASE FreeFDs(t1) # {} /\ u = DoClose(t2)
    <3>1. t2 \in Clients /\ Watch(t2) /\ Data(t2, m) /\ t2.wire = <<>>
            /\ ("cut" \notin t2.hist => ~t2.old /\ t2.recv = 0)
      BY <2>6, <2>9 DEF Good, NewSocket
    <3> HIDE DEF t2
    <3>2. Ended(t2, u)
      BY <2>9, <3>1, DoCloseOK
    <3>3. Mode(u)
      BY <3>2, DisconnectedMode DEF Ended
    <3>4. Data(u, m)
      BY <3>1, <3>2, DataKept DEF Ended
    <3> QED BY <1>3, <3>2, <3>3, <3>4 DEF Ended, Good
  <2>10. ASSUME NEW c \in {"pending", "up"}, FreeFDs(t1) # {},
                u = EnableWriting([t2 EXCEPT !.state = "kConnecting", !.conn = c])
         PROVE  Good(u, m)
    <3> DEFINE t3 == [t2 EXCEPT !.state = "kConnecting", !.conn = c]
    <3>1. NewSocket(t1, t2) /\ Data(t2, m) /\ ("cut" \notin t2.hist => ~t2.old /\ t2.recv = 0)
      BY <2>6, <2>10 DEF Good
    <3> HIDE DEF t2
    <3>2. /\ t3 \in Clients /\ Watch(t3) /\ t3.events = {} /\ t3.state = "kConnecting"
          /\ t3.conn = c /\ t3.wire = <<>> /\ ~t3.full /\ t3.open[t3.fd] = "mine"
          /\ t3.hist = t2.hist /\ t3.old = t2.old /\ t3.recv = t2.recv
          /\ t3.sendbuf = t2.sendbuf
      BY <3>1, ZenonT(30) DEF NewSocket, Clients, Watch
    <3> HIDE DEF t3
    <3>3. Rewired(t3, u, t3.events \union {"OUT"})
      BY <2>10, <3>2, EnableOK, ZenonT(30) DEF t3
    <3>4. /\ u \in Clients /\ Watch(u) /\ u.events = {"OUT"} /\ u.state = "kConnecting"
          /\ u.conn = c /\ u.wire = <<>> /\ ~u.full /\ u.open[u.fd] = "mine"
          /\ u.hist = t2.hist /\ u.old = t2.old /\ u.recv = t2.recv
          /\ u.sendbuf = t2.sendbuf
      BY <3>2, <3>3 DEF Rewired
    <3>5. Mode(u)
      BY <3>4 DEF Mode
    <3>6. t2 \in Clients /\ t2.wire = <<>>
      BY <3>1 DEF NewSocket
    <3>7. Data(u, m)
      BY <3>1, <3>4, <3>6, DataKept
    <3> QED BY <3>4, <3>5, <3>7 DEF Good
  <2>11. \/ u = t1
         \/ FreeFDs(t1) # {} /\ (u = t2 \/ u = DoClose(t2))
         \/ FreeFDs(t1) # {} /\ \E c \in {"pending", "up"} :
              u = EnableWriting([t2 EXCEPT !.state = "kConnecting", !.conn = c])
    BY <1>3, ZenonT(30) DEF Connect, t0, t1
  <2> QED BY <1>3, <2>7, <2>8, <2>9, <2>10, <2>11
<1> QED BY <1>2, <1>3

\* HandleClose
LEMMA HandleCloseGood ==
  ASSUME NEW m \in Nat, NEW t, Good(t, m)
  PROVE  Good(HandleClose(t), m) /\ HandleClose(t).state = "kDisconnected"
<1> DEFINE c == IF t.state # "kDisconnected" THEN DoClose(t) ELSE t
           u == HandleClose(t)
<1>1. t \in Clients /\ Watch(t) /\ Mode(t)
  BY DEF Good
<1>2. /\ c \in Clients /\ Watch(c) /\ c.events = {} /\ c.state = "kDisconnected"
      /\ c.conn = "none" /\ ~c.full /\ c.wire = <<>>
  <2>1. CASE t.state = "kDisconnected"
    BY <1>1, <2>1 DEF Mode
  <2>2. CASE t.state # "kDisconnected"
    BY <1>1, <2>2, DoCloseOK DEF Ended
  <2> QED BY <2>1, <2>2
<1>3. u = [c EXCEPT !.sendbuf = <<>>, !.recv = 0, !.old = FALSE, !.hist = {}]
  BY DEF HandleClose
<1> HIDE DEF c, u
<1>4. <<>> \in Seq(Byte)
  OBVIOUS
<1>5. /\ u \in Clients /\ u.events = {} /\ u.state = "kDisconnected" /\ u.conn = "none"
      /\ ~u.full /\ u.wire = <<>> /\ u.sendbuf = <<>> /\ u.recv = 0 /\ ~u.old
      /\ u.fd = c.fd /\ u.ep = c.ep /\ u.isPooling = c.isPooling
  BY <1>2, <1>3, <1>4, ZenonT(30) DEF Clients
<1>6. Watch(u)
  BY <1>2, <1>5 DEF Watch
<1>7. Mode(u)
  BY <1>5, DisconnectedMode
<1>8. Data(u, m)
  <2>1. Len(<<>> \o <<>>) = 0 /\ 0 % 2 = 0
    OBVIOUS
  <2>2. Carried(u) = <<>> \o <<>>
    BY <1>5 DEF Carried
  <2>3. Whole(Carried(u), m) /\ Len(Carried(u)) % 2 = 0
    BY <2>1, <2>2 DEF Whole
  <2> QED BY <1>5, <2>3 DEF Data
<1> QED BY <1>5, <1>6, <1>7, <1>8 DEF Good, u

\* Disconnect
LEMMA DisconnectGood ==
  ASSUME NEW m \in Nat, NEW t, Good(t, m)
  PROVE  Good(Disconnect(t), m) /\ Disconnect(t).state = "kDisconnected"
<1> DEFINE cut == StartsCut(t.sendbuf) \/ t.recv > 0
           h == t.hist \union (IF cut THEN {"cut"} ELSE {})
           t0 == [t EXCEPT !.auto = FALSE, !.hist = h]
           u == Disconnect(t)
<1>1. t \in Clients /\ Watch(t) /\ Data(t, m)
  BY DEF Good
<1>2. u = DoClose(t0)
  BY DEF Disconnect
<1>3. h \in SUBSET {"cut", "overflow"}
  BY <1>1 DEF Clients
<1>4. "cut" \notin h => "cut" \notin t.hist /\ ~StartsCut(t.sendbuf) /\ ~(t.recv > 0)
  OBVIOUS
<1> HIDE DEF h, u
<1>5. /\ t0 \in Clients /\ Watch(t0) /\ t0.sendbuf = t.sendbuf /\ t0.recv = t.recv
      /\ t0.old = t.old /\ t0.hist = h
  BY <1>1, <1>3, ZenonT(30) DEF Clients, Watch
<1> HIDE DEF t0
<1>6. Ended(t0, u)
  BY <1>2, <1>5, DoCloseOK
<1>7. /\ u \in Clients /\ Watch(u) /\ u.events = {} /\ u.state = "kDisconnected"
      /\ u.conn = "none" /\ ~u.full /\ u.wire = <<>>
      /\ u.sendbuf = t.sendbuf /\ u.recv = t.recv /\ u.old = t.old /\ u.hist = h
  BY <1>5, <1>6 DEF Ended
<1>8. Mode(u)
  BY <1>7, DisconnectedMode
<1>9. ASSUME "cut" \notin h
      PROVE  /\ ~u.old /\ u.recv = 0
             /\ Whole(Carried(u), m) /\ Len(Carried(u)) % 2 = 0
  <2>1. /\ ~t.old /\ Whole(t.wire \o t.sendbuf, m)
        /\ t.sendbuf # <<>> => Len(t.wire \o t.sendbuf) % 2 = 0
    BY <1>1, <1>4, <1>9, ZenonT(30) DEF Data, Carried
  <2>2. t.recv = 0 /\ t.sendbuf \in Seq(Byte) /\ t.wire \in Seq(Byte)
    BY <1>1, <1>4, <1>9 DEF Clients
  <2>3. Carried(u) = t.sendbuf
    BY <1>7, <2>2, ConcatEmptySeq DEF Carried
  <2>4. CASE t.sendbuf = <<>>
    BY <1>7, <2>1, <2>2, <2>3, <2>4 DEF Whole
  <2>5. CASE t.sendbuf # <<>>
    <3>1. ~StartsCut(t.sendbuf)
      BY <1>4, <1>9
    <3>2. Whole(t.sendbuf, m) /\ Len(t.sendbuf) % 2 = Len(t.wire \o t.sendbuf) % 2
      <4> DEFINE w == t.wire
                 q == t.sendbuf
      <4>1. w \in Seq(Byte) /\ q \in Seq(Byte) /\ Whole(w \o q, m) /\ q # <<>> /\ ~StartsCut(q)
        BY <2>1, <2>2, <2>5, <3>1
      <4> HIDE DEF w, q
      <4>2. Whole(q, m) /\ Len(q) % 2 = Len(w \o q) % 2
        BY <4>1, WholeSuffix, ZenonT(30)
      <4> QED BY <4>2, ZenonT(30) DEF w, q
    <3> QED BY <1>7, <2>1, <2>2, <2>3, <2>5, <3>2, ZenonT(30)
  <2> QED BY <2>4, <2>5
<1>10. Data(u, m)
  BY <1>7, <1>9 DEF Data
<1> QED BY <1>7, <1>8, <1>10 DEF Good, u

-----------------------------------------------------------------------------
(* Sending *)

\* u is t but for the queue and what befell it.
SameButQueue(t, u) ==
  /\ u.state = t.state /\ u.auto = t.auto /\ u.fd = t.fd /\ u.open = t.open
  /\ u.events = t.events /\ u.isPooling = t.isPooling /\ u.ep = t.ep
  /\ u.recv = t.recv /\ u.old = t.old
  /\ u.conn = t.conn /\ u.inbox = t.inbox /\ u.full = t.full /\ u.wire = t.wire

\* Nothing is taken out of what u carries, while it lives and its queue was not dropped.
Keeps(t, u) ==
  u.conn \in {"pending", "up"} /\ "overflow" \notin u.hist =>
    /\ t.conn \in {"pending", "up"} /\ "overflow" \notin t.hist
    /\ \E d \in Seq(Byte) : Carried(u) = Carried(t) \o d

\* Steps that keep it can follow each other.
LEMMA KeepsTransitive ==
  ASSUME NEW t \in Clients, NEW u \in Clients, NEW v \in Clients, Keeps(t, u), Keeps(u, v)
  PROVE  Keeps(t, v)
<1> SUFFICES ASSUME v.conn \in {"pending", "up"} /\ "overflow" \notin v.hist
             PROVE  /\ t.conn \in {"pending", "up"} /\ "overflow" \notin t.hist
                    /\ \E d \in Seq(Byte) : Carried(v) = Carried(t) \o d
  BY Zenon DEF Keeps
<1>1. PICK d \in Seq(Byte) : Carried(v) = Carried(u) \o d
  BY Zenon DEF Keeps
<1>2. u.conn \in {"pending", "up"} /\ "overflow" \notin u.hist
  BY Zenon DEF Keeps
<1>3. PICK e \in Seq(Byte) : Carried(u) = Carried(t) \o e
  BY <1>2, Zenon DEF Keeps
<1>4. t.conn \in {"pending", "up"} /\ "overflow" \notin t.hist
  BY <1>2, Zenon DEF Keeps
<1>5. Carried(t) \in Seq(Byte)
  BY ConcatProperties DEF Carried, Clients
<1>6. Carried(v) = Carried(t) \o (e \o d) /\ e \o d \in Seq(Byte)
  BY <1>1, <1>3, <1>5, ConcatAssociative, ConcatProperties
<1> QED BY <1>4, <1>6, ZenonT(30)

\* What leaves queue and wire alone keeps it.
LEMMA KeepsSame ==
  ASSUME NEW t \in Clients, NEW u \in Clients, u.wire = t.wire, u.sendbuf = t.sendbuf,
         u.conn \in {"pending", "up"} => t.conn \in {"pending", "up"},
         "overflow" \in t.hist => "overflow" \in u.hist
  PROVE  Keeps(t, u)
<1>1. Carried(t) \in Seq(Byte)
  BY ConcatProperties DEF Carried, Clients
<1>2. Carried(u) = Carried(t) \o <<>> /\ <<>> \in Seq(Byte)
  BY <1>1, ConcatEmptySeq DEF Carried
<1> QED BY <1>2, ZenonT(30) DEF Keeps

\* AppendSendBuf, of the next message.
LEMMA AppendSendBufOK ==
  ASSUME NEW m \in Nat, NEW t \in Clients, Data(t, m),
         "cut" \notin t.hist => Len(Carried(t)) % 2 = 0
  PROVE  LET u == AppendSendBuf(t, Message(m + 1))
         IN  /\ u \in Clients /\ SameButQueue(t, u) /\ u.sendbuf # <<>>
             /\ Data(u, m + 1) /\ Keeps(t, u)
<1> DEFINE d == Message(m + 1)
           u == AppendSendBuf(t, d)
<1>1. d \in Seq(Byte) /\ d # <<>> /\ m + 1 \in Nat
  <2>1. m + 1 \in Nat
    OBVIOUS
  <2>2. d \in Seq(Byte) /\ Len(d) = 2
    BY <2>1, MessageOK, ZenonT(30)
  <2> HIDE DEF d
  <2>3. d # <<>>
    BY <2>2, Len(<<>>) = 0, SMTT(30)
  <2> QED BY <2>1, <2>2, <2>3
<1>2. t.sendbuf \in Seq(Byte) /\ t.wire \in Seq(Byte) /\ t.hist \in SUBSET {"cut", "overflow"}
  BY DEF Clients
<1>3. Carried(t) \in Seq(Byte) /\ t.wire \o t.sendbuf = Carried(t)
  BY <1>2, ConcatProperties DEF Carried
<1>4. CASE Len(t.sendbuf) > MaxSendBuf
  <2> DEFINE h == t.hist \union {"overflow"}
                    \union (IF StartsCut(t.sendbuf) THEN {"cut"} ELSE {})
  <2>1. u = [t EXCEPT !.sendbuf = d, !.hist = h]
    BY <1>4 DEF AppendSendBuf
  <2>2. h \in SUBSET {"cut", "overflow"} /\ "overflow" \in h
    BY <1>2
  <2>3. "cut" \notin h => "cut" \notin t.hist /\ ~StartsCut(t.sendbuf)
    OBVIOUS
  <2> HIDE DEF h, d, u
  <2>4. u \in Clients /\ SameButQueue(t, u) /\ u.sendbuf = d /\ u.hist = h
    BY <1>1, <2>1, <2>2, ZenonT(30) DEF Clients, SameButQueue
  <2>5. Keeps(t, u)
    BY <2>2, <2>4 DEF Keeps
  <2>6. ASSUME "cut" \notin h
        PROVE  Whole(Carried(u), m + 1) /\ Len(Carried(u)) % 2 = 0
    <3>1. t.sendbuf # <<>> /\ ~StartsCut(t.sendbuf)
      BY <1>2, <1>4, <2>3, <2>6, BoundsAssumption
    <3>2. Whole(Carried(t), m)
      BY <2>3, <2>6 DEF Data
    <3>3. Len(t.wire) % 2 = 0
      <4> DEFINE w == t.wire
                 q == t.sendbuf
      <4>1. w \in Seq(Byte) /\ q \in Seq(Byte) /\ Whole(w \o q, m) /\ q # <<>> /\ ~StartsCut(q)
        BY <1>2, <1>3, <3>1, <3>2
      <4> HIDE DEF w, q
      <4>2. Len(w) % 2 = 0
        BY <4>1, WholeSuffix, Zenon
      <4> QED BY <4>2, ZenonT(30) DEF w
    <3>4. Whole(t.wire, m)
      BY <1>2, <1>3, <3>2, WholePrefix, ZenonT(30)
    <3>5. Carried(u) = t.wire \o Message(m + 1)
      BY <2>4 DEF Carried, SameButQueue, d
    <3> QED BY <1>2, <3>3, <3>4, <3>5, WholeAppend, ZenonT(30)
  <2>7. Data(u, m + 1)
    BY <2>3, <2>4, <2>6 DEF Data, SameButQueue
  <2> QED BY <1>1, <2>4, <2>5, <2>7 DEF u, d
<1>5. CASE ~(Len(t.sendbuf) > MaxSendBuf)
  <2>1. u = [t EXCEPT !.sendbuf = t.sendbuf \o d]
    BY <1>5 DEF AppendSendBuf
  <2> HIDE DEF d, u
  <2>2. t.sendbuf \o d \in Seq(Byte) /\ t.sendbuf \o d # <<>>
    BY <1>1, <1>2, ConcatProperties, ConcatEqualIffEmpty
  <2>3. u \in Clients /\ SameButQueue(t, u) /\ u.sendbuf = t.sendbuf \o d /\ u.hist = t.hist
    BY <2>1, <2>2, ZenonT(30) DEF Clients, SameButQueue
  <2>4. Carried(u) = Carried(t) \o d
    <3>1. Carried(u) = t.wire \o (t.sendbuf \o d)
      BY <2>3 DEF Carried, SameButQueue
    <3>2. (t.wire \o t.sendbuf) \o d = t.wire \o (t.sendbuf \o d)
      <4> DEFINE w == t.wire
                 q == t.sendbuf
      <4>1. w \in Seq(Byte) /\ q \in Seq(Byte) /\ d \in Seq(Byte)
        BY <1>1, <1>2
      <4> HIDE DEF w, q
      <4>2. (w \o q) \o d = w \o (q \o d)
        BY <4>1, ConcatAssociative, SMTT(30)
      <4> QED BY <4>2 DEF w, q
    <3> QED BY <3>1, <3>2, <1>3, ZenonT(30)
  <2>5. Keeps(t, u)
    BY <1>1, <2>3, <2>4, ZenonT(30) DEF Keeps, SameButQueue
  <2>6. "cut" \notin t.hist => Whole(Carried(u), m + 1) /\ Len(Carried(u)) % 2 = 0
    BY <1>3, <2>4, WholeAppend DEF Data, d
  <2>7. Data(u, m + 1)
    BY <2>3, <2>6 DEF Data, SameButQueue
  <2> QED BY <2>2, <2>3, <2>5, <2>7, ZenonT(30) DEF u, d
<1> QED BY <1>4, <1>5

\* Data stays right when the number of messages grows.
LEMMA DataLater ==
  ASSUME NEW m \in Nat, NEW t \in Clients, Data(t, m)
  PROVE  Data(t, m + 1)
<1>1. Carried(t) \in Seq(Byte)
  BY ConcatProperties DEF Carried, Clients
<1>2. Whole(Carried(t), m) => Whole(Carried(t), m + 1)
  BY <1>1, WholeLater
<1> QED BY <1>2 DEF Data

\* QueueRest
LEMMA QueueRestOK ==
  ASSUME NEW t \in Clients, Watch(t), NEW d, d # <<>>,
         AppendSendBuf(t, d) \in Clients, SameButQueue(t, AppendSendBuf(t, d))
  PROVE  Rewired(AppendSendBuf(t, d), QueueRest(t, d), t.events \union {"OUT"})
<1> DEFINE a == AppendSendBuf(t, d)
           u == QueueRest(t, d)
<1>1. u = IF IsWriting(a) THEN a ELSE EnableWriting(a)
  BY DEF QueueRest
<1>2. a \in Clients /\ a.events = t.events /\ Watch(a)
  BY DEF SameButQueue, Watch
<1> HIDE DEF a, u
<1>3. Rewired(a, EnableWriting(a), a.events \union {"OUT"})
  BY <1>2, EnableOK, Zenon
<1>4. CASE IsWriting(a)
  <2>1. a.events \union {"OUT"} = a.events
    BY <1>4 DEF IsWriting, kWriteEvent
  <2> QED BY <1>1, <1>2, <1>4, <2>1 DEF Rewired, a, u
<1>5. CASE ~IsWriting(a)
  BY <1>1, <1>2, <1>3, <1>5, SMTT(30) DEF a, u
<1> QED BY <1>4, <1>5

\* u is what sending the next message m + 1 may make of a connected client t.
Sent(t, u, m) ==
  /\ Good(u, m + 1) /\ Keeps(t, u) /\ u.state = "kConnected" /\ t.events \subseteq u.events
  /\ "OUT" \in t.events => u.conn = t.conn /\ u.full = t.full

\* A message is queued.
LEMMA QueueMessage ==
  ASSUME NEW m \in Nat, NEW t, Good(t, m), t.state = "kConnected",
         "cut" \notin t.hist => Len(Carried(t)) % 2 = 0
  PROVE  Sent(t, QueueRest(t, Message(m + 1)), m)
<1> DEFINE d == Message(m + 1)
           a == AppendSendBuf(t, d)
           u == QueueRest(t, d)
<1>1. t \in Clients /\ Watch(t) /\ Mode(t) /\ Data(t, m)
  BY DEF Good
<1>2. a \in Clients /\ SameButQueue(t, a) /\ a.sendbuf # <<>> /\ Data(a, m + 1) /\ Keeps(t, a)
  BY <1>1, AppendSendBufOK, Zenon
<1>3. d # <<>> /\ m + 1 \in Nat
  BY DEF Message
<1> HIDE DEF d
<1>4. Rewired(a, u, t.events \union {"OUT"})
  BY <1>1, <1>2, <1>3, QueueRestOK, ZenonT(30)
<1> HIDE DEF a, u
<1>5. /\ u \in Clients /\ Watch(u) /\ u.events = t.events \union {"OUT"}
      /\ u.state = "kConnected" /\ u.fd = t.fd /\ u.open = t.open /\ u.sendbuf # <<>>
      /\ u.conn = t.conn /\ u.full = t.full
  BY <1>2, <1>4 DEF Rewired, SameButQueue
<1>6. Mode(u)
  BY <1>1, <1>5, SMTT(30) DEF Mode
<1>7. Data(u, m + 1)
  <2>1. "cut" \notin a.hist => ~u.old
    BY <1>2, <1>4 DEF Data, Rewired
  <2> QED BY <1>2, <1>3, <1>4, <1>5, <2>1, DataKept, ZenonT(30) DEF Rewired
<1>8. Keeps(a, u)
  BY <1>2, <1>4, KeepsSame DEF Rewired
<1>9. Keeps(t, u)
  BY <1>1, <1>2, <1>5, <1>8, KeepsTransitive, Zenon
<1> QED BY <1>5, <1>6, <1>7, <1>9 DEF Good, Sent, u, d

\* The results of write.
LEMMA WriteCases ==
  ASSUME NEW t \in Clients, NEW d \in Seq(Byte), NEW w \in write(t, d)
  PROVE  \/ /\ t.conn \in {"up", "eof"} /\ ~t.full
            /\ \E n \in 0 .. Len(d), f \in BOOLEAN :
                 w = Taken(t, d, n, f) /\ (n = 0 => d = <<>>)
         \/ /\ t.conn = "pending" \/ (t.conn \in {"up", "eof"} /\ t.full)
            /\ w = Refused(t, "EWOULDBLOCK")
         \/ /\ t.conn \in {"none", "failed", "reset", "dead"}
            /\ w = Refused([t EXCEPT !.conn = IF t.conn = "reset" THEN "dead" ELSE t.conn], "EPIPE")
<1> DEFINE A == t.conn \in {"up", "eof"} /\ ~t.full
           B == t.conn = "pending" \/ (t.conn \in {"up", "eof"} /\ t.full)
           W1 == {r \in {Taken(t, d, n, f) : n \in 0 .. Len(d), f \in BOOLEAN} :
                    (r.n = 0 => d = <<>>) /\ (r.n < Len(d) => r.t.full)}
           W2 == {Refused(t, "EWOULDBLOCK")}
           W3 == {Refused([t EXCEPT !.conn = IF @ = "reset" THEN "dead" ELSE @], "EPIPE")}
<1>1. write(t, d) = CASE A -> W1 [] B -> W2 [] OTHER -> W3
  BY DEF write
<1>2. /\ A => ~B
      /\ ~A /\ ~B => t.conn \in {"none", "failed", "reset", "dead"}
  BY DEF Clients
<1> HIDE DEF A, B, W1, W2, W3
<1>3. (A => w \in W1) /\ (B => w \in W2) /\ (~A /\ ~B => w \in W3)
  BY <1>1, <1>2
<1>4. CASE A
  <2>1. PICK n \in 0 .. Len(d), f \in BOOLEAN : w = Taken(t, d, n, f) /\ (w.n = 0 => d = <<>>)
    BY <1>3, <1>4 DEF W1
  <2>2. w.n = n
    BY <2>1 DEF Taken
  <2> QED BY <1>4, <2>1, <2>2, Zenon DEF A
<1>5. CASE B
  BY <1>3, <1>5 DEF W2, B
<1>6. CASE ~A /\ ~B
  BY <1>2, <1>3, <1>6 DEF W3
<1> QED BY <1>4, <1>5, <1>6


\* A result is an error or the number of bytes taken.
LEMMA WriteError ==
  ASSUME NEW t \in Clients, NEW d \in Seq(Byte), NEW w \in write(t, d)
  PROVE  w.err = "none" \/ w.n = -1
<1> DEFINE v == [t EXCEPT !.conn = IF t.conn = "reset" THEN "dead" ELSE t.conn]
<1>1. \A n, f : Taken(t, d, n, f).err = "none"
  BY DEF Taken
<1>2. Refused(t, "EWOULDBLOCK").n = -1 /\ Refused(v, "EPIPE").n = -1
  BY DEF Refused
<1>3. \/ \E n \in 0 .. Len(d), f \in BOOLEAN : w = Taken(t, d, n, f)
      \/ w = Refused(t, "EWOULDBLOCK") \/ w = Refused(v, "EPIPE")
  BY WriteCases, Zenon
<1> HIDE DEF v
<1> QED BY <1>1, <1>2, <1>3, Zenon

\* What DoSend does with the result of write.
LEMMA DoSendCases ==
  ASSUME NEW t \in Clients, NEW d \in Seq(Byte), t.sendbuf = <<>>, NEW u \in DoSend(t, d)
  PROVE  \E w \in write(t, d) :
           \/ w.n >= 0 /\ u = QueueRest(w.t, SubSeq(d, w.n + 1, Len(d)))
           \/ ~(w.n >= 0) /\ w.err = "EPIPE" /\ u = w.t
           \/ ~(w.n >= 0) /\ w.err # "EPIPE" /\ u = QueueRest(w.t, d)
<1> DEFINE Case(w) == CASE w.n >= 0 -> QueueRest(w.t, SubSeq(d, w.n + 1, Len(d)))
                        [] w.err = "EPIPE" -> w.t
                        [] OTHER -> QueueRest(w.t, d)
<1>1. PICK w \in write(t, d) : u = Case(w)
  BY DEF DoSend
<1> DEFINE A == w.n >= 0
           B == w.err = "EPIPE"
           U1 == QueueRest(w.t, SubSeq(d, w.n + 1, Len(d)))
           U2 == w.t
           U3 == QueueRest(w.t, d)
<1>2. u = CASE A -> U1 [] B -> U2 [] OTHER -> U3
  BY <1>1
<1>3. A => ~B
  BY WriteError DEF A, B
<1> HIDE DEF A, B, U1, U2, U3
<1>4. (A /\ u = U1) \/ (~A /\ B /\ u = U2) \/ (~A /\ ~B /\ u = U3)
  BY <1>2, <1>3
<1> QED BY <1>1, <1>4 DEF A, B, U1, U2, U3


\* u is t after the socket has taken the bytes x.
Wrote(t, u, x) ==
  /\ u \in Clients /\ u.wire = t.wire \o x
  /\ u.state = t.state /\ u.auto = t.auto /\ u.fd = t.fd /\ u.open = t.open
  /\ u.events = t.events /\ u.isPooling = t.isPooling /\ u.ep = t.ep
  /\ u.sendbuf = t.sendbuf /\ u.recv = t.recv /\ u.old = t.old /\ u.hist = t.hist
  /\ u.conn = t.conn /\ u.inbox = t.inbox

\* The bytes taken and the rest are the bytes.
LEMMA TakenOK ==
  ASSUME NEW t \in Clients, NEW d \in Seq(Byte), NEW n \in 0 .. Len(d), NEW f \in BOOLEAN
  PROVE  /\ Taken(t, d, n, f).n = n
         /\ Wrote(t, Taken(t, d, n, f).t, SubSeq(d, 1, n))
         /\ SubSeq(d, 1, n) \in Seq(Byte) /\ SubSeq(d, n + 1, Len(d)) \in Seq(Byte)
         /\ SubSeq(d, 1, n) \o SubSeq(d, n + 1, Len(d)) = d
<1>1. Len(d) \in Nat /\ \A i \in 1 .. Len(d) : d[i] \in Byte
  BY LenProperties, ElementOfSeq, Zenon
<1>2. /\ n \in Int /\ n + 1 \in Int /\ Len(d) \in Int /\ 1 \in Int
      /\ \A i \in 1 .. n : d[i] \in Byte
      /\ \A i \in n + 1 .. Len(d) : d[i] \in Byte
  BY <1>1
<1>3. SubSeq(d, 1, n) \in Seq(Byte) /\ SubSeq(d, n + 1, Len(d)) \in Seq(Byte)
  BY <1>2, SubSeqProperties, Zenon
<1>4. 1 \in 1 .. Len(d) + 1 /\ n \in 1 - 1 .. Len(d) /\ Len(d) \in n .. Len(d)
  BY <1>1, SMT
<1>5. SubSeq(d, 1, n) \o SubSeq(d, n + 1, Len(d)) = d
  BY <1>4, ConcatAdjacentSubSeq, SubSeqFull, Zenon
<1> DEFINE x == SubSeq(d, 1, n)
<1>6. Taken(t, d, n, f).n = n /\ Taken(t, d, n, f).t = [t EXCEPT !.wire = t.wire \o x, !.full = f]
  BY DEF Taken
<1> HIDE DEF x
<1>7. t.wire \o x \in Seq(Byte)
  BY <1>3, ConcatProperties DEF Clients, x
<1>8. Wrote(t, [t EXCEPT !.wire = t.wire \o x, !.full = f], x)
  BY <1>7, ZenonT(30) DEF Wrote, Clients
<1> QED BY <1>3, <1>5, <1>6, <1>8, SMTT(30) DEF x


\* DoSend when the socket takes bytes of the message.
LEMMA DoSendTaken ==
  ASSUME NEW m \in Nat, NEW t, Good(t, m), t.state = "kConnected", t.sendbuf = <<>>,
         t.conn \in {"up", "eof"},
         NEW a \in Clients, NEW x \in Seq(Byte), NEW rest \in Seq(Byte), Wrote(t, a, x),
         x \o rest = Message(m + 1)
  PROVE  Sent(t, QueueRest(a, rest), m)
<1> DEFINE d == Message(m + 1)
           u == QueueRest(a, rest)
           b == [a EXCEPT !.sendbuf = rest]
<1>1. t \in Clients /\ Watch(t) /\ Mode(t) /\ Data(t, m) /\ Watch(a)
  BY DEF Good, Wrote, Watch
<1>2. d \in Seq(Byte)
  BY MessageOK, m + 1 \in Nat
<1> HIDE DEF d
<1>3. b \in Clients /\ Watch(b) /\ b.events = t.events
  <2>1. b \in Clients
    BY ZenonT(30) DEF Clients
  <2>2. b.ep = a.ep /\ b.fd = a.fd /\ b.events = a.events /\ b.isPooling = a.isPooling
    BY DEF Clients
  <2> HIDE DEF b
  <2> QED BY <1>1, <2>1, <2>2 DEF Watch, Wrote
<1>4. rest # <<>> => AppendSendBuf(a, rest) = b
  <2>1. Len(a.sendbuf) = 0 /\ a.sendbuf = <<>> /\ ~(0 > MaxSendBuf)
    BY BoundsAssumption DEF Wrote
  <2>2. a.sendbuf \o rest = rest
    BY <2>1, ConcatEmptySeq
  <2> QED BY <2>1, <2>2 DEF AppendSendBuf
<1>5. SameButQueue(a, b)
  BY DEF SameButQueue, Clients
<1>6. rest # <<>> => Rewired(b, u, t.events \union {"OUT"})
  BY <1>1, <1>3, <1>4, <1>5, QueueRestOK, a.events = t.events DEF Wrote
<1>7. rest = <<>> => Rewired(b, u, t.events)
  <2>1. rest = <<>> => u = a /\ b = a
    BY DEF QueueRest, Clients, Wrote
  <2> QED BY <1>3, <2>1, ZenonT(30) DEF Rewired
<1>8. /\ b.state = "kConnected" /\ b.fd = t.fd /\ b.open = t.open /\ b.conn = t.conn
      /\ b.sendbuf = rest /\ b.wire = t.wire \o x /\ b.hist = t.hist /\ b.old = t.old
  BY SMTT(30) DEF Wrote, Clients
<1> HIDE DEF b, u
<1>9. /\ u \in Clients /\ Watch(u) /\ u.state = "kConnected" /\ u.fd = t.fd /\ u.open = t.open
      /\ u.conn = t.conn /\ u.sendbuf = rest /\ u.wire = t.wire \o x
      /\ u.hist = t.hist /\ u.old = t.old
      /\ u.events = t.events \union (IF rest # <<>> THEN {"OUT"} ELSE {})
  BY <1>6, <1>7, <1>8, SMTT(30) DEF Rewired
<1>10. "OUT" \notin t.events
  BY <1>1, SMTT(30) DEF Mode
<1>11. Mode(u)
  BY <1>1, <1>9, <1>10, SMTT(30) DEF Mode
<1>12. Carried(t) = t.wire /\ t.wire \in Seq(Byte)
  BY <1>1, ConcatEmptySeq, SMTT(30) DEF Carried, Clients
<1>13. Carried(u) = t.wire \o d
  <2> DEFINE w == t.wire
  <2> HIDE DEF w
  <2>1. w \in Seq(Byte)
    BY <1>12 DEF w
  <2>2. (w \o x) \o rest = w \o (x \o rest)
    BY <2>1, Associative, ZenonT(30)
  <2> QED BY <1>9, <2>2 DEF Carried, w, d
<1>14. Data(u, m + 1)
  <2> DEFINE w == t.wire
  <2> HIDE DEF w
  <2>1. "cut" \notin t.hist => Whole(w, m) /\ Len(w) % 2 = 0 /\ ~t.old
    BY <1>1, <1>12, ZenonT(30) DEF Data, w
  <2>2. "cut" \notin t.hist => Whole(w \o d, m + 1) /\ Len(w \o d) % 2 = 0
    BY <1>12, <2>1, WholeAppend, Zenon DEF d, w
  <2> QED BY <1>9, <1>13, <2>1, <2>2, ZenonT(30) DEF Data, w
<1>15. Keeps(t, u)
  BY <1>2, <1>9, <1>12, <1>13, ZenonT(30) DEF Keeps
<1> QED BY <1>9, <1>10, <1>11, <1>14, <1>15 DEF Good, Sent, u

\* DoSend
LEMMA DoSendGood ==
  ASSUME NEW m \in Nat, NEW t, Good(t, m), t.state = "kConnected",
         NEW u \in DoSend(t, Message(m + 1))
  PROVE  Sent(t, u, m)
<1> DEFINE d == Message(m + 1)
<1>1. t \in Clients /\ Watch(t) /\ Mode(t) /\ Data(t, m)
  BY DEF Good
<1>2. d \in Seq(Byte) /\ d # <<>>
  BY MessageOK DEF Message
<1>3. CASE t.sendbuf # <<>>
  <2>1. u = QueueRest(t, d)
    BY <1>3 DEF DoSend
  <2> QED BY <1>1, <1>3, <2>1, QueueMessage DEF Data
<1>4. CASE t.sendbuf = <<>>
  <2> HIDE DEF d
  <2>1. PICK w \in write(t, d) :
           \/ w.n >= 0 /\ u = QueueRest(w.t, SubSeq(d, w.n + 1, Len(d)))
           \/ ~(w.n >= 0) /\ w.err = "EPIPE" /\ u = w.t
           \/ ~(w.n >= 0) /\ w.err # "EPIPE" /\ u = QueueRest(w.t, d)
    BY <1>1, <1>2, <1>4, DoSendCases, SMTT(30) DEF d
  <2>2. CASE /\ t.conn \in {"up", "eof"} /\ ~t.full
             /\ \E n \in 0 .. Len(d), f \in BOOLEAN :
                  w = Taken(t, d, n, f) /\ (n = 0 => d = <<>>)
    <3>1. PICK n \in 0 .. Len(d), f \in BOOLEAN : w = Taken(t, d, n, f)
      BY <2>2
    <3> DEFINE x == SubSeq(d, 1, n)
               rest == SubSeq(d, n + 1, Len(d))
    <3>2. w.n = n /\ Wrote(t, w.t, x) /\ x \in Seq(Byte) /\ rest \in Seq(Byte) /\ x \o rest = d
      BY <1>1, <1>2, <3>1, TakenOK, ZenonT(30)
    <3>3. n >= 0
      BY <1>2, LenProperties
    <3>4. u = QueueRest(w.t, rest)
      BY <2>1, <3>2, <3>3
    <3>5. w.t \in Clients
      BY <3>2, SMTT(30) DEF Wrote
    <3> HIDE DEF x, rest
    <3> QED BY <1>4, <2>2, <3>2, <3>4, <3>5, DoSendTaken, ZenonT(30) DEF d
  <2>3. CASE /\ t.conn = "pending" \/ (t.conn \in {"up", "eof"} /\ t.full)
             /\ w = Refused(t, "EWOULDBLOCK")
    <3>1. w.n = -1 /\ w.t = t /\ w.err = "EWOULDBLOCK"
      BY <2>3 DEF Refused
    <3>2. u = QueueRest(t, d)
      BY <2>1, <3>1
    <3>3. t.conn # "dead"
      BY <2>3
    <3> QED BY <1>1, <3>2, <3>3, QueueMessage, SMTT(30) DEF Data, d
  <2>4. CASE /\ t.conn \in {"none", "failed", "reset", "dead"}
             /\ w = Refused([t EXCEPT !.conn = IF t.conn = "reset" THEN "dead" ELSE t.conn], "EPIPE")
    <3> DEFINE v == [t EXCEPT !.conn = IF t.conn = "reset" THEN "dead" ELSE t.conn]
    <3>1. w.n = -1 /\ w.err = "EPIPE" /\ w.t = v
      BY <2>4 DEF Refused
    <3>2. u = v
      BY <2>1, <3>1
    <3>3. t.conn \in {"reset", "dead"} /\ u = [t EXCEPT !.conn = "dead"]
      BY <1>1, <2>4, <3>2 DEF Mode, Clients
    <3>4. u \in Clients /\ Watch(u) /\ Mode(u) /\ u.conn = "dead"
      BY <1>1, <3>3, SMTT(30) DEF Clients, Watch, Mode
    <3>5. Data(u, m)
      <4>1. /\ u.hist = t.hist /\ u.wire = t.wire /\ u.sendbuf = t.sendbuf
            /\ u.old = t.old /\ u.state = t.state
        BY <1>1, <3>3, SMTT(30) DEF Clients
      <4>2. "cut" \notin t.hist => ~u.old /\ (u.state # "kConnected" => u.recv = 0)
        BY <1>1, <4>1 DEF Data
      <4> QED BY <1>1, <3>4, <4>1, <4>2, DataKept, SMTT(30)
    <3>6. Data(u, m + 1)
      BY <3>4, <3>5, DataLater, SMTT(30)
    <3>7. Keeps(t, u)
      BY <3>4 DEF Keeps
    <3>8. "OUT" \notin t.events /\ u.state = t.state /\ u.events = t.events
      BY <1>1, <1>4, <3>3, SMTT(30) DEF Mode, Clients
    <3> QED BY <3>4, <3>6, <3>7, <3>8 DEF Good, Sent
  <2> QED BY <1>1, <1>2, <2>2, <2>3, <2>4, WriteCases, SMTT(30)
<1> QED BY <1>3, <1>4


\* A connected client is told when it can write on unless nothing is queued.
LEMMA WatchedForRest ==
  ASSUME NEW m \in Nat, NEW b \in Clients, Watch(b), Data(b, m), b.state = "kConnected",
         b.events = {"IN", "OUT"}, b.open[b.fd] = "mine",
         b.conn \in {"up", "eof", "reset", "dead"},
         NEW u, u = IF b.sendbuf = <<>> THEN DisableWriting(b) ELSE b
  PROVE  Good(u, m) /\ Keeps(b, u)
<1> DEFINE evs == IF b.sendbuf = <<>> THEN {"IN"} ELSE {"IN", "OUT"}
<1>1. Rewired(b, u, evs)
  <2>1. Rewired(b, DisableWriting(b), b.events \ {"OUT"})
    BY EnableOK, Zenon
  <2>2. b.events \ {"OUT"} = {"IN"}
    OBVIOUS
  <2>3. Rewired(b, b, b.events)
    BY DEF Rewired
  <2> QED BY <2>1, <2>2, <2>3, ZenonT(30)
<1>2. Mode(u)
  BY <1>1 DEF Rewired, Mode
<1>3. Data(u, m)
  <2>1. "cut" \notin b.hist => ~u.old
    BY <1>1 DEF Data, Rewired
  <2> QED BY <1>1, <2>1, DataKept DEF Rewired
<1>4. Keeps(b, u)
  BY <1>1, KeepsSame DEF Rewired
<1> QED BY <1>1, <1>2, <1>3, <1>4, SMTT(30) DEF Good, Rewired

\* DoContineSend, when the socket can be written or has failed.
LEMMA DoContineSendGood ==
  ASSUME NEW m \in Nat, NEW t, Good(t, m), t.state = "kConnected", "OUT" \in t.events,
         t.full => t.conn \in {"reset", "dead"}, NEW u \in DoContineSend(t)
  PROVE  Good(u, m) /\ Keeps(t, u)
<1> DEFINE q == t.sendbuf
           Rest(w) == IF w.n < 0 THEN <<>> ELSE SubSeq(q, w.n + 1, Len(q))
           After(w) == [w.t EXCEPT !.sendbuf = Rest(w)]
<1>1. t \in Clients /\ Watch(t) /\ Mode(t) /\ Data(t, m)
  BY DEF Good
<1>2. /\ q \in Seq(Byte) /\ q # <<>> /\ t.events = {"IN", "OUT"} /\ t.open[t.fd] = "mine"
      /\ t.conn \in {"up", "eof", "reset", "dead"}
  BY <1>1 DEF Mode, Clients
<1>3. PICK w \in write(t, q) :
        u = IF w.n # 0 /\ Rest(w) = <<>> THEN DisableWriting(After(w)) ELSE After(w)
  BY <1>2, ZenonT(30) DEF DoContineSend, IsWriting, kWriteEvent
<1> HIDE DEF q, Rest, After
<1>4. CASE \E n \in 0 .. Len(q), f \in BOOLEAN : w = Taken(t, q, n, f) /\ (n = 0 => q = <<>>)
  <2>1. PICK n \in 0 .. Len(q), f \in BOOLEAN : w = Taken(t, q, n, f) /\ n # 0
    BY <1>2, <1>4
  <2> DEFINE x == SubSeq(q, 1, n)
             rest == SubSeq(q, n + 1, Len(q))
             a == w.t
             b == [a EXCEPT !.sendbuf = rest]
  <2>2. w.n = n /\ Wrote(t, a, x) /\ x \in Seq(Byte) /\ rest \in Seq(Byte) /\ x \o rest = q
    <3>0. t \in Clients /\ q \in Seq(Byte)
      BY <1>1, <1>2
    <3>1. /\ Taken(t, q, n, f).n = n /\ Wrote(t, Taken(t, q, n, f).t, x)
          /\ x \in Seq(Byte) /\ rest \in Seq(Byte) /\ x \o rest = q
      BY <3>0, TakenOK, Zenon
    <3> HIDE DEF x, rest
    <3> QED BY <2>1, <3>1
  <2>3. ~(n < 0) /\ Rest(w) = rest /\ After(w) = b
    <3>1. ~(n < 0)
      BY <1>2, LenProperties, SMTT(30)
    <3>2. Rest(w) = rest
      BY <2>2, <3>1, ZenonT(30) DEF Rest
    <3> QED BY <3>1, <3>2 DEF After
  <2>4. u = IF rest = <<>> THEN DisableWriting(b) ELSE b
    BY <1>3, <2>1, <2>2, <2>3
  <2> HIDE DEF x, rest, a
  <2>5. /\ b \in Clients /\ b.sendbuf = rest /\ b.wire = t.wire \o x /\ b.state = "kConnected"
        /\ b.events = t.events /\ b.isPooling = t.isPooling /\ b.ep = t.ep /\ b.fd = t.fd
        /\ b.open = t.open /\ b.conn = t.conn /\ b.hist = t.hist /\ b.old = t.old
    BY <2>2, ZenonT(30) DEF Wrote, Clients
  <2> HIDE DEF b
  <2>6. Watch(b)
    BY <1>1, <2>5 DEF Watch
  <2>7. Carried(b) = Carried(t) /\ Carried(t) \in Seq(Byte)
    <3> DEFINE wire == t.wire
    <3>1. wire \in Seq(Byte)
      BY <1>1, SMTT(30) DEF Clients
    <3> HIDE DEF wire
    <3>2. (wire \o x) \o rest = wire \o q /\ wire \o q \in Seq(Byte)
      BY <1>2, <2>2, <3>1, Associative, ConcatProperties, ZenonT(30)
    <3> QED BY <2>5, <3>2 DEF Carried, wire, q
  <2>8. Data(b, m)
    <3>1. t.sendbuf # <<>>
      BY <1>2 DEF q
    <3> QED BY <1>1, <2>5, <2>7, <3>1 DEF Data
  <2>9. Good(u, m) /\ Keeps(b, u)
    BY <1>2, <2>4, <2>5, <2>6, <2>8, WatchedForRest
  <2>10. Keeps(t, b)
    <3>1. Carried(b) = Carried(t) \o <<>> /\ <<>> \in Seq(Byte)
      BY <2>7, ConcatEmptySeq
    <3> QED BY <2>5, <3>1, ZenonT(30) DEF Keeps
  <2> QED BY <1>1, <2>5, <2>9, <2>10, KeepsTransitive DEF Good
<1>5. CASE /\ t.conn \in {"none", "failed", "reset", "dead"}
           /\ w = Refused([t EXCEPT !.conn = IF t.conn = "reset" THEN "dead" ELSE t.conn], "EPIPE")
  <2> DEFINE b == [t EXCEPT !.conn = "dead", !.sendbuf = <<>>]
  <2>1. w.n = -1 /\ w.t = [t EXCEPT !.conn = "dead"]
    BY <1>1, <1>2, <1>5, SMTT(30) DEF Refused, Clients
  <2>2. Rest(w) = <<>> /\ After(w) = b
    BY <2>1 DEF Rest, After
  <2>3. /\ b \in Clients /\ b.sendbuf = <<>> /\ b.wire = t.wire /\ b.state = "kConnected"
        /\ b.events = t.events /\ b.isPooling = t.isPooling /\ b.ep = t.ep /\ b.fd = t.fd
        /\ b.open = t.open /\ b.conn = "dead" /\ b.hist = t.hist /\ b.old = t.old
    <3>1. b \in Clients
      <4>1. \A e \in Seq(Byte) : [t EXCEPT !.conn = "dead", !.sendbuf = e] \in Clients
        BY <1>1, ZenonT(30) DEF Clients
      <4>2. <<>> \in Seq(Byte)
        OBVIOUS
      <4> QED BY <4>1, <4>2, Zenon
    <3> QED BY <1>1, <3>1 DEF Clients
  <2>4. u = IF b.sendbuf = <<>> THEN DisableWriting(b) ELSE b
    BY <1>3, <2>1, <2>2, <2>3
  <2> HIDE DEF b
  <2>5. Watch(b)
    BY <1>1, <2>3 DEF Watch
  <2>6. Data(b, m)
    <3> DEFINE wire == t.wire
    <3>1. wire \in Seq(Byte)
      BY <1>1 DEF Clients
    <3>2. "cut" \notin t.hist => ~t.old /\ Whole(wire \o q, m)
      BY <1>1, ZenonT(30) DEF Data, Carried, q
    <3>3. Carried(b) = wire \o <<>>
      BY <2>3 DEF Carried
    <3> HIDE DEF wire
    <3>4. Carried(b) = wire
      BY <3>1, <3>3, ConcatEmptySeq
    <3>5. "cut" \notin t.hist => Whole(wire, m)
      BY <1>2, <3>1, <3>2, WholePrefix
    <3> QED BY <2>3, <3>2, <3>4, <3>5 DEF Data
  <2>7. Good(u, m) /\ Keeps(b, u)
    BY <1>2, <2>3, <2>4, <2>5, <2>6, WatchedForRest
  <2>8. Keeps(t, b)
    BY <2>3 DEF Keeps
  <2> QED BY <1>1, <2>3, <2>7, <2>8, KeepsTransitive DEF Good
<1>6. ~(t.conn = "pending" \/ (t.conn \in {"up", "eof"} /\ t.full))
  BY <1>2
<1> QED BY <1>1, <1>2, <1>4, <1>5, <1>6, WriteCases, SMTT(30)


\* SendMsg
LEMMA SendMsgGood ==
  ASSUME NEW m \in Nat, NEW t, Good(t, m), NEW u \in SendMsg(t, Message(m + 1))
  PROVE  /\ Good(u, m + 1)
         /\ t.state # "kDisconnected" =>
              /\ Keeps(t, u) /\ u.state = t.state /\ t.events \subseteq u.events
              /\ "OUT" \in t.events => u.conn = t.conn /\ u.full = t.full
<1> DEFINE d == Message(m + 1)
           a == AppendSendBuf(t, d)
<1>1. t \in Clients /\ Watch(t) /\ Mode(t) /\ Data(t, m) /\ m + 1 \in Nat
  BY DEF Good
<1>2. t.state \in {"kDisconnected", "kConnecting", "kConnected"}
  BY <1>1 DEF Clients
<1>3. /\ t.state = "kConnected" => u \in DoSend(t, d)
      /\ t.state = "kConnecting" => u = a
      /\ t.state = "kDisconnected" => IF t.auto THEN u \in Connect(a) ELSE u = t
  <2> DEFINE U1 == DoSend(t, d)
             U2 == {a}
             U3 == IF t.auto THEN Connect(a) ELSE {t}
  <2>1. SendMsg(t, d) = CASE t.state = "kConnected" -> U1
                          [] t.state = "kConnecting" -> U2
                          [] t.state = "kDisconnected" -> U3
    BY DEF SendMsg
  <2>2. u \in SendMsg(t, d)
    OBVIOUS
  <2> HIDE DEF U1, U2, U3, d
  <2>3. /\ t.state = "kConnected" => u \in U1
        /\ t.state = "kConnecting" => u \in U2
        /\ t.state = "kDisconnected" => u \in U3
    BY <2>1, <2>2, SMTT(30)
  <2> QED BY <2>3 DEF U1, U2, U3
<1>4. CASE t.state = "kConnected"
  BY <1>3, <1>4, DoSendGood DEF Sent
<1>5. t.state # "kConnected" =>
        a \in Clients /\ SameButQueue(t, a) /\ Data(a, m + 1) /\ Keeps(t, a) /\ Good(a, m + 1)
  <2> SUFFICES ASSUME t.state # "kConnected"
               PROVE  a \in Clients /\ SameButQueue(t, a) /\ Data(a, m + 1) /\ Keeps(t, a)
                        /\ Good(a, m + 1)
    BY SMTT(30)
  <2>1. t.wire = <<>>
    BY <1>1 DEF Mode
  <2>2. "cut" \notin t.hist => Len(Carried(t)) % 2 = 0
    BY <1>1, <2>1, EvenAtStart
  <2>3. a \in Clients /\ SameButQueue(t, a) /\ Data(a, m + 1) /\ Keeps(t, a)
    BY <1>1, <2>2, AppendSendBufOK, ZenonT(30)
  <2> HIDE DEF a
  <2>4. Watch(a) /\ Mode(a)
    BY <1>1, <2>3, SMTT(30) DEF SameButQueue, Watch, Mode
  <2> QED BY <2>3, <2>4 DEF Good
<1> HIDE DEF a
<1>6. CASE t.state = "kConnecting"
  BY <1>3, <1>5, <1>6, SMTT(30) DEF SameButQueue
<1>7. CASE t.state = "kDisconnected"
  <2>1. Good(t, m + 1)
    BY <1>1, DataLater DEF Good
  <2>2. \A v \in Connect(a) : Good(v, m + 1)
    BY <1>1, <1>5, <1>7, ConnectGood
  <2> QED BY <1>3, <1>7, <2>1, <2>2
<1> QED BY <1>2, <1>4, <1>6, <1>7

-----------------------------------------------------------------------------
(* Events *)

\* _Connected, when the attempt has been answered.
LEMMA ConnectedGood ==
  ASSUME NEW m \in Nat, NEW t, Good(t, m), t.state = "kConnecting", t.conn # "pending",
         NEW u \in Connected(t)
  PROVE  Good(u, m) /\ Keeps(t, u)
<1> DEFINE v == [t EXCEPT !.state = "kConnected"]
           r == EnableReading(v)
<1>1. t \in Clients /\ Watch(t) /\ Mode(t) /\ Data(t, m)
  BY DEF Good
<1>2. t.events = {"OUT"} /\ t.wire = <<>> /\ ~t.full /\ t.open[t.fd] = "mine" /\ t.conn # "none"
  BY <1>1 DEF Mode, Clients
<1>3. "cut" \notin t.hist => ~t.old /\ t.recv = 0
  BY <1>1 DEF Data
<1>4. CASE t.conn \in {"failed", "reset"}
  <2>1. u = DoClose(t)
    BY <1>4 DEF Connected
  <2>2. Ended(t, u)
    BY <1>1, <2>1, DoCloseOK
  <2>3. Mode(u)
    BY <2>2, DisconnectedMode, SMTT(30) DEF Ended
  <2>4. Data(u, m)
    BY <1>1, <1>2, <1>3, <1>4, <2>2, DataKept, SMTT(30) DEF Ended
  <2>5. Keeps(t, u)
    BY <2>2 DEF Keeps, Ended
  <2> QED BY <2>2, <2>3, <2>4, <2>5 DEF Good, Ended
<1>5. CASE t.conn \notin {"failed", "reset"}
  <2>1. u \in IF t.sendbuf # <<>> THEN DoContineSend(EnableWriting(r)) ELSE {DisableWriting(r)}
    BY <1>5 DEF Connected
  <2>2. /\ v \in Clients /\ v.events = t.events /\ v.ep = t.ep /\ v.fd = t.fd
        /\ v.isPooling = t.isPooling /\ v.state = "kConnected" /\ v.open = t.open
        /\ v.sendbuf = t.sendbuf /\ v.old = t.old /\ v.hist = t.hist /\ v.conn = t.conn
        /\ v.full = t.full /\ v.wire = t.wire
    BY <1>1, ZenonT(30) DEF Clients
  <2> HIDE DEF v
  <2>3. Watch(v)
    BY <1>1, <2>2 DEF Watch
  <2>4. Rewired(v, r, {"IN", "OUT"})
    <3>1. Rewired(v, r, v.events \union {"IN"})
      BY <2>2, <2>3, EnableOK, Zenon
    <3> QED BY <1>2, <2>2, <3>1, {"OUT"} \union {"IN"} = {"IN", "OUT"}
  <2> HIDE DEF r
  <2>5. /\ r \in Clients /\ Watch(r) /\ r.state = "kConnected" /\ r.events = {"IN", "OUT"}
        /\ r.open[r.fd] = "mine" /\ r.conn \in {"up", "eof", "reset", "dead"}
        /\ r.sendbuf = t.sendbuf
    <3>1. t.conn \in {"up", "eof", "dead"}
      BY <1>1, <1>2, <1>5 DEF Clients
    <3> QED BY <1>2, <2>2, <2>4, <3>1 DEF Rewired
  <2>6. Data(r, m)
    <3>1. /\ r.hist = t.hist /\ r.wire = t.wire /\ r.sendbuf = t.sendbuf /\ r.conn = t.conn
          /\ "cut" \notin t.hist => ~r.old
      BY <1>3, <2>2, <2>4 DEF Rewired
    <3> QED BY <1>1, <1>2, <2>5, <3>1, DataKept, SMTT(30)
  <2>7. Keeps(t, r)
    BY <1>1, <2>2, <2>4, KeepsSame, SMTT(30) DEF Rewired
  <2>8. CASE t.sendbuf = <<>>
    <3>1. u = IF r.sendbuf = <<>> THEN DisableWriting(r) ELSE r
      BY <2>1, <2>5, <2>8
    <3>2. Good(u, m) /\ Keeps(r, u)
      BY <2>5, <2>6, <3>1, WatchedForRest, SMTT(30)
    <3> QED BY <1>1, <2>5, <2>7, <3>2, KeepsTransitive, SMTT(30) DEF Good
  <2>9. CASE t.sendbuf # <<>>
    <3> DEFINE x == EnableWriting(r)
    <3>1. Rewired(r, x, {"IN", "OUT"})
      <4>1. Rewired(r, x, r.events \union {"OUT"})
        BY <2>5, EnableOK, ZenonT(30)
      <4> QED BY <2>5, <4>1, {"IN", "OUT"} \union {"OUT"} = {"IN", "OUT"}, SMTT(30)
    <3> HIDE DEF x
    <3>2. /\ x \in Clients /\ Watch(x) /\ Data(x, m) /\ x.state = "kConnected"
          /\ x.events = {"IN", "OUT"} /\ x.open[x.fd] = "mine"
          /\ x.conn \in {"up", "eof", "reset", "dead"} /\ x.sendbuf # <<>> /\ ~x.full
      <4>1. "cut" \notin r.hist => ~x.old
        BY <2>6, <3>1 DEF Data, Rewired
      <4>2. x \in Clients /\ x.state = "kConnected"
        BY <2>5, <3>1, SMTT(30) DEF Rewired
      <4>3. Data(x, m)
        BY <2>5, <2>6, <3>1, <4>1, <4>2, DataKept, SMTT(30) DEF Rewired
      <4> QED BY <1>2, <2>2, <2>4, <2>5, <2>9, <3>1, <4>3, SMTT(30) DEF Rewired
    <3>3. Mode(x)
      BY <3>2, SMTT(30) DEF Mode
    <3>4. Good(x, m)
      BY <3>2, <3>3, SMTT(30) DEF Good
    <3>5. Keeps(r, x)
      BY <2>5, <3>1, <3>2, KeepsSame, SMTT(30) DEF Rewired
    <3>6. u \in DoContineSend(x)
      BY <2>1, <2>9, SMTT(30) DEF x
    <3>7. Good(u, m) /\ Keeps(x, u)
      BY <3>2, <3>4, <3>6, DoContineSendGood, SMTT(30)
    <3>8. Keeps(t, x)
      BY <1>1, <2>5, <2>7, <3>2, <3>5, KeepsTransitive, SMTT(30)
    <3> QED BY <1>1, <3>2, <3>7, <3>8, KeepsTransitive, SMTT(30) DEF Good
  <2> QED BY <2>8, <2>9
<1> QED BY <1>4, <1>5


\* HandleCanSend, for an event that still applies.
LEMMA HandleCanSendGood ==
  ASSUME NEW m \in Nat, NEW t, Good(t, m), NEW u \in HandleCanSend(t),
         t.state = "kConnecting" => t.conn # "pending",
         t.state = "kConnected" => "OUT" \in t.events /\ (t.full => t.conn \in {"reset", "dead"})
  PROVE  Good(u, m) /\ (Keeps(t, u) \/ u = t)
<1> DEFINE U1 == Connected(t)
           U2 == DoContineSend(t)
           U3 == {t}
<1>1. HandleCanSend(t) = CASE t.state = "kConnecting" -> U1
                           [] t.state = "kConnected" -> U2
                           [] OTHER -> U3
  BY DEF HandleCanSend
<1> HIDE DEF U1, U2, U3
<1>2. /\ t.state = "kConnecting" => u \in U1
      /\ t.state = "kConnected" => u \in U2
      /\ t.state \notin {"kConnecting", "kConnected"} => u \in U3
  BY <1>1
<1>3. CASE t.state = "kConnecting"
  BY <1>2, <1>3, ConnectedGood, SMTT(30) DEF U1
<1>4. CASE t.state = "kConnected"
  BY <1>2, <1>4, DoContineSendGood, SMTT(30) DEF U2
<1>5. CASE t.state \notin {"kConnecting", "kConnected"}
  BY <1>2, <1>5 DEF U3
<1> QED BY <1>3, <1>4, <1>5

\* u is t but for what has been received, and an error that has been reported.
Received(t, u) ==
  /\ u \in Clients
  /\ u.state = t.state /\ u.auto = t.auto /\ u.fd = t.fd /\ u.open = t.open
  /\ u.events = t.events /\ u.isPooling = t.isPooling /\ u.ep = t.ep
  /\ u.sendbuf = t.sendbuf /\ u.old \in {t.old, FALSE} /\ u.hist = t.hist
  /\ u.conn = t.conn \/ (t.conn = "reset" /\ u.conn = "dead")
  /\ u.full = t.full /\ u.wire = t.wire

\* Receiving keeps a connected client right.
LEMMA ReceivedGood ==
  ASSUME NEW m \in Nat, NEW t, Good(t, m), t.state = "kConnected", NEW u, Received(t, u)
  PROVE  Good(u, m) /\ Keeps(t, u)
<1>1. t \in Clients /\ Watch(t) /\ Mode(t) /\ Data(t, m) /\ u \in Clients
  BY SMTT(30) DEF Good, Received
<1>2. Watch(u)
  BY <1>1, SMTT(30) DEF Watch, Received
<1>3. Mode(u)
  BY <1>1, SMTT(30) DEF Mode, Received
<1>4. "cut" \notin t.hist => ~u.old
  BY <1>1, ZenonT(30) DEF Data, Received
<1>5. Data(u, m)
  BY <1>1, <1>4, DataKept, ZenonT(30) DEF Received
<1>6. Keeps(t, u)
  BY <1>1, KeepsSame DEF Received
<1> QED BY <1>1, <1>2, <1>3, <1>5, <1>6, SMTT(30) DEF Good

\* DoRecv
LEMMA DoRecvGood ==
  ASSUME NEW m \in Nat, NEW t, Good(t, m), t.state = "kConnected", NEW u \in DoRecv(t)
  PROVE  /\ Good(u, m)
         /\ Received(t, u) \/ (u.state = "kDisconnected" /\ ~(t.inbox > 0))
<1> DEFINE a == IF t.recv > MaxRecvBuf THEN [t EXCEPT !.recv = 0, !.old = FALSE] ELSE t
           b == [a EXCEPT !.recv = a.recv + t.inbox, !.inbox = 0]
           c == [a EXCEPT !.conn = IF a.conn = "reset" THEN "dead" ELSE a.conn]
           A == t.inbox > 0
           B == t.inbox = 0 /\ t.conn \in {"eof", "dead"}
           U1 == OnRecvMsg(b)
           U2 == {HandleClose(a)}
           U3 == {c}
<1>1. t \in Clients
  BY DEF Good
<1>2. DoRecv(t) = CASE A -> U1 [] B -> U2 [] OTHER -> U3
  BY DEF DoRecv
<1>3. ~(A /\ B)
  BY <1>1 DEF Clients
<1> HIDE DEF A, B, U1, U2, U3
<1>4. (A /\ u \in U1) \/ (~A /\ B /\ u \in U2) \/ (~A /\ ~B /\ u \in U3)
  BY <1>2, <1>3
<1>5. Received(t, a)
  BY <1>1, ZenonT(30) DEF Received, Clients
<1>6. a \in Clients /\ Good(a, m)
  BY <1>5, ReceivedGood, ZenonT(30) DEF Received
<1> HIDE DEF a
<1>7. CASE A /\ u \in U1
  <2>1. u \in {b, [b EXCEPT !.recv = 0, !.old = FALSE]}
    BY <1>7, SMTT(30) DEF U1, OnRecvMsg
  <2>2. a.recv + t.inbox \in Nat
    BY <1>1, <1>6 DEF Clients
  <2>3. Received(a, b)
    <3> DEFINE n == a.recv + t.inbox
    <3> HIDE DEF n
    <3>1. Received(a, [a EXCEPT !.recv = n, !.inbox = 0])
      BY <1>6, <2>2, ZenonT(30) DEF Received, Clients, n
    <3> QED BY <3>1 DEF n
  <2> HIDE DEF b
  <2>4. Received(b, u)
    <3>1. b \in Clients
      BY <2>3 DEF Received
    <3>2. Received(b, b)
      BY <3>1 DEF Received
    <3>3. Received(b, [b EXCEPT !.recv = 0, !.old = FALSE])
      BY <3>1, ZenonT(30) DEF Received, Clients
    <3> QED BY <2>1, <3>2, <3>3
  <2>5. Received(t, u)
    BY <1>5, <2>3, <2>4, ZenonT(30) DEF Received
  <2> QED BY <2>5, ReceivedGood
<1>8. CASE ~A /\ B /\ u \in U2
  BY <1>6, <1>8, HandleCloseGood DEF U2, A
<1>9. CASE ~A /\ ~B /\ u \in U3
  <2>1. Received(a, u)
    BY <1>6, <1>9, ZenonT(30) DEF U3, Received, Clients
  <2>2. Received(t, u)
    BY <1>5, <2>1, ZenonT(30) DEF Received
  <2> QED BY <2>2, ReceivedGood
<1> QED BY <1>4, <1>7, <1>8, <1>9


-----------------------------------------------------------------------------
(* Steps *)

\* Initially
LEMMA InitGood == Init => IInv
<1> SUFFICES ASSUME Init PROVE IInv
  OBVIOUS
<1>1. 1 \in FDs
  BY BoundsAssumption, SMTT(30) DEF FDs
<1>2. s.open \in [FDs -> {"free", "mine", "other"}] /\ s.ep \in [FDs -> SUBSET {"IN", "OUT"}]
  BY SMTT(30) DEF Init
<1>3. s \in Clients
  <2>1. <<>> \in Seq(Byte)
    OBVIOUS
  <2> QED BY <1>1, <1>2, <2>1 DEF Init, Clients
<1>4. Watch(s)
  <2>1. [f \in FDs |-> {}] = [f \in FDs |-> IF f = s.fd THEN {} ELSE {}]
    BY SMTT(30)
  <2> QED BY <2>1 DEF Init, Watch
<1>5. Mode(s)
  BY SMTT(30) DEF Init, Mode
<1>6. Data(s, 0)
  <2>1. Carried(s) = <<>>
    BY DEF Init, Carried
  <2>2. Len(<<>>) = 0 /\ 0 % 2 = 0
    BY SMT
  <2>3. Whole(<<>>, 0)
    BY <2>2, SMT DEF Whole
  <2> QED BY <2>1, <2>2, <2>3, SMTT(30) DEF Init, Data
<1> QED BY <1>3, <1>4, <1>5, <1>6, SMTT(30) DEF Init, IInv, Good, Fresh

\* The environment may make u of t.
Changed(t, u) ==
  /\ u \in Clients
  /\ u.state = t.state /\ u.fd = t.fd /\ u.events = t.events /\ u.ep = t.ep
  /\ u.isPooling = t.isPooling /\ u.sendbuf = t.sendbuf /\ u.recv = t.recv
  /\ u.wire = t.wire /\ u.old = t.old /\ u.hist = t.hist
  /\ t.state # "kDisconnected" => u.open[u.fd] = "mine"
  /\ \/ u.conn = t.conn
     \/ t.conn = "pending" /\ u.conn \in {"up", "failed"}
     \/ t.conn \in {"up", "eof"} /\ u.conn \in {"eof", "reset"}
  /\ u.full \in {t.full, FALSE}

\* Its changes keep the client right and the event fresh.
LEMMA EnvironmentGood ==
  ASSUME NEW m \in Nat, NEW t, NEW e, Good(t, m), Fresh(t, e), NEW u, Changed(t, u)
  PROVE  Good(u, m) /\ Fresh(u, e) /\ Keeps(t, u)
<1>1. t \in Clients /\ Watch(t) /\ Mode(t) /\ Data(t, m) /\ u \in Clients
  BY SMTT(30) DEF Good, Changed
<1>2. Watch(u)
  BY <1>1, SMTT(30) DEF Watch, Changed
<1>3. Mode(u)
  BY <1>1, ZenonT(30) DEF Mode, Changed
<1>4. "cut" \notin t.hist => ~u.old /\ (u.state # "kConnected" => u.recv = 0)
  BY <1>1 DEF Data, Changed
<1>5. Data(u, m)
  BY <1>1, <1>4, DataKept DEF Changed
<1>6. Fresh(u, e)
  BY ZenonT(30) DEF Fresh, Changed
<1>7. Keeps(t, u)
  BY <1>1, KeepsSame DEF Changed
<1> QED BY <1>1, <1>2, <1>3, <1>5, <1>6, <1>7, SMTT(30) DEF Good

\* What a step promises.
StepGood == IInv' /\ (Keeps(s, s') \/ s.conn = "none")

\* A client stays as it is.
LEMMA Stays == ASSUME NEW t \in Clients PROVE Keeps(t, t)
  BY KeepsSame

\* Connect, called by the application.
LEMMA CallConnectGood == IInv /\ CallConnect => StepGood
<1> SUFFICES ASSUME IInv, CallConnect PROVE StepGood
  OBVIOUS
<1>1. msgs \in Nat /\ Good(s, msgs) /\ Fresh(s, ev) /\ s \in Clients /\ Mode(s)
  BY DEF IInv, Good
<1>2. s' \in Connect(s) /\ ev' = ev /\ msgs' = msgs
  BY DEF CallConnect
<1>3. Good(s', msgs) /\ (s.state # "kDisconnected" => s' = s)
  BY <1>1, <1>2, ConnectGood
<1>4. CASE s.state = "kDisconnected"
  <2>1. ev = {} /\ s.conn = "none"
    BY <1>1, <1>4, SMTT(30) DEF Fresh, Mode
  <2> QED BY <1>1, <1>2, <1>3, <2>1, SMTT(30) DEF StepGood, IInv, Fresh
<1>5. CASE s.state # "kDisconnected"
  BY <1>1, <1>2, <1>3, <1>5, Stays, SMTT(30) DEF StepGood, IInv, Fresh
<1> QED BY <1>4, <1>5

\* Disconnect
LEMMA CallDisconnectGood == IInv /\ CallDisconnect => StepGood
<1> SUFFICES ASSUME IInv, CallDisconnect PROVE StepGood
  OBVIOUS
<1>1. msgs \in Nat /\ Good(s, msgs)
  BY DEF IInv
<1>2. s' = Disconnect(s) /\ ev = {} /\ ev' = {} /\ msgs' = msgs
  BY DEF CallDisconnect
<1>3. Good(s', msgs) /\ s'.state = "kDisconnected"
  BY <1>1, <1>2, DisconnectGood, SMTT(30)
<1>4. s'.conn = "none"
  BY <1>3 DEF Good, Mode
<1>5. Keeps(s, s')
  BY <1>4 DEF Keeps
<1>6. Fresh(s', {})
  BY SMTT(30) DEF Fresh
<1> QED BY <1>1, <1>2, <1>3, <1>5, <1>6, SMTT(30) DEF StepGood, IInv

\* SendMsg, called by the application.
LEMMA CallSendMsgGood == IInv /\ CallSendMsg => StepGood
<1> SUFFICES ASSUME IInv, CallSendMsg PROVE StepGood
  OBVIOUS
<1>1. msgs \in Nat /\ Good(s, msgs) /\ Fresh(s, ev) /\ Mode(s)
  BY DEF IInv, Good
<1>2. s' \in SendMsg(s, Message(msgs + 1)) /\ ev' = ev /\ msgs' = msgs + 1
  BY SMTT(30) DEF CallSendMsg
<1>3. /\ Good(s', msgs + 1)
      /\ s.state # "kDisconnected" =>
           /\ Keeps(s, s') /\ s'.state = s.state /\ s.events \subseteq s'.events
           /\ "OUT" \in s.events => s'.conn = s.conn /\ s'.full = s.full
  BY <1>1, <1>2, SendMsgGood, SMTT(30)
<1>4. Fresh(s', ev)
  BY <1>1, <1>3, SMTT(30) DEF Fresh
<1>5. Keeps(s, s') \/ s.conn = "none"
  BY <1>1, <1>3 DEF Mode
<1> QED BY <1>1, <1>2, <1>3, <1>4, <1>5, SMTT(30) DEF StepGood, IInv

\* epoll_wait reports what applies.
LEMMA PollGood == IInv /\ Poll => StepGood
<1> SUFFICES ASSUME IInv, Poll PROVE StepGood
  OBVIOUS
<1>1. msgs \in Nat /\ Good(s, msgs) /\ s \in Clients /\ Watch(s) /\ Mode(s)
  BY DEF IInv, Good
<1>2. s' = s /\ msgs' = msgs /\ ev' = Ready(s)
  BY DEF Poll
<1>3. s.fd \in FDs /\ s.ep[s.fd] = s.events
  BY <1>1, SMTT(30) DEF Clients, Watch
<1>4. Fresh(s, Ready(s))
  <2> DEFINE broken == s.conn \in {"failed", "reset", "dead"}
             R == Ready(s)
  <2>1. /\ R \subseteq {"IN", "OUT", "HUP", "ERR"} /\ (s.events = {} => R = {})
        /\ "IN" \in R => "IN" \in s.events
        /\ "OUT" \in R => "OUT" \in s.events /\ (broken \/ (s.conn \in {"up", "eof"} /\ ~s.full))
    BY <1>3 DEF Ready
  <2> HIDE DEF R
  <2> QED BY <1>1, <2>1, SMTT(30) DEF Fresh, Mode, R
<1> QED BY <1>1, <1>2, <1>4, Stays, SMTT(30) DEF StepGood, IInv


\* HandleEvent
LEMMA HandleEventGood == IInv /\ HandleEvent => StepGood
<1> SUFFICES ASSUME IInv, HandleEvent PROVE StepGood
  OBVIOUS
<1>1. msgs \in Nat /\ Good(s, msgs) /\ Fresh(s, ev) /\ s \in Clients /\ ev # {} /\ ev' = {}
  BY DEF IInv, Good, HandleEvent
<1>2. PICK reply \in BOOLEAN :
       /\ reply => "IN" \in ev /\ s.inbox > 0 /\ msgs < MaxMsgs
       /\ msgs' = IF reply THEN msgs + 1 ELSE msgs
       /\ \E t1 \in {IF "HUP" \in ev /\ "IN" \notin ev THEN HandleClose(s) ELSE s} :
            \E t2 \in IF "IN" \in ev THEN DoRecv(t1) ELSE {t1} :
              \E t3 \in IF reply THEN SendMsg(t2, Message(msgs')) ELSE {t2} :
                s' \in IF CanSend(ev) THEN HandleCanSend(t3) ELSE {t3}
  BY DEF HandleEvent
<1>3. PICK t1 \in {IF "HUP" \in ev /\ "IN" \notin ev THEN HandleClose(s) ELSE s} :
         \E t2 \in IF "IN" \in ev THEN DoRecv(t1) ELSE {t1} :
           \E t3 \in IF reply THEN SendMsg(t2, Message(msgs')) ELSE {t2} :
             s' \in IF CanSend(ev) THEN HandleCanSend(t3) ELSE {t3}
  BY <1>2
<1>4. PICK t2 \in IF "IN" \in ev THEN DoRecv(t1) ELSE {t1} :
         \E t3 \in IF reply THEN SendMsg(t2, Message(msgs')) ELSE {t2} :
           s' \in IF CanSend(ev) THEN HandleCanSend(t3) ELSE {t3}
  BY <1>3
<1>5. PICK t3 \in IF reply THEN SendMsg(t2, Message(msgs')) ELSE {t2} :
         s' \in IF CanSend(ev) THEN HandleCanSend(t3) ELSE {t3}
  BY <1>4
<1>6. Fresh(s', {})
  BY DEF Fresh
<1>7. SUFFICES Good(s', msgs') /\ Keeps(s, s') /\ msgs' \in Nat
  BY <1>1, <1>6, SMTT(30) DEF StepGood, IInv
<1>8. msgs' \in Nat /\ (reply => msgs' = msgs + 1) /\ (~reply => msgs' = msgs)
  BY <1>1, <1>2, SMTT(30)
<1>9. CASE "HUP" \in ev /\ "IN" \notin ev
  <2>1. ~reply /\ ~CanSend(ev)
    BY <1>2, <1>9, SMTT(30) DEF CanSend
  <2>2. s' = HandleClose(s)
    BY <1>5, <1>9, <2>1, SMTT(30)
  <2>3. Good(s', msgs) /\ s'.state = "kDisconnected"
    BY <1>1, <2>2, HandleCloseGood, SMTT(30)
  <2>4. s'.conn = "none"
    BY <2>3 DEF Good, Mode
  <2> QED BY <1>8, <2>1, <2>3, <2>4, SMTT(30) DEF Keeps
<1>10. CASE ~("HUP" \in ev /\ "IN" \notin ev)
  <2>1. t1 = s
    BY <1>10
  <2>2. /\ Good(t2, msgs)
        /\ \/ Received(s, t2)
           \/ t2.state = "kDisconnected" /\ ~reply
    <3>1. CASE "IN" \in ev
      <4>1. s.state = "kConnected" /\ t2 \in DoRecv(s)
        BY <1>1, <2>1, <3>1, SMTT(30) DEF Fresh
      <4>2. Good(t2, msgs) /\ (Received(s, t2) \/ (t2.state = "kDisconnected" /\ ~(s.inbox > 0)))
        BY <1>1, <4>1, DoRecvGood, SMTT(30)
      <4> QED BY <1>2, <4>2, SMTT(30)
    <3>2. CASE "IN" \notin ev
      <4>1. t2 = s
        BY <2>1, <3>2, SMTT(30)
      <4> QED BY <1>1, <4>1 DEF Received
    <3> QED BY <3>1, <3>2
  <2>3. t2 \in Clients /\ (Received(s, t2) => Keeps(s, t2))
    BY <1>1, <2>2, KeepsSame, ZenonT(30) DEF Good, Received
  <2>4. CASE t2.state = "kDisconnected" /\ ~reply
    <3>1. t3 = t2 /\ msgs' = msgs
      BY <1>8, <2>4
    <3>2. Good(s', msgs) /\ (s' = t2 \/ Keeps(t2, s'))
      BY <1>1, <1>5, <2>2, <2>4, <3>1, HandleCanSendGood
    <3>3. t2.conn = "none" /\ Keeps(s, t2)
      BY <2>2, <2>4, SMTT(30) DEF Good, Mode, Keeps
    <3> QED BY <1>1, <2>3, <3>1, <3>2, <3>3, KeepsTransitive DEF Good
  <2>5. CASE Received(s, t2)
    <3>1. t2.state = s.state /\ s.state # "kDisconnected" /\ Keeps(s, t2)
      BY <1>1, <2>3, <2>5, ZenonT(30) DEF Fresh, Received
    <3>2. /\ Good(t3, msgs') /\ Keeps(t2, t3) /\ t3.state = t2.state /\ t2.events \subseteq t3.events
          /\ "OUT" \in t2.events => t3.conn = t2.conn /\ t3.full = t2.full
      <4>1. CASE reply
        <5>1. t3 \in SendMsg(t2, Message(msgs + 1)) /\ msgs' = msgs + 1
          BY <1>8, <4>1, SMTT(30)
        <5> QED BY <1>1, <2>2, <3>1, <5>1, SendMsgGood
      <4>2. CASE ~reply
        <5>1. t3 = t2 /\ msgs' = msgs
          BY <1>8, <4>2, SMTT(30)
        <5> QED BY <2>2, <2>3, <5>1, Stays, SMTT(30)
      <4> QED BY <4>1, <4>2
    <3>3. Good(s', msgs') /\ (s' = t3 \/ Keeps(t3, s'))
      <4>1. CASE CanSend(ev)
        <5>1. "OUT" \in ev
          BY <4>1, SMTT(30) DEF CanSend
        <5>2. /\ "OUT" \in t3.events /\ t3.conn # "pending"
              /\ t3.full => t3.conn \in {"reset", "dead"}
          BY <1>1, <2>5, <3>2, <5>1, SMTT(30) DEF Fresh, Received
        <5> QED BY <1>5, <1>8, <3>2, <4>1, <5>2, HandleCanSendGood, SMTT(30)
      <4>2. CASE ~CanSend(ev)
        BY <1>5, <3>2, <4>2, SMTT(30)
      <4> QED BY <4>1, <4>2, SMTT(30)
    <3>4. t3 \in Clients /\ s' \in Clients
      BY <3>2, <3>3, SMTT(30) DEF Good
    <3>5. Keeps(s, t3)
      BY <1>1, <2>3, <3>1, <3>2, <3>4, KeepsTransitive, SMTT(30)
    <3>6. Keeps(s, s')
      BY <1>1, <3>3, <3>4, <3>5, KeepsTransitive, SMTT(30)
    <3> QED BY <1>8, <3>3, <3>6, SMTT(30)
  <2> QED BY <2>2, <2>4, <2>5
<1> QED BY <1>9, <1>10, SMTT(30)

\* The peer and the other sockets of the process
LEMMA OthersGood ==
  /\ IInv
  /\ PeerAnswers \/ PeerSends \/ PeerReads \/ PeerCloses \/ PeerResets \/ OtherOpens \/ OtherCloses
  => StepGood
<1> SUFFICES ASSUME IInv, PeerAnswers \/ PeerSends \/ PeerReads \/ PeerCloses \/ PeerResets
                            \/ OtherOpens \/ OtherCloses
             PROVE  StepGood
  OBVIOUS
<1>1. msgs \in Nat /\ Good(s, msgs) /\ Fresh(s, ev) /\ s \in Clients /\ Mode(s)
  BY DEF IInv, Good
<1>2. ev' = ev /\ msgs' = msgs
  BY DEF PeerAnswers, PeerSends, PeerReads, PeerCloses, PeerResets, OtherOpens, OtherCloses,
         Environment
<1>3. SUFFICES Good(s', msgs) /\ Fresh(s', ev) /\ Keeps(s, s')
  BY <1>1, <1>2, SMTT(30) DEF StepGood, IInv
<1>4. s.state # "kDisconnected" => s.open[s.fd] = "mine"
  BY <1>1 DEF Mode
<1>5. CASE PeerAnswers
  <2>1. PICK c \in {"up", "failed"} : s' = [s EXCEPT !.conn = c] /\ s.conn = "pending"
    BY <1>5 DEF PeerAnswers, Environment
  <2>2. Changed(s, s')
    BY <1>1, <1>4, <2>1, SMTT(30) DEF Clients, Changed
  <2> QED BY <1>1, <2>2, EnvironmentGood
<1>6. CASE PeerSends
  <2>1. s' = [s EXCEPT !.inbox = 1]
    BY <1>6 DEF PeerSends, Environment
  <2>2. Changed(s, s')
    BY <1>1, <1>4, <2>1, ZenonT(30) DEF Clients, Changed
  <2> QED BY <1>1, <2>2, EnvironmentGood
<1>7. CASE PeerReads
  <2>1. s' = [s EXCEPT !.full = FALSE]
    BY <1>7 DEF PeerReads, Environment
  <2>2. Changed(s, s')
    BY <1>1, <1>4, <2>1, ZenonT(30) DEF Clients, Changed
  <2> QED BY <1>1, <2>2, EnvironmentGood
<1>8. CASE PeerCloses
  <2>1. s' = [s EXCEPT !.conn = "eof"] /\ s.conn = "up"
    BY <1>8 DEF PeerCloses, Environment
  <2>2. Changed(s, s')
    BY <1>1, <1>4, <2>1, ZenonT(30) DEF Clients, Changed
  <2> QED BY <1>1, <2>2, EnvironmentGood
<1>9. CASE PeerResets
  <2>1. s' = [s EXCEPT !.conn = "reset"] /\ s.conn \in {"up", "eof"}
    BY <1>9 DEF PeerResets, Environment
  <2>2. Changed(s, s')
    BY <1>1, <1>4, <2>1 DEF Clients, Changed
  <2> QED BY <1>1, <2>2, EnvironmentGood
<1>10. CASE OtherOpens \/ OtherCloses
  <2>1. PICK f \in FDs, v \in {"free", "other"} :
          s.open[f] # "mine" /\ s' = [s EXCEPT !.open[f] = v]
    <3>1. CASE OtherOpens
      <4>1. LowestFree(s) \in FDs /\ s.open[LowestFree(s)] = "free"
        BY <1>1, <3>1, LowestFreeOK DEF OtherOpens
      <4> QED BY <3>1, <4>1, ZenonT(30) DEF OtherOpens, Environment
    <3>2. CASE OtherCloses
      BY <3>2, ZenonT(30) DEF OtherCloses, Environment
    <3> QED BY <1>10, <3>1, <3>2
  <2>2. s' \in Clients
    BY <1>1, <2>1, SMTT(30) DEF Clients
  <2>3. s.state # "kDisconnected" => s'.open[s.fd] = "mine"
    BY <1>1, <1>4, <2>1, SMTT(30) DEF Clients
  <2>4. Changed(s, s')
    BY <1>1, <2>1, <2>2, <2>3, ZenonT(30) DEF Clients, Changed
  <2> QED BY <1>1, <2>4, EnvironmentGood
<1> QED BY <1>5, <1>6, <1>7, <1>8, <1>9, <1>10, SMTT(30)


\* Every step keeps the invariant and what is queued.
LEMMA NextGood == IInv /\ Next => StepGood
  BY CallConnectGood, CallDisconnectGood, CallSendMsgGood, PollGood, HandleEventGood, OthersGood
  DEF Next

\* The invariant is inductive.
LEMMA Inductive == IInv /\ [Next]_vars => IInv'
<1>1. IInv /\ UNCHANGED vars => IInv'
  BY DEF vars, IInv
<1> QED BY <1>1, NextGood DEF StepGood

\* A sequence is a prefix of what continues it.
LEMMA PrefixOfConcat ==
  ASSUME NEW a \in Seq(Byte), NEW d \in Seq(Byte)
  PROVE  Len(a) <= Len(a \o d) /\ SubSeq(a \o d, 1, Len(a)) = a
<1>1. Len(a) \in Nat /\ Len(d) \in Nat /\ Len(a \o d) = Len(a) + Len(d)
  BY LenProperties, ConcatProperties
<1>2. Len(a) <= Len(a \o d)
  BY <1>1
<1>3. SubSeq(a \o d, 1, Len(a)) = SubSeq(a, 1, Len(a))
  <2>1. CASE Len(a) = 0
    BY <2>1, SubSeqEmpty
  <2>2. CASE Len(a) # 0
    <3>1. 1 \in 1 .. Len(a) /\ Len(a) \in 1 .. Len(a)
      BY <1>1, <2>2
    <3> QED BY <3>1, SubSeqOfConcat1
  <2> QED BY <2>1, <2>2
<1> QED BY <1>2, <1>3, SubSeqFull

\* The invariant implies the three that are checked.
LEMMA Implied == IInv => RegistrationOK /\ ConnectedIsReal /\ WholeMessages
<1> SUFFICES ASSUME IInv PROVE RegistrationOK /\ ConnectedIsReal /\ WholeMessages
  OBVIOUS
<1>1. msgs \in Nat /\ s \in Clients /\ Watch(s) /\ Mode(s) /\ Data(s, msgs)
  BY SMTT(30) DEF IInv, Good
<1>2. RegistrationOK
  BY <1>1 DEF Watch, Mode, RegistrationOK
<1>3. ConnectedIsReal
  BY <1>1, SMTT(30) DEF Mode, ConnectedIsReal
<1>4. WholeMessages
  <2>1. "cut" \notin s.hist => ~s.old /\ Whole(s.wire \o s.sendbuf, msgs)
    BY <1>1, ZenonT(30) DEF Data, Carried
  <2> QED BY <2>1, ZenonT(30) DEF Whole, Placed, Follows, WholeMessages
<1> QED BY <1>2, <1>3, <1>4

-----------------------------------------------------------------------------
(* Theorems *)

\* UpdateEvent always knows what epoll has registered, no descriptor that was
\* closed or abandoned is watched, and a connected client reads.
THEOREM RegistrationIsOK == Spec => []RegistrationOK
  BY InitGood, Inductive, Implied, PTL DEF Spec

\* A client that believes to be connected has an established connection.
THEOREM ConnectedIsAlwaysReal == Spec => []ConnectedIsReal
  BY InitGood, Inductive, Implied, PTL DEF Spec

\* Partial writes, failures and reconnections neither cut, mix nor reorder
\* messages, whatever the limits of the buffers are.
THEOREM MessagesAreWhole == Spec => []WholeMessages
  BY InitGood, Inductive, Implied, PTL DEF Spec

\* What is queued for a living connection leaves the queue only by a write.
THEOREM QueueIsKept == Spec => KeptWhileAlive
<1>1. IInv /\ [Next]_vars =>
        [Alive /\ Alive' /\ s'.fd = s.fd /\ "overflow" \notin s'.hist =>
           LET q == s.wire \o s.sendbuf
           IN  Len(q) <= Len(q') /\ SubSeq(q', 1, Len(q)) = q]_vars
  <2> SUFFICES ASSUME IInv, Next, Alive, Alive', "overflow" \notin s'.hist
               PROVE  /\ Len(Carried(s)) <= Len(Carried(s)')
                      /\ SubSeq(Carried(s)', 1, Len(Carried(s))) = Carried(s)
    BY ZenonT(30) DEF Carried
  <2>1. Keeps(s, s')
    BY NextGood DEF StepGood, Alive
  <2>2. PICK d \in Seq(Byte) : Carried(s') = Carried(s) \o d
    BY <2>1 DEF Keeps, Alive
  <2>3. Carried(s) \in Seq(Byte)
    BY ConcatProperties DEF IInv, Good, Clients, Carried
  <2> QED BY <2>2, <2>3, PrefixOfConcat, SMTT(30)
<1> QED BY <1>1, InitGood, Inductive, PTL DEF Spec, KeptWhileAlive
=============================================================================
