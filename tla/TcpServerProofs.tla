-------------------------- MODULE TcpServerProofs --------------------------
(***************************************************************************)
(* The tables of the server and the batch of events agree, for every       *)
(* number of descriptors, addresses and peers and every size of the list.  *)
(*                                                                         *)
(* The handlers call each other with the server as a value, so the         *)
(* invariant is a predicate of the server, and there is a lemma for each   *)
(* function.                                                               *)
(***************************************************************************)
EXTENDS TcpServer, FiniteSetTheorems, SequenceTheorems, TLAPS

Events == {"IN", "OUT"}
Conns == {"none", "up", "eof", "reset", "dead"}
Channels ==
  [live : BOOLEAN, fd : 0 .. NFDs, events : SUBSET Events, isPooling : BOOLEAN, out : BOOLEAN]
Watches == [ptr : Addrs \cup {Acceptor, None}, events : SUBSET Events]

Servers ==
  [ch : [Addrs -> Channels], map : [FDs -> Addrs \cup {None}], idle : FDs,
   open : [FDs -> {"listen", "idle", "free", "conn", "other"}], conn : [FDs -> Conns],
   inbox : [FDs -> BOOLEAN], full : [FDs -> BOOLEAN], backlog : Nat, ep : [FDs -> Watches]]

\* The channel at address a is that of descriptor f.
Serves(t, a, f) ==
  /\ a \in Addrs /\ t.ch[a].live /\ t.ch[a].fd = f
  /\ t.ch[a].isPooling /\ t.ep[f] = [ptr |-> a, events |-> t.ch[a].events]
  /\ t.ch[a].events = IF t.ch[a].out THEN {"IN", "OUT"} ELSE {"IN"}

\* TablesAgree, as a predicate of a server t, and that a live channel's number is
\* one of a descriptor.
Tables(t) ==
  /\ \A f \in FDs : t.open[f] = "conn" => Serves(t, t.map[f], f)
  /\ \A f \in FDs : t.open[f] # "conn" => t.map[f] = None /\ (f # ListenFD => t.ep[f] = NotWatched)
  /\ \A a \in Addrs : t.ch[a].live => t.ch[a].fd \in FDs /\ t.map[t.ch[a].fd] = a
  /\ t.open[ListenFD] = "listen" /\ t.ep[ListenFD].ptr = Acceptor
  /\ t.open[t.idle] = "idle"

Good(t) == t \in Servers /\ Tables(t)

Reported == [ptr : Addrs \cup {Acceptor}, ev : SUBSET (Events \cup {"HUP", "ERR"}), fd : FDs]

\* An event is for the acceptor, for a deleted object, or for the channel of the
\* descriptor it was reported for.  One that reports a broken connection of a
\* channel reports that there is something to read.
EventOK(t, e, del) ==
  /\ \/ e.ptr \in del
     \/ e.ptr = Acceptor /\ e.fd = ListenFD
     \/ e.ptr \in Addrs /\ t.ch[e.ptr].live /\ t.ch[e.ptr].fd = e.fd
  /\ e.ptr # Acceptor /\ "HUP" \in e.ev => "IN" \in e.ev

Batch(t, b, del) == b \in Seq(Reported) /\ \A i \in 1 .. Len(b) : EventOK(t, b[i], del)

IInv == Good(s) /\ size \in Nat \ {0} /\ Batch(s, batch, deleted)

-----------------------------------------------------------------------------
(* What can happen to a server *)

\* u is t except for the channel at address a and the watch of descriptor f.
Rewatched(t, u, a, c, f, w) ==
  /\ u \in Servers
  /\ u.ch = [t.ch EXCEPT ![a] = c] /\ u.ep = [t.ep EXCEPT ![f] = w]
  /\ u.map = t.map /\ u.idle = t.idle /\ u.open = t.open /\ u.conn = t.conn
  /\ u.inbox = t.inbox /\ u.full = t.full /\ u.backlog = t.backlog

\* Only the kernel's buffers and connections differ.
SameTables(t, u) ==
  /\ u \in Servers
  /\ u.ch = t.ch /\ u.map = t.map /\ u.idle = t.idle /\ u.open = t.open /\ u.ep = t.ep

\* The same channels have the same descriptors.
SameChannels(t, u) ==
  \A a \in Addrs : u.ch[a].live = t.ch[a].live /\ u.ch[a].fd = t.ch[a].fd

\* No channel that lives on gets another descriptor.
Keeps(t, u) ==
  \A a \in Addrs : t.ch[a].live /\ u.ch[a].live => u.ch[a].fd = t.ch[a].fd

-----------------------------------------------------------------------------
(* Registration *)

LEMMA FDsOK == FDs \subseteq Nat /\ ListenFD \in FDs
  BY SizesAssumption DEF FDs, ListenFD

\* What UpdateEvent does if it knows whether the descriptor is watched.
LEMMA UpdateEventDoes ==
  ASSUME NEW t \in Servers, NEW a \in Addrs, NEW events \in SUBSET Events,
         t.ch[a].fd \in FDs,
         t.ch[a].isPooling <=> t.ep[t.ch[a].fd] # NotWatched,
         t.ch[a].isPooling <=> t.ep[t.ch[a].fd].ptr # None
  PROVE  Rewatched(t, UpdateEvent(t, a, events), a,
                   [t.ch[a] EXCEPT !.events = events, !.isPooling = (events # {})],
                   t.ch[a].fd,
                   IF events = {} THEN NotWatched ELSE [ptr |-> a, events |-> events])
<1> DEFINE f == t.ch[a].fd
           b == events # {}
           c0 == t.ch[a]
           c == [c0 EXCEPT !.events = events, !.isPooling = b]
           w == IF events = {} THEN NotWatched ELSE [ptr |-> a, events |-> events]
           u == UpdateEvent(t, a, events)
<1>a. b \in BOOLEAN /\ c0 \in Channels /\ f \in FDs
  BY DEF Servers
<1>b. w \in Watches
  BY DEF Watches, NotWatched, Events
<1>c. c \in Channels
  <2> HIDE DEF b, c0
  <2> QED BY <1>a, ZenonT(30) DEF Channels
<1>2. CASE ~t.ch[a].isPooling /\ events = {}
  <2>1. u = [t EXCEPT !.ch[a].events = events]
    BY <1>2 DEF UpdateEvent
  <2>2. t.ep[f] = NotWatched /\ w = NotWatched /\ ~b
    BY <1>2
  <2>3. c = [c0 EXCEPT !.events = events]
    <3>1. c0.isPooling = b
      BY <1>2, <1>a, <2>2 DEF Channels
    <3> HIDE DEF b, c0
    <3> QED BY <3>1, <1>a, Zenon DEF Channels
  <2>4. u.ch = [t.ch EXCEPT ![a] = c]
    <3>1. u.ch = [t.ch EXCEPT ![a] = [t.ch[a] EXCEPT !.events = events]]
      BY <2>1 DEF Servers
    <3> QED BY <3>1, <2>3
  <2>5. [t.ep EXCEPT ![f] = w] = t.ep
    BY <2>2, <1>a DEF Servers
  <2> HIDE DEF u, c
  <2>6. u \in Servers
    BY <2>1, <2>4, <1>c, Zenon DEF Servers
  <2> QED BY <2>1, <2>4, <2>5, <2>6, ZenonT(30) DEF Rewatched, Servers, u, c
<1>3. CASE t.ch[a].isPooling \/ events # {}
  <2> DEFINE op == IF ~t.ch[a].isPooling THEN "ADD" ELSE IF events = {} THEN "DEL" ELSE "MOD"
  <2>1. epoll_ctl(t, op, f, a, events) = [t EXCEPT !.ep[f] = w]
    BY <1>3, SMTT(30) DEF epoll_ctl
  <2>2. u = [[t EXCEPT !.ep[f] = w] EXCEPT !.ch[a].events = events, !.ch[a].isPooling = b]
    BY <1>3, <2>1, ZenonT(30) DEF UpdateEvent
  <2> HIDE DEF w, u, b
  <2>3. u.ch = [t.ch EXCEPT ![a] = c]
    BY <1>a, <2>2, ZenonT(30) DEF Servers
  <2>4. u.ep = [t.ep EXCEPT ![f] = w]
    BY <1>a, <2>2 DEF Servers
  <2>5. u \in Servers
    <3> HIDE DEF c
    <3> QED BY <1>a, <1>b, <1>c, <2>2, <2>3, <2>4, ZenonT(30) DEF Servers
  <2> QED BY <2>2, <2>3, <2>4, <2>5, ZenonT(30) DEF Rewatched, Servers, u, b, w
<1> QED BY <1>2, <1>3

\* A live channel serves its descriptor.
LEMMA LiveServes ==
  ASSUME NEW t, Good(t), NEW a \in Addrs, t.ch[a].live
  PROVE  /\ t.ch[a].fd \in FDs /\ t.ch[a].fd # ListenFD /\ t.ch[a].fd # t.idle
         /\ t.open[t.ch[a].fd] = "conn" /\ t.map[t.ch[a].fd] = a
         /\ Serves(t, a, t.ch[a].fd)
  BY SizesAssumption DEF Good, Tables

LEMMA SameTablesOK ==
  ASSUME NEW t, Good(t), NEW u, SameTables(t, u)
  PROVE  Good(u) /\ SameChannels(t, u)
  BY DEF Good, SameTables, SameChannels, Tables, Serves

\* A channel may change what it waits for and whether it has something to write.
LEMMA RewatchedOK ==
  ASSUME NEW t, Good(t), NEW a \in Addrs, t.ch[a].live, NEW u, NEW c,
         Rewatched(t, u, a, c, t.ch[a].fd, [ptr |-> a, events |-> c.events]),
         c.live, c.fd = t.ch[a].fd, c.isPooling,
         c.events = IF c.out THEN {"IN", "OUT"} ELSE {"IN"}
  PROVE  Good(u) /\ SameChannels(t, u)
<1> DEFINE f == t.ch[a].fd
           w == [ptr |-> a, events |-> c.events]
<1>1. f \in FDs /\ f # ListenFD /\ t.open[f] = "conn" /\ t.map[f] = a
  BY LiveServes
<1>2. /\ u \in Servers /\ t \in Servers /\ Tables(t)
      /\ u.map = t.map /\ u.idle = t.idle /\ u.open = t.open
  BY DEF Rewatched, Good
<1>3. u.ch[a] = c /\ \A x \in Addrs \ {a} : u.ch[x] = t.ch[x]
  BY <1>2 DEF Rewatched, Servers
<1>4. u.ep[f] = w /\ \A g \in FDs \ {f} : u.ep[g] = t.ep[g]
  BY <1>1, <1>2 DEF Rewatched, Servers
<1>5. SameChannels(t, u)
  BY <1>3, <1>2 DEF SameChannels, Servers, Channels
<1>6. Serves(u, a, f)
  BY <1>3, <1>4 DEF Serves
<1>7. ASSUME NEW g \in FDs, u.open[g] = "conn"
      PROVE  Serves(u, u.map[g], g)
  <2>1. Serves(t, t.map[g], g)
    BY <1>2, <1>7 DEF Tables
  <2>2. CASE g = f
    BY <1>1, <1>2, <1>6, <2>2, ZenonT(30)
  <2>3. CASE g # f
    <3>1. t.map[g] # a /\ t.map[g] \in Addrs
      BY <2>1, <2>3 DEF Serves
    <3> QED BY <1>2, <1>3, <1>4, <2>1, <2>3, <3>1, ZenonT(30) DEF Serves
  <2> QED BY <2>2, <2>3
<1>8. \A g \in FDs : u.open[g] # "conn" =>
        u.map[g] = None /\ (g # ListenFD => u.ep[g] = NotWatched)
  BY <1>1, <1>2, <1>4 DEF Tables
<1>9. \A x \in Addrs : u.ch[x].live => u.ch[x].fd \in FDs /\ u.map[u.ch[x].fd] = x
  BY <1>1, <1>2, <1>3 DEF Tables
<1>10. u.open[ListenFD] = "listen" /\ u.ep[ListenFD].ptr = Acceptor /\ u.open[u.idle] = "idle"
  BY FDsOK, <1>1, <1>2, <1>4 DEF Tables
<1> QED BY <1>2, <1>5, <1>7, <1>8, <1>9, <1>10 DEF Good, Tables

-----------------------------------------------------------------------------
(* Sending *)

LEMMA writeOK ==
  ASSUME NEW t, Good(t), NEW f \in FDs, NEW w \in write(t, f)
  PROVE  SameTables(t, w.t)
<1>1. t \in Servers
  BY DEF Good
<1> DEFINE X == [t EXCEPT !.full[f] = TRUE]
           Y == [t EXCEPT !.conn[f] = "dead"]
<1>2. SameTables(t, t) /\ SameTables(t, X) /\ SameTables(t, Y)
  <2>1. X.full = [t.full EXCEPT ![f] = TRUE] /\ Y.conn = [t.conn EXCEPT ![f] = "dead"]
    BY <1>1 DEF Servers
  <2>2. X \in Servers
    BY <1>1, Zenon DEF Servers
  <2>3. "dead" \in Conns
    BY DEF Conns
  <2>4. Y \in Servers
    BY <1>1, <2>3, Zenon DEF Servers
  <2> QED BY <1>1, <2>2, <2>4, ZenonT(30) DEF SameTables, Servers
<1>3. w.t \in {t, X, Y}
  <2> DEFINE A == t.conn[f] \in {"up", "eof"} /\ ~t.full[f]
             B == t.conn[f] \in {"up", "eof"} /\ t.full[f]
             U1 == {[t |-> t, res |-> "all"], [t |-> X, res |-> "part"]}
             U2 == {[t |-> t, res |-> "EWOULDBLOCK"]}
             U3 == {[t |-> Y, res |-> "EPIPE"]}
  <2>1. write(t, f) = CASE A -> U1 [] B -> U2 [] OTHER -> U3
    BY Zenon DEF write
  <2> HIDE DEF A, B, U1, U2, U3
  <2>2. w \in U1 \/ w \in U2 \/ w \in U3
    BY <2>1
  <2> HIDE DEF X, Y
  <2> QED BY <2>2 DEF U1, U2, U3
<1> QED BY <1>2, <1>3, ZenonT(30)

\* The channel has something to write, or no longer has.
LEMMA SetOut ==
  ASSUME NEW t \in Servers, NEW a \in Addrs, NEW b \in BOOLEAN
  PROVE  LET u == [t EXCEPT !.ch[a].out = b]
         IN  /\ u \in Servers
             /\ u.ch = [t.ch EXCEPT ![a] = [t.ch[a] EXCEPT !.out = b]]
             /\ u.ep = t.ep /\ u.map = t.map /\ u.idle = t.idle /\ u.open = t.open
             /\ u.conn = t.conn /\ u.inbox = t.inbox /\ u.full = t.full /\ u.backlog = t.backlog
<1> DEFINE u == [t EXCEPT !.ch[a].out = b]
           c0 == t.ch[a]
           c == [c0 EXCEPT !.out = b]
<1>1. c0 \in Channels
  BY DEF Servers
<1>2. c \in Channels
  <2> HIDE DEF c0
  <2> QED BY <1>1, Zenon DEF Channels
<1>3. u.ch = [t.ch EXCEPT ![a] = c]
  BY DEF Servers
<1>4. u \in Servers
  <2> HIDE DEF c
  <2> QED BY <1>2, <1>3, Zenon DEF Servers
<1> QED BY <1>3, <1>4, ZenonT(30) DEF Servers

\* Changing out and then what is watched: the channel is registered as before.
LEMMA OutThenWatch ==
  ASSUME NEW t, Good(t), NEW a \in Addrs, t.ch[a].live, NEW b \in BOOLEAN,
         NEW evs, evs = IF b THEN {"IN", "OUT"} ELSE {"IN"}
  PROVE  LET u == UpdateEvent([t EXCEPT !.ch[a].out = b], a, evs)
         IN  Good(u) /\ SameChannels(t, u)
<1> DEFINE t0 == [t EXCEPT !.ch[a].out = b]
           u == UpdateEvent(t0, a, evs)
           f == t.ch[a].fd
           c0 == [t.ch[a] EXCEPT !.out = b]
           c == [c0 EXCEPT !.events = evs, !.isPooling = (evs # {})]
           w == [ptr |-> a, events |-> evs]
<1>1. t \in Servers /\ t.ch[a] \in Channels
  BY DEF Good, Servers
<1>2. /\ t0 \in Servers /\ t0.ch = [t.ch EXCEPT ![a] = c0]
      /\ t0.ep = t.ep /\ t0.map = t.map /\ t0.idle = t.idle /\ t0.open = t.open
      /\ t0.conn = t.conn /\ t0.inbox = t.inbox /\ t0.full = t.full /\ t0.backlog = t.backlog
  BY <1>1, SetOut
<1> HIDE DEF t0
<1>3. f \in FDs /\ Serves(t, a, f)
  BY LiveServes
<1>4. t0.ch[a] = c0
  BY <1>1, <1>2 DEF Servers
<1>5. c0.fd = f /\ c0.isPooling /\ c0.live /\ c0.out = b
  BY <1>1, <1>3 DEF Channels, Serves
<1>6. t0.ep[f].ptr # None /\ t0.ep[f] # NotWatched
  BY <1>2, <1>3, SizesAssumption DEF Serves, NotWatched
<1>7. evs \in SUBSET Events /\ evs # {}
  BY DEF Events
<1> HIDE DEF c0
<1>8. Rewatched(t0, u, a, c, f, w)
  <2>1. Rewatched(t0, u, a, [t0.ch[a] EXCEPT !.events = evs, !.isPooling = (evs # {})],
                  t0.ch[a].fd, IF evs = {} THEN NotWatched ELSE w)
    <3>1. /\ t0.ch[a].fd \in FDs
          /\ t0.ch[a].isPooling <=> t0.ep[t0.ch[a].fd] # NotWatched
          /\ t0.ch[a].isPooling <=> t0.ep[t0.ch[a].fd].ptr # None
      BY <1>3, <1>4, <1>5, <1>6
    <3> QED BY <1>2, <1>7, <3>1, UpdateEventDoes, ZenonT(30)
  <2>2. (IF evs = {} THEN NotWatched ELSE w) = w /\ t0.ch[a].fd = f
    BY <1>4, <1>5, <1>7
  <2> QED BY <2>1, <2>2, <1>4
<1> HIDE DEF u
<1>9. c0 \in Channels
  BY <1>1, Zenon DEF Channels, c0
<1>10. c.live /\ c.fd = f /\ c.isPooling /\ c.events = evs /\ c.out = b
  BY <1>5, <1>7, <1>9 DEF Channels
<1> HIDE DEF c
<1>11. Rewatched(t, u, a, c, f, [ptr |-> a, events |-> c.events])
  <2>1. u.ch = [t.ch EXCEPT ![a] = c]
    BY <1>1, <1>2, <1>8 DEF Rewatched, Servers
  <2> QED BY <1>2, <1>8, <1>10, <2>1 DEF Rewatched
<1>12. Good(u) /\ SameChannels(t, u)
  BY <1>10, <1>11, RewatchedOK, ZenonT(30)
<1> QED BY <1>12 DEF u, t0

LEMMA QueueRestOK ==
  ASSUME NEW t, Good(t), NEW a \in Addrs, t.ch[a].live
  PROVE  Good(QueueRest(t, a)) /\ SameChannels(t, QueueRest(t, a))
<1> DEFINE t0 == [t EXCEPT !.ch[a].out = TRUE]
<1>1. t \in Servers /\ t.ch[a] \in Channels /\ Serves(t, a, t.ch[a].fd)
  BY LiveServes DEF Good, Servers
<1>2. /\ t0 \in Servers /\ t0.ch = [t.ch EXCEPT ![a] = [t.ch[a] EXCEPT !.out = TRUE]]
      /\ t0.ep = t.ep /\ t0.map = t.map /\ t0.idle = t.idle /\ t0.open = t.open
  BY <1>1, SetOut, ZenonT(30)
<1>3. t0.ch[a].events = t.ch[a].events
  BY <1>1, <1>2 DEF Servers, Channels
<1>4. CASE IsWriting(t0, a)
  <2>1. t.ch[a].out
    BY <1>1, <1>3, <1>4 DEF IsWriting, kWriteEvent, Serves
  <2>2. [t.ch[a] EXCEPT !.out = TRUE] = t.ch[a]
    <3> DEFINE c == t.ch[a]
    <3>1. c \in Channels /\ c.out = TRUE
      BY <1>1, <2>1 DEF Channels
    <3> HIDE DEF c
    <3>2. [c EXCEPT !.out = TRUE] = c
      BY <3>1, Zenon DEF Channels
    <3> QED BY <3>2 DEF c
  <2>3. SameTables(t, t0)
    <3>1. t0.ch = t.ch
      BY <1>1, <1>2, <2>2 DEF Servers
    <3> HIDE DEF t0
    <3> QED BY <1>2, <3>1 DEF SameTables
  <2>4. QueueRest(t, a) = t0
    BY <1>4 DEF QueueRest
  <2> QED BY <2>3, <2>4, SameTablesOK
<1>5. CASE ~IsWriting(t0, a)
  <2>1. t.ch[a].events \union kWriteEvent = {"IN", "OUT"}
    BY <1>1, <1>3 DEF kWriteEvent, Serves
  <2>2. QueueRest(t, a) = UpdateEvent(t0, a, {"IN", "OUT"})
    BY <1>3, <1>5, <2>1, ZenonT(30) DEF QueueRest, EnableWriting
  <2> QED BY <2>2, OutThenWatch, ZenonT(30)
<1> QED BY <1>4, <1>5

LEMMA DoSendOK ==
  ASSUME NEW t, Good(t), NEW a \in Addrs, t.ch[a].live, NEW u \in DoSend(t, a)
  PROVE  Good(u) /\ SameChannels(t, u)
<1>1. CASE t.ch[a].out
  BY <1>1, QueueRestOK DEF DoSend
<1>2. CASE ~t.ch[a].out
  <2> DEFINE Sent(w) == IF w.res \in {"all", "EPIPE"} THEN w.t ELSE QueueRest(w.t, a)
  <2>1. DoSend(t, a) = {Sent(w) : w \in write(t, t.ch[a].fd)}
    BY <1>2 DEF DoSend
  <2>2. PICK w \in write(t, t.ch[a].fd) : u = Sent(w)
    BY <2>1
  <2>3. Good(w.t) /\ SameChannels(t, w.t)
    BY LiveServes, writeOK, SameTablesOK
  <2>4. w.t.ch[a].live
    BY <2>3 DEF SameChannels
  <2>5. Good(QueueRest(w.t, a)) /\ SameChannels(w.t, QueueRest(w.t, a))
    BY <2>3, <2>4, QueueRestOK
  <2> HIDE DEF Sent
  <2>6. u = w.t \/ u = QueueRest(w.t, a)
    BY <2>2 DEF Sent
  <2> QED BY <2>3, <2>5, <2>6 DEF SameChannels
<1> QED BY <1>1, <1>2

LEMMA DoContineSendOK ==
  ASSUME NEW t, Good(t), NEW a \in Addrs, t.ch[a].live, NEW u \in DoContineSend(t, a)
  PROVE  Good(u) /\ SameChannels(t, u)
<1>1. CASE ~IsWriting(t, a)
  BY <1>1 DEF DoContineSend, SameChannels
<1>2. CASE IsWriting(t, a)
  <2> DEFINE Done(w) == DisableWriting([w.t EXCEPT !.ch[a].out = FALSE], a)
             Sent(w) == IF w.res = "part" THEN w.t ELSE Done(w)
  <2>1. DoContineSend(t, a) = {Sent(w) : w \in write(t, t.ch[a].fd)}
    BY <1>2 DEF DoContineSend
  <2>2. PICK w \in write(t, t.ch[a].fd) : u = Sent(w)
    BY <2>1, ZenonT(30)
  <2> DEFINE v == w.t
             v0 == [v EXCEPT !.ch[a].out = FALSE]
  <2>3. Good(v) /\ SameChannels(t, v)
    BY LiveServes, writeOK, SameTablesOK
  <2> HIDE DEF v
  <2>4. v.ch[a].live
    BY <2>3 DEF SameChannels
  <2>5. v \in Servers /\ v.ch[a] \in Channels /\ Serves(v, a, v.ch[a].fd)
    BY <2>3, <2>4, LiveServes DEF Good, Servers
  <2>6. v0.ch[a].events = v.ch[a].events
    <3>1. v0.ch = [v.ch EXCEPT ![a] = [v.ch[a] EXCEPT !.out = FALSE]]
      BY <2>5, SetOut, ZenonT(30)
    <3> QED BY <2>5, <3>1 DEF Servers, Channels
  <2>7. v.ch[a].events \ kWriteEvent = {"IN"}
    BY <2>5 DEF kWriteEvent, Serves
  <2>8. Done(w) = UpdateEvent(v0, a, {"IN"})
    BY <2>6, <2>7 DEF DisableWriting, v
  <2>9. Good(Done(w)) /\ SameChannels(v, Done(w))
    BY <2>3, <2>4, <2>8, OutThenWatch, ZenonT(30)
  <2> HIDE DEF Done
  <2>10. u = v \/ u = Done(w)
    BY <2>2 DEF v
  <2> QED BY <2>3, <2>9, <2>10 DEF SameChannels
<1> QED BY <1>1, <1>2

-----------------------------------------------------------------------------
(* Closing *)

\* u is t without the channel at address a and its descriptor f.
Closed(t, u, a, f) ==
  /\ u \in Servers
  /\ u.ch = [t.ch EXCEPT ![a] = NoChannel] /\ u.map = [t.map EXCEPT ![f] = None]
  /\ u.open = [t.open EXCEPT ![f] = "free"] /\ u.ep = [t.ep EXCEPT ![f] = NotWatched]
  /\ u.idle = t.idle

LEMMA closeDoes ==
  ASSUME NEW t \in Servers, NEW f \in FDs
  PROVE  LET u == close(t, f)
         IN  /\ u \in Servers
             /\ u.open = [t.open EXCEPT ![f] = "free"] /\ u.ep = [t.ep EXCEPT ![f] = NotWatched]
             /\ u.ch = t.ch /\ u.map = t.map /\ u.idle = t.idle
<1> DEFINE u == close(t, f)
<1>1. NotWatched \in Watches /\ "none" \in Conns
  BY DEF NotWatched, Watches, Conns
<1>2. u = [t EXCEPT !.open[f] = "free", !.conn[f] = "none", !.inbox[f] = FALSE,
                    !.full[f] = FALSE, !.ep[f] = NotWatched]
  BY Zenon DEF close
<1> HIDE DEF u
<1>3. /\ u.open = [t.open EXCEPT ![f] = "free"] /\ u.ep = [t.ep EXCEPT ![f] = NotWatched]
      /\ u.ch = t.ch /\ u.map = t.map /\ u.idle = t.idle
  BY <1>2 DEF Servers
<1>4. u \in Servers
  BY <1>1, <1>2, Zenon DEF Servers
<1> QED BY <1>3, <1>4 DEF u

LEMMA HandleCloseDoes ==
  ASSUME NEW t, Good(t), NEW a \in Addrs, t.ch[a].live
  PROVE  Closed(t, HandleClose(t, a), a, t.ch[a].fd)
<1> DEFINE f == t.ch[a].fd
           c0 == t.ch[a]
           c1 == [c0 EXCEPT !.events = {}, !.isPooling = FALSE]
           t1 == DisableAll(t, a)
           t2 == DisableAll(t1, a)
           t3 == close(t2, f)
           t4 == OnCloseChannel(t3, a)
<1>1. t \in Servers /\ c0 \in Channels /\ f \in FDs /\ Serves(t, a, f)
  BY LiveServes DEF Good, Servers
<1>2. {} \in SUBSET Events /\ ({} # {}) = FALSE
  OBVIOUS
<1>3. Rewatched(t, t1, a, c1, f, NotWatched)
  <2>1. t.ep[f] # NotWatched /\ t.ep[f].ptr # None /\ t.ch[a].isPooling
    BY <1>1, SizesAssumption DEF Serves, NotWatched
  <2>2. Rewatched(t, UpdateEvent(t, a, {}), a,
                  [t.ch[a] EXCEPT !.events = {}, !.isPooling = ({} # {})], f, NotWatched)
    BY <1>1, <1>2, <2>1, UpdateEventDoes, ZenonT(30)
  <2> QED BY <1>2, <2>2, ZenonT(30) DEF DisableAll
<1> HIDE DEF t1
<1>4. t1.ch[a] = c1 /\ t1.ep[f] = NotWatched /\ t1 \in Servers
  <2> HIDE DEF c1
  <2> QED BY <1>1, <1>3 DEF Rewatched, Servers
<1>5. c1 \in Channels /\ c1.fd = f /\ c1.isPooling = FALSE /\ c1.events = {}
  <2> HIDE DEF c0
  <2>1. c1 \in Channels
    BY <1>1, Zenon DEF Channels
  <2> QED BY <1>1, <2>1 DEF Channels, c0
<1>6. Rewatched(t1, t2, a, [c1 EXCEPT !.events = {}, !.isPooling = FALSE], f, NotWatched)
  <2> HIDE DEF c1
  <2>1. /\ t1.ch[a].fd = f /\ ~t1.ch[a].isPooling
        /\ t1.ep[f] = NotWatched /\ t1.ep[f].ptr = None
    BY <1>4, <1>5 DEF NotWatched
  <2>2. Rewatched(t1, UpdateEvent(t1, a, {}), a,
                  [t1.ch[a] EXCEPT !.events = {}, !.isPooling = ({} # {})], f, NotWatched)
    BY <1>1, <1>2, <1>4, <2>1, UpdateEventDoes, ZenonT(30)
  <2> QED BY <1>2, <1>4, <2>2, ZenonT(30) DEF DisableAll
<1> HIDE DEF t2, c1
<1>7. t2 \in Servers /\ t2.ch[a].fd = f
  BY <1>1, <1>4, <1>5, <1>6 DEF Rewatched, Servers, Channels
<1>8. /\ t3 \in Servers /\ t3.ch = t2.ch /\ t3.map = t2.map /\ t3.idle = t2.idle
      /\ t3.open = [t2.open EXCEPT ![f] = "free"] /\ t3.ep = [t2.ep EXCEPT ![f] = NotWatched]
  BY <1>1, <1>7, closeDoes, ZenonT(30)
<1> HIDE DEF t3
<1>9. /\ t4.ch = [t3.ch EXCEPT ![a] = NoChannel] /\ t4.map = [t3.map EXCEPT ![f] = None]
      /\ t4.open = t3.open /\ t4.ep = t3.ep /\ t4.idle = t3.idle /\ t4 \in Servers
  <2>1. t4 = [t3 EXCEPT !.ch[a] = NoChannel, !.map[f] = None]
    BY <1>7, <1>8, ZenonT(30) DEF OnCloseChannel
  <2>2. NoChannel \in Channels
    BY SizesAssumption DEF NoChannel, Channels
  <2> HIDE DEF t4
  <2>3. t4 \in Servers
    BY <1>1, <1>8, <2>1, <2>2, Zenon DEF Servers
  <2> QED BY <1>1, <1>8, <2>1, <2>3 DEF Servers
<1>10. HandleClose(t, a) = t4
  BY <1>4, <1>5 DEF HandleClose, Close, t1, t2, t3
<1> HIDE DEF t4
<1>11. /\ t4.ch = [t.ch EXCEPT ![a] = NoChannel] /\ t4.map = [t.map EXCEPT ![f] = None]
       /\ t4.open = [t.open EXCEPT ![f] = "free"] /\ t4.ep = [t.ep EXCEPT ![f] = NotWatched]
       /\ t4.idle = t.idle
  BY <1>1, <1>3, <1>6, <1>8, <1>9, SMTT(30) DEF Rewatched, Servers
<1> QED BY <1>9, <1>10, <1>11, ZenonT(30) DEF Closed

LEMMA HandleCloseOK ==
  ASSUME NEW t, Good(t), NEW a \in Addrs, t.ch[a].live
  PROVE  LET u == HandleClose(t, a)
         IN  Good(u) /\ ~u.ch[a].live /\ \A x \in Addrs \ {a} : u.ch[x] = t.ch[x]
<1> DEFINE u == HandleClose(t, a)
           f == t.ch[a].fd
<1>1. t \in Servers /\ Tables(t) /\ f \in FDs /\ f # ListenFD /\ f # t.idle /\ t.map[f] = a
  BY LiveServes DEF Good
<1>2. Closed(t, u, a, f)
  BY HandleCloseDoes
<1> HIDE DEF u
<1>3. /\ u \in Servers /\ u.idle = t.idle
      /\ ~u.ch[a].live /\ \A x \in Addrs \ {a} : u.ch[x] = t.ch[x]
      /\ u.map[f] = None /\ u.open[f] = "free" /\ u.ep[f] = NotWatched
      /\ \A g \in FDs \ {f} : u.map[g] = t.map[g] /\ u.open[g] = t.open[g] /\ u.ep[g] = t.ep[g]
  BY <1>1, <1>2, SMTT(30) DEF Closed, Servers, NoChannel
<1>4. ASSUME NEW g \in FDs, u.open[g] = "conn"
      PROVE  Serves(u, u.map[g], g)
  <2>1. g # f /\ Serves(t, t.map[g], g)
    BY <1>1, <1>3, <1>4, ZenonT(30) DEF Tables
  <2>2. t.map[g] # a /\ t.map[g] \in Addrs
    BY <2>1 DEF Serves
  <2>3. u.map[g] = t.map[g] /\ u.ep[g] = t.ep[g] /\ u.ch[t.map[g]] = t.ch[t.map[g]]
    BY <1>3, <2>1, <2>2, ZenonT(30)
  <2> QED BY <2>1, <2>3 DEF Serves
<1>5. \A g \in FDs : u.open[g] # "conn" =>
        u.map[g] = None /\ (g # ListenFD => u.ep[g] = NotWatched)
  BY <1>1, <1>3 DEF Tables
<1>6. ASSUME NEW x \in Addrs, u.ch[x].live
      PROVE  u.ch[x].fd \in FDs /\ u.map[u.ch[x].fd] = x
  <2>1. x # a /\ u.ch[x] = t.ch[x]
    BY <1>3, <1>6
  <2>2. t.ch[x].fd \in FDs /\ t.map[t.ch[x].fd] = x
    BY <1>1, <1>6, <2>1 DEF Tables
  <2> QED BY <1>1, <1>3, <2>1, <2>2
<1>7. u.open[ListenFD] = "listen" /\ u.ep[ListenFD].ptr = Acceptor /\ u.open[u.idle] = "idle"
  <2>1. t.idle \in FDs
    BY <1>1 DEF Servers
  <2> QED BY FDsOK, <1>1, <1>3, <2>1, ZenonT(30) DEF Tables
<1>8. Good(u)
  BY <1>3, <1>4, <1>5, <1>6, <1>7 DEF Good, Tables
<1> QED BY <1>3, <1>8 DEF u

-----------------------------------------------------------------------------
(* Handlers of a channel *)

\* The server t may become u: a channel that lives on keeps its descriptor, and
\* only ended connections are closed.
Handled(t, u) ==
  /\ Good(u)
  /\ Keeps(t, u)
  /\ \A x \in Addrs : t.ch[x].live /\ ~u.ch[x].live =>
       t.conn[t.ch[x].fd] \in {"eof", "reset", "dead"}

LEMMA SameChannelsHandled ==
  ASSUME NEW t, NEW u, Good(u), SameChannels(t, u)
  PROVE  Handled(t, u)
  BY DEF Handled, SameChannels, Keeps

LEMMA HandleErrorOK ==
  ASSUME NEW t, Good(t), NEW a \in Addrs, t.ch[a].live
  PROVE  LET u == HandleError(t, a)
         IN  /\ Good(u) /\ SameChannels(t, u)
             /\ u.conn[t.ch[a].fd] \in {"eof", "dead"} =>
                  t.conn[t.ch[a].fd] \in {"eof", "reset", "dead"}
<1> DEFINE u == HandleError(t, a)
           f == t.ch[a].fd
           k == IF t.conn[f] = "reset" THEN "dead" ELSE t.conn[f]
<1>1. t \in Servers /\ f \in FDs
  BY LiveServes DEF Good
<1>2. u = [t EXCEPT !.conn[f] = k]
  BY <1>1 DEF HandleError, Servers
<1>3. k \in Conns /\ (k \in {"eof", "dead"} => t.conn[f] \in {"eof", "reset", "dead"})
  BY <1>1 DEF Servers, Conns
<1> HIDE DEF u, k
<1>4. u \in Servers
  BY <1>1, <1>2, <1>3, Zenon DEF Servers
<1>5. SameTables(t, u) /\ u.conn[f] = k
  BY <1>1, <1>2, <1>4, ZenonT(30) DEF SameTables, Servers
<1>6. Good(u) /\ SameChannels(t, u)
  BY <1>5, SameTablesOK, ZenonT(30)
<1> QED BY <1>3, <1>5, <1>6 DEF u

LEMMA DoRecvOK ==
  ASSUME NEW t, Good(t), NEW a \in Addrs, t.ch[a].live, NEW v \in DoRecv(t, a)
  PROVE  /\ Good(v) /\ Keeps(t, v)
         /\ \A x \in Addrs : t.ch[x].live /\ ~v.ch[x].live =>
              x = a /\ t.conn[t.ch[a].fd] \in {"eof", "dead"}
<1> DEFINE f == t.ch[a].fd
           u == [t EXCEPT !.inbox[f] = FALSE]
<1>1. t \in Servers /\ f \in FDs
  BY LiveServes DEF Good
<1>2. Good(u) /\ SameChannels(t, u)
  <2>1. u \in Servers
    BY <1>1, ZenonT(30) DEF Servers
  <2>2. SameTables(t, u)
    BY <1>1, <2>1, ZenonT(30) DEF SameTables, Servers
  <2> QED BY <2>2, SameTablesOK
<1> HIDE DEF u
<1>3. v \in {u} \union DoSend(u, a) \/ (v = HandleClose(t, a) /\ t.conn[f] \in {"eof", "dead"})
        \/ v = HandleError(t, a)
  BY DEF DoRecv, u
<1>4. CASE v \in {u} \union DoSend(u, a)
  <2>1. u.ch[a].live
    BY <1>2 DEF SameChannels
  <2>2. Good(v) /\ SameChannels(u, v)
    BY <1>2, <1>4, <2>1, DoSendOK DEF SameChannels
  <2> QED BY <1>2, <2>2 DEF SameChannels, Keeps
<1>5. CASE v = HandleClose(t, a) /\ t.conn[f] \in {"eof", "dead"}
  <2>1. Good(v) /\ \A x \in Addrs \ {a} : v.ch[x] = t.ch[x]
    BY <1>5, HandleCloseOK
  <2>2. ~v.ch[a].live
    BY <1>5, HandleCloseOK
  <2> QED BY <1>5, <2>1, <2>2 DEF Keeps
<1>6. CASE v = HandleError(t, a)
  <2>1. Good(v) /\ SameChannels(t, v)
    BY <1>6, HandleErrorOK
  <2> QED BY <2>1 DEF SameChannels, Keeps
<1> QED BY <1>3, <1>4, <1>5, <1>6, ZenonT(30)

LEMMA ReceivedOK ==
  ASSUME NEW t, Good(t), NEW a \in Addrs, t.ch[a].live, NEW ev,
         "HUP" \in ev => "IN" \in ev, NEW v \in Received(t, a, ev)
  PROVE  Handled(t, v)
<1> DEFINE t1 == IF "ERR" \in ev THEN HandleError(t, a) ELSE t
<1>1. v \in IF "IN" \in ev THEN DoRecv(t1, a) ELSE {t1}
  BY ZenonT(30) DEF Received
<1>2. /\ Good(t1) /\ SameChannels(t, t1)
      /\ t1.conn[t.ch[a].fd] \in {"eof", "dead"} =>
           t.conn[t.ch[a].fd] \in {"eof", "reset", "dead"}
  <2>1. CASE "ERR" \in ev
    BY <2>1, HandleErrorOK
  <2>2. CASE "ERR" \notin ev
    BY <2>2 DEF SameChannels
  <2> QED BY <2>1, <2>2
<1> HIDE DEF t1
<1>3. CASE v = t1
  BY <1>2, <1>3, SameChannelsHandled, ZenonT(30)
<1>4. CASE v \in DoRecv(t1, a)
  <2>1. t1.ch[a].live /\ t1.ch[a].fd = t.ch[a].fd
    BY <1>2, ZenonT(30) DEF SameChannels
  <2>2. /\ Good(v) /\ Keeps(t1, v)
        /\ \A x \in Addrs : t1.ch[x].live /\ ~v.ch[x].live =>
             x = a /\ t1.conn[t1.ch[a].fd] \in {"eof", "dead"}
    BY <1>2, <1>4, <2>1, DoRecvOK
  <2> QED BY <1>2, <2>1, <2>2, ZenonT(30) DEF Handled, Keeps, SameChannels
<1> QED BY <1>1, <1>3, <1>4

-----------------------------------------------------------------------------
(* The acceptor *)

\* A nonempty set of naturals has a least member.
LEMMA LeastNatural ==
  ASSUME NEW S \in SUBSET Nat, S # {}
  PROVE  \E x \in S : \A y \in S : x <= y
<1>1. \E x \in S : \A y \in S : ~(<<y, x>> \in OpToRel(<, Nat))
  BY NatLessThanWellFounded, WFMin, Zenon
<1>2. \A x \in S, y \in S : ~(<<y, x>> \in OpToRel(<, Nat)) => x <= y
  BY SMT DEF OpToRel
<1> QED BY <1>1, <1>2, Zenon

LEMMA LowestFreeOK ==
  ASSUME NEW t, FreeFDs(t) # {}
  PROVE  LowestFree(t) \in FDs /\ t.open[LowestFree(t)] = "free"
<1>1. FreeFDs(t) \in SUBSET Nat
  BY FDsOK DEF FreeFDs
<1>2. \E x \in FreeFDs(t) : \A y \in FreeFDs(t) : x <= y
  BY <1>1, LeastNatural
<1>3. LowestFree(t) \in FreeFDs(t)
  BY <1>2 DEF LowestFree
<1> QED BY <1>3 DEF FreeFDs

\* Another descriptor is kept in reserve.
LEMMA TurnAwayOK ==
  ASSUME NEW t, Good(t), t.backlog > 0
  PROVE  LET u == close(t, t.idle)
             g == LowestFree(u)
             v == [u EXCEPT !.backlog = @ - 1, !.idle = g, !.open[g] = "idle"]
         IN  Good(v) /\ SameChannels(t, v)
<1> DEFINE u == close(t, t.idle)
           g == LowestFree(u)
           v == [u EXCEPT !.backlog = @ - 1, !.idle = g, !.open[g] = "idle"]
<1>1. t \in Servers /\ Tables(t) /\ t.idle \in FDs /\ t.backlog \in Nat
  BY DEF Good, Servers
<1>2. /\ u \in Servers /\ u.ch = t.ch /\ u.map = t.map
      /\ u.open = [t.open EXCEPT ![t.idle] = "free"]
      /\ u.ep = [t.ep EXCEPT ![t.idle] = NotWatched]
  BY <1>1, closeDoes
<1>a. u.backlog = t.backlog
  BY <1>1 DEF close, Servers
<1> HIDE DEF u
<1>3. g \in FDs /\ u.open[g] = "free"
  <2>1. t.idle \in FreeFDs(u)
    BY <1>1, <1>2 DEF FreeFDs, Servers
  <2> QED BY <2>1, LowestFreeOK
<1> HIDE DEF g
<1>4. /\ v.ch = u.ch /\ v.map = u.map /\ v.ep = u.ep /\ v.idle = g
      /\ v.open = [u.open EXCEPT ![g] = "idle"]
  BY <1>2, <1>3 DEF Servers
<1>5. v \in Servers
  <2>1. u.backlog - 1 \in Nat
    BY <1>1, <1>a
  <2> QED BY <1>2, <1>3, <2>1, Zenon DEF Servers
<1> HIDE DEF v
<1>6. /\ v.ch = t.ch /\ v.map = t.map /\ v.idle = g /\ v.open[g] = "idle"
      /\ \A f \in FDs : v.open[f] \in {"free", "idle"} \/ v.open[f] = t.open[f]
      /\ \A f \in FDs : t.open[f] # "idle" /\ t.open[f] # "free" => v.open[f] = t.open[f]
      /\ \A f \in FDs : v.ep[f] = IF f = t.idle THEN NotWatched ELSE t.ep[f]
  <2>1. t.open[t.idle] = "idle"
    BY <1>1 DEF Tables
  <2> QED BY <1>1, <1>2, <1>3, <1>4, <2>1 DEF Servers
<1>7. /\ t.open[t.idle] = "idle" /\ t.open[ListenFD] = "listen" /\ t.ep[ListenFD].ptr = Acceptor
      /\ ListenFD \in FDs
  BY <1>1, FDsOK, ZenonT(30) DEF Tables
<1>8. ASSUME NEW f \in FDs, v.open[f] = "conn"
      PROVE  Serves(v, v.map[f], f)
  <2>1. t.open[f] = "conn" /\ f # t.idle
    BY <1>6, <1>7, <1>8, ZenonT(30)
  <2>2. Serves(t, t.map[f], f)
    BY <1>1, <2>1, ZenonT(30) DEF Tables
  <2> QED BY <1>6, <2>1, <2>2, ZenonT(30) DEF Serves
<1>9. ASSUME NEW f \in FDs, v.open[f] # "conn"
      PROVE  v.map[f] = None /\ (f # ListenFD => v.ep[f] = NotWatched)
  <2>1. t.open[f] # "conn"
    BY <1>6, <1>9, ZenonT(30)
  <2> QED BY <1>1, <1>6, <2>1, ZenonT(30) DEF Tables
<1>10. \A a \in Addrs : v.ch[a].live => v.ch[a].fd \in FDs /\ v.map[v.ch[a].fd] = a
  BY <1>1, <1>6 DEF Tables
<1>11. v.open[ListenFD] = "listen" /\ v.ep[ListenFD].ptr = Acceptor /\ v.open[v.idle] = "idle"
  BY <1>6, <1>7, ZenonT(30)
<1>12. Good(v)
  BY <1>5, <1>8, <1>9, <1>10, <1>11, ZenonT(30) DEF Good, Tables
<1>13. SameChannels(t, v)
  BY <1>6 DEF SameChannels
<1> QED BY <1>12, <1>13 DEF u, g, v

\* A new connection gets descriptor f, which was free, and the map has none for it.
LEMMA NewChannelOK ==
  ASSUME NEW t, Good(t), t.backlog > 0, NEW f \in FDs, t.open[f] = "free",
         NEW v \in OnNewChannel([t EXCEPT !.backlog = @ - 1, !.open[f] = "conn", !.conn[f] = "up"], f)
  PROVE  Handled(t, v)
<1> DEFINE t1 == [t EXCEPT !.backlog = @ - 1, !.open[f] = "conn", !.conn[f] = "up"]
           c0 == [NoChannel EXCEPT !.live = TRUE, !.fd = f]
           Opened(a) == [t1 EXCEPT !.ch[a] = c0, !.map[f] = a]
<1>1. t \in Servers /\ Tables(t) /\ t.backlog \in Nat
  BY DEF Good, Servers
<1>2. f # ListenFD /\ f # t.idle /\ t.map[f] = None /\ t.ep[f] = NotWatched
  BY <1>1 DEF Tables
<1>3. /\ t1.ch = t.ch /\ t1.map = t.map /\ t1.ep = t.ep /\ t1.idle = t.idle
      /\ t1.open = [t.open EXCEPT ![f] = "conn"]
  BY <1>1 DEF Servers
<1>4. t1 \in Servers
  <2>1. t.backlog - 1 \in Nat /\ "up" \in Conns
    BY <1>1, SMTT(30) DEF Conns
  <2> QED BY <1>1, <2>1, Zenon DEF Servers
<1> HIDE DEF t1
<1>5. OnNewChannel(t1, f) = {EnableReading(Opened(a), a) : a \in {x \in Addrs : ~t1.ch[x].live}}
  BY <1>2, <1>3, ZenonT(30) DEF OnNewChannel
<1>6. PICK a \in Addrs : ~t.ch[a].live /\ v = EnableReading(Opened(a), a)
  BY <1>3, <1>5, ZenonT(30) DEF t1
<1> DEFINE w == Opened(a)
<1>7. /\ c0 \in Channels /\ c0.live /\ c0.fd = f /\ ~c0.isPooling /\ c0.events = {} /\ ~c0.out
      /\ c0.isPooling = FALSE /\ c0.out = FALSE
  <2>1. /\ NoChannel \in Channels /\ NoChannel.events = {}
        /\ NoChannel.isPooling = FALSE /\ NoChannel.out = FALSE
    BY SizesAssumption DEF NoChannel, Channels
  <2>2. f \in 0 .. NFDs
    BY SizesAssumption DEF FDs
  <2>3. c0 \in Channels
    BY <2>1, <2>2, Zenon DEF Channels
  <2> QED BY <2>1, <2>3 DEF Channels
<1> HIDE DEF c0
<1>8. /\ w.ch = [t.ch EXCEPT ![a] = c0] /\ w.map = [t.map EXCEPT ![f] = a]
      /\ w.ep = t.ep /\ w.idle = t.idle /\ w.open = [t.open EXCEPT ![f] = "conn"]
  BY <1>3, <1>4, <1>6 DEF Servers
<1>9. w \in Servers
  BY <1>4, <1>6, <1>7, Zenon DEF Servers
<1> HIDE DEF w
<1>10. w.ch[a] = c0 /\ w.ep[f] = NotWatched /\ w.ep[f].ptr = None
  BY <1>1, <1>2, <1>8 DEF Servers, NotWatched
<1> DEFINE c == [c0 EXCEPT !.events = {"IN"}, !.isPooling = TRUE]
<1>11. Rewatched(w, v, a, c, f, [ptr |-> a, events |-> {"IN"}])
  <2>1. w.ch[a].fd = f /\ ~w.ch[a].isPooling /\ w.ch[a].events = {}
    BY <1>7, <1>10
  <2>2. v = UpdateEvent(w, a, {"IN"})
    BY <1>6, <2>1, ZenonT(30) DEF EnableReading, kReadEvent, w
  <2>3. {"IN"} \in SUBSET Events /\ {"IN"} # {} /\ ({"IN"} # {}) = TRUE
    BY DEF Events
  <2>4. Rewatched(w, v, a, [w.ch[a] EXCEPT !.events = {"IN"}, !.isPooling = ({"IN"} # {})], f,
                  IF {"IN"} = {} THEN NotWatched ELSE [ptr |-> a, events |-> {"IN"}])
    BY <1>9, <1>10, <2>1, <2>2, <2>3, UpdateEventDoes, ZenonT(30)
  <2>5. (IF {"IN"} = {} THEN NotWatched ELSE [ptr |-> a, events |-> {"IN"}])
          = [ptr |-> a, events |-> {"IN"}]
    BY <2>3
  <2> QED BY <1>10, <2>3, <2>4, <2>5, ZenonT(30)
<1>12. c.live /\ c.fd = f /\ c.isPooling /\ c.events = {"IN"} /\ c.out = FALSE
  BY <1>7 DEF Channels
<1> HIDE DEF c
<1>13. /\ v \in Servers /\ v.idle = t.idle
       /\ v.ch[a] = c /\ \A x \in Addrs \ {a} : v.ch[x] = t.ch[x]
       /\ v.map[f] = a /\ v.open[f] = "conn" /\ v.ep[f] = [ptr |-> a, events |-> {"IN"}]
       /\ \A g \in FDs \ {f} : v.map[g] = t.map[g] /\ v.open[g] = t.open[g] /\ v.ep[g] = t.ep[g]
  BY <1>1, <1>8, <1>11 DEF Rewatched, Servers
<1>14. ASSUME NEW g \in FDs, v.open[g] = "conn"
       PROVE  Serves(v, v.map[g], g)
  <2>1. CASE g = f
    BY <1>12, <1>13, <2>1, ZenonT(30) DEF Serves
  <2>2. CASE g # f
    <3>1. Serves(t, t.map[g], g)
      BY <1>1, <1>13, <1>14, <2>2 DEF Tables
    <3>2. t.map[g] # a /\ t.map[g] \in Addrs
      BY <1>6, <3>1 DEF Serves
    <3>3. v.map[g] = t.map[g] /\ v.ep[g] = t.ep[g] /\ v.ch[t.map[g]] = t.ch[t.map[g]]
      BY <1>13, <2>2, <3>2
    <3> QED BY <3>1, <3>3 DEF Serves
  <2> QED BY <2>1, <2>2
<1>15. \A g \in FDs : v.open[g] # "conn" =>
         v.map[g] = None /\ (g # ListenFD => v.ep[g] = NotWatched)
  BY <1>1, <1>13 DEF Tables
<1>16. ASSUME NEW x \in Addrs, v.ch[x].live
       PROVE  v.ch[x].fd \in FDs /\ v.map[v.ch[x].fd] = x
  <2>1. CASE x = a
    BY <1>12, <1>13, <2>1, ZenonT(30)
  <2>2. CASE x # a
    <3>1. v.ch[x] = t.ch[x] /\ t.ch[x].fd \in FDs /\ t.map[t.ch[x].fd] = x
      BY <1>1, <1>13, <1>16, <2>2 DEF Tables
    <3>2. t.ch[x].fd # f
      BY <1>2, <3>1, SizesAssumption
    <3> QED BY <1>13, <3>1, <3>2
  <2> QED BY <2>1, <2>2
<1>17. v.open[ListenFD] = "listen" /\ v.ep[ListenFD].ptr = Acceptor /\ v.open[v.idle] = "idle"
  <2>1. t.idle \in FDs
    BY <1>1 DEF Servers
  <2> QED BY FDsOK, <1>1, <1>2, <1>13, <2>1 DEF Tables
<1>18. Good(v)
  BY <1>13, <1>14, <1>15, <1>16, <1>17, ZenonT(30) DEF Good, Tables
<1>19. \A x \in Addrs : t.ch[x].live => v.ch[x] = t.ch[x]
  BY <1>6, <1>13
<1> QED BY <1>18, <1>19 DEF Handled, Keeps

LEMMA AcceptorOK ==
  ASSUME NEW t, Good(t), NEW v \in AcceptorHandleCanRecv(t)
  PROVE  Handled(t, v)
<1>1. t.backlog \in Nat
  BY DEF Good, Servers
<1>2. CASE t.backlog = 0
  <2>1. v = t
    BY <1>2 DEF AcceptorHandleCanRecv
  <2> QED BY <2>1 DEF Handled, Keeps
<1>3. CASE t.backlog # 0 /\ FreeFDs(t) = {}
  <2> DEFINE u == close(t, t.idle)
             g == LowestFree(u)
  <2>1. v = [u EXCEPT !.backlog = @ - 1, !.idle = g, !.open[g] = "idle"]
    BY <1>3 DEF AcceptorHandleCanRecv
  <2>2. t.backlog > 0
    BY <1>1, <1>3, SMTT(30)
  <2>3. Good(v) /\ SameChannels(t, v)
    BY <2>1, <2>2, TurnAwayOK, ZenonT(30)
  <2> QED BY <2>3, SameChannelsHandled
<1>4. CASE t.backlog # 0 /\ FreeFDs(t) # {}
  <2> DEFINE f == LowestFree(t)
  <2>1. v \in OnNewChannel([t EXCEPT !.backlog = @ - 1, !.open[f] = "conn", !.conn[f] = "up"], f)
    BY <1>4 DEF AcceptorHandleCanRecv
  <2>2. f \in FDs /\ t.open[f] = "free" /\ t.backlog > 0
    BY <1>1, <1>4, LowestFreeOK
  <2> HIDE DEF f
  <2> QED BY <2>1, <2>2, NewChannelOK, ZenonT(30)
<1> QED BY <1>2, <1>3, <1>4

-----------------------------------------------------------------------------
(* The steps of the program *)

\* The events left after a step from t to u, with the addresses deleted in it.
LEMMA BatchKept ==
  ASSUME NEW t, NEW u, NEW b, NEW del, NEW del2, Batch(t, b, del), Keeps(t, u),
         del \cup (Live(t) \ Live(u)) \subseteq del2
  PROVE  Batch(u, b, del2)
<1>1. ASSUME NEW e, EventOK(t, e, del)
      PROVE  EventOK(u, e, del2)
  BY <1>1 DEF EventOK, Live, Keeps
<1> QED BY <1>1 DEF Batch

LEMMA BatchTail ==
  ASSUME NEW t, NEW b, NEW del, Batch(t, b, del), b # <<>>
  PROVE  Batch(t, Tail(b), del) /\ Head(b) \in Reported /\ EventOK(t, Head(b), del)
<1> DEFINE r == Tail(b)
<1>1. b \in Seq(Reported)
  BY DEF Batch
<1>2. /\ r \in Seq(Reported) /\ Len(r) = Len(b) - 1 /\ Len(b) \in Nat
      /\ Head(b) \in Reported /\ Head(b) = b[1] /\ 1 \in 1 .. Len(b)
  BY <1>1, HeadTailProperties
<1>3. \A i \in 1 .. Len(r) : r[i] = b[i + 1] /\ i + 1 \in 1 .. Len(b)
  BY <1>1, <1>2
<1> HIDE DEF r
<1>4. \A i \in 1 .. Len(r) : EventOK(t, r[i], del)
  BY <1>3 DEF Batch
<1>5. EventOK(t, Head(b), del)
  BY <1>2 DEF Batch
<1> QED BY <1>2, <1>4, <1>5 DEF Batch, r

\* A handler that turns s into a server u, while batch' is what is left.
LEMMA BecomesOK ==
  ASSUME NEW S, Becomes(S), \A u \in S : Good(u) /\ Keeps(s, u),
         Batch(s, batch', deleted)
  PROVE  Good(s') /\ Batch(s', batch', deleted')
<1>1. Good(s') /\ Keeps(s, s')
  BY DEF Becomes
<1>2. CASE batch' = <<>>
  BY <1>1, <1>2 DEF Batch
<1>3. CASE batch' # <<>>
  <2>1. deleted' = deleted \union (Live(s) \ Live(s'))
    BY <1>3 DEF Becomes
  <2> QED BY <1>1, <2>1, BatchKept
<1> QED BY <1>2, <1>3

LEMMA InitOK == Init => IInv
<1> SUFFICES ASSUME Init PROVE IInv
  OBVIOUS
<1>1. s = Started /\ batch = <<>> /\ size \in Nat \ {0}
  BY SizesAssumption DEF Init
<1>2. NoChannel \in Channels /\ NotWatched \in Watches
  BY SizesAssumption DEF NoChannel, Channels, NotWatched, Watches
<1>3. 2 \in FDs /\ 1 \in FDs
  BY SizesAssumption DEF FDs
<1>4. [ptr |-> Acceptor, events |-> kReadEvent] \in Watches
  BY DEF Watches, Events, kReadEvent
<1>5. /\ Started.ch = [a \in Addrs |-> NoChannel] /\ Started.map = [f \in FDs |-> None]
      /\ Started.idle = 2 /\ Started.conn = [f \in FDs |-> "none"] /\ Started.backlog = 0
      /\ Started.inbox = [f \in FDs |-> FALSE] /\ Started.full = [f \in FDs |-> FALSE]
      /\ Started.open = [f \in FDs |-> IF f = ListenFD THEN "listen" ELSE IF f = 2 THEN "idle" ELSE "free"]
      /\ Started.ep = [f \in FDs |-> IF f = ListenFD THEN [ptr |-> Acceptor, events |-> kReadEvent]
                                     ELSE NotWatched]
  BY ZenonT(30) DEF Started
<1>6. Started \in Servers
  <2>1. "none" \in Conns
    BY ZenonT(30) DEF Conns
  <2>2. Started.ch \in [Addrs -> Channels] /\ Started.map \in [FDs -> Addrs \cup {None}]
        /\ Started.idle \in FDs /\ Started.conn \in [FDs -> Conns] /\ Started.backlog \in Nat
        /\ Started.inbox \in [FDs -> BOOLEAN] /\ Started.full \in [FDs -> BOOLEAN]
        /\ Started.open \in [FDs -> {"listen", "idle", "free", "conn", "other"}]
        /\ Started.ep \in [FDs -> Watches]
    BY <1>2, <1>3, <1>4, <1>5, <2>1, SMTT(30)
  <2> QED BY <2>2 DEF Started, Servers
<1>7. Tables(Started)
  BY <1>3, <1>5 DEF Tables, ListenFD, NoChannel
<1>8. Batch(s, batch, deleted)
  BY <1>1 DEF Batch
<1> QED BY <1>1, <1>6, <1>7, <1>8 DEF IInv, Good

LEMMA ReadyOK ==
  ASSUME NEW t, Good(t), NEW f \in FDs, Ready(t, f) # {}
  PROVE  LET e == [ptr |-> t.ep[f].ptr, ev |-> Ready(t, f), fd |-> f]
         IN  e \in Reported /\ \A del : EventOK(t, e, del)
<1> DEFINE w == t.ep[f]
           e == [ptr |-> w.ptr, ev |-> Ready(t, f), fd |-> f]
<1>1. t \in Servers /\ Tables(t) /\ w \in Watches
  BY DEF Good, Servers
<1>2. w.ptr # None
  BY DEF Ready
<1>3. w.events \in SUBSET Events
  BY <1>1 DEF Watches
<1>4. Ready(t, f) \subseteq Events \cup {"HUP", "ERR"}
  BY <1>3, ZenonT(30) DEF Ready, Events
<1>5. \/ f = ListenFD /\ w.ptr = Acceptor
      \/ w.ptr \in Addrs /\ t.ch[w.ptr].live /\ t.ch[w.ptr].fd = f /\ "IN" \in w.events
  <2>1. CASE t.open[f] = "conn"
    <3>1. Serves(t, t.map[f], f)
      BY <1>1, <2>1, ZenonT(30) DEF Tables
    <3> QED BY <3>1 DEF Serves
  <2>2. CASE t.open[f] # "conn"
    BY <1>1, <1>2, <2>2 DEF Tables, NotWatched
  <2> QED BY <2>1, <2>2, ZenonT(30)
<1>6. "IN" \in w.events /\ "HUP" \in Ready(t, f) => "IN" \in Ready(t, f)
  BY ZenonT(30) DEF Ready
<1>7. e \in Reported
  BY <1>4, <1>5 DEF Reported
<1>8. e.ptr = w.ptr /\ e.ev = Ready(t, f) /\ e.fd = f
  OBVIOUS
<1> HIDE DEF e, w
<1>9. \A del : EventOK(t, e, del)
  BY <1>5, <1>6, <1>8 DEF EventOK
<1> QED BY <1>7, <1>9 DEF e, w

LEMMA PollOK == IInv /\ Poll => IInv'
<1> SUFFICES ASSUME IInv, Poll PROVE IInv'
  OBVIOUS
<1> DEFINE ready == {f \in FDs : Ready(s, f) # {}}
           n == IF Cardinality(ready) < size THEN Cardinality(ready) ELSE size
           Entry(f) == [ptr |-> s.ep[f].ptr, ev |-> Ready(s, f), fd |-> f]
<1>1. Cardinality(ready) \in Nat
  <2>1. IsFiniteSet(FDs)
    BY SizesAssumption, FS_Interval DEF FDs
  <2>2. IsFiniteSet(ready)
    BY <2>1, FS_Subset
  <2> QED BY <2>2, FS_CardinalityType
<1>2. n \in Nat
  BY <1>1, ZenonT(30) DEF IInv
<1>3. Good(s) /\ size \in Nat \ {0} /\ s' = s /\ deleted' = deleted /\ size' = NewSize(n)
  BY DEF IInv, Poll
<1>4. PICK fs \in [1 .. n -> ready] : batch' = [i \in 1 .. n |-> Entry(fs[i])]
  BY ZenonT(30) DEF Poll
<1>5. \A f \in ready : Entry(f) \in Reported /\ \A del : EventOK(s, Entry(f), del)
  BY <1>3, ReadyOK
<1> HIDE DEF n, ready, Entry
<1>6. \A i \in 1 .. n : fs[i] \in ready
  OBVIOUS
<1>7. batch' \in Seq(Reported) /\ Len(batch') = n
  BY <1>2, <1>4, <1>5, <1>6
<1>8. \A i \in 1 .. Len(batch') : EventOK(s, batch'[i], deleted)
  BY <1>4, <1>5, <1>6, <1>7, ZenonT(30)
<1>9. size' \in Nat \ {0}
  BY <1>2, <1>3 DEF NewSize
<1> QED BY <1>3, <1>7, <1>8, <1>9 DEF IInv, Batch

\* What HandleEvent makes of the server.
LEMMA HandleEventDoes ==
  ASSUME IInv, HandleEvent
  PROVE  Handled(s, s') /\ Good(s') /\ Batch(s', batch', deleted')
<1> DEFINE a == Head(batch).ptr
           ev == Head(batch).ev
<1>1. /\ Good(s) /\ Batch(s, batch', deleted) /\ a \in Addrs \cup {Acceptor}
      /\ a # Acceptor /\ "HUP" \in ev => "IN" \in ev
  BY BatchTail, ZenonT(30) DEF IInv, HandleEvent, EventOK, Reported
<1> DEFINE C1 == a = Acceptor /\ Becomes(AcceptorHandleCanRecv(s))
           C2 == UNCHANGED <<s, deleted>>
           Sent(t) == IF CanSend(ev) /\ t.ch[a].live THEN DoContineSend(t, a) ELSE {t}
           C3 == a # Acceptor /\ s.ch[a].live /\ \E t \in Received(s, a, ev) : Becomes(Sent(t))
<1>2. C1 \/ C2 \/ C3
  BY ZenonT(30) DEF HandleEvent
<1>3. CASE C1
  <2>1. \A u \in AcceptorHandleCanRecv(s) : Handled(s, u)
    BY <1>1, AcceptorOK
  <2>2. s' \in AcceptorHandleCanRecv(s)
    BY <1>3, ZenonT(30) DEF Becomes
  <2> QED BY <1>1, <1>3, <2>1, <2>2, BecomesOK DEF Handled
<1>4. CASE C2
  BY <1>1, <1>4, ZenonT(30) DEF Handled, Keeps
<1>5. CASE C3
  <2>1. PICK t \in Received(s, a, ev) : Becomes(Sent(t))
    BY <1>5, ZenonT(30)
  <2>2. a \in Addrs /\ s.ch[a].live
    BY <1>1, <1>5, ZenonT(30)
  <2>3. Handled(s, t)
    BY <1>1, <1>5, <2>2, ReceivedOK, ZenonT(30)
  <2>4. ASSUME NEW u \in Sent(t)
        PROVE  Handled(s, u)
    <3>1. CASE u = t
      BY <2>3, <3>1, ZenonT(30)
    <3>2. CASE t.ch[a].live /\ u \in DoContineSend(t, a)
      <4>1. Good(t)
        BY <2>3 DEF Handled
      <4>2. Good(u) /\ SameChannels(t, u)
        BY <2>2, <3>2, <4>1, DoContineSendOK
      <4> QED BY <2>3, <4>2 DEF Handled, SameChannels, Keeps
    <3> QED BY <2>4, <3>1, <3>2
  <2> HIDE DEF Sent
  <2>5. s' \in Sent(t)
    BY <2>1 DEF Becomes
  <2> QED BY <1>1, <2>1, <2>4, <2>5, BecomesOK, SMTT(30) DEF Handled
<1> QED BY <1>2, <1>3, <1>4, <1>5, ZenonT(30)

LEMMA CallsOK == IInv /\ (CallSendMsg \/ CallDisconnect) => IInv'
<1> SUFFICES ASSUME IInv, CallSendMsg \/ CallDisconnect PROVE IInv'
  OBVIOUS
<1>1. Good(s) /\ Batch(s, batch, deleted) /\ size \in Nat \ {0}
  BY DEF IInv
<1>2. batch' = batch /\ size' = size
  BY DEF CallSendMsg, CallDisconnect
<1>3. CASE CallSendMsg
  <2>1. PICK a \in Live(s) : Becomes(DoSend(s, a))
    BY <1>3 DEF CallSendMsg
  <2>2. \A u \in DoSend(s, a) : Good(u) /\ Keeps(s, u)
    BY <1>1, DoSendOK DEF Live, SameChannels, Keeps
  <2> QED BY <1>1, <1>2, <2>1, <2>2, BecomesOK DEF IInv
<1>4. CASE CallDisconnect
  <2>1. PICK a \in Live(s) : Becomes({HandleClose(s, a)})
    BY <1>4 DEF CallDisconnect
  <2>2. \A u \in {HandleClose(s, a)} : Good(u) /\ Keeps(s, u)
    BY <1>1, HandleCloseOK DEF Live, Keeps
  <2> QED BY <1>1, <1>2, <2>1, <2>2, BecomesOK DEF IInv
<1> QED BY <1>3, <1>4

-----------------------------------------------------------------------------
(* The peers and the rest of the process *)

LEMMA EnvironmentOK ==
  ASSUME IInv, NEW t, Environment(t), Good(t), SameChannels(s, t)
  PROVE  IInv'
<1>1. s' = t /\ batch' = batch /\ size' = size /\ deleted' = deleted
  BY DEF Environment
<1>2. Keeps(s, t) /\ Live(s) \ Live(t) = {}
  BY DEF SameChannels, Keeps, Live
<1>3. Batch(t, batch, deleted)
  BY <1>2, BatchKept DEF IInv
<1> QED BY <1>1, <1>3 DEF IInv

\* What the peers do concerns no table.
LEMMA PeersOK ==
  ASSUME IInv, PeerConnects \/ PeerGivesUp \/ \E f \in FDs : PeerStep(f)
  PROVE  IInv'
<1>1. s \in Servers /\ Good(s) /\ s.backlog \in Nat
  BY DEF IInv, Good, Servers
<1>2. CASE PeerConnects
  <2> DEFINE t == [s EXCEPT !.backlog = @ + 1]
  <2>1. s.backlog + 1 \in Nat
    BY <1>1
  <2>2. t \in Servers
    BY <1>1, <2>1, Zenon DEF Servers
  <2>3. SameTables(s, t)
    BY <1>1, <2>2, ZenonT(30) DEF SameTables, Servers
  <2> QED BY <1>1, <1>2, <2>3, SameTablesOK, EnvironmentOK DEF PeerConnects
<1>3. CASE PeerGivesUp
  <2> DEFINE t == [s EXCEPT !.backlog = @ - 1]
  <2>1. s.backlog - 1 \in Nat
    BY <1>1, <1>3 DEF PeerGivesUp
  <2>2. t \in Servers
    BY <1>1, <2>1, Zenon DEF Servers
  <2>3. SameTables(s, t)
    BY <1>1, <2>2, ZenonT(30) DEF SameTables, Servers
  <2> QED BY <1>1, <1>3, <2>3, SameTablesOK, EnvironmentOK DEF PeerGivesUp
<1>4. ASSUME NEW f \in FDs, PeerStep(f)
      PROVE  IInv'
  <2> DEFINE t1 == [s EXCEPT !.inbox[f] = TRUE]
             t2 == [s EXCEPT !.full[f] = FALSE]
             t3 == [s EXCEPT !.conn[f] = "eof"]
             t4 == [s EXCEPT !.conn[f] = "reset", !.inbox[f] = FALSE, !.full[f] = FALSE]
  <2>1. "eof" \in Conns /\ "reset" \in Conns
    BY DEF Conns
  <2>2. t1 \in Servers /\ t2 \in Servers /\ t3 \in Servers /\ t4 \in Servers
    BY <1>1, <2>1, ZenonT(30) DEF Servers
  <2>3. SameTables(s, t1) /\ SameTables(s, t2) /\ SameTables(s, t3) /\ SameTables(s, t4)
    BY <1>1, <2>2, ZenonT(30) DEF SameTables, Servers
  <2>4. Environment(t1) \/ Environment(t2) \/ Environment(t3) \/ Environment(t4)
    BY <1>4, ZenonT(30) DEF PeerStep, PeerSends, PeerReads, PeerCloses, PeerResets
  <2> HIDE DEF t1, t2, t3, t4
  <2> QED BY <1>1, <2>3, <2>4, SameTablesOK, EnvironmentOK
<1> QED BY <1>2, <1>3, <1>4

\* A descriptor that is no connection is opened or closed by somebody else.
LEMMA OthersOK ==
  ASSUME IInv, OtherOpens \/ OtherCloses
  PROVE  IInv'
<1>1. s \in Servers /\ Good(s) /\ Tables(s)
  BY DEF IInv, Good
<1>2. CASE OtherOpens
  <2> DEFINE f == LowestFree(s)
             t == [s EXCEPT !.open[f] = "other"]
  <2>1. f \in FDs /\ s.open[f] = "free" /\ Environment(t)
    BY <1>2, LowestFreeOK DEF OtherOpens
  <2> HIDE DEF f
  <2>2. t \in Servers
    BY <1>1, <2>1, Zenon DEF Servers
  <2>3. /\ t.open = [s.open EXCEPT ![f] = "other"]
        /\ t.ch = s.ch /\ t.map = s.map /\ t.ep = s.ep /\ t.idle = s.idle
    BY <1>1, <2>1 DEF Servers
  <2> HIDE DEF t
  <2>4. \A g \in FDs : t.open[g] = IF g = f THEN "other" ELSE s.open[g]
    BY <1>1, <2>1, <2>3, ZenonT(30) DEF Servers
  <2>5. Tables(t)
    <3>1. s.idle \in FDs /\ ListenFD \in FDs
      BY <1>1, FDsOK DEF Servers
    <3>2. f # s.idle /\ f # ListenFD
      BY <1>1, <2>1 DEF Tables
    <3>3. \A g \in FDs : t.open[g] = "conn" <=> s.open[g] = "conn"
      BY <2>1, <2>4
    <3>4. ASSUME NEW g \in FDs, t.open[g] = "conn" PROVE Serves(t, t.map[g], g)
      <4>1. Serves(s, s.map[g], g)
        BY <1>1, <3>3, <3>4, ZenonT(30) DEF Tables
      <4> QED BY <2>3, <4>1, ZenonT(30) DEF Serves
    <3>5. ASSUME NEW g \in FDs, t.open[g] # "conn"
          PROVE  t.map[g] = None /\ (g # ListenFD => t.ep[g] = NotWatched)
      BY <1>1, <2>3, <3>3, <3>5, ZenonT(30) DEF Tables
    <3>6. \A a \in Addrs : t.ch[a].live => t.ch[a].fd \in FDs /\ t.map[t.ch[a].fd] = a
      BY <1>1, <2>3, ZenonT(30) DEF Tables
    <3>7. /\ t.open[ListenFD] = "listen" /\ t.ep[ListenFD].ptr = Acceptor
          /\ t.open[t.idle] = "idle"
      BY <1>1, <2>3, <2>4, <3>1, <3>2, ZenonT(30) DEF Tables
    <3> QED BY <3>4, <3>5, <3>6, <3>7, ZenonT(30) DEF Tables
  <2> QED BY <2>1, <2>2, <2>3, <2>5, EnvironmentOK DEF Good, SameChannels
<1>3. CASE OtherCloses
  <2>1. PICK f \in FDs : s.open[f] = "other" /\ Environment(close(s, f))
    BY <1>3 DEF OtherCloses
  <2> DEFINE t == close(s, f)
  <2>2. /\ t \in Servers
        /\ t.open = [s.open EXCEPT ![f] = "free"] /\ t.ep = [s.ep EXCEPT ![f] = NotWatched]
        /\ t.ch = s.ch /\ t.map = s.map /\ t.idle = s.idle
    BY <1>1, closeDoes
  <2>3. Environment(t)
    BY <2>1
  <2> HIDE DEF t
  <2>4. \A g \in FDs : /\ t.open[g] = IF g = f THEN "free" ELSE s.open[g]
                       /\ t.ep[g] = IF g = f THEN NotWatched ELSE s.ep[g]
    BY <1>1, <2>2, ZenonT(30) DEF Servers
  <2>5. Tables(t)
    <3>1. s.idle \in FDs /\ ListenFD \in FDs
      BY <1>1, FDsOK DEF Servers
    <3>2. f # s.idle /\ f # ListenFD
      BY <1>1, <2>1 DEF Tables
    <3>3. \A g \in FDs : t.open[g] = "conn" <=> s.open[g] = "conn"
      BY <2>1, <2>4
    <3>4. \A g \in FDs : t.open[g] = "conn" => t.ep[g] = s.ep[g]
      BY <2>4
    <3>5. ASSUME NEW g \in FDs, t.open[g] = "conn" PROVE Serves(t, t.map[g], g)
      <4>1. Serves(s, s.map[g], g)
        BY <1>1, <3>3, <3>5, ZenonT(30) DEF Tables
      <4> QED BY <2>2, <3>4, <3>5, <4>1, ZenonT(30) DEF Serves
    <3>6. ASSUME NEW g \in FDs, t.open[g] # "conn"
          PROVE  t.map[g] = None /\ (g # ListenFD => t.ep[g] = NotWatched)
      <4>1. s.map[g] = None /\ (g # ListenFD => s.ep[g] = NotWatched)
        BY <1>1, <3>3, <3>6, ZenonT(30) DEF Tables
      <4> QED BY <2>2, <2>4, <4>1, ZenonT(30)
    <3>7. \A a \in Addrs : t.ch[a].live => t.ch[a].fd \in FDs /\ t.map[t.ch[a].fd] = a
      BY <1>1, <2>2, ZenonT(30) DEF Tables
    <3>8. /\ t.open[ListenFD] = "listen" /\ t.ep[ListenFD].ptr = Acceptor
          /\ t.open[t.idle] = "idle"
      BY <1>1, <2>2, <2>4, <3>1, <3>2, ZenonT(30) DEF Tables
    <3> QED BY <3>5, <3>6, <3>7, <3>8, ZenonT(30) DEF Tables
  <2> QED BY <2>2, <2>3, <2>5, EnvironmentOK DEF Good, SameChannels
<1> QED BY <1>2, <1>3

-----------------------------------------------------------------------------
(* Theorems *)

LEMMA Inductive == IInv /\ [Next]_vars => IInv'
<1> SUFFICES ASSUME IInv, [Next]_vars PROVE IInv'
  OBVIOUS
<1>1. CASE Poll
  BY <1>1, PollOK
<1>2. CASE HandleEvent
  <2>1. size' = size
    BY <1>2 DEF HandleEvent
  <2> QED BY <1>2, <2>1, HandleEventDoes, ZenonT(30) DEF IInv
<1>3. CASE CallSendMsg \/ CallDisconnect
  BY <1>3, CallsOK
<1>4. CASE PeerConnects \/ PeerGivesUp \/ \E f \in FDs : PeerStep(f)
  BY <1>4, PeersOK
<1>5. CASE OtherOpens \/ OtherCloses
  BY <1>5, OthersOK
<1>6. CASE UNCHANGED vars
  BY <1>6 DEF vars, IInv
<1> QED BY <1>1, <1>2, <1>3, <1>4, <1>5, <1>6 DEF Next

LEMMA Implied == IInv => TablesAgree /\ EventsReachLive
<1> SUFFICES ASSUME IInv PROVE TablesAgree /\ EventsReachLive
  BY ZenonT(30)
<1>1. TablesAgree
  BY DEF IInv, Good, Tables, Serves, TablesAgree, ChannelOK, Live
<1>2. EventsReachLive
  BY DEF IInv, Batch, EventOK, EventsReachLive, Live
<1> QED BY <1>1, <1>2

\* The map, the channels, the registrations and the open connections correspond
\* one to one: nothing leaks and nothing closed or deleted is in a table.
THEOREM TablesAlwaysAgree == Spec => []TablesAgree
  BY InitOK, Inductive, Implied, PTL DEF Spec

\* An event is for the channel of the descriptor it was reported for unless a
\* handler of the same batch has deleted the object it is for.
THEOREM EventsAlwaysReachLive == Spec => []EventsReachLive
  BY InitOK, Inductive, Implied, PTL DEF Spec

\* Handling an event closes only channels whose peer has ended the connection,
\* also when the event is stale and meant for a channel that was deleted.
THEOREM OnlyEndedAreClosed == Spec => ClosedByPeer
<1>1. IInv /\ [Next]_vars =>
        [HandleEvent =>
           \A a \in Live(s) \ Live(s') : s.conn[s.ch[a].fd] \in {"eof", "reset", "dead"}]_vars
  <2> SUFFICES ASSUME IInv, HandleEvent, NEW a \in Live(s) \ Live(s')
               PROVE  s.conn[s.ch[a].fd] \in {"eof", "reset", "dead"}
    OBVIOUS
  <2> QED BY HandleEventDoes DEF Handled, Live
<1> QED BY <1>1, InitOK, Inductive, PTL DEF Spec, ClosedByPeer
=============================================================================
