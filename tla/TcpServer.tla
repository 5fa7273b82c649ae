----------------------------- MODULE TcpServer ------------------------------
(***************************************************************************)
(* The TCP server of util/net: the acceptor, the map of channels, the      *)
(* channels, and EPollPoller, which hands them the events of epoll.        *)
(*                                                                         *)
(* epoll returns a batch of events with the addresses of the sockets they  *)
(* are for; the handlers run one after the other, and each may open, close *)
(* and delete sockets, also ones that later events of the batch are for.   *)
(* Addresses of deleted channels and numbers of closed descriptors are     *)
(* given out again.  Handlers of sockets that are not modelled, and the    *)
(* program between two polls, call SendMsg and Disconnect of any channel.  *)
(*                                                                         *)
(* Of data only its presence matters: in the socket, in the send buffer.   *)
(***************************************************************************)
EXTENDS Integers, Sequences, FiniteSets

CONSTANTS
  NFDs,        \* the descriptors of the process are 1 .. NFDs
  Addrs,       \* where a ServerChannel can be allocated
  ListSize,    \* kInitEventListSize
  MaxPeers     \* bound on the peers that connect

\* In place of an address: the acceptor's, which is part of the TcpServer, and none.
Acceptor == "acceptor"
None == "none"

ASSUME SizesAssumption ==
  /\ NFDs \in Nat /\ NFDs >= 2
  /\ ListSize \in Nat \ {0} /\ MaxPeers \in Nat
  /\ IsFiniteSet(Addrs) /\ Cardinality(Addrs) >= NFDs - 2
  /\ Acceptor \notin Addrs /\ None \notin Addrs

VARIABLES
  s,        \* the server and the kernel, see Init
  batch,    \* the events of m_EventList that are still to be handled; field fd, the
            \* descriptor that an event was reported for, is history
  size,     \* m_EventList.size()
  peers,    \* the number of peers that have connected so far
  deleted,  \* history: the addresses deleted since the batch was returned
  crashed   \* FALSE, or how a deleted object came to be used

vars == <<s, batch, size, peers, deleted, crashed>>

FDs == 1 .. NFDs
ListenFD == 1
kReadEvent == {"IN"}
kWriteEvent == {"OUT"}
NoChannel == [live |-> FALSE, fd |-> 0, events |-> {}, isPooling |-> FALSE, out |-> FALSE]
NotWatched == [ptr |-> None, events |-> {}]

-----------------------------------------------------------------------------
(* The kernel *)

FreeFDs(t) == {f \in FDs : t.open[f] = "free"}
LowestFree(t) == CHOOSE f \in FreeFDs(t) : \A g \in FreeFDs(t) : f <= g

\* close, which also ends epoll's watch of the descriptor.
close(t, f) ==
  [t EXCEPT !.open[f] = "free", !.conn[f] = "none", !.inbox[f] = FALSE,
            !.full[f] = FALSE, !.ep[f] = NotWatched]

\* epoll_ctl: each operation fails on a descriptor that is watched, or is not.
epoll_ctl(t, op, f, ptr, events) ==
  IF op = "ADD" <=> t.ep[f].ptr = None
  THEN [t EXCEPT !.ep[f] = IF op = "DEL" THEN NotWatched
                           ELSE [ptr |-> ptr, events |-> events]]
  ELSE t

\* write of something: all or part of it is taken, or nothing and why.  (A socket
\* that is full after taking all differs from this only in its next write, which
\* then takes nothing in place of a part.)
write(t, f) ==
  CASE t.conn[f] \in {"up", "eof"} /\ ~t.full[f] ->
         {[t |-> t, res |-> "all"], [t |-> [t EXCEPT !.full[f] = TRUE], res |-> "part"]}
    [] t.conn[f] \in {"up", "eof"} /\ t.full[f] -> {[t |-> t, res |-> "EWOULDBLOCK"]}
    [] OTHER -> {[t |-> [t EXCEPT !.conn[f] = "dead"], res |-> "EPIPE"]}

\* What epoll has to report of descriptor f.  Errors are always reported.
Ready(t, f) ==
  LET broken == t.conn[f] \in {"reset", "dead"}
      now == (IF t.inbox[f] \/ broken \/ t.conn[f] = "eof" \/ (f = ListenFD /\ t.backlog > 0)
              THEN {"IN"} ELSE {})
             \union (IF broken \/ (t.conn[f] \in {"up", "eof"} /\ ~t.full[f])
                     THEN {"OUT"} ELSE {})
      bad == (IF broken THEN {"HUP"} ELSE {})
             \union (IF t.conn[f] = "reset" THEN {"ERR"} ELSE {})
  IN  IF t.ep[f].ptr = None THEN {} ELSE (now \intersect t.ep[f].events) \union bad

-----------------------------------------------------------------------------
(* TcpSocket and EPollPoller: registration *)

\* Mutation: a socket that is watched already is added once more.
UpdateEventAdds(t, a, events) ==
  LET c == t.ch[a]
      op == IF events = {} THEN "DEL" ELSE "ADD"
  IN  IF ~c.isPooling /\ events = {} THEN [t EXCEPT !.ch[a].events = events]
      ELSE [epoll_ctl(t, op, c.fd, a, events)
            EXCEPT !.ch[a].events = events, !.ch[a].isPooling = events # {}]

\* m_iEvents becomes events, then EPollPoller::UpdateEvent.
UpdateEvent(t, a, events) ==
  LET c == t.ch[a]
      op == IF ~c.isPooling THEN "ADD" ELSE IF events = {} THEN "DEL" ELSE "MOD"
  IN  IF ~c.isPooling /\ events = {} THEN [t EXCEPT !.ch[a].events = events]
      ELSE [epoll_ctl(t, op, c.fd, a, events)
            EXCEPT !.ch[a].events = events, !.ch[a].isPooling = events # {}]

EnableReading(t, a) == UpdateEvent(t, a, t.ch[a].events \union kReadEvent)
EnableWriting(t, a) == UpdateEvent(t, a, t.ch[a].events \union kWriteEvent)
DisableWriting(t, a) == UpdateEvent(t, a, t.ch[a].events \ kWriteEvent)
DisableAll(t, a) == UpdateEvent(t, a, {})
IsWriting(t, a) == kWriteEvent \subseteq t.ch[a].events

Close(t, a) == close(DisableAll(t, a), t.ch[a].fd)

-----------------------------------------------------------------------------
(* TcpChannel: sending *)

QueueRest(t, a) ==
  LET u == [t EXCEPT !.ch[a].out = TRUE]
  IN  IF IsWriting(u, a) THEN u ELSE EnableWriting(u, a)

DoSend(t, a) ==
  IF t.ch[a].out THEN {QueueRest(t, a)}
  ELSE {IF w.res \in {"all", "EPIPE"} THEN w.t ELSE QueueRest(w.t, a) : w \in write(t, t.ch[a].fd)}

\* A write that fails counts as one of everything: its result is unsigned.
DoContineSend(t, a) ==
  IF ~IsWriting(t, a) THEN {t}
  ELSE {IF w.res = "part" THEN w.t
        ELSE DisableWriting([w.t EXCEPT !.ch[a].out = FALSE], a) : w \in write(t, t.ch[a].fd)}

-----------------------------------------------------------------------------
(* ServerChannel and TcpServer *)

\* The channel is deleted and its descriptor's entry erased.
OnCloseChannel(t, a) ==
  [t EXCEPT !.ch[a] = NoChannel, !.map[t.ch[a].fd] = None]

\* Mutation: the descriptor stays open, and watched.
HandleCloseLeaks(t, a) == OnCloseChannel(t, a)

\* HandleClose, also Disconnect.
HandleClose(t, a) == OnCloseChannel(Close(DisableAll(t, a), a), a)

\* HandleError: GetSocketError clears the error.
HandleError(t, a) ==
  LET f == t.ch[a].fd IN [t EXCEPT !.conn[f] = IF @ = "reset" THEN "dead" ELSE @]

\* Mutation: any result of readv that is not data counts as the end.
DoRecvCloses(t, a) ==
  LET f == t.ch[a].fd
      u == [t EXCEPT !.inbox[f] = FALSE]
  IN  IF t.inbox[f] THEN {u} \union DoSend(u, a) ELSE {HandleClose(t, a)}

\* DoRecv.  Data is read and OnMsgRecv called, which may answer at once.
DoRecv(t, a) ==
  LET f == t.ch[a].fd
      u == [t EXCEPT !.inbox[f] = FALSE]
  IN  IF t.inbox[f] THEN {u} \union DoSend(u, a)
      ELSE IF t.conn[f] \in {"eof", "dead"} THEN {HandleClose(t, a)}
      ELSE {HandleError(t, a)}

\* The map has a channel for the number of the new descriptor: it is
\* disconnected, which closes that descriptor.
OnNewChannel(t, f) ==
  LET u == IF t.map[f] # None THEN HandleClose(t, t.map[f]) ELSE t
  IN  {EnableReading([u EXCEPT !.ch[a] = [NoChannel EXCEPT !.live = TRUE, !.fd = f],
                               !.map[f] = a], a)
       : a \in {x \in Addrs : ~u.ch[x].live}}

-----------------------------------------------------------------------------
(* TcpAcceptor *)

\* TcpAcceptor::HandleCanRecv, with Accept: EAGAIN; EMFILE, where the idle
\* descriptor is given up to take the connection and close it; or success.
AcceptorHandleCanRecv(t) ==
  LET f == LowestFree(t)
      u == close(t, t.idle)
      g == LowestFree(u)
  IN  IF t.backlog = 0 THEN {t}
      ELSE IF FreeFDs(t) = {} THEN {[u EXCEPT !.backlog = @ - 1, !.idle = g, !.open[g] = "idle"]}
      ELSE OnNewChannel([t EXCEPT !.backlog = @ - 1, !.open[f] = "conn", !.conn[f] = "up"], f)

-----------------------------------------------------------------------------
(* Steps of the program *)

\* After the constructors and Start.
Started ==
  [ ch |-> [a \in Addrs |-> NoChannel],  \* the ServerChannels by address
    map |-> [f \in FDs |-> None],        \* m_ChannelMap
    idle |-> 2,                          \* m_iIdleFD
    \* the kernel
    open |-> [f \in FDs |-> IF f = ListenFD THEN "listen" ELSE IF f = 2 THEN "idle" ELSE "free"],
    conn |-> [f \in FDs |-> "none"],     \* the connection of a descriptor
    inbox |-> [f \in FDs |-> FALSE],     \* it has data to read
    full |-> [f \in FDs |-> FALSE],      \* it takes no more data for now
    backlog |-> 0,                       \* connections to be accepted
    ep |-> [f \in FDs |-> IF f = ListenFD THEN [ptr |-> Acceptor, events |-> kReadEvent]
                          ELSE NotWatched] ]

Init ==
  /\ s = Started /\ batch = <<>> /\ size = ListSize /\ peers = 0
  /\ deleted = {} /\ crashed = "no"

Live(t) == {a \in Addrs : t.ch[a].live}

\* A handler turns s into one of S.  The history ends with the batch.
Becomes(S) ==
  /\ s' \in S
  /\ deleted' = IF batch' = <<>> THEN {} ELSE deleted \union (Live(s) \ Live(s'))

\* Mutation: the list keeps its size.
NewSizeFixed(n) == size

\* A list that was full is doubled.
NewSize(n) == IF n = size THEN 2 * size ELSE size

\* epoll_wait returns as many of the events as there is room for, whichever
\* the kernel likes and in any order.
Poll ==
  LET ready == {f \in FDs : Ready(s, f) # {}}
      n == IF Cardinality(ready) < size THEN Cardinality(ready) ELSE size
  IN  /\ crashed = "no" /\ batch = <<>> /\ ready # {}
      /\ \E fs \in {q \in [1 .. n -> ready] : \A i, j \in 1 .. n : q[i] = q[j] => i = j} :
           batch' = [i \in 1 .. n |-> [ptr |-> s.ep[fs[i]].ptr, ev |-> Ready(s, fs[i]), fd |-> fs[i]]]
      /\ size' = NewSize(n)
      /\ UNCHANGED <<s, peers, deleted, crashed>>

\* EPollPoller::HandleEvent for a channel: the results after HandleClose or
\* HandleError, and then HandleCanRecv.
Received(t, a, ev) ==
  LET t1 == IF "HUP" \in ev /\ "IN" \notin ev THEN HandleClose(t, a)
            ELSE IF "ERR" \in ev THEN HandleError(t, a) ELSE t
  IN  IF "IN" \in ev THEN DoRecv(t1, a) ELSE {t1}

\* HandleCanSend follows.
CanSend(ev) == "OUT" \in ev /\ ~("HUP" \in ev /\ "IN" \notin ev) /\ "ERR" \notin ev

\* The next event of the batch.  A deleted object is used if the event is for
\* one, or if HandleCanRecv deletes the channel and HandleCanSend is due.
HandleEvent ==
  /\ crashed = "no" /\ batch # <<>>
  /\ batch' = Tail(batch)
  /\ UNCHANGED <<size, peers>>
  /\ LET a == Head(batch).ptr
         ev == Head(batch).ev
     IN  \/ a = Acceptor /\ Becomes(AcceptorHandleCanRecv(s)) /\ UNCHANGED crashed
         \/ /\ a # Acceptor /\ ~s.ch[a].live
            /\ crashed' = "earlier handler"
            /\ UNCHANGED <<s, deleted>>
         \/ /\ a # Acceptor /\ s.ch[a].live
            /\ \E t \in Received(s, a, ev) :
                 /\ Becomes(IF CanSend(ev) /\ t.ch[a].live THEN DoContineSend(t, a) ELSE {t})
                 /\ crashed' = IF CanSend(ev) /\ ~t.ch[a].live THEN "same event" ELSE "no"

\* SendMsg and Disconnect are called by handlers of other sockets, or
\* between two polls.
CallSendMsg ==
  /\ crashed = "no"
  /\ UNCHANGED <<batch, size, peers, crashed>>
  /\ \E a \in Live(s) : Becomes(DoSend(s, a))

CallDisconnect ==
  /\ crashed = "no"
  /\ UNCHANGED <<batch, size, peers, crashed>>
  /\ \E a \in Live(s) : Becomes({HandleClose(s, a)})

-----------------------------------------------------------------------------
(* The peers, and the rest of the process *)

Environment(t) == s' = t /\ crashed = "no" /\ UNCHANGED <<batch, size, deleted, crashed>>

PeerConnects == peers < MaxPeers /\ peers' = peers + 1 /\ Environment([s EXCEPT !.backlog = @ + 1])
PeerGivesUp == s.backlog > 0 /\ Environment([s EXCEPT !.backlog = @ - 1]) /\ UNCHANGED peers

PeerSends(f) == s.conn[f] = "up" /\ ~s.inbox[f] /\ Environment([s EXCEPT !.inbox[f] = TRUE])
PeerReads(f) == s.full[f] /\ Environment([s EXCEPT !.full[f] = FALSE])
PeerCloses(f) == s.conn[f] = "up" /\ Environment([s EXCEPT !.conn[f] = "eof"])
PeerResets(f) ==
  /\ s.conn[f] \in {"up", "eof"}
  /\ Environment([s EXCEPT !.conn[f] = "reset", !.inbox[f] = FALSE, !.full[f] = FALSE])

OtherOpens ==
  /\ FreeFDs(s) # {}
  /\ Environment([s EXCEPT !.open[LowestFree(s)] = "other"])
  /\ UNCHANGED peers
OtherCloses ==
  /\ \E f \in FDs : s.open[f] = "other" /\ Environment(close(s, f))
  /\ UNCHANGED peers

PeerStep(f) ==
  (PeerSends(f) \/ PeerReads(f) \/ PeerCloses(f) \/ PeerResets(f)) /\ UNCHANGED peers

Next ==
  \/ Poll \/ HandleEvent \/ CallSendMsg \/ CallDisconnect
  \/ PeerConnects \/ PeerGivesUp \/ OtherOpens \/ OtherCloses
  \/ \E f \in FDs : PeerStep(f)

Spec == Init /\ [][Next]_vars

\* The main loop polls, and the handlers return.
FairSpec == Spec /\ WF_vars(Poll \/ HandleEvent)

-----------------------------------------------------------------------------
(* Properties *)

\* The channel of descriptor f: the object that the map has for it has its
\* number, is what epoll reports events to, for the events it wants, and it
\* wants to write exactly if it has something to write.
ChannelOK(f, a) ==
  /\ a \in Addrs /\ s.ch[a].live /\ s.ch[a].fd = f
  /\ s.ch[a].isPooling /\ s.ep[f] = [ptr |-> a, events |-> s.ch[a].events]
  /\ s.ch[a].events = IF s.ch[a].out THEN {"IN", "OUT"} ELSE {"IN"}

\* The map, the channel objects, the registrations with epoll and the open
\* connections correspond one to one, whatever handlers open and close: no
\* descriptor or channel leaks, and none is used that is closed or deleted.
\* (So OnNewChannel never finds a channel to replace.)  The acceptor keeps
\* its descriptor and its idle one.
TablesAgree ==
  /\ \A f \in FDs : IF s.open[f] = "conn" THEN ChannelOK(f, s.map[f])
                    ELSE s.map[f] = None /\ (f # ListenFD => s.ep[f] = NotWatched)
  /\ \A a \in Live(s) : s.map[s.ch[a].fd] = a
  /\ s.open[ListenFD] = "listen" /\ s.ep[ListenFD].ptr = Acceptor
  /\ s.open[s.idle] = "idle"

\* An event of the batch is for an object that lives and still has the descriptor
\* it was reported for, unless a handler that ran since epoll_wait returned
\* has deleted the object.  Only in that case, or when one event reports both
\* the end of a stream and room to write, does HandleEvent use a deleted object.
EventsReachLive ==
  \A i \in 1 .. Len(batch) :
    LET e == batch[i]
    IN  \/ e.ptr \in deleted
        \/ e.ptr = Acceptor /\ e.fd = ListenFD
        \/ e.ptr \in Live(s) /\ s.ch[e.ptr].fd = e.fd

\* Handling an event closes a channel only if its peer has closed or reset the
\* connection, however late the event is handled, and even if it was reported
\* for a channel that has been deleted since, at whose address a new one lives.
ClosedByPeer ==
  [][HandleEvent =>
       \A a \in Live(s) \ Live(s') : s.conn[s.ch[a].fd] \in {"eof", "reset", "dead"}]_vars

\* Connections whose end the server has not seen.
Ended == {f \in FDs : s.conn[f] \in {"eof", "reset", "dead"}}

\* Every peer that connects is accepted or turned away, also when the process
\* has no descriptors left, and the end of every connection reaches its channel,
\* as DoSend, which does not close it, relies on: although epoll may prefer
\* other sockets as long as m_EventList has no room for all.  (Peers are bounded:
\* all are served in the end.)
EverybodyIsServed ==
  s.backlog > 0 \/ Ended # {} ~> (s.backlog = 0 /\ Ended = {}) \/ crashed # "no"
=============================================================================
