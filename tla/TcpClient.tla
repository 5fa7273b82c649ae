----------------------------- MODULE TcpClient ------------------------------
(***************************************************************************)
(* The reconnecting TCP client of util/net, with the TcpChannel and        *)
(* TcpSocket it is made of, the poll loop's dispatch to it, and the kernel *)
(* as far as the client can tell.                                          *)
(*                                                                         *)
(* The send buffer is the queue of its unread bytes (module Buffer shows   *)
(* that a Buffer is one).  A message has two bytes, so that it can be cut. *)
(* Of received data only the amount matters.                               *)
(*                                                                         *)
(* epoll_wait returns a batch of events and the handlers run one after the *)
(* other: between Poll and HandleEvent the handlers of other sockets run,  *)
(* which may call SendMsg, and the connection may change.                  *)
(***************************************************************************)
EXTENDS Integers, Sequences

CONSTANTS
  NFDs,         \* the descriptors of the process are 1 .. NFDs
  MaxMsgs,      \* bound on the messages sent
  MaxSendBuf,   \* k_MaxSendBufSize
  MaxRecvBuf    \* k_MaxRecvBufSize

ASSUME BoundsAssumption ==
  NFDs \in Nat \ {0} /\ MaxMsgs \in Nat /\ MaxSendBuf \in Nat /\ MaxRecvBuf \in Nat

VARIABLES
  s,      \* the client and its socket in the kernel, see Init
  ev,     \* the client's event in the batch being handled, {} if there is none
  msgs    \* the number of messages sent so far

vars == <<s, ev, msgs>>

FDs == 1 .. NFDs
kReadEvent == {"IN"}
kWriteEvent == {"OUT"}

Message(m) == <<[msg |-> m, part |-> 1], [msg |-> m, part |-> 2]>>

\* The first byte of the queue continues a message.
StartsCut(q) == q # <<>> /\ Head(q).part = 2

-----------------------------------------------------------------------------
(* The kernel *)

\* A new socket has the lowest free descriptor.
FreeFDs(t) == {f \in FDs : t.open[f] = "free"}
LowestFree(t) == CHOOSE f \in FreeFDs(t) : \A g \in FreeFDs(t) : f <= g

\* The socket takes the first n bytes of d, or none of them.
Taken(t, d, n, full) ==
  [t |-> [t EXCEPT !.wire = @ \o SubSeq(d, 1, n), !.full = full], n |-> n, err |-> "none"]
Refused(t, err) == [t |-> t, n |-> -1, err |-> err]

\* The results of write.  A socket that is not full takes at least one byte.
write(t, d) ==
  CASE t.conn \in {"up", "eof"} /\ ~t.full ->
         {r \in {Taken(t, d, n, f) : n \in 0 .. Len(d), f \in BOOLEAN} :
            (r.n = 0 => d = <<>>) /\ (r.n < Len(d) => r.t.full)}
    [] t.conn = "pending" \/ (t.conn \in {"up", "eof"} /\ t.full) -> {Refused(t, "EWOULDBLOCK")}
    [] OTHER -> {Refused([t EXCEPT !.conn = IF @ = "reset" THEN "dead" ELSE @], "EPIPE")}

\* What epoll reports of the client's socket.  Errors are reported always.
Ready(t) ==
  LET broken == t.conn \in {"failed", "reset", "dead"}
      now == (IF t.inbox > 0 \/ broken \/ t.conn = "eof" THEN {"IN"} ELSE {})
             \union (IF broken \/ (t.conn \in {"up", "eof"} /\ ~t.full) THEN {"OUT"} ELSE {})
      bad == (IF broken THEN {"HUP"} ELSE {})
             \union (IF t.conn \in {"failed", "reset"} THEN {"ERR"} ELSE {})
  IN  IF t.ep[t.fd] = {} THEN {} ELSE (now \intersect t.ep[t.fd]) \union bad

-----------------------------------------------------------------------------
(* TcpSocket and EPollPoller *)

\* Mutation: a socket stays registered when no event is wanted any more.
UpdateEventNoDel(t) ==
  IF t.events = {} THEN t ELSE [t EXCEPT !.ep[t.fd] = t.events, !.isPooling = TRUE]

\* EPollPoller::UpdateEvent: ADD, MOD or DEL of the descriptor m_iFD.
UpdateEvent(t) ==
  IF ~t.isPooling /\ t.events = {} THEN t
  ELSE [t EXCEPT !.ep[t.fd] = t.events, !.isPooling = t.events # {}]

EnableReading(t) == UpdateEvent([t EXCEPT !.events = @ \union kReadEvent])
EnableWriting(t) == UpdateEvent([t EXCEPT !.events = @ \union kWriteEvent])
DisableWriting(t) == UpdateEvent([t EXCEPT !.events = @ \ kWriteEvent])
DisableAll(t) == UpdateEvent([t EXCEPT !.events = {}])
IsWriting(t) == kWriteEvent \subseteq t.events

\* The kernel's side of closing, or of leaving, the socket m_iFD.
NoConnection(t) ==
  [t EXCEPT !.conn = "none", !.inbox = 0, !.full = FALSE, !.wire = <<>>]

\* close acts on whatever has the number m_iFD.
Close(t) == NoConnection([DisableAll(t) EXCEPT !.open[t.fd] = "free", !.ep[t.fd] = {}])

\* CreateNoBlock, if a descriptor is free.  The old one is not closed.
CreateNoBlock(t) ==
  LET f == LowestFree(t)
  IN  [NoConnection(t) EXCEPT !.fd = f, !.open[f] = "mine", !.old = t.recv > 0]

-----------------------------------------------------------------------------
(* TcpChannel *)

\* A queue above the limit is dropped first.
AppendSendBuf(t, d) ==
  IF Len(t.sendbuf) > MaxSendBuf
  THEN [t EXCEPT !.sendbuf = d,
                 !.hist = @ \union {"overflow"}
                            \union (IF StartsCut(t.sendbuf) THEN {"cut"} ELSE {})]
  ELSE [t EXCEPT !.sendbuf = @ \o d]

\* Mutation: the channel is not told when it can write on.
QueueRestSilently(t, d) == IF d = <<>> THEN t ELSE AppendSendBuf(t, d)

\* The rest of what write did not take.
QueueRest(t, d) ==
  IF d = <<>> THEN t
  ELSE LET u == AppendSendBuf(t, d) IN IF IsWriting(u) THEN u ELSE EnableWriting(u)

\* Mutation: new data is written although older data is queued.
DoSendAtOnce(t, d) ==
  { CASE w.n >= 0          -> QueueRest(w.t, SubSeq(d, w.n + 1, Len(d)))
      [] w.err = "EPIPE"   -> w.t
      [] OTHER             -> QueueRest(w.t, d) : w \in write(t, d) }

DoSend(t, d) ==
  IF t.sendbuf # <<>> THEN {QueueRest(t, d)}
  ELSE { CASE w.n >= 0          -> QueueRest(w.t, SubSeq(d, w.n + 1, Len(d)))
           [] w.err = "EPIPE"   -> w.t
           [] OTHER             -> QueueRest(w.t, d) : w \in write(t, d) }

\* nwrote is unsigned: -1 is more than the queue holds, and all of it goes.
DoContineSend(t) ==
  IF ~IsWriting(t) THEN {t}
  ELSE { LET rest == IF w.n < 0 THEN <<>> ELSE SubSeq(t.sendbuf, w.n + 1, Len(t.sendbuf))
             u    == [w.t EXCEPT !.sendbuf = rest]
         IN  IF w.n # 0 /\ rest = <<>> THEN DisableWriting(u) ELSE u
         : w \in write(t, t.sendbuf) }

-----------------------------------------------------------------------------
(* TcpClient *)

DoClose(t) == [Close(t) EXCEPT !.state = "kDisconnected"]

HandleClose(t) ==
  [ (IF t.state # "kDisconnected" THEN DoClose(t) ELSE t)
    EXCEPT !.sendbuf = <<>>, !.recv = 0, !.old = FALSE, !.hist = {} ]

\* Mutation: a connection in progress is taken for one that is established.
ConnectTrusting(t) ==
  IF t.state # "kDisconnected" \/ FreeFDs(t) = {} THEN {t}
  ELSE {EnableReading([CreateNoBlock(t) EXCEPT !.state = "kConnected", !.conn = "pending"])}

\* connect succeeds or is in progress; fails in one of the ways that leave the
\* socket as it is; or fails otherwise.
Connect(t) ==
  LET t1 == DisableAll([t EXCEPT !.auto = TRUE])
      t2 == CreateNoBlock(t1)
  IN  IF t.state # "kDisconnected" THEN {t}
      ELSE IF FreeFDs(t1) = {} THEN {t1}
      ELSE {EnableWriting([t2 EXCEPT !.state = "kConnecting", !.conn = c]) :
              c \in {"pending", "up"}}
           \union {t2, DoClose(t2)}

\* Disconnect empties no buffer.
Disconnect(t) ==
  LET cut == StartsCut(t.sendbuf) \/ t.recv > 0
  IN  DoClose([t EXCEPT !.auto = FALSE, !.hist = @ \union (IF cut THEN {"cut"} ELSE {})])

SendMsg(t, d) ==
  CASE t.state = "kConnected"    -> DoSend(t, d)
    [] t.state = "kConnecting"   -> {AppendSendBuf(t, d)}
    [] t.state = "kDisconnected" -> IF t.auto THEN Connect(AppendSendBuf(t, d)) ELSE {t}

\* OnRecvMsg takes the complete packets; what it leaves is part of one.
OnRecvMsg(t) == {t, [t EXCEPT !.recv = 0, !.old = FALSE]}

\* DoRecv: data that has arrived is read before the end or error behind it.
DoRecv(t) ==
  LET u == IF t.recv > MaxRecvBuf THEN [t EXCEPT !.recv = 0, !.old = FALSE] ELSE t
  IN  CASE t.inbox > 0                 -> OnRecvMsg([u EXCEPT !.recv = @ + t.inbox, !.inbox = 0])
        [] t.inbox = 0 /\ t.conn \in {"eof", "dead"} -> {HandleClose(u)}
        [] OTHER -> {[u EXCEPT !.conn = IF @ = "reset" THEN "dead" ELSE @]}

\* _Connected: GetSocketError tells, and clears, the socket's error.
Connected(t) ==
  LET u == EnableReading([t EXCEPT !.state = "kConnected"])
  IN  IF t.conn \in {"failed", "reset"} THEN {DoClose(t)}
      ELSE IF t.sendbuf # <<>> THEN DoContineSend(EnableWriting(u))
      ELSE {DisableWriting(u)}

HandleCanSend(t) ==
  CASE t.state = "kConnecting" -> Connected(t)
    [] t.state = "kConnected"  -> DoContineSend(t)
    [] OTHER                   -> {t}

-----------------------------------------------------------------------------
(* Steps *)

\* After the constructor, which creates a socket.
Init ==
  /\ s = [ state |-> "kDisconnected",  \* m_state
           auto |-> TRUE,              \* m_isAutoReconnect
           fd |-> 1,                   \* m_iFD
           events |-> {},              \* m_iEvents
           isPooling |-> FALSE,        \* m_isPooling
           sendbuf |-> <<>>,           \* m_SendBuf
           recv |-> 0,                 \* the bytes of m_RecvBuf
           \* the kernel
           conn |-> "none",            \* the connection of socket m_iFD
           inbox |-> 0,                \* bytes that have arrived on it
           full |-> FALSE,             \* it takes no more bytes for now
           wire |-> <<>>,              \* the bytes it has taken
           open |-> [f \in FDs |-> IF f = 1 THEN "mine" ELSE "free"],
           ep |-> [f \in FDs |-> {}],  \* what epoll watches for the client
           \* history
           old |-> FALSE,              \* m_RecvBuf has bytes of an earlier connection
           hist |-> {} ]               \* what befell the buffers
  /\ ev = {}
  /\ msgs = 0

CallConnect == s' \in Connect(s) /\ UNCHANGED <<ev, msgs>>

\* Clients disconnect between polls, not from a handler.
CallDisconnect == ev = {} /\ s' = Disconnect(s) /\ UNCHANGED <<ev, msgs>>

CallSendMsg ==
  /\ msgs < MaxMsgs
  /\ msgs' = msgs + 1
  /\ s' \in SendMsg(s, Message(msgs'))
  /\ UNCHANGED ev

\* epoll_wait reports the client's socket.
Poll == ev = {} /\ ev' = Ready(s) /\ ev' # {} /\ UNCHANGED <<s, msgs>>

\* Mutation: HandleCanSend is called whatever the event is.
CanSendAlways(e) == "HUP" \notin e /\ "ERR" \notin e

\* The event's EPOLLOUT is passed on unless there was an error.
CanSend(e) == ~("HUP" \in e /\ "IN" \notin e) /\ "ERR" \notin e /\ "OUT" \in e

\* EPollPoller::HandleEvent, with the event that epoll_wait returned.  OnRecvMsg
\* may answer what it has received.
HandleEvent ==
  /\ ev # {} /\ ev' = {}
  /\ \E reply \in BOOLEAN :
       /\ reply => "IN" \in ev /\ s.inbox > 0 /\ msgs < MaxMsgs
       /\ msgs' = IF reply THEN msgs + 1 ELSE msgs
       /\ \E t1 \in {IF "HUP" \in ev /\ "IN" \notin ev THEN HandleClose(s) ELSE s} :
            \E t2 \in IF "IN" \in ev THEN DoRecv(t1) ELSE {t1} :
              \E t3 \in IF reply THEN SendMsg(t2, Message(msgs')) ELSE {t2} :
                s' \in IF CanSend(ev) THEN HandleCanSend(t3) ELSE {t3}

-----------------------------------------------------------------------------
(* The peer, and the other sockets of the process *)

Environment(t) == s' = t /\ UNCHANGED <<ev, msgs>>

PeerAnswers ==
  /\ s.conn = "pending"
  /\ \E c \in {"up", "failed"} : Environment([s EXCEPT !.conn = c])

PeerSends == s.conn = "up" /\ s.inbox = 0 /\ Environment([s EXCEPT !.inbox = 1])
PeerReads == s.full /\ Environment([s EXCEPT !.full = FALSE])
PeerCloses == s.conn = "up" /\ Environment([s EXCEPT !.conn = "eof"])
PeerResets == s.conn \in {"up", "eof"} /\ Environment([s EXCEPT !.conn = "reset"])

OtherOpens == FreeFDs(s) # {} /\ Environment([s EXCEPT !.open[LowestFree(s)] = "other"])
OtherCloses ==
  \E f \in FDs : s.open[f] = "other" /\ Environment([s EXCEPT !.open[f] = "free"])

Next ==
  \/ CallConnect \/ CallDisconnect \/ CallSendMsg
  \/ Poll \/ HandleEvent
  \/ PeerAnswers \/ PeerSends \/ PeerReads \/ PeerCloses \/ PeerResets
  \/ OtherOpens \/ OtherCloses

Spec == Init /\ [][Next]_vars

\* The main loop polls and handles what it is told; TCP answers a connection
\* attempt in the end; the peer reads what it is sent.
FairSpec ==
  /\ Spec
  /\ WF_vars(Poll) /\ WF_vars(HandleEvent)
  /\ WF_vars(PeerAnswers) /\ WF_vars(PeerReads)

-----------------------------------------------------------------------------
(* Properties *)

\* m_isPooling and m_iEvents, from which UpdateEvent chooses between ADD, MOD
\* and DEL, are what epoll has registered; a closed or abandoned descriptor is
\* not watched, and a connected client reads.
RegistrationOK ==
  /\ s.ep = [f \in FDs |-> IF f = s.fd THEN s.events ELSE {}]
  /\ s.isPooling <=> s.events # {}
  /\ s.state = "kDisconnected" <=> s.events = {}
  /\ s.state # "kDisconnected" => s.open[s.fd] = "mine"
  /\ s.state = "kConnected" <=> "IN" \in s.events

\* The client believes to be connected only when its connection has been
\* established, although events are handled later than they are reported.
ConnectedIsReal == s.state = "kConnected" => s.conn \in {"up", "eof", "reset", "dead"}

\* What a connection has carried and what is queued for it is a sequence of
\* whole messages in the order of the calls of SendMsg, across partial writes,
\* reconnections and failures: the only ways to cut one are a queue above
\* the limit and Disconnect.  Likewise the receive buffer never mixes two connections.
WholeMessages ==
  "cut" \notin s.hist =>
    LET q == s.wire \o s.sendbuf
    IN  ~s.old /\ \A i \in 1 .. Len(q) :
          /\ q[i].part = 1 + ((i - 1) % 2)
          /\ i > 1 => IF i % 2 = 0 THEN q[i].msg = q[i - 1].msg ELSE q[i].msg > q[i - 1].msg

\* The connection exists or is being made.
Alive == s.conn \in {"pending", "up"}

\* No byte leaves the queue of a connection that lives unless it is written,
\* the limit apart: a write of DoContineSend that fails, whose unsigned result
\* empties the queue, happens only when the connection is lost.
KeptWhileAlive ==
  [][Alive /\ Alive' /\ s'.fd = s.fd /\ "overflow" \notin s'.hist =>
       LET q == s.wire \o s.sendbuf
       IN  Len(q) <= Len(q') /\ SubSeq(q', 1, Len(q)) = q]_vars

\* What is queued while a connection exists or is being made is written or
\* the connection fails: there is always an event to go on with.
QueueDrains ==
  s.sendbuf # <<>> /\ s.state # "kDisconnected"
    ~> s.sendbuf = <<>> \/ s.state = "kDisconnected"
=============================================================================
