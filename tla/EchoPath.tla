------------------------------ MODULE EchoPath ------------------------------
(***************************************************************************)
(* The way of a client's messages through the gateway to the test backend  *)
(* (connsvrtest), which echoes them, and back: three byte streams, each    *)
(* arriving in pieces of any size, and three loops that cut packets out.   *)
(*                                                                         *)
(* The streams themselves lose nothing (module TcpClient); one connection, *)
(* with one record, is modelled (module ConnSvr has many).  A round of a   *)
(* loop is a step; a process that is in a loop does nothing else, and what *)
(* the other process and the client do meanwhile they may as well do       *)
(* before or after it, so one loop runs at a time.                         *)
(*                                                                         *)
(* connsvr.proto and connsvr.conf say that the length of a client's        *)
(* message begins at byte msglenpos; the gateway reads it at byte 0 and    *)
(* only waits for more than msglenpos bytes.  There are clients of both    *)
(* kinds here, and it is recorded when the gateway misreads a length.      *)
(***************************************************************************)
EXTENDS FramingOps

CONSTANTS
  Payloads,   \* what follows the length in a client's message
  Positions,  \* configured values of msglenpos
  Fields,     \* bytes of what a message has in front of its length
  MaxMsgs     \* bound on the messages of the client

ASSUME PathAssumption ==
  /\ Payloads \subseteq Seq(Bytes) /\ Fields \subseteq Bytes
  /\ Positions \subseteq Nat /\ MaxMsgs \in Nat

VARIABLES
  pos,      \* msglenpos
  at,       \* where the length begins in the client's messages
  wire,     \* what is under way on each stream
  rbuf,     \* m_RecvBuf at the end of each stream
  busy,     \* the stream whose loop is running, or None
  open,     \* the client has not hung up
  rec,      \* the connection has a record
  sent,     \* the messages the client has sent
  echoed,   \* the messages passed to the client
  misread   \* history: a packet was taken whose length had not all arrived, or
            \* was elsewhere

vars == <<pos, at, wire, rbuf, busy, open, rec, sent, echoed, misread>>

\* From the client to the gateway, to the backend, and from there to the gateway.
Streams == {"client", "up", "down"}

None == "none"

\* A client's message: what is in front of the length, the length, and the rest.
Frame(f, p) == f \o Digits(at + HeadSize + Len(p)) \o p

\* OnNewChannel has sent the start request.
Init ==
  /\ pos \in Positions /\ at \in {0, pos}
  /\ wire = [l \in Streams |-> IF l = "up" THEN Pack(Msg(start_req, <<>>)) ELSE <<>>]
  /\ rbuf = [l \in Streams |-> NewBuffer]
  /\ busy = None
  /\ open = TRUE /\ rec = TRUE
  /\ sent = <<>> /\ echoed = <<>>
  /\ misread = FALSE

ClientSends(p) ==
  /\ busy = None /\ open /\ Len(sent) < MaxMsgs
  /\ \E f \in [1 .. at -> Fields] :
       /\ sent' = Append(sent, Frame(f, p))
       /\ wire' = [wire EXCEPT !["client"] = @ \o Frame(f, p)]
  /\ UNCHANGED <<pos, at, rbuf, busy, open, rec, echoed, misread>>

ClientHangsUp ==
  /\ busy = None /\ open
  /\ open' = FALSE
  /\ UNCHANGED <<pos, at, wire, rbuf, busy, rec, sent, echoed, misread>>

\* The end of the client's stream is read: OnCloseChannel.  The stop goes to the
\* channel that has the connection's id for its number: this backend's, or
\* another's, or there is none.
OnCloseChannel ==
  /\ busy = None /\ ~open /\ rec /\ wire["client"] = <<>>
  /\ rec' = FALSE
  /\ \E out \in {<<>>, Pack(Msg(stop, <<>>))} : wire' = [wire EXCEPT !["up"] = @ \o out]
  /\ UNCHANGED <<pos, at, rbuf, busy, open, sent, echoed, misread>>

\* DoRecv reads the next n bytes of stream l and calls the loop.
Arrive(l, n) ==
  /\ ~misread /\ busy = None /\ n \in 1 .. Len(wire[l])
  /\ rbuf' = [rbuf EXCEPT ![l] = Received(@, SubSeq(wire[l], 1, n))]
  /\ wire' = [wire EXCEPT ![l] = SubSeq(@, n + 1, Len(@))]
  /\ busy' = l
  /\ UNCHANGED <<pos, at, open, rec, sent, echoed, misread>>

\* A round of the loop at the end of stream l, which may send out on stream to.
\* What becomes of a stream after a packet was cut off in the wrong place depends
\* on the bytes that happen to be in memory and is not followed.
Round(l, round, to, out) ==
  /\ ~misread /\ busy = l
  /\ rbuf' = [rbuf EXCEPT ![l] = IF round.taken THEN Retrieve(@, round.n) ELSE @]
  /\ busy' = IF round.taken THEN busy ELSE None
  /\ wire' = [wire EXCEPT ![to] = IF round.taken THEN @ \o out ELSE @]
  /\ misread' = (round.taken /\ (\/ ReadableBytes(rbuf[l]) < HeadSize
                                 \/ l = "client" /\ at # 0))
  /\ UNCHANGED <<pos, at, open, sent>>

\* The gateway wraps a client's message and sends it to the backend.
ClientLoop ==
  /\ \E len \in LengthsAt(rbuf["client"]) :
       LET round == OnMsgRecv(rbuf["client"], pos, len)
       IN  Round("client", round, "up", Pack(Msg(msg_ntf, round.data)))
  /\ UNCHANGED <<rec, echoed>>

\* The backend's handlers: StartRspHandle, MsgNtfHandle; the others do nothing.
BackendAnswer(m) ==
  CASE m.cmd = start_req -> Pack(Msg(start_rsp, <<>>))
    [] m.cmd = msg_ntf   -> Pack(m)
    [] OTHER             -> <<>>

BackendLoop ==
  /\ \E len \in LengthsAt(rbuf["up"]) :
       LET round == UnPack(rbuf["up"], len)
       IN  Round("up", round, "down", IF round.taken THEN BackendAnswer(Parse(round.data)) ELSE <<>>)
  /\ UNCHANGED <<rec, echoed>>

\* The gateway's handlers.  Without a record a message is answered by a stop.
GatewayLoop ==
  /\ \E len \in LengthsAt(rbuf["down"]) :
       LET round == UnPack(rbuf["down"], len)
           ntf == round.taken /\ Parse(round.data).cmd = msg_ntf
       IN  /\ Round("down", round, "up", IF ntf /\ ~rec THEN Pack(Msg(stop, <<>>)) ELSE <<>>)
           /\ echoed' = IF ntf /\ rec THEN Append(echoed, Parse(round.data).buff) ELSE echoed
  /\ UNCHANGED rec

Next ==
  \/ \E p \in Payloads : ClientSends(p)
  \/ ClientHangsUp \/ OnCloseChannel
  \/ \E l \in Streams : \E n \in 1 .. Len(wire[l]) : Arrive(l, n)
  \/ ClientLoop \/ BackendLoop \/ GatewayLoop

Spec == Init /\ [][Next]_vars

-----------------------------------------------------------------------------
(* Properties *)

\* What the client gets back is what it sent: whole messages, each once and in
\* order, however the three streams are cut into pieces (packets of several
\* reads, several packets in a read, pieces of a length), unless a loop has
\* misread a length: one that had not all arrived, bytes left of earlier packets
\* making up for the rest, or one of a client that writes it at byte
\* msglenpos, as connsvr.proto says, and not at byte 0.
EchoesWhole == ~misread => IsPrefix(echoed, sent)

\* When everything that was sent has arrived and the loops are done, every message
\* has been echoed: the loops leave no complete packet in a buffer to
\* wait for an event that does not come.  The exceptions are a message no longer
\* than msglenpos at the end of the stream, and clients whose messages do not
\* begin with their length: the gateway takes other bytes for it, and may wait.
NothingLeft ==
  (busy = None /\ \A l \in Streams : wire[l] = <<>>) =>
    \/ echoed = sent \/ ~open
    \/ ReadableBytes(rbuf["client"]) \in 1 .. pos
    \/ at # 0
=============================================================================
