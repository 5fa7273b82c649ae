----------------------------- MODULE FramingOps -----------------------------
(***************************************************************************)
(* Packets in a byte stream: PbParser, and one round of each of the loops  *)
(* that cut packets off a receive buffer.  A packet starts with its length *)
(* in HeadSize bytes, the most significant first; the length includes      *)
(* these bytes.                                                            *)
(*                                                                         *)
(* The loops look at memory from Peek() on, without regard to how much of  *)
(* it has been received: there lie bytes of earlier packets (BufferOps has *)
(* the vector's contents), and behind the vector's end anything.           *)
(***************************************************************************)
EXTENDS BufferOps, SequencesExt

CONSTANTS
  Base,       \* the bytes are 0 .. Base - 1: 256 of them
  HeadSize    \* sizeof(uint32_t), and msglensize

ASSUME HeadAssumption == Base \in Nat /\ Base >= 5 /\ HeadSize \in Nat \ {0}

\* htonl and ntohl.
Digits(n) == [i \in 1 .. HeadSize |-> (n \div Base ^ (HeadSize - i)) % Base]
Number(d) == FoldLeft(LAMBDA v, x : v * Base + x, 0, d)

-----------------------------------------------------------------------------
(* Protocol buffers: a message is its command and the bytes it carries *)

start_req == 1
start_rsp == 2
stop == 3
msg_ntf == 4

Msg(cmd, buff) == [cmd |-> cmd, buff |-> buff]

\* SerializeToArray.
Serialize(m) == <<m.cmd>> \o m.buff

\* ParseFromArray succeeds: every message has a head.
Parses(d) == d # <<>> /\ d[1] \in start_req .. msg_ntf /\ (d[1] # msg_ntf => Len(d) = 1)
Parse(d) == Msg(d[1], Tail(d))

-----------------------------------------------------------------------------
(* PbParser *)

Pack(m) == Digits(HeadSize + Len(Serialize(m))) \o Serialize(m)

\* DoRecv: n bytes have been read, as many as fit into the buffer directly.
Received(b, d) ==
  LET n == WritableBytes(b)
  IN  IF Len(d) <= n THEN Writed(CopyToWrite(b, d), Len(d))
      ELSE AppendData(Writed(CopyToWrite(b, SubSeq(d, 1, n)), n), SubSeq(d, n + 1, Len(d)))

\* The n bytes from Peek() + skip on, as far as they lie within the vector.
Memory(b, skip, n) ==
  LET last == b.r + skip + n
  IN  SubSeq(b.mem, b.r + skip + 1, IF last <= Len(b.mem) THEN last ELSE Len(b.mem))

\* The HeadSize bytes at Peek(), read as a length.
LengthsAt(b) ==
  LET inside == Memory(b, 0, HeadSize)
  IN  {Number(inside \o behind) : behind \in [1 .. HeadSize - Len(inside) -> Bytes]}

\* A round of a loop: it takes n bytes off the buffer, after handling them, or stops.
Stop == [taken |-> FALSE, n |-> 0, data |-> <<>>]
Take(n, data) == [taken |-> TRUE, n |-> n, data |-> data]

\* Mutation: the length is compared as if it did not include itself.
UnPackShort(b, len) ==
  LET n == ReadableBytes(b)
      d == Memory(b, HeadSize, len - HeadSize)
  IN  IF n = 0 \/ (n >= HeadSize /\ len - 2 * HeadSize > n - HeadSize) THEN Stop
      ELSE IF len >= HeadSize /\ Len(d) = len - HeadSize /\ Parses(d) THEN Take(len, d) ELSE Stop

\* UnPack, when the length field reads len, in the loops of ConnClient::OnRecvMsg
\* and of the test backend.  With fewer than HeadSize bytes the unsigned difference
\* that is compared with wraps: no length is too large.  A length below HeadSize
\* wraps as well; nothing is parsed then, nor from behind the vector.
UnPack(b, len) ==
  LET n == ReadableBytes(b)
      d == Memory(b, HeadSize, len - HeadSize)
  IN  IF n = 0 \/ (n >= HeadSize /\ len - HeadSize > n - HeadSize) THEN Stop
      ELSE IF len >= HeadSize /\ Len(d) = len - HeadSize /\ Parses(d) THEN Take(len, d) ELSE Stop

\* Mutation: a message is not taken off the buffer before more arrives.
OnMsgRecvLazy(b, pos, len) ==
  LET n == ReadableBytes(b)
  IN  IF n = 0 \/ pos >= n \/ len >= n THEN Stop
      ELSE Take(len, Memory(b, 0, len))

\* EpollServer::OnMsgRecv of the gateway; pos is msglenpos.  The message goes on
\* with its length.
OnMsgRecv(b, pos, len) ==
  LET n == ReadableBytes(b)
  IN  IF n = 0 \/ pos >= n \/ len > n THEN Stop
      ELSE Take(len, Memory(b, 0, len))
=============================================================================
