------------------------------- MODULE Buffer -------------------------------
(***************************************************************************)
(* A byte buffer in use: bytes are appended, or written to BeginWrite()    *)
(* and then claimed with Writed, as TcpChannel::DoRecv does, and           *)
(* retrieved; room is made and given back in between.                      *)
(***************************************************************************)
EXTENDS BufferOps

CONSTANTS
  Chunks,     \* the pieces of data that arrive
  Lens,       \* lengths passed to EnsureWritableBytes, Shrink and Retrieve
  MaxQueue    \* bound: as many bytes at most are unread at a time

ASSUME ChunksAssumption == Chunks \subseteq Seq(Bytes)
ASSUME LensAssumption == Lens \subseteq Nat

VARIABLES
  buf,
  call        \* history: the last call, with its argument and its result

vars == <<buf, call>>

Init == buf = NewBuffer /\ call = << >>

HasRoom(d) == ReadableBytes(buf) + Len(d) <= MaxQueue

CallAppend(d) ==
  HasRoom(d) /\ buf' = AppendData(buf, d) /\ call' = <<"put", d>>

\* readv puts no more bytes into the buffer than are writable.
Receive(d) ==
  /\ HasRoom(d) /\ Len(d) <= WritableBytes(buf)
  /\ buf' = Writed(CopyToWrite(buf, d), Len(d)) /\ call' = <<"put", d>>

CallRetrieve(len) ==
  buf' = Retrieve(buf, len) /\ call' = <<"take", len, Retrieved(buf, len)>>

CallEnsure(len) == buf' = EnsureWritableBytes(buf, len) /\ call' = <<"room", len>>
CallShrink(len) == buf' = Shrink(buf, len) /\ call' = <<"room", len>>

Next ==
  \/ \E d \in Chunks : CallAppend(d) \/ Receive(d)
  \/ \E len \in Lens : CallRetrieve(len) \/ CallEnsure(len) \/ CallShrink(len)

Spec == Init /\ [][Next]_vars

-----------------------------------------------------------------------------

\* Type invariant: indexes stay in order and within the vector, so the unsigned
\* differences of ReadableBytes and WritableBytes are what they seem.
TypeOK == BufOK(buf)

\* The buffer is a queue of bytes: moving, growing and shrinking the vector
\* neither loses, repeats nor reorders unread bytes; Retrieve(len) removes len
\* bytes from the front, or all there are, and returns how many; no other call
\* removes any.
Queue == INSTANCE Fifo WITH queue <- Contents(buf)

ImplementsFifo == Queue!Spec
=============================================================================
