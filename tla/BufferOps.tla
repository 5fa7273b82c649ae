----------------------------- MODULE BufferOps ------------------------------
(***************************************************************************)
(* The byte buffer of util/net: a vector of bytes with a read and a write  *)
(* index, as a record, and one operator per member function.  The unread   *)
(* bytes are those from the read index up to the write index.              *)
(*                                                                         *)
(* Indexes are 0-based as in the code: the byte at index i is mem[i + 1].  *)
(* They are size_t in the code; they never become negative as long as      *)
(* BufOK holds, so no wrap-around is modelled.                             *)
(***************************************************************************)
EXTENDS Integers, Sequences

CONSTANTS
  Bytes,      \* the values of a char
  InitSize    \* the size a buffer is constructed with

\* The value of bytes that vector::resize adds.
CONSTANT Zero

ASSUME BytesAssumption == Zero \in Bytes
ASSUME InitSizeAssumption == InitSize \in Nat

NewBuffer == [mem |-> [i \in 1 .. InitSize |-> Zero], r |-> 0, w |-> 0]

ReadableBytes(b) == b.w - b.r
WritableBytes(b) == Len(b.mem) - b.w

resize(mem, n) == [i \in 1 .. n |-> IF i <= Len(mem) THEN mem[i] ELSE Zero]

\* The unread bytes are moved to the front.
Compact(b) ==
  [ mem |-> [i \in 1 .. Len(b.mem) |-> IF i <= ReadableBytes(b) THEN b.mem[b.r + i]
                                       ELSE b.mem[i]],
    r   |-> 0,
    w   |-> ReadableBytes(b) ]

MakeSpace(b, len) ==
  LET c == Compact(b)
  IN  IF WritableBytes(c) < len THEN [c EXCEPT !.mem = resize(c.mem, c.w + len)] ELSE c

\* Mutation: everything is retrieved, whatever was asked for.
RetrieveAll(b, len) == [b EXCEPT !.r = 0, !.w = 0]

\* Retrieving everything makes the whole vector writable again.
Retrieve(b, len) ==
  IF len < ReadableBytes(b) THEN [b EXCEPT !.r = @ + len] ELSE [b EXCEPT !.r = 0, !.w = 0]

\* The result of Retrieve.
Retrieved(b, len) == IF len < ReadableBytes(b) THEN len ELSE ReadableBytes(b)

EnsureWritableBytes(b, len) == IF WritableBytes(b) < len THEN MakeSpace(b, len) ELSE b

\* std::copy of the data to BeginWrite().
CopyToWrite(b, d) ==
  [b EXCEPT !.mem = [i \in 1 .. Len(b.mem) |->
                       IF b.w < i /\ i <= b.w + Len(d) THEN d[i - b.w] ELSE b.mem[i]]]

\* Writed with len > WritableBytes() makes too little space: callers must not
\* claim more bytes than they could write.
Writed(b, len) ==
  LET c == IF WritableBytes(b) < len THEN MakeSpace(b, len - WritableBytes(b)) ELSE b
  IN  [c EXCEPT !.w = @ + len]

AppendData(b, d) ==
  LET c == CopyToWrite(EnsureWritableBytes(b, Len(d)), d)
  IN  [c EXCEPT !.w = @ + Len(d)]

Shrink(b, reserve) ==
  LET c == Compact(b)
  IN  [c EXCEPT !.mem = resize(c.mem, c.w + reserve)]

-----------------------------------------------------------------------------

\* The indexes are in order and in range: no difference of them is negative
\* and no byte outside the vector is touched.
BufOK(b) ==
  /\ b \in [mem : Seq(Bytes), r : Nat, w : Nat]
  /\ b.r <= b.w /\ b.w <= Len(b.mem)

\* The unread bytes, from Peek() on.
Contents(b) == [i \in 1 .. ReadableBytes(b) |-> b.mem[b.r + i]]
=============================================================================
