---------------------------- MODULE BufferProofs ----------------------------
(***************************************************************************)
(* The byte buffer is a queue of bytes, for all bytes, sizes and chunks.   *)
(*                                                                         *)
(* The invariant is TypeOK alone: the indexes are in order and in range.   *)
(* Each operation then keeps it and changes Contents as the queue does;    *)
(* the lemmas say so for one operation each.                               *)
(***************************************************************************)
EXTENDS Buffer, SequenceTheorems, TLAPS

\* A function on 1 .. n is a sequence of length n.
LEMMA FunctionIsSeq ==
  ASSUME NEW S, NEW n \in Nat, NEW f \in [1 .. n -> S]
  PROVE  f \in Seq(S) /\ Len(f) = n
OBVIOUS

\* The unread bytes of a consistent buffer are a sequence of bytes.
LEMMA ContentsSeq ==
  ASSUME NEW b, BufOK(b)
  PROVE  /\ ReadableBytes(b) \in Nat
         /\ Contents(b) \in [1 .. ReadableBytes(b) -> Bytes]
         /\ Contents(b) \in Seq(Bytes)
         /\ Len(Contents(b)) = ReadableBytes(b)
<1>1. ReadableBytes(b) \in Nat
  BY DEF BufOK, ReadableBytes
<1>2. \A i \in 1 .. ReadableBytes(b) : b.mem[b.r + i] \in Bytes
  BY DEF BufOK, ReadableBytes
<1>3. Contents(b) \in [1 .. ReadableBytes(b) -> Bytes]
  BY <1>1, <1>2 DEF Contents
<1>. QED
  BY <1>1, <1>3, FunctionIsSeq

\* vector::resize keeps the first bytes and has the length asked for.
LEMMA ResizeSeq ==
  ASSUME NEW mem \in Seq(Bytes), NEW n \in Nat
  PROVE  /\ resize(mem, n) \in Seq(Bytes)
         /\ Len(resize(mem, n)) = n
         /\ \A i \in 1 .. n : i <= Len(mem) => resize(mem, n)[i] = mem[i]
<1>1. \A i \in 1 .. n : (IF i <= Len(mem) THEN mem[i] ELSE Zero) \in Bytes
  BY BytesAssumption
<1>2. resize(mem, n) \in [1 .. n -> Bytes]
  BY <1>1 DEF resize
<1>3. \A i \in 1 .. n : i <= Len(mem) => resize(mem, n)[i] = mem[i]
  BY DEF resize
<1>. QED
  BY <1>2, <1>3, FunctionIsSeq

\* Moving the unread bytes to the front keeps them and the size of the vector.
LEMMA CompactOK ==
  ASSUME NEW b, BufOK(b)
  PROVE  /\ BufOK(Compact(b))
         /\ Compact(b).r = 0 /\ Compact(b).w = ReadableBytes(b)
         /\ Len(Compact(b).mem) = Len(b.mem)
         /\ \A i \in 1 .. ReadableBytes(b) : Compact(b).mem[i] = b.mem[b.r + i]
<1>. DEFINE n == Len(b.mem)
            f == [i \in 1 .. n |-> IF i <= ReadableBytes(b) THEN b.mem[b.r + i] ELSE b.mem[i]]
<1>1. n \in Nat /\ ReadableBytes(b) \in Nat /\ ReadableBytes(b) <= n
  BY DEF BufOK, ReadableBytes
<1>2. \A i \in 1 .. n : (IF i <= ReadableBytes(b) THEN b.mem[b.r + i] ELSE b.mem[i]) \in Bytes
  BY DEF BufOK, ReadableBytes
<1>3. f \in [1 .. n -> Bytes]
  BY <1>2
<1>4. f \in Seq(Bytes) /\ Len(f) = n
  BY <1>1, <1>3, FunctionIsSeq
<1>5. Compact(b) = [mem |-> f, r |-> 0, w |-> ReadableBytes(b)]
  BY DEF Compact
<1>6. \A i \in 1 .. ReadableBytes(b) : f[i] = b.mem[b.r + i]
  BY <1>1
<1>. HIDE DEF f
<1>. QED
  BY <1>1, <1>4, <1>5, <1>6 DEF BufOK

\* Buffers whose unread bytes agree one by one have the same contents.
LEMMA SameContents ==
  ASSUME NEW b, NEW c, BufOK(b), BufOK(c), ReadableBytes(c) = ReadableBytes(b),
         \A i \in 1 .. ReadableBytes(b) : c.mem[c.r + i] = b.mem[b.r + i]
  PROVE  Contents(c) = Contents(b)
BY DEF Contents

\* Changing the size of a compacted buffer to no less than its unread bytes
\* keeps them.
LEMMA ResizeOK ==
  ASSUME NEW b, BufOK(b), NEW n \in Nat, ReadableBytes(b) <= n
  PROVE  LET c == [Compact(b) EXCEPT !.mem = resize(Compact(b).mem, n)]
         IN  /\ BufOK(c)
             /\ c.r = 0 /\ c.w = ReadableBytes(b) /\ Len(c.mem) = n
             /\ Contents(c) = Contents(b)
<1>. DEFINE a == Compact(b)
            c == [a EXCEPT !.mem = resize(a.mem, n)]
<1>1. /\ BufOK(a) /\ a.r = 0 /\ a.w = ReadableBytes(b)
      /\ \A i \in 1 .. ReadableBytes(b) : a.mem[i] = b.mem[b.r + i]
  BY CompactOK
<1>. HIDE DEF a
<1>2. /\ resize(a.mem, n) \in Seq(Bytes) /\ Len(resize(a.mem, n)) = n
      /\ \A i \in 1 .. n : i <= Len(a.mem) => resize(a.mem, n)[i] = a.mem[i]
  BY <1>1, ResizeSeq DEF BufOK
<1>3. c = [mem |-> resize(a.mem, n), r |-> 0, w |-> ReadableBytes(b)]
  BY <1>1 DEF BufOK
<1>4. ReadableBytes(b) \in Nat /\ ReadableBytes(b) <= Len(a.mem) /\ Len(a.mem) \in Nat
  BY <1>1, ContentsSeq DEF BufOK
<1>. HIDE DEF c
<1>5. BufOK(c) /\ c.r = 0 /\ c.w = ReadableBytes(b) /\ Len(c.mem) = n
  BY <1>2, <1>3, <1>4 DEF BufOK
<1>6. ReadableBytes(c) = ReadableBytes(b)
  BY <1>4, <1>5 DEF ReadableBytes
<1>7. \A i \in 1 .. ReadableBytes(b) : c.mem[c.r + i] = b.mem[b.r + i]
  <2>. TAKE i \in 1 .. ReadableBytes(b)
  <2>1. i \in 1 .. n /\ i <= Len(a.mem) /\ c.r + i = i
    BY <1>4, <1>5
  <2>2. c.mem = resize(a.mem, n)
    BY <1>3
  <2>. QED
    BY <1>1, <1>2, <2>1, <2>2
<1>8. Contents(c) = Contents(b)
  BY <1>5, <1>6, <1>7, SameContents
<1>. QED
  BY <1>5, <1>8 DEF c, a

\* MakeSpace keeps the unread bytes and leaves room for the length asked for.
LEMMA MakeSpaceOK ==
  ASSUME NEW b, BufOK(b), NEW len \in Nat
  PROVE  /\ BufOK(MakeSpace(b, len))
         /\ Contents(MakeSpace(b, len)) = Contents(b)
         /\ WritableBytes(MakeSpace(b, len)) >= len
<1>1. /\ BufOK(Compact(b))
      /\ Compact(b).r = 0 /\ Compact(b).w = ReadableBytes(b)
      /\ \A i \in 1 .. ReadableBytes(b) : Compact(b).mem[i] = b.mem[b.r + i]
  BY CompactOK
<1>2. ReadableBytes(b) \in Nat
  BY ContentsSeq
<1>3. CASE WritableBytes(Compact(b)) < len
  <2>1. ReadableBytes(b) + len \in Nat /\ ReadableBytes(b) <= ReadableBytes(b) + len
    BY <1>2
  <2>2. MakeSpace(b, len) = [Compact(b) EXCEPT !.mem = resize(Compact(b).mem, ReadableBytes(b) + len)]
    BY <1>1, <1>3 DEF MakeSpace
  <2>3. /\ BufOK(MakeSpace(b, len))
        /\ MakeSpace(b, len).w = ReadableBytes(b)
        /\ Len(MakeSpace(b, len).mem) = ReadableBytes(b) + len
        /\ Contents(MakeSpace(b, len)) = Contents(b)
    BY <2>1, <2>2, ResizeOK
  <2>. QED
    BY <1>2, <2>3 DEF WritableBytes
<1>4. CASE ~(WritableBytes(Compact(b)) < len)
  <2>1. MakeSpace(b, len) = Compact(b)
    BY <1>4 DEF MakeSpace
  <2>2. ReadableBytes(Compact(b)) = ReadableBytes(b)
    BY <1>1, <1>2 DEF ReadableBytes
  <2>3. \A i \in 1 .. ReadableBytes(b) : Compact(b).mem[Compact(b).r + i] = b.mem[b.r + i]
    BY <1>1, <1>2
  <2>4. Contents(Compact(b)) = Contents(b)
    BY <1>1, <2>2, <2>3, SameContents
  <2>5. WritableBytes(Compact(b)) \in Int
    BY <1>1 DEF WritableBytes, BufOK
  <2>. QED
    BY <1>1, <1>4, <2>1, <2>4, <2>5
<1>. QED
  BY <1>3, <1>4

\* EnsureWritableBytes keeps the unread bytes and leaves room.
LEMMA EnsureOK ==
  ASSUME NEW b, BufOK(b), NEW len \in Nat
  PROVE  /\ BufOK(EnsureWritableBytes(b, len))
         /\ Contents(EnsureWritableBytes(b, len)) = Contents(b)
         /\ WritableBytes(EnsureWritableBytes(b, len)) >= len
<1>1. CASE WritableBytes(b) < len
  BY <1>1, MakeSpaceOK DEF EnsureWritableBytes
<1>2. CASE ~(WritableBytes(b) < len)
  <2>1. WritableBytes(b) \in Int
    BY DEF WritableBytes, BufOK
  <2>. QED
    BY <1>2, <2>1 DEF EnsureWritableBytes
<1>. QED
  BY <1>1, <1>2

\* Copying data behind the unread bytes, where there is room for it, and moving
\* the write index over it puts the data at the end of the queue.
LEMMA WriteOK ==
  ASSUME NEW b, BufOK(b), NEW d \in Seq(Bytes), Len(d) <= WritableBytes(b)
  PROVE  LET c == [CopyToWrite(b, d) EXCEPT !.w = @ + Len(d)]
         IN  BufOK(c) /\ Contents(c) = Contents(b) \o d
<1>. DEFINE n == Len(b.mem)
            f == [i \in 1 .. n |-> IF b.w < i /\ i <= b.w + Len(d) THEN d[i - b.w] ELSE b.mem[i]]
            c == [CopyToWrite(b, d) EXCEPT !.w = @ + Len(d)]
<1>1. /\ n \in Nat /\ b.w \in Nat /\ b.r \in Nat /\ Len(d) \in Nat
      /\ b.r <= b.w /\ b.w + Len(d) <= n
  BY DEF BufOK, WritableBytes
<1>2. \A i \in 1 .. n : (IF b.w < i /\ i <= b.w + Len(d) THEN d[i - b.w] ELSE b.mem[i]) \in Bytes
  BY <1>1 DEF BufOK
<1>3. f \in [1 .. n -> Bytes]
  BY <1>2
<1>4. f \in Seq(Bytes) /\ Len(f) = n
  BY <1>1, <1>3, FunctionIsSeq
<1>5. c = [mem |-> f, r |-> b.r, w |-> b.w + Len(d)]
  <2>1. CopyToWrite(b, d) = [b EXCEPT !.mem = f]
    BY DEF CopyToWrite
  <2>. HIDE DEF f
  <2>2. CopyToWrite(b, d) = [mem |-> f, r |-> b.r, w |-> b.w]
    BY <2>1 DEF BufOK
  <2>. QED
    BY <2>2
<1>6. \A i \in 1 .. n : f[i] = IF b.w < i /\ i <= b.w + Len(d) THEN d[i - b.w] ELSE b.mem[i]
  OBVIOUS
<1>. HIDE DEF f, c
<1>7. BufOK(c)
  BY <1>1, <1>4, <1>5 DEF BufOK
<1>8. /\ c.mem = f /\ c.r = b.r /\ ReadableBytes(b) = b.w - b.r
      /\ ReadableBytes(c) = ReadableBytes(b) + Len(d)
  BY <1>1, <1>5 DEF ReadableBytes
<1>9. /\ Contents(b) \o d \in Seq(Bytes)
      /\ Len(Contents(b) \o d) = ReadableBytes(c)
      /\ \A i \in 1 .. ReadableBytes(c) : (Contents(b) \o d)[i] =
            IF i <= ReadableBytes(b) THEN Contents(b)[i] ELSE d[i - ReadableBytes(b)]
  <2>. DEFINE q == Contents(b)
  <2>1. q \in Seq(Bytes) /\ Len(q) = ReadableBytes(b)
    BY ContentsSeq
  <2>. HIDE DEF q
  <2>2. /\ q \o d \in Seq(Bytes)
        /\ Len(q \o d) = Len(q) + Len(d)
        /\ \A i \in 1 .. Len(q) + Len(d) : (q \o d)[i] =
              IF i <= Len(q) THEN q[i] ELSE d[i - Len(q)]
    BY <2>1, ConcatProperties, ZenonT(30)
  <2>. QED
    BY <1>8, <2>1, <2>2 DEF q
<1>10. \A i \in 1 .. ReadableBytes(c) : Contents(c)[i] = (Contents(b) \o d)[i]
  <2>. SUFFICES ASSUME NEW i \in 1 .. ReadableBytes(c)
                PROVE  Contents(c)[i] = (Contents(b) \o d)[i]
    BY ZenonT(30)
  <2>1. Contents(c)[i] = f[b.r + i]
    BY <1>8 DEF Contents
  <2>2. b.r + i \in 1 .. n
    BY <1>1, <1>8, SMTT(30)
  <2>3. CASE i <= ReadableBytes(b)
    <3>. DEFINE j == b.r + i
    <3>0. j \in Int /\ ~(b.w < j)
      BY <1>1, <1>8, <2>3
    <3>1. f[b.r + i] = b.mem[b.r + i]
      <4>. HIDE DEF j
      <4>1. f[j] = b.mem[j]
        BY <1>6, <2>2, <3>0 DEF j
      <4>. QED
        BY <4>1 DEF j
    <3>2. Contents(b)[i] = b.mem[b.r + i]
      BY <1>1, <1>8, <2>3 DEF Contents
    <3>. QED
      BY <1>9, <2>1, <2>3, <3>1, <3>2
  <2>4. CASE ~(i <= ReadableBytes(b))
    <3>0. b.w < b.r + i /\ b.r + i <= b.w + Len(d)
      BY <1>1, <1>8, <2>4
    <3>1. f[b.r + i] = d[(b.r + i) - b.w]
      BY <1>6, <2>2, <3>0
    <3>2. (b.r + i) - b.w = i - ReadableBytes(b)
      BY <1>1, <1>8
    <3>. QED
      BY <1>9, <2>1, <2>4, <3>1, <3>2
  <2>. QED
    BY <2>3, <2>4, ZenonT(30)
<1>11. Contents(c) \in Seq(Bytes) /\ Len(Contents(c)) = ReadableBytes(c)
  BY <1>7, ContentsSeq
<1>12. Contents(c) = Contents(b) \o d
  BY <1>9, <1>10, <1>11, SeqEqual
<1>. QED
  BY <1>7, <1>12, ZenonT(30) DEF c

\* Append puts the data at the end of the queue, whatever room there was.
LEMMA AppendOK ==
  ASSUME NEW b, BufOK(b), NEW d \in Seq(Bytes)
  PROVE  BufOK(AppendData(b, d)) /\ Contents(AppendData(b, d)) = Contents(b) \o d
<1>. DEFINE e == EnsureWritableBytes(b, Len(d))
<1>1. Len(d) \in Nat
  OBVIOUS
<1>2. BufOK(e) /\ Contents(e) = Contents(b) /\ WritableBytes(e) >= Len(d)
  BY <1>1, EnsureOK
<1>3. WritableBytes(e) \in Int
  BY <1>2 DEF BufOK, WritableBytes
<1>4. AppendData(b, d) = [CopyToWrite(e, d) EXCEPT !.w = @ + Len(d)]
  BY DEF AppendData
<1>. HIDE DEF e
<1>5. Len(d) <= WritableBytes(e)
  BY <1>1, <1>2, <1>3
<1>. QED
  BY <1>2, <1>4, <1>5, WriteOK, ZenonT(30)

\* Retrieve removes from the front as many bytes as asked for, or all, and says
\* how many.
LEMMA RetrieveOK ==
  ASSUME NEW b, BufOK(b), NEW len \in Nat
  PROVE  /\ BufOK(Retrieve(b, len))
         /\ Retrieved(b, len) = IF len < Len(Contents(b)) THEN len ELSE Len(Contents(b))
         /\ Contents(Retrieve(b, len)) =
              SubSeq(Contents(b), Retrieved(b, len) + 1, Len(Contents(b)))
<1>. DEFINE c == Retrieve(b, len)
            R == ReadableBytes(b)
<1>1. /\ R \in Nat /\ Contents(b) \in Seq(Bytes) /\ Len(Contents(b)) = R
      /\ b.r \in Nat /\ b.w \in Nat /\ R = b.w - b.r
  BY ContentsSeq DEF BufOK, ReadableBytes
<1>2. CASE len < R
  <2>1. c = [mem |-> b.mem, r |-> b.r + len, w |-> b.w]
    BY <1>2 DEF Retrieve, BufOK
  <2>. HIDE DEF c
  <2>2. BufOK(c)
    BY <1>1, <1>2, <2>1 DEF BufOK
  <2>3. ReadableBytes(c) = R - len
    BY <1>1, <2>1 DEF ReadableBytes
  <2>. DEFINE q == SubSeq(Contents(b), len + 1, R)
  <2>4. \A i \in (len + 1) .. R : Contents(b)[i] \in Bytes
    BY <1>1, ContentsSeq
  <2>5. /\ q \in Seq(Bytes) /\ Len(q) = R - len
        /\ \A i \in 1 .. (R - len) : q[i] = Contents(b)[len + i]
    <3>1. len + 1 \in Int /\ R \in Int
      BY <1>1
    <3>2. /\ q \in Seq(Bytes)
          /\ Len(q) = IF len + 1 <= R THEN R - (len + 1) + 1 ELSE 0
          /\ \A i \in 1 .. (R - (len + 1) + 1) : q[i] = Contents(b)[(len + 1) + i - 1]
      BY <2>4, <3>1, SubSeqProperties
    <3>3. R - (len + 1) + 1 = R - len /\ \A i \in 1 .. (R - len) : (len + 1) + i - 1 = len + i
      BY <1>1
    <3>. QED
      BY <1>1, <1>2, <3>2, <3>3
  <2>6. \A i \in 1 .. (R - len) : Contents(c)[i] = q[i]
    <3>. SUFFICES ASSUME NEW i \in 1 .. (R - len)
                  PROVE  Contents(c)[i] = q[i]
      BY ZenonT(30)
    <3>1. Contents(c)[i] = b.mem[(b.r + len) + i]
      BY <2>1, <2>3 DEF Contents
    <3>2. Contents(b)[len + i] = b.mem[b.r + (len + i)]
      BY <1>1, <1>2, SMTT(30) DEF Contents
    <3>3. (b.r + len) + i = b.r + (len + i)
      BY <1>1
    <3>4. q[i] = Contents(b)[len + i]
      BY <2>5
    <3>. HIDE DEF q
    <3>. QED
      BY <3>1, <3>2, <3>3, <3>4
  <2>7. Contents(c) \in Seq(Bytes) /\ Len(Contents(c)) = R - len
    BY <2>2, <2>3, ContentsSeq
  <2>8. Contents(c) = q
    BY <2>5, <2>6, <2>7, SeqEqual
  <2>. QED
    BY <1>1, <1>2, <2>2, <2>8 DEF c, Retrieved
<1>3. CASE ~(len < R)
  <2>1. c = [mem |-> b.mem, r |-> 0, w |-> 0]
    BY <1>3, ZenonT(30) DEF Retrieve, BufOK
  <2>. HIDE DEF c
  <2>2. BufOK(c) /\ ReadableBytes(c) = 0
    BY <2>1 DEF BufOK, ReadableBytes
  <2>3. Contents(c) = << >>
    BY <2>2, ContentsSeq, EmptySeq
  <2>4. SubSeq(Contents(b), R + 1, R) = << >>
    BY <1>1, SubSeqEmpty
  <2>. QED
    BY <1>1, <1>3, <2>2, <2>3, <2>4 DEF c, Retrieved
<1>. QED
  BY <1>2, <1>3

\* Shrink keeps the unread bytes.
LEMMA ShrinkOK ==
  ASSUME NEW b, BufOK(b), NEW len \in Nat
  PROVE  BufOK(Shrink(b, len)) /\ Contents(Shrink(b, len)) = Contents(b)
<1>1. ReadableBytes(b) \in Nat /\ Compact(b).w = ReadableBytes(b)
  BY ContentsSeq, CompactOK
<1>2. ReadableBytes(b) + len \in Nat /\ ReadableBytes(b) <= ReadableBytes(b) + len
  BY <1>1
<1>3. Shrink(b, len) = [Compact(b) EXCEPT !.mem = resize(Compact(b).mem, ReadableBytes(b) + len)]
  BY <1>1 DEF Shrink
<1>. QED
  BY <1>2, <1>3, ResizeOK

\* Data that fits is received: written at BeginWrite() and claimed with Writed.
LEMMA ReceiveOK ==
  ASSUME NEW b, BufOK(b), NEW d \in Seq(Bytes), Len(d) <= WritableBytes(b)
  PROVE  /\ BufOK(Writed(CopyToWrite(b, d), Len(d)))
         /\ Contents(Writed(CopyToWrite(b, d), Len(d))) = Contents(b) \o d
<1>1. WritableBytes(CopyToWrite(b, d)) = WritableBytes(b)
  <2>. DEFINE f == [i \in 1 .. Len(b.mem) |->
                      IF b.w < i /\ i <= b.w + Len(d) THEN d[i - b.w] ELSE b.mem[i]]
  <2>1. CopyToWrite(b, d) = [b EXCEPT !.mem = f]
    BY DEF CopyToWrite
  <2>2. Len(b.mem) \in Nat /\ DOMAIN f = 1 .. Len(b.mem)
    BY DEF BufOK
  <2>3. Len(f) = Len(b.mem)
    BY <2>2
  <2>. HIDE DEF f
  <2>. QED
    BY <2>1, <2>3 DEF WritableBytes, BufOK
<1>2. Len(d) \in Nat /\ WritableBytes(b) \in Int
  BY DEF BufOK, WritableBytes
<1>3. Writed(CopyToWrite(b, d), Len(d)) = [CopyToWrite(b, d) EXCEPT !.w = @ + Len(d)]
  BY <1>1, <1>2 DEF Writed
<1>. QED
  BY <1>3, WriteOK, ZenonT(30)

\* A step keeps the indexes in order and is a step of the queue, or none.
LEMMA StepOK ==
  ASSUME TypeOK, [Next]_vars
  PROVE  TypeOK' /\ [Queue!Next]_(Queue!vars)
<1>1. ASSUME NEW d \in Chunks, CallAppend(d) \/ Receive(d)
      PROVE  BufOK(buf') /\ Queue!Put(d)
  <2>1. d \in Seq(Bytes)
    BY ChunksAssumption
  <2>2. BufOK(buf') /\ Contents(buf') = Contents(buf) \o d
    BY <1>1, <2>1, AppendOK, ReceiveOK DEF CallAppend, Receive, TypeOK
  <2>3. call' = <<"put", d>>
    BY <1>1 DEF CallAppend, Receive
  <2>. QED
    BY <2>2, <2>3, ZenonT(30) DEF Queue!Put, Contents, ReadableBytes
<1>2. ASSUME NEW len \in Lens, CallRetrieve(len)
      PROVE  BufOK(buf') /\ Queue!Take(len)
  <2>1. len \in Nat
    BY LensAssumption
  <2>2. /\ BufOK(buf')
        /\ Retrieved(buf, len) = IF len < Len(Contents(buf)) THEN len ELSE Len(Contents(buf))
        /\ Contents(buf') = SubSeq(Contents(buf), Retrieved(buf, len) + 1, Len(Contents(buf)))
    BY <1>2, <2>1, RetrieveOK, ZenonT(30) DEF CallRetrieve, TypeOK
  <2>3. call' = <<"take", len, Retrieved(buf, len)>>
    BY <1>2 DEF CallRetrieve
  <2>. QED
    BY <2>2, <2>3, ZenonT(30) DEF Queue!Take, Contents, ReadableBytes
<1>3. ASSUME NEW len \in Lens, CallEnsure(len) \/ CallShrink(len)
      PROVE  BufOK(buf') /\ Queue!Room(len)
  <2>1. len \in Nat
    BY LensAssumption
  <2>2. BufOK(buf') /\ Contents(buf') = Contents(buf)
    BY <1>3, <2>1, EnsureOK, ShrinkOK DEF CallEnsure, CallShrink, TypeOK
  <2>3. call' = <<"room", len>>
    BY <1>3 DEF CallEnsure, CallShrink
  <2>. QED
    BY <2>2, <2>3, ZenonT(30) DEF Queue!Room, Contents, ReadableBytes
<1>4. CASE UNCHANGED vars
  BY <1>4 DEF vars, TypeOK, BufOK, Queue!vars, Contents, ReadableBytes
<1>5. CASE Next
  <2>1. BufOK(buf') /\ Queue!Next
    BY <1>1, <1>2, <1>3, <1>5, ZenonT(30) DEF Next, Queue!Next
  <2>. QED
    BY <2>1 DEF TypeOK, BufOK
<1>. QED
  BY <1>4, <1>5

\* A new buffer is consistent and empty.
LEMMA InitOK ==
  ASSUME Init
  PROVE  TypeOK /\ Queue!Init
<1>. DEFINE f == [i \in 1 .. InitSize |-> Zero]
<1>1. f \in [1 .. InitSize -> Bytes]
  BY BytesAssumption
<1>2. f \in Seq(Bytes) /\ Len(f) = InitSize
  BY <1>1, InitSizeAssumption, FunctionIsSeq
<1>3. buf = [mem |-> f, r |-> 0, w |-> 0]
  BY DEF Init, NewBuffer
<1>. HIDE DEF f
<1>4. BufOK(buf) /\ ReadableBytes(buf) = 0
  BY <1>2, <1>3, InitSizeAssumption DEF BufOK, ReadableBytes
<1>5. Contents(buf) = << >>
  BY <1>4, ContentsSeq, EmptySeq
<1>. QED
  BY <1>4, <1>5 DEF Init, TypeOK, Queue!Init

\* The read and write index of Buffer stay in order and within the vector,
\* through any sequence of Append, Retrieve, EnsureWritableBytes, Shrink, and
\* Writed as DoRecv calls it.
THEOREM BufferAlwaysOK == Spec => []TypeOK
<1>1. TypeOK /\ [Next]_vars => TypeOK'
  BY StepOK
<1>2. Init => TypeOK
  BY InitOK
<1>. QED
  BY <1>1, <1>2, PTL DEF Spec

\* Buffer implements a queue of bytes: whatever is moved or resized, the bytes
\* read are those written, in their order, Retrieve removes as many as it was
\* asked for or all there are and says so, and no other call removes any.
THEOREM BufferIsFifo == Spec => ImplementsFifo
<1>1. TypeOK /\ [Next]_vars => [Queue!Next]_(Queue!vars)
  BY StepOK
<1>2. Init => Queue!Init
  BY InitOK
<1>. QED
  BY <1>1, <1>2, BufferAlwaysOK, PTL DEF Spec, ImplementsFifo, Queue!Spec
=============================================================================
