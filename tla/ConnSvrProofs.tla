---------------------------- MODULE ConnSvrProofs ---------------------------
(***************************************************************************)
(* The tables of the gateway stay consistent, for every number of records, *)
(* descriptors, backends and ids, and every width of an int.               *)
(*                                                                         *)
(* The handlers call each other with the tables as a value, so the         *)
(* invariant is a predicate of the tables, and the lemmas say for one      *)
(* function each that it keeps its parts.                                  *)
(***************************************************************************)
EXTENDS ConnSvr, SequenceTheorems, TLAPS

Recs == [connid : 0 .. MaxInt, fd : FDs \union {NoFD}, chan : 0 .. (NChannels - 1)]

Msgs == [to : {"backend", "client"}, ch : Int,
         cmd : {"start_req", "stop", "msg_ntf", "route"}, connid : Int, val : Int]

Tabs == [vec : [Idxs -> Recs], idxvec : Seq(Idxs),
         chmap : [FDs -> {NoChannel} \union 0 .. MaxInt], open : SUBSET FDs,
         out : Seq(Msgs), retired : SUBSET (0 .. MaxInt),
         wrapped : BOOLEAN, refused : BOOLEAN]

IdsMatch(t) == \A i \in Idxs : t.vec[i].connid % MaxConn = i

StackOK(t) ==
  /\ \A i \in Idxs : ~IsValid(t.vec[i]) <=> \E k \in 1 .. Len(t.idxvec) : t.idxvec[k] = i
  /\ \A k, l \in 1 .. Len(t.idxvec) : t.idxvec[k] = t.idxvec[l] => k = l

RecordsOK(t) == \A i \in Idxs : IsValid(t.vec[i]) => t.chmap[t.vec[i].fd] = t.vec[i].connid

\* Ids of a record only grow, up to the wrap that empties the set.
RetiredOK(t) == \A c \in t.retired : c < t.vec[c % MaxConn].connid

Core(t) == t \in Tabs /\ IdsMatch(t) /\ StackOK(t) /\ RecordsOK(t) /\ RetiredOK(t)

\* The id of a channel is that of a closed connection or of the channel's own.
Own(t) ==
  (~t.wrapped /\ ~t.refused) =>
    \A f \in FDs : t.chmap[f] # NoChannel =>
      LET r == t.vec[t.chmap[f] % MaxConn]
      IN  t.chmap[f] < r.connid \/ (t.chmap[f] = r.connid /\ r.fd = f)

OpenOK(t) == ~t.refused => t.open = {f \in FDs : t.chmap[f] # NoChannel}

Good(t) == Core(t) /\ Own(t) /\ OpenOK(t)

-----------------------------------------------------------------------------
(* Remainders *)

\* Euclidean division.
LEMMA DivMod ==
  ASSUME NEW x \in Nat, NEW c \in Nat, c > 0
  PROVE  \E d \in Nat : x = c * d + (x % c)
<1>1. x = c * (x \div c) + (x % c)
  BY SMT
<1>2. x \div c \in Nat
  BY SMT
<1> QED BY <1>1, <1>2, Zenon

\* Quotient and remainder are unique.
LEMMA DivUnique ==
  ASSUME NEW m \in Nat \ {0}, NEW a \in Nat, NEW b \in Nat,
         NEW s \in 0 .. (m - 1), NEW t \in 0 .. (m - 1), m * a + s = m * b + t
  PROVE  s = t
<1>1. ASSUME NEW x \in Nat, NEW y \in Nat, x < y
      PROVE  m * x + m <= m * y /\ m * x \in Nat /\ m * y \in Nat
  <2>1. m * (x + 1) <= m * y
    BY <1>1, SMT
  <2>2. m * (x + 1) = m * x + m /\ m * x \in Nat /\ m * y \in Nat
    BY SMT
  <2> QED BY <2>1, <2>2
<1>2. m * a \in Nat /\ m * b \in Nat
  BY SMT
<1>3. ~(a < b)
  <2> SUFFICES ASSUME a < b PROVE FALSE
    OBVIOUS
  <2>1. m * a + m <= m * b
    BY <1>1
  <2> QED BY <1>2, <2>1
<1>4. ~(b < a)
  <2> SUFFICES ASSUME b < a PROVE FALSE
    OBVIOUS
  <2>1. m * b + m <= m * a
    BY <1>1
  <2> QED BY <1>2, <2>1
<1>5. a = b
  BY <1>3, <1>4
<1> QED BY <1>2, <1>5

\* Adding the modulus keeps the remainder.
LEMMA AddMod ==
  ASSUME NEW m \in Nat \ {0}, NEW c \in Nat
  PROVE  (c + m) % m = c % m
<1>1. PICK d \in Nat : c = m * d + (c % m)
  <2>1. m \in Nat /\ m > 0
    OBVIOUS
  <2> QED BY <2>1, DivMod, Zenon
<1>2. c + m \in Nat /\ c % m \in 0 .. (m - 1)
  OBVIOUS
<1>3. ASSUME NEW x \in Nat, x = c + m
      PROVE  x % m = c % m
  <2>1. PICK e \in Nat : x = m * e + (x % m)
    <3>1. m \in Nat /\ m > 0
      OBVIOUS
    <3> QED BY <3>1, DivMod, Zenon
  <2>2. x % m \in 0 .. (m - 1)
    OBVIOUS
  <2>3. m * (d + 1) = m * d + m /\ m * d \in Nat /\ m * e \in Nat
    BY SMT
  <2>4. m * (d + 1) + (c % m) = m * e + (x % m)
    BY <1>1, <1>2, <1>3, <2>1, <2>2, <2>3
  <2>5. d + 1 \in Nat
    OBVIOUS
  <2> QED BY <1>2, <2>2, <2>4, <2>5, DivUnique, ZenonT(30)
<1> QED BY <1>2, <1>3

\* The next id of a record leads back to the record.
LEMMA NextConnidOK ==
  ASSUME NEW i \in Idxs, NEW c \in 0 .. MaxInt, c % MaxConn = i
  PROVE  NextConnid(i, c) \in 0 .. MaxInt /\ NextConnid(i, c) % MaxConn = i
<1> USE SizesAssumption DEF Idxs
<1>1. i % MaxConn = i /\ i <= MaxInt /\ i <= c
  OBVIOUS
<1>2. CASE c + MaxConn > MaxInt
  <2>1. NextConnid(i, c) = i
    BY <1>2 DEF NextConnid
  <2> QED BY <1>1, <2>1
<1>3. CASE ~(c + MaxConn > MaxInt)
  <2>1. NextConnid(i, c) = c + MaxConn
    BY <1>1, <1>3 DEF NextConnid
  <2>2. (c + MaxConn) % MaxConn = c % MaxConn
    <3>1. c \in Nat
      OBVIOUS
    <3> QED BY <3>1, AddMod, Zenon
  <2> QED BY <1>3, <2>1, <2>2
<1> QED BY <1>2, <1>3

-----------------------------------------------------------------------------
(* The functions on the tables *)

\* Parts of a record of tables, for the provers.
LEMMA TabsParts ==
  ASSUME NEW t \in Tabs
  PROVE  /\ t.vec \in [Idxs -> Recs] /\ t.idxvec \in Seq(Idxs)
         /\ t.chmap \in [FDs -> {NoChannel} \union 0 .. MaxInt] /\ t.open \in SUBSET FDs
         /\ t.out \in Seq(Msgs) /\ t.retired \in SUBSET (0 .. MaxInt)
         /\ t.wrapped \in BOOLEAN /\ t.refused \in BOOLEAN
BY DEF Tabs

\* An id leads to an index.
LEMMA IdxOfId ==
  ASSUME NEW c \in Int
  PROVE  c % MaxConn \in Idxs
BY SizesAssumption DEF Idxs

\* A send changes what was sent, and nothing else.
LEMMA SendMsgOK ==
  ASSUME NEW t \in Tabs, NEW ch \in Int, NEW c \in Int, NEW val \in Int,
         NEW cmd \in {"start_req", "stop", "msg_ntf", "route"}
  PROVE  LET u == SendMsg(t, ch, cmd, c, val)
         IN  /\ u \in Tabs
             /\ u.vec = t.vec /\ u.idxvec = t.idxvec /\ u.chmap = t.chmap
             /\ u.open = t.open /\ u.retired = t.retired
             /\ u.wrapped = t.wrapped /\ u.refused = t.refused
<1>1. ToBackend(ch, cmd, c, val) \in Msgs
  BY DEF ToBackend, Msgs
<1>2. Append(t.out, ToBackend(ch, cmd, c, val)) \in Seq(Msgs)
  BY <1>1, TabsParts, SMTT(30)
<1> QED BY <1>2, ZenonT(30) DEF SendMsg, Tabs

\* The parts of the invariant depend on the tables they name only.
LEMMA SameTables ==
  ASSUME NEW t, NEW u \in Tabs, u.vec = t.vec, u.idxvec = t.idxvec, u.chmap = t.chmap,
         u.retired = t.retired, u.wrapped = t.wrapped, u.refused = t.refused
  PROVE  /\ Core(t) => Core(u)
         /\ Own(t) => Own(u)
         /\ OpenOK(t) /\ u.open = t.open => OpenOK(u)
         /\ \A c : HasRecord(u, c) <=> HasRecord(t, c)
BY DEF Core, Own, OpenOK, HasRecord, IdsMatch, StackOK, RecordsOK, RetiredOK

\* What _CloseConn does to an id that has a record.
LEMMA CloseConnFields ==
  ASSUME NEW t, Core(t), NEW c \in Int, HasRecord(t, c)
  PROVE  LET u == CloseConn(t, c)
             i == c % MaxConn
             n == NextConnid(i, c)
         IN  /\ i \in Idxs /\ c \in 0 .. MaxInt /\ t.vec[i].connid = c
             /\ t.vec[i].fd \in FDs
             /\ n \in 0 .. MaxInt /\ n % MaxConn = i
             /\ u \in Tabs
             /\ u.vec = [t.vec EXCEPT ![i] = [connid |-> n, fd |-> NoFD, chan |-> 0]]
             /\ u.idxvec = Append(t.idxvec, i)
             /\ u.chmap = t.chmap /\ u.open = t.open /\ u.refused = t.refused
             /\ u.wrapped = (t.wrapped \/ n <= c)
             /\ u.retired = IF n <= c THEN {r \in t.retired : r % MaxConn # i}
                            ELSE t.retired \union {c}
<1> DEFINE i == c % MaxConn
           n == NextConnid(i, c)
           u == CloseConn(t, c)
<1>1. i \in Idxs
  BY IdxOfId
<1>2. t \in Tabs
  BY DEF Core
<1>3. t.vec[i] \in Recs
  BY <1>1, <1>2, TabsParts
<1>4. t.vec[i].connid = c /\ c \in 0 .. MaxInt /\ t.vec[i].fd \in FDs
  BY <1>3, FDsAssumption DEF HasRecord, IsValid, Recs, NoFD
<1>5. n \in 0 .. MaxInt /\ n % MaxConn = i
  BY <1>1, <1>4, NextConnidOK
<1>6. [connid |-> n, fd |-> NoFD, chan |-> 0] \in Recs
  BY <1>5, SizesAssumption DEF Recs
<1>7. Detatch(i, t.vec[i]) = [connid |-> n, fd |-> NoFD, chan |-> 0]
  BY <1>4 DEF Detatch
<1> DEFINE R == IF n <= c THEN {r \in t.retired : r % MaxConn # i} ELSE t.retired \union {c}
           W == (t.wrapped \/ n <= c)
           V == [t.vec EXCEPT ![i] = [connid |-> n, fd |-> NoFD, chan |-> 0]]
           Q == Append(t.idxvec, i)
<1>8. V \in [Idxs -> Recs] /\ Q \in Seq(Idxs) /\ R \in SUBSET (0 .. MaxInt) /\ W \in BOOLEAN
  BY <1>1, <1>2, <1>4, <1>6, TabsParts
<1>9. u = [t EXCEPT !.retired = R, !.wrapped = W, !.idxvec = Q, !.vec = V]
  <2>1. u = [Retire(t, i) EXCEPT !.idxvec = Append(@, i), !.vec[i] = Detatch(i, @)]
    BY DEF CloseConn
  <2>2. Retire(t, i) = [t EXCEPT !.retired = R, !.wrapped = W]
    BY <1>4, Zenon DEF Retire
  <2>3. Retire(t, i).idxvec = t.idxvec /\ Retire(t, i).vec = t.vec
    BY <1>2, <2>2, ZenonT(30) DEF Tabs
  <2> HIDE DEF R, W, i, n
  <2> QED BY <1>2, <1>7, <2>1, <2>2, <2>3, ZenonT(30) DEF Tabs
<1>10. u \in Tabs /\ u.retired = R /\ u.wrapped = W /\ u.idxvec = Q /\ u.vec = V
         /\ u.chmap = t.chmap /\ u.open = t.open /\ u.refused = t.refused
  <2> HIDE DEF R, W, V, Q, u
  <2> QED BY <1>2, <1>8, <1>9, ZenonT(30) DEF Tabs
<1> QED BY <1>1, <1>4, <1>5, <1>10, Zenon

\* _CloseConn keeps the invariant, and leaves no record with the id.
LEMMA CloseConnOK ==
  ASSUME NEW t, Core(t), NEW c \in Int
  PROVE  LET u == CloseConn(t, c)
         IN  /\ Core(u) /\ (Own(t) => Own(u))
             /\ u.chmap = t.chmap /\ u.open = t.open /\ u.refused = t.refused
             /\ \A j \in Idxs : IsValid(u.vec[j]) => u.vec[j] = t.vec[j] /\ t.vec[j].connid # c
<1> DEFINE u == CloseConn(t, c)
           i == c % MaxConn
           n == NextConnid(i, c)
<1>0. t \in Tabs
  BY DEF Core
<1>1. CASE ~HasRecord(t, c)
  <2>1. u = t
    BY <1>1 DEF CloseConn
  <2>2. \A j \in Idxs : IsValid(t.vec[j]) => t.vec[j].connid # c
    <3> SUFFICES ASSUME NEW j \in Idxs, IsValid(t.vec[j]), t.vec[j].connid = c PROVE FALSE
      OBVIOUS
    <3>1. c % MaxConn = j /\ t.vec[j] \in Recs
      BY <1>0, TabsParts DEF Core, IdsMatch
    <3>2. c >= 0
      BY <3>1 DEF Recs
    <3> QED BY <1>1, <3>1, <3>2 DEF HasRecord
  <2> QED BY <2>1, <2>2
<1>2. CASE HasRecord(t, c)
  <2>1. /\ i \in Idxs /\ c \in 0 .. MaxInt /\ t.vec[i].connid = c
        /\ t.vec[i].fd \in FDs
        /\ n \in 0 .. MaxInt /\ n % MaxConn = i
        /\ u \in Tabs
        /\ u.vec = [t.vec EXCEPT ![i] = [connid |-> n, fd |-> NoFD, chan |-> 0]]
        /\ u.idxvec = Append(t.idxvec, i)
        /\ u.chmap = t.chmap /\ u.open = t.open /\ u.refused = t.refused
        /\ u.wrapped = (t.wrapped \/ n <= c)
        /\ u.retired = IF n <= c THEN {r \in t.retired : r % MaxConn # i}
                       ELSE t.retired \union {c}
    BY <1>2, CloseConnFields, ZenonT(30)
  <2> HIDE DEF u, i, n
  <2>2. /\ u.vec[i] = [connid |-> n, fd |-> NoFD, chan |-> 0] /\ ~IsValid(u.vec[i])
        /\ \A j \in Idxs : j # i => u.vec[j] = t.vec[j]
        /\ u.vec[i].connid = n
    BY <1>0, <2>1, TabsParts DEF IsValid, NoFD
  <2>3. IdsMatch(u)
    BY <2>1, <2>2 DEF Core, IdsMatch
  <2>4. StackOK(u)
    <3>1. /\ Len(t.idxvec) \in Nat /\ Len(u.idxvec) = Len(t.idxvec) + 1
          /\ u.idxvec[Len(t.idxvec) + 1] = i
          /\ \A k \in 1 .. Len(t.idxvec) : u.idxvec[k] = t.idxvec[k]
      BY <1>0, <2>1, TabsParts
    <3>2. ~\E k \in 1 .. Len(t.idxvec) : t.idxvec[k] = i
      BY <1>2, <2>1 DEF Core, StackOK, HasRecord, i
    <3>3. \A j \in Idxs : ~IsValid(u.vec[j]) <=> \E k \in 1 .. Len(u.idxvec) : u.idxvec[k] = j
      <4> SUFFICES ASSUME NEW j \in Idxs
                   PROVE  ~IsValid(u.vec[j]) <=> \E k \in 1 .. Len(u.idxvec) : u.idxvec[k] = j
        OBVIOUS
      <4>1. CASE j = i
        BY <2>2, <3>1, <4>1
      <4>2. CASE j # i
        <5>1. ~IsValid(t.vec[j]) <=> \E k \in 1 .. Len(t.idxvec) : t.idxvec[k] = j
          BY DEF Core, StackOK
        <5>2. (\E k \in 1 .. Len(t.idxvec) : t.idxvec[k] = j)
                <=> \E k \in 1 .. Len(u.idxvec) : u.idxvec[k] = j
          BY <3>1, <4>2, SMTT(30)
        <5> QED BY <2>2, <4>2, <5>1, <5>2
      <4> QED BY <4>1, <4>2
    <3>4. \A k, l \in 1 .. Len(u.idxvec) : u.idxvec[k] = u.idxvec[l] => k = l
      <4> SUFFICES ASSUME NEW k \in 1 .. Len(u.idxvec), NEW l \in 1 .. Len(u.idxvec),
                          u.idxvec[k] = u.idxvec[l]
                   PROVE  k = l
        OBVIOUS
      <4>1. CASE k \in 1 .. Len(t.idxvec) /\ l \in 1 .. Len(t.idxvec)
        <5>1. t.idxvec[k] = t.idxvec[l]
          BY <3>1, <4>1, SMTT(30)
        <5> QED BY <4>1, <5>1 DEF Core, StackOK
      <4>2. CASE k = Len(t.idxvec) + 1 \/ l = Len(t.idxvec) + 1
        BY <3>1, <3>2, <4>2, SMTT(30)
      <4> QED BY <3>1, <4>1, <4>2
    <3> QED BY <3>3, <3>4 DEF StackOK
  <2>5. RecordsOK(u)
    BY <2>1, <2>2 DEF Core, RecordsOK
  <2>6. RetiredOK(u)
    <3> SUFFICES ASSUME NEW r \in u.retired PROVE r < u.vec[r % MaxConn].connid
      BY DEF RetiredOK
    <3>1. r \in Int
      BY <2>1, TabsParts
    <3>2. CASE r = c /\ ~(n <= c)
      BY <2>1, <2>2, <3>2 DEF i
    <3>3. CASE r \in t.retired
      <4>1. r < t.vec[r % MaxConn].connid /\ r % MaxConn \in Idxs
        BY <3>1, <3>3, IdxOfId DEF Core, RetiredOK
      <4>2. CASE r % MaxConn # i
        BY <2>2, <4>1, <4>2
      <4>3. CASE r % MaxConn = i
        BY <2>1, <2>2, <3>1, <4>1, <4>3, SMTT(30)
      <4> QED BY <4>2, <4>3
    <3> QED BY <2>1, <3>2, <3>3
  <2>7. ASSUME Own(t) PROVE Own(u)
    <3> SUFFICES ASSUME ~u.wrapped, ~u.refused, NEW f \in FDs, u.chmap[f] # NoChannel
                 PROVE  LET r == u.vec[u.chmap[f] % MaxConn]
                        IN  u.chmap[f] < r.connid \/ (u.chmap[f] = r.connid /\ r.fd = f)
      BY DEF Own
    <3> DEFINE m == t.chmap[f]
    <3>1. m \in 0 .. MaxInt /\ u.chmap[f] = m /\ ~t.wrapped /\ ~t.refused /\ n > c
      BY <1>0, <2>1, TabsParts, SMTT(30) DEF NoChannel
    <3>2. m % MaxConn \in Idxs
      BY <3>1, IdxOfId, SMTT(30)
    <3>3. m < t.vec[m % MaxConn].connid \/ (m = t.vec[m % MaxConn].connid /\ t.vec[m % MaxConn].fd = f)
      BY <2>1, <2>7, <3>1 DEF Own
    <3> HIDE DEF m
    <3>4. CASE m % MaxConn = i
      <4>1. t.vec[m % MaxConn].connid = c /\ u.vec[m % MaxConn].connid = n
        BY <2>1, <2>2, <3>4
      <4>2. m <= c
        BY <3>1, <3>3, <4>1
      <4>3. m < n
        BY <2>1, <3>1, <4>2
      <4> QED BY <3>1, <4>1, <4>3
    <3>5. CASE m % MaxConn # i
      BY <2>2, <3>1, <3>2, <3>3, <3>5
    <3> QED BY <3>4, <3>5, SMTT(30)
  <2>8. \A j \in Idxs : IsValid(u.vec[j]) => u.vec[j] = t.vec[j] /\ t.vec[j].connid # c
    BY <2>2 DEF Core, IdsMatch, i
  <2> QED BY <2>1, <2>3, <2>4, <2>5, <2>6, <2>7, <2>8 DEF Core, u
<1> QED BY <1>1, <1>2

\* HandleClose keeps the invariant; the channel and the descriptor are gone.
LEMMA HandleCloseOK ==
  ASSUME NEW t, Core(t), NEW f \in FDs
  PROVE  LET u == HandleClose(t, f)
         IN  /\ Core(u) /\ (Own(t) => Own(u)) /\ (OpenOK(t) => OpenOK(u))
             /\ u.chmap = [t.chmap EXCEPT ![f] = NoChannel]
             /\ u.open = t.open \ {f} /\ u.refused = t.refused
<1> DEFINE t0 == [t EXCEPT !.open = @ \ {f}]
           id == t0.chmap[f]
           t1 == IF HasRecord(t0, id) THEN SendMsg(t0, id, "stop", id, 0) ELSE t0
           t2 == CloseConn(t1, id)
           u  == HandleClose(t, f)
<1>1. u = [t2 EXCEPT !.chmap[f] = NoChannel]
  BY DEF HandleClose, OnCloseChannel
<1>2. /\ t0 \in Tabs /\ t0.vec = t.vec /\ t0.idxvec = t.idxvec /\ t0.chmap = t.chmap
      /\ t0.open = t.open \ {f} /\ t0.retired = t.retired
      /\ t0.wrapped = t.wrapped /\ t0.refused = t.refused
  BY ZenonT(30) DEF Core, Tabs
<1> HIDE DEF t0
<1>3. Core(t0) /\ (Own(t) => Own(t0))
  BY <1>2, SameTables
<1>4. id \in Int /\ id = t.chmap[f]
  BY <1>2, SizesAssumption, TabsParts, SMTT(30) DEF NoChannel
<1>5. /\ Core(t1) /\ (Own(t) => Own(t1))
      /\ t1.chmap = t.chmap /\ t1.open = t.open \ {f} /\ t1.refused = t.refused
  <2>1. CASE HasRecord(t0, id)
    <3> DEFINE v == SendMsg(t0, id, "stop", id, 0)
    <3>1. /\ v \in Tabs /\ v.vec = t0.vec /\ v.idxvec = t0.idxvec /\ v.chmap = t0.chmap
          /\ v.open = t0.open /\ v.retired = t0.retired
          /\ v.wrapped = t0.wrapped /\ v.refused = t0.refused
      BY <1>2, <1>4, SendMsgOK
    <3> HIDE DEF v
    <3>2. Core(v) /\ (Own(t0) => Own(v))
      BY <1>3, <3>1, SameTables
    <3>3. t1 = v
      BY <2>1 DEF v
    <3> QED BY <1>2, <1>3, <3>1, <3>2, <3>3
  <2>2. CASE ~HasRecord(t0, id)
    BY <1>2, <1>3, <2>2
  <2> QED BY <2>1, <2>2
<1> HIDE DEF t1, id
<1>6. /\ Core(t2) /\ (Own(t) => Own(t2))
      /\ t2.chmap = t.chmap /\ t2.open = t.open \ {f} /\ t2.refused = t.refused
      /\ \A j \in Idxs : IsValid(t2.vec[j]) => t2.vec[j] = t1.vec[j] /\ t1.vec[j].connid # id
  BY <1>4, <1>5, CloseConnOK
<1> HIDE DEF t2, u
<1>7. /\ u \in Tabs /\ u.vec = t2.vec /\ u.idxvec = t2.idxvec
      /\ u.chmap = [t.chmap EXCEPT ![f] = NoChannel]
      /\ u.open = t.open \ {f} /\ u.retired = t2.retired
      /\ u.wrapped = t2.wrapped /\ u.refused = t.refused
  BY <1>1, <1>6, ZenonT(30) DEF Core, Tabs
<1>8. t.chmap \in [FDs -> {NoChannel} \union 0 .. MaxInt]
  BY DEF Core, Tabs
<1>9. RecordsOK(u)
  <2> SUFFICES ASSUME NEW j \in Idxs, IsValid(u.vec[j])
               PROVE  u.chmap[u.vec[j].fd] = u.vec[j].connid
    BY SMTT(30) DEF RecordsOK
  <2>1. t2.chmap[t2.vec[j].fd] = t2.vec[j].connid
    BY <1>6, <1>7 DEF Core, RecordsOK
  <2>2. t2.vec[j].fd # f
    BY <1>4, <1>6, <1>7, <2>1
  <2>3. t2.vec[j].fd \in FDs
    BY <1>6, <1>7, TabsParts, SMTT(30) DEF Core, Recs, IsValid, NoFD
  <2> QED BY <1>6, <1>7, <1>8, <2>1, <2>2, <2>3
<1>10. Core(u)
  BY <1>6, <1>7, <1>9, SMTT(30) DEF Core, IdsMatch, StackOK, RetiredOK
<1>11. ASSUME Own(t) PROVE Own(u)
  BY <1>6, <1>7, <1>8, <1>11, SMTT(60) DEF Own
<1>12. ASSUME OpenOK(t) PROVE OpenOK(u)
  BY <1>7, <1>8, <1>12 DEF OpenOK
<1> QED BY <1>7, <1>10, <1>11, <1>12 DEF u

\* _CloseConn keeps all of the invariant.
LEMMA CloseConnGood ==
  ASSUME NEW t, Good(t), NEW c \in Int
  PROVE  Good(CloseConn(t, c))
<1> DEFINE u == CloseConn(t, c)
<1>1. Core(u) /\ Own(u) /\ u.chmap = t.chmap /\ u.open = t.open /\ u.refused = t.refused
  BY CloseConnOK DEF Good
<1> HIDE DEF u
<1>2. Good(u)
  BY <1>1 DEF Good, OpenOK
<1> QED BY <1>2 DEF u

\* A send keeps all of the invariant.
LEMMA SendMsgGood ==
  ASSUME NEW t, Good(t), NEW ch \in Int, NEW c \in Int, NEW val \in Int,
         NEW cmd \in {"start_req", "stop", "msg_ntf", "route"}
  PROVE  Good(SendMsg(t, ch, cmd, c, val))
<1> DEFINE u == SendMsg(t, ch, cmd, c, val)
<1>1. t \in Tabs
  BY DEF Good, Core
<1>2. /\ u \in Tabs
      /\ u.vec = t.vec /\ u.idxvec = t.idxvec /\ u.chmap = t.chmap
      /\ u.open = t.open /\ u.retired = t.retired
      /\ u.wrapped = t.wrapped /\ u.refused = t.refused
  BY <1>1, SendMsgOK
<1> HIDE DEF u
<1>3. Good(u)
  BY <1>2, SameTables DEF Good
<1> QED BY <1>3 DEF u

\* CloseConnid, which calls _CloseConn a second time, keeps all of it.
LEMMA CloseConnidGood ==
  ASSUME NEW t, Good(t), NEW c \in Int
  PROVE  Good(CloseConnid(t, c))
<1> DEFINE f == Record(t, c).fd
<1>1. CASE HasRecord(t, c) /\ t.chmap[f] # NoChannel
  <2>1. c % MaxConn \in Idxs /\ t.vec \in [Idxs -> Recs]
    BY IdxOfId, TabsParts DEF Good, Core
  <2>2. f \in FDs
    BY <1>1, <2>1 DEF HasRecord, Record, IsValid, Recs, NoFD
  <2>3. Good(HandleClose(t, f))
    BY <2>2, HandleCloseOK, ZenonT(30) DEF Good
  <2>4. Good(CloseConn(HandleClose(t, f), c))
    BY <2>3, CloseConnGood
  <2> QED BY <1>1, <2>4 DEF CloseConnid
<1>2. CASE ~(HasRecord(t, c) /\ t.chmap[f] # NoChannel)
  BY <1>2, CloseConnGood DEF CloseConnid
<1> QED BY <1>1, <1>2

\* Routing a connection keeps all of it.
LEMMA SetChannelidGood ==
  ASSUME NEW t, Good(t), NEW c \in Int, HasRecord(t, c), NEW ch \in 0 .. (NChannels - 1)
  PROVE  /\ Good(SetChannelid(t, c, ch))
         /\ Record(SetChannelid(t, c, ch), c).chan = ch
<1> DEFINE i == c % MaxConn
           V == [t.vec EXCEPT ![i].chan = ch]
           u == [t EXCEPT !.vec = V]
<1>1. i \in Idxs /\ t \in Tabs /\ t.vec \in [Idxs -> Recs]
  BY IdxOfId, TabsParts DEF Good, Core
<1> HIDE DEF i
<1>2. /\ V \in [Idxs -> Recs] /\ V[i].chan = ch
      /\ \A j \in Idxs : V[j].connid = t.vec[j].connid /\ V[j].fd = t.vec[j].fd
  BY <1>1 DEF Recs
<1> HIDE DEF V
<1>3. /\ u \in Tabs /\ u.vec = V /\ u.idxvec = t.idxvec /\ u.chmap = t.chmap
      /\ u.open = t.open /\ u.retired = t.retired
      /\ u.wrapped = t.wrapped /\ u.refused = t.refused
  BY <1>1, <1>2, ZenonT(30) DEF Tabs
<1> HIDE DEF u
<1>4. IdsMatch(u) /\ StackOK(u) /\ RecordsOK(u)
  BY <1>2, <1>3, SMTT(30) DEF Good, Core, IdsMatch, StackOK, RecordsOK, IsValid
<1>5. RetiredOK(u)
  <2> SUFFICES ASSUME NEW r \in u.retired PROVE r < u.vec[r % MaxConn].connid
    BY DEF RetiredOK
  <2>1. r % MaxConn \in Idxs
    BY <1>3, IdxOfId, TabsParts, SMTT(30)
  <2> QED BY <1>2, <1>3, <2>1 DEF Good, Core, RetiredOK
<1>6. Own(u)
  <2> SUFFICES ASSUME ~u.wrapped, ~u.refused, NEW f \in FDs, u.chmap[f] # NoChannel
               PROVE  LET r == u.vec[u.chmap[f] % MaxConn]
                      IN  u.chmap[f] < r.connid \/ (u.chmap[f] = r.connid /\ r.fd = f)
    BY DEF Own
  <2>1. u.chmap[f] % MaxConn \in Idxs
    BY <1>3, IdxOfId, TabsParts
  <2> QED BY <1>2, <1>3, <2>1, SMTT(30) DEF Good, Own
<1>7. OpenOK(u)
  BY <1>3 DEF Good, OpenOK
<1>8. SetChannelid(t, c, ch) = u
  BY <1>1 DEF SetChannelid, u, V, i
<1> QED BY <1>2, <1>3, <1>4, <1>5, <1>6, <1>7, <1>8, SMTT(30) DEF Good, Core, Record, i

\* _RecoredNewConn for a descriptor without a channel: the record on top of the
\* stack is taken, and its id given to the channel.
LEMMA NewConnGood ==
  ASSUME NEW t, Core(t), Own(t), NEW f \in FDs, t.chmap[f] = NoChannel, t.idxvec # <<>>
  PROVE  LET r == RecoredNewConn([t EXCEPT !.chmap[f] = 0], f)
             u == [r.tab EXCEPT !.chmap[f] = r.connid]
         IN  /\ r.connid \in 0 .. MaxInt
             /\ Core(u) /\ Own(u)
             /\ u.chmap = [t.chmap EXCEPT ![f] = r.connid]
             /\ u.open = t.open /\ u.refused = t.refused
<1> DEFINE t0 == [t EXCEPT !.chmap[f] = 0]
           n  == Len(t.idxvec)
           i  == t.idxvec[n]
           c  == t.vec[i].connid
           r  == RecoredNewConn(t0, f)
           u  == [r.tab EXCEPT !.chmap[f] = r.connid]
           V  == [t.vec EXCEPT ![i].fd = f]
           Q  == SubSeq(t.idxvec, 1, n - 1)
           C  == [t.chmap EXCEPT ![f] = c]
<1>1. /\ t \in Tabs /\ t.vec \in [Idxs -> Recs] /\ t.idxvec \in Seq(Idxs)
      /\ t.chmap \in [FDs -> {NoChannel} \union 0 .. MaxInt]
  BY TabsParts DEF Core
<1>2. n \in Nat \ {0} /\ i \in Idxs
  BY <1>1, SMTT(30)
<1>3. ~IsValid(t.vec[i])
  BY <1>2 DEF Core, StackOK
<1>4. c \in 0 .. MaxInt /\ t.vec[i] \in Recs /\ t.vec[i].fd = NoFD /\ c % MaxConn = i
  <2>1. t.vec[i] \in Recs
    BY <1>1, <1>2
  <2>2. c % MaxConn = i
    BY <1>2 DEF Core, IdsMatch
  <2> HIDE DEF i
  <2>3. c \in 0 .. MaxInt /\ t.vec[i].fd \in FDs \union {NoFD}
    BY <2>1, SMTT(30) DEF Recs
  <2>4. t.vec[i].fd = NoFD
    <3>1. \A x \in FDs : x > 0
      BY FDsAssumption
    <3> QED BY <1>3, <2>3, <3>1, Zenon DEF IsValid
  <2> QED BY <2>1, <2>2, <2>3, <2>4
<1>5. /\ Q \in Seq(Idxs) /\ Len(Q) = n - 1
      /\ \A k \in 1 .. (n - 1) : Q[k] = t.idxvec[k]
  BY <1>1, <1>2
<1>6. t0.vec = t.vec /\ t0.idxvec = t.idxvec
  BY <1>1 DEF Tabs
<1>7. r.connid = c /\ r.tab = [[t0 EXCEPT !.idxvec = Q] EXCEPT !.vec[i].fd = f]
  BY <1>3, <1>6 DEF RecoredNewConn
<1> HIDE DEF i, c, n, r
<1>8. /\ V \in [Idxs -> Recs] /\ V[i].fd = f /\ V[i].connid = c
      /\ \A j \in Idxs : V[j].connid = t.vec[j].connid
      /\ \A j \in Idxs : j # i => V[j] = t.vec[j]
  BY <1>1, <1>2, <1>4, ZenonT(30) DEF Recs, c
<1>9. C \in [FDs -> {NoChannel} \union 0 .. MaxInt] /\ C[f] = c
  BY <1>1, <1>4
<1>10. u = [t EXCEPT !.chmap = C, !.idxvec = Q, !.vec = V]
  <2> DEFINE C0 == [t.chmap EXCEPT ![f] = 0]
             t1 == [t0 EXCEPT !.idxvec = Q]
             t2 == [t1 EXCEPT !.vec[i].fd = f]
  <2> HIDE DEF Q
  <2>1. t1 = [t EXCEPT !.chmap = C0, !.idxvec = Q]
    BY <1>1 DEF Tabs
  <2>2. t2 = [t EXCEPT !.chmap = C0, !.idxvec = Q, !.vec = V]
    <3> HIDE DEF C0, t0
    <3> QED BY <1>1, <2>1, ZenonT(30) DEF Tabs
  <2>3. u = [t2 EXCEPT !.chmap[f] = c]
    BY <1>7
  <2>4. [C0 EXCEPT ![f] = c] = C
    BY <1>1
  <2> HIDE DEF C0, C, V, t2, u
  <2> QED BY <1>1, <2>2, <2>3, <2>4, ZenonT(30) DEF Tabs
<1> HIDE DEF V, C, Q, u
<1>11. /\ u \in Tabs /\ u.vec = V /\ u.idxvec = Q /\ u.chmap = C
       /\ u.open = t.open /\ u.retired = t.retired
       /\ u.wrapped = t.wrapped /\ u.refused = t.refused
  BY <1>1, <1>5, <1>8, <1>9, <1>10, ZenonT(30) DEF Tabs
<1>12. IdsMatch(u)
  BY <1>8, <1>11 DEF Core, IdsMatch
<1>13. StackOK(u)
  <2>1. \A k \in 1 .. (n - 1) : Q[k] # i
    BY <1>2, <1>5 DEF Core, StackOK, i, n
  <2>2. IsValid(V[i])
    BY <1>8, FDsAssumption DEF IsValid
  <2>3. ASSUME NEW j \in Idxs, j # i
        PROVE  ~IsValid(V[j]) <=> \E k \in 1 .. Len(Q) : Q[k] = j
    <3>1. ~IsValid(t.vec[j]) <=> \E k \in 1 .. n : t.idxvec[k] = j
      BY DEF Core, StackOK, n
    <3>2. (\E k \in 1 .. n : t.idxvec[k] = j) <=> \E k \in 1 .. (n - 1) : t.idxvec[k] = j
      <4>1. \A k \in 1 .. n : t.idxvec[k] = j => k \in 1 .. (n - 1)
        BY <1>2, <2>3 DEF i
      <4>2. \A k \in 1 .. (n - 1) : k \in 1 .. n
        BY <1>2
      <4> QED BY <4>1, <4>2, Zenon
    <3> QED BY <1>5, <1>8, <2>3, <3>1, <3>2
  <2>4. \A k, l \in 1 .. Len(Q) : Q[k] = Q[l] => k = l
    <3> SUFFICES ASSUME NEW k \in 1 .. Len(Q), NEW l \in 1 .. Len(Q), Q[k] = Q[l]
                 PROVE  k = l
      OBVIOUS
    <3>1. k \in 1 .. Len(t.idxvec) /\ l \in 1 .. Len(t.idxvec) /\ t.idxvec[k] = t.idxvec[l]
      BY <1>2, <1>5, SMTT(30) DEF n
    <3> QED BY <3>1 DEF Core, StackOK
  <2> QED BY <1>5, <1>11, <2>1, <2>2, <2>3, <2>4, SMTT(30) DEF StackOK
<1>14. RecordsOK(u)
  <2> SUFFICES ASSUME NEW j \in Idxs, IsValid(V[j]) PROVE C[V[j].fd] = V[j].connid
    BY <1>11 DEF RecordsOK
  <2>1. CASE j = i
    BY <1>8, <1>9, <2>1
  <2>2. CASE j # i
    <3>1. t.chmap[t.vec[j].fd] = t.vec[j].connid /\ V[j] = t.vec[j]
      BY <1>8, <2>2 DEF Core, RecordsOK
    <3>2. t.vec[j].fd \in FDs /\ t.vec[j].connid # NoChannel
      BY <1>1, <1>8, <2>2, SizesAssumption, SMTT(30) DEF Recs, IsValid, NoFD, NoChannel
    <3> QED BY <1>1, <3>1, <3>2 DEF C
  <2> QED BY <2>1, <2>2
<1>15. RetiredOK(u)
  <2> SUFFICES ASSUME NEW x \in u.retired PROVE x < u.vec[x % MaxConn].connid
    BY DEF RetiredOK
  <2>1. x % MaxConn \in Idxs
    BY <1>11, IdxOfId, TabsParts
  <2> QED BY <1>8, <1>11, <2>1 DEF Core, RetiredOK
<1>16. Own(u)
  <2> SUFFICES ASSUME ~u.wrapped, ~u.refused, NEW g \in FDs, C[g] # NoChannel
               PROVE  LET x == V[C[g] % MaxConn]
                      IN  C[g] < x.connid \/ (C[g] = x.connid /\ x.fd = g)
    BY <1>11 DEF Own
  <2>1. CASE g = f
    BY <1>4, <1>8, <1>9, <2>1, SMTT(30)
  <2>2. CASE g # f
    <3> DEFINE m == t.chmap[g]
    <3>1. C[g] = m /\ m \in 0 .. MaxInt
      BY <1>1, <2>2 DEF C, NoChannel
    <3>2. m % MaxConn \in Idxs
      BY <3>1, IdxOfId, SMTT(30)
    <3>3. m < t.vec[m % MaxConn].connid \/ (m = t.vec[m % MaxConn].connid /\ t.vec[m % MaxConn].fd = g)
      BY <1>11, <3>1, SMTT(30) DEF Own
    <3> HIDE DEF m
    <3>4. CASE m % MaxConn = i
      <4>1. t.vec[m % MaxConn].fd # g
        BY <1>4, <3>4, FDsAssumption DEF NoFD
      <4> QED BY <1>2, <1>8, <3>1, <3>3, <3>4, <4>1, SMTT(30)
    <3>5. CASE m % MaxConn # i
      BY <1>8, <3>1, <3>2, <3>3, <3>5, SMTT(30)
    <3> QED BY <3>4, <3>5
  <2> QED BY <2>1, <2>2, SMTT(30)
<1>17. Core(u)
  BY <1>11, <1>12, <1>13, <1>14, <1>15 DEF Core
<1> QED BY <1>4, <1>7, <1>11, <1>16, <1>17, Zenon DEF C, u, r

-----------------------------------------------------------------------------
(* The inductive invariant *)

\* All parts of the invariant, of the tables as they are.
IInv == Good(Tables)

\* A step that ends with good tables keeps the invariant.
LEMMA BecomesGood ==
  ASSUME NEW t, Good(t), Becomes(t)
  PROVE  IInv'
<1> DEFINE u == [vec |-> t.vec, idxvec |-> t.idxvec, chmap |-> t.chmap, open |-> t.open,
                 out |-> <<>>, retired |-> t.retired, wrapped |-> t.wrapped,
                 refused |-> t.refused]
<1>1. t \in Tabs
  BY DEF Good, Core
<1>2. <<>> \in Seq(Msgs)
  OBVIOUS
<1>3. u \in Tabs
  BY <1>1, <1>2 DEF Tabs
<1>4. /\ u.vec = t.vec /\ u.idxvec = t.idxvec /\ u.chmap = t.chmap /\ u.open = t.open
      /\ u.retired = t.retired /\ u.wrapped = t.wrapped /\ u.refused = t.refused
  OBVIOUS
<1>5. Tables' = u
  BY DEF Becomes, Tables
<1> HIDE DEF u
<1>6. Good(u)
  BY <1>3, <1>4, SameTables DEF Good
<1> QED BY <1>5, <1>6 DEF IInv

\* A step that changes no table keeps the invariant.
LEMMA UnchangedGood ==
  ASSUME IInv, UNCHANGED <<vec, idxvec, chmap, open, retired, wrapped, refused>>
  PROVE  IInv'
<1>1. Tables' = Tables
  BY DEF Tables
<1> QED BY <1>1 DEF IInv

\* The tables of the constructor.
LEMMA InitGood == Init => IInv
<1> SUFFICES ASSUME Init PROVE Good(Tables)
  BY DEF IInv
<1> USE SizesAssumption
<1>1. vec \in [Idxs -> Recs]
  BY DEF Init, Idxs, Recs
<1>2. idxvec \in Seq(Idxs) /\ Len(idxvec) = MaxConn /\ \A k \in 1 .. MaxConn : idxvec[k] = k - 1
  <2>1. idxvec = [k \in 1 .. MaxConn |-> k - 1]
    BY DEF Init
  <2>2. \A k \in 1 .. MaxConn : k - 1 \in Idxs
    BY DEF Idxs
  <2> QED BY <2>1, <2>2
<1>3. chmap \in [FDs -> {NoChannel} \union 0 .. MaxInt]
  BY DEF Init
<1>4. <<>> \in Seq(Msgs)
  OBVIOUS
<1>5. Tables \in Tabs
  BY <1>1, <1>2, <1>3, <1>4, ZenonT(30) DEF Tables, Tabs, Init
<1>6. /\ Tables.vec = vec /\ Tables.idxvec = idxvec /\ Tables.chmap = chmap
      /\ Tables.open = open /\ Tables.retired = retired
      /\ Tables.wrapped = wrapped /\ Tables.refused = refused
  BY DEF Tables
<1>7. IdsMatch(Tables)
  <2>1. ASSUME NEW i \in Idxs PROVE i % MaxConn = i
    BY DEF Idxs
  <2>2. \A i \in Idxs : vec[i].connid = i
    BY DEF Init
  <2> QED BY <1>6, <2>1, <2>2 DEF IdsMatch
<1>8. StackOK(Tables)
  <2>1. \A i \in Idxs : ~IsValid(vec[i]) /\ i + 1 \in 1 .. MaxConn /\ idxvec[i + 1] = i
    BY <1>2 DEF Init, IsValid, NoFD, Idxs
  <2> QED BY <1>2, <1>6, <2>1 DEF StackOK
<1>9. RecordsOK(Tables)
  BY <1>6 DEF RecordsOK, Init, IsValid, NoFD
<1>10. RetiredOK(Tables)
  BY <1>6 DEF RetiredOK, Init
<1>11. Own(Tables) /\ OpenOK(Tables)
  BY <1>6 DEF Own, OpenOK, Init
<1> QED BY <1>5, <1>7, <1>8, <1>9, <1>10, <1>11 DEF Good, Core

\* A client is accepted, refused, or its start request fails.
LEMMA NewChannelGood ==
  ASSUME IInv, NEW f \in FDs, NEW res \in SendResults, OnNewChannel(f, res)
  PROVE  IInv'
<1> DEFINE t  == Tables
           t0 == [t EXCEPT !.open = @ \union {f}]
           t1 == IF chmap[f] # NoChannel THEN HandleClose(t0, f) ELSE t0
           r  == RecoredNewConn([t1 EXCEPT !.chmap[f] = 0], f)
           t2 == [r.tab EXCEPT !.chmap[f] = r.connid]
           t3 == IF res = "failed" THEN t2
                 ELSE SendMsg(t2, 0, "start_req", r.connid, GetCurrConn(t2))
<1>1. /\ f \notin open
      /\ IF r.connid < 0 THEN Becomes([r.tab EXCEPT !.open = @ \ {f}, !.refused = TRUE])
         ELSE IF res = "ok" THEN Becomes(t3)
         ELSE Becomes(CloseConn(t3, r.connid))
  BY DEF OnNewChannel
<1>2. Good(t) /\ t.chmap = chmap /\ t.open = open
  BY DEF IInv, Tables
<1> HIDE DEF t
<1>3. /\ t0 \in Tabs /\ t0.vec = t.vec /\ t0.idxvec = t.idxvec /\ t0.chmap = t.chmap
      /\ t0.open = t.open \union {f} /\ t0.retired = t.retired
      /\ t0.wrapped = t.wrapped /\ t0.refused = t.refused
  BY <1>2, SMTT(30) DEF Good, Core, Tabs
<1> HIDE DEF t0
<1>4. Core(t0) /\ Own(t0)
  BY <1>2, <1>3, SameTables DEF Good
<1>5. /\ Core(t1) /\ Own(t1) /\ t1.chmap[f] = NoChannel
      /\ ~t1.refused => t1.open = {g \in FDs : t1.chmap[g] # NoChannel} \union {f}
  <2>1. CASE chmap[f] # NoChannel
    <3> DEFINE v == HandleClose(t0, f)
    <3>1. /\ Core(v) /\ Own(v) /\ v.chmap = [t0.chmap EXCEPT ![f] = NoChannel]
          /\ v.refused = t0.refused
      BY <1>4, HandleCloseOK, SMTT(30)
    <3>2. v.refused
      BY <1>1, <1>2, <1>3, <2>1, <3>1 DEF Good, OpenOK
    <3>3. v.chmap[f] = NoChannel
      BY <1>3, <3>1, TabsParts
    <3> HIDE DEF v
    <3>4. t1 = v
      BY <2>1 DEF v
    <3> QED BY <3>1, <3>2, <3>3, <3>4, ZenonT(30)
  <2>2. CASE chmap[f] = NoChannel
    BY <1>2, <1>3, <1>4, <2>2 DEF Good, OpenOK
  <2> QED BY <2>1, <2>2
<1> HIDE DEF t1
<1>6. CASE t1.idxvec = <<>>
  <2> DEFINE u == [r.tab EXCEPT !.open = @ \ {f}, !.refused = TRUE]
             C == [t1.chmap EXCEPT ![f] = 0]
  <2>1. t1 \in Tabs /\ C \in [FDs -> {NoChannel} \union 0 .. MaxInt]
    BY <1>5, TabsParts, SizesAssumption DEF Core
  <2>2. r.connid = -1 /\ r.tab = [t1 EXCEPT !.chmap = C]
    BY <1>6, <2>1 DEF RecoredNewConn, Tabs
  <2>3. Becomes(u)
    BY <1>1, <2>2
  <2> HIDE DEF C, r
  <2>4. /\ u \in Tabs /\ u.vec = t1.vec /\ u.idxvec = t1.idxvec /\ u.chmap = C
        /\ u.retired = t1.retired /\ u.refused
    BY <2>1, <2>2, ZenonT(30) DEF Tabs
  <2> HIDE DEF u
  <2>5. RecordsOK(u)
    <3> SUFFICES ASSUME NEW j \in Idxs, IsValid(t1.vec[j])
                 PROVE  C[t1.vec[j].fd] = t1.vec[j].connid
      BY <2>4, SMTT(30) DEF RecordsOK
    <3>1. t1.chmap[t1.vec[j].fd] = t1.vec[j].connid
      BY <1>5 DEF Core, RecordsOK
    <3>2. t1.vec[j].fd \in FDs /\ t1.vec[j].connid # NoChannel
      BY <2>1, TabsParts, SizesAssumption, SMTT(30) DEF Recs, IsValid, NoFD, NoChannel
    <3> QED BY <1>5, <2>1, <3>1, <3>2, TabsParts DEF C
  <2>6. Good(u)
    BY <1>5, <2>4, <2>5 DEF Good, Core, IdsMatch, StackOK, RetiredOK, Own, OpenOK
  <2> QED BY <2>3, <2>6, BecomesGood
<1>7. CASE t1.idxvec # <<>>
  <2>1. /\ r.connid \in 0 .. MaxInt /\ Core(t2) /\ Own(t2)
        /\ t2.chmap = [t1.chmap EXCEPT ![f] = r.connid]
        /\ t2.open = t1.open /\ t2.refused = t1.refused
    BY <1>5, <1>7, NewConnGood, SMTT(30)
  <2> HIDE DEF r, t2
  <2>2. OpenOK(t2)
    BY <1>5, <2>1, TabsParts DEF OpenOK, Core, NoChannel
  <2>3. Good(t2)
    BY <2>1, <2>2 DEF Good
  <2>4. GetCurrConn(t2) \in Int
    BY <2>1, TabsParts, SizesAssumption, SMTT(30) DEF GetCurrConn, Core
  <2>5. Good(t3)
    BY <2>1, <2>3, <2>4, SendMsgGood
  <2> HIDE DEF t3
  <2>6. Good(CloseConn(t3, r.connid))
    BY <2>1, <2>5, CloseConnGood
  <2>7. ~(r.connid < 0)
    BY <2>1
  <2> QED BY <1>1, <2>5, <2>6, <2>7, BecomesGood, Zenon
<1> QED BY <1>6, <1>7, SMTT(30)

\* Every message of a backend is handled with good tables, stale ids included.
LEMMA BackendGood ==
  ASSUME IInv, NEW c \in Ids,
         \/ \E a \in {0, 1}, r \in ChannelArgs : StartRspHandle(c, a, r)
         \/ StopHandle(c)
         \/ RouteHandle(c)
         \/ \E ch \in 0 .. (NChannels - 1) : MsgNtfHandle(c, ch)
  PROVE  IInv'
<1> DEFINE t == Tables
<1>1. Good(t) /\ t \in Tabs
  BY DEF IInv, Good, Core
<1>2. c \in Int /\ 0 \in 0 .. (NChannels - 1)
  BY IdsAssumption, SizesAssumption
<1>3. c % MaxConn \in Idxs
  BY <1>2, IdxOfId
<1>4. Record(t, c) \in Recs
  BY <1>1, <1>3, TabsParts DEF Record
<1>5. Record(t, c).chan \in Int
  BY <1>4, SizesAssumption DEF Recs
<1> HIDE DEF t
<1>6. Good(CloseConnid(t, c))
  BY <1>1, <1>2, CloseConnidGood
<1>7. Good(SendMsg(t, Record(t, c).chan, "stop", c, 0))
  BY <1>1, <1>2, <1>5, SendMsgGood
<1>8. Good(CloseConnid(SendMsg(t, Record(t, c).chan, "stop", c, 0), c))
  BY <1>2, <1>7, CloseConnidGood
<1>9. ASSUME NEW a \in {0, 1}, NEW r \in ChannelArgs, StartRspHandle(c, a, r)
      PROVE  IInv'
  <2>1. CASE ~HasRecord(t, c)
    BY <1>1, <1>9, <2>1, BecomesGood, Zenon DEF StartRspHandle, t
  <2>2. CASE HasRecord(t, c) /\ (a # 0 \/ ~IsChannelIdValid(r))
    BY <1>6, <1>9, <2>2, BecomesGood, Zenon DEF StartRspHandle, t
  <2>3. CASE HasRecord(t, c) /\ ~(a # 0 \/ ~IsChannelIdValid(r))
    <3>1. r \in 0 .. (NChannels - 1)
      BY <2>3, SizesAssumption DEF IsChannelIdValid, ChannelArgs
    <3>2. Good(SetChannelid(t, c, r))
      BY <1>1, <1>2, <2>3, <3>1, SetChannelidGood
    <3> QED BY <1>9, <2>3, <3>2, BecomesGood, Zenon DEF StartRspHandle, t
  <2> QED BY <2>1, <2>2, <2>3
<1>10. ASSUME StopHandle(c) PROVE IInv'
  BY <1>1, <1>8, <1>10, BecomesGood, Zenon DEF StopHandle, t
<1>11. ASSUME RouteHandle(c) PROVE IInv'
  <2> DEFINE u == SetChannelid(t, c, 0)
  <2>1. Becomes(IF ~HasRecord(t, c) THEN t
                ELSE SendMsg(u, Record(u, c).chan, "route", c, Record(u, c).chan))
    BY <1>11, Zenon DEF RouteHandle, t
  <2>2. CASE ~HasRecord(t, c)
    BY <1>1, <2>1, <2>2, BecomesGood, Zenon
  <2>3. CASE HasRecord(t, c)
    <3>1. Good(u) /\ Record(u, c).chan = 0
      BY <1>1, <1>2, <2>3, SetChannelidGood
    <3> HIDE DEF u
    <3>2. Good(SendMsg(u, Record(u, c).chan, "route", c, Record(u, c).chan))
      BY <1>2, <3>1, SendMsgGood
    <3> QED BY <2>1, <2>3, <3>2, BecomesGood, Zenon
  <2> QED BY <2>2, <2>3
<1>12. ASSUME NEW ch \in 0 .. (NChannels - 1), MsgNtfHandle(c, ch) PROVE IInv'
  <2> DEFINE rec == Record(t, c)
             u == [t EXCEPT !.out = <<ToClient(rec.fd, c)>>]
  <2>1. Becomes(IF ~HasRecord(t, c) THEN SendMsg(t, ch, "stop", c, 0)
                ELSE IF chmap[rec.fd] = NoChannel
                THEN CloseConnid(SendMsg(t, rec.chan, "stop", c, 0), c)
                ELSE u)
    BY <1>12, Zenon DEF MsgNtfHandle, t
  <2>2. Good(SendMsg(t, ch, "stop", c, 0))
    BY <1>1, <1>2, <1>12, SizesAssumption, SendMsgGood
  <2>3. CASE HasRecord(t, c)
    <3>1. rec.fd \in FDs \union {NoFD}
      BY <1>4 DEF Recs
    <3>2. <<ToClient(rec.fd, c)>> \in Seq(Msgs)
      <4> HIDE DEF rec
      <4>1. rec.fd \in Int
        <5>1. \A x \in FDs \union {NoFD} : x \in Int
          BY FDsAssumption DEF NoFD
        <5> QED BY <3>1, <5>1
      <4>2. ToClient(rec.fd, c) \in Msgs
        BY <1>2, <4>1 DEF ToClient, Msgs
      <4> QED BY <4>2
    <3> HIDE DEF rec
    <3>3. /\ u \in Tabs /\ u.vec = t.vec /\ u.idxvec = t.idxvec /\ u.chmap = t.chmap
          /\ u.open = t.open /\ u.retired = t.retired
          /\ u.wrapped = t.wrapped /\ u.refused = t.refused
      BY <1>1, <3>2, ZenonT(30) DEF Tabs
    <3> HIDE DEF u
    <3>4. Good(u)
      BY <1>1, <3>3, SameTables DEF Good
    <3> QED BY <1>8, <2>1, <2>3, <3>4, BecomesGood, Zenon DEF rec
  <2> QED BY <2>1, <2>2, <2>3, BecomesGood, Zenon
<1> QED BY <1>9, <1>10, <1>11, <1>12

\* Every step keeps the invariant.
LEMMA NextGood == IInv /\ [Next]_vars => IInv'
<1> SUFFICES ASSUME IInv, [Next]_vars PROVE IInv'
  OBVIOUS
<1>1. ASSUME NEW f \in FDs, NEW res \in SendResults, OnNewChannel(f, res) PROVE IInv'
  BY <1>1, NewChannelGood
<1>2. ASSUME NEW f \in FDs, HangUp(f) PROVE IInv'
  BY <1>2, UnchangedGood DEF HangUp
<1>3. ASSUME NEW f \in FDs, ClientClosed(f) PROVE IInv'
  <2>1. Good(HandleClose(Tables, f))
    BY HandleCloseOK, ZenonT(30) DEF IInv, Good
  <2> QED BY <1>3, <2>1, BecomesGood DEF ClientClosed
<1>4. ASSUME NEW f \in FDs, OnMsgRecv(f) PROVE IInv'
  <2> DEFINE id == chmap[f]
             u == SendMsg(Tables, Record(Tables, id).chan, "msg_ntf", id, 0)
  <2>1. Becomes(IF HasRecord(Tables, id) THEN u ELSE Tables)
    BY <1>4, Zenon DEF OnMsgRecv
  <2>2. Tables \in Tabs /\ Tables.chmap = chmap /\ Good(Tables)
    BY SMTT(30) DEF IInv, Good, Core, Tables
  <2>3. id \in Int
    BY <2>2, TabsParts DEF NoChannel
  <2>4. Record(Tables, id) \in Recs
    BY <2>2, <2>3, IdxOfId, TabsParts DEF Record
  <2>5. Record(Tables, id).chan \in Int
    BY <2>4, SizesAssumption DEF Recs
  <2>6. Good(u)
    BY <2>2, <2>3, <2>5, SendMsgGood
  <2> QED BY <2>1, <2>2, <2>6, BecomesGood, Zenon
<1>5. ASSUME BackendStep PROVE IInv'
  BY <1>5, BackendGood, Zenon DEF BackendStep
<1>6. ASSUME UNCHANGED vars PROVE IInv'
  BY <1>6, UnchangedGood DEF vars
<1> QED BY <1>1, <1>2, <1>3, <1>4, <1>5, <1>6, Zenon DEF Next, ClientStep

\* The tables are good in every reachable state.
THEOREM TablesStayGood == Spec => []IInv
<1> QED BY InitGood, NextGood, PTL DEF Spec

-----------------------------------------------------------------------------
(* The properties *)

\* No index of a connection record is lost or given out twice, however
\* connections end: _RecoredNewConn and _CloseConn keep m_idxvec and m_vec in step.
THEOREM FreeIndexesAreOK == Spec => []FreeIndexesOK
<1>1. IInv => FreeIndexesOK
  BY SMTT(30) DEF IInv, Good, Core, StackOK, IdsMatch, FreeIndexesOK, Tables
<1> QED BY <1>1, TablesStayGood, PTL

\* A record in use has a channel with its id: what MsgNtfHandle sends goes to
\* the client that the id was issued for.
THEOREM RecordsHaveChannels == Spec => []RecordHasChannel
<1>1. IInv => RecordHasChannel
  BY DEF IInv, Good, Core, RecordsOK, RecordHasChannel, Tables
<1> QED BY <1>1, TablesStayGood, PTL

\* GetConnectionRecord finds no record for the id of a closed connection, up to the
\* wrap of the ids of its record.
THEOREM RetiredIdsAreIgnored == Spec => []RetiredIdsIgnored
<1>1. IInv => RetiredIdsIgnored
  <2> SUFFICES ASSUME IInv, NEW c \in retired, HasRecord(Tables, c) PROVE FALSE
    BY SMTT(30) DEF RetiredIdsIgnored
  <2>1. Tables \in Tabs /\ Tables.retired = retired /\ RetiredOK(Tables)
    BY SMTT(30) DEF IInv, Good, Core, Tables
  <2>2. c \in Int /\ c < Tables.vec[c % MaxConn].connid
    BY <2>1, TabsParts DEF RetiredOK
  <2>3. Tables.vec[c % MaxConn].connid = c
    BY SMTT(30) DEF HasRecord
  <2> QED BY <2>2, <2>3
<1> QED BY <1>1, TablesStayGood, PTL

\* As long as ids have not wrapped and nobody was refused, the id of a ServerChannel
\* leads to the channel's own record or to none.
THEOREM ChannelsHaveOwnRecords == Spec => []ChannelHasOwnRecord
<1>1. IInv => ChannelHasOwnRecord
  <2> SUFFICES ASSUME IInv, ~wrapped, ~refused, NEW f \in FDs, chmap[f] # NoChannel,
                      HasRecord(Tables, chmap[f])
               PROVE  Record(Tables, chmap[f]).fd = f
    BY SMTT(30) DEF ChannelHasOwnRecord
  <2> DEFINE c == Tables.chmap[f]
             r == Tables.vec[c % MaxConn]
  <2>1. /\ Tables \in Tabs /\ Tables.chmap = chmap /\ Tables.wrapped = wrapped
        /\ Tables.refused = refused /\ Own(Tables)
    BY SMTT(30) DEF IInv, Good, Core, Tables
  <2>2. c < r.connid \/ (c = r.connid /\ r.fd = f)
    BY <2>1, SMTT(30) DEF Own
  <2>3. r.connid = c /\ c \in Int
    BY <2>1, TabsParts, SMTT(30) DEF HasRecord, NoChannel
  <2> HIDE DEF c
  <2>4. r.fd = f
    BY <2>2, <2>3, SMTT(30)
  <2> QED BY <2>1, <2>4 DEF Record, c
<1> QED BY <1>1, TablesStayGood, PTL

\* As long as nobody was refused, the open descriptors are those of m_ChannelMap.
THEOREM ChannelsAreTheOpen == Spec => []ChannelsAreOpen
<1>1. IInv => ChannelsAreOpen
  BY DEF IInv, Good, OpenOK, ChannelsAreOpen, Tables
<1> QED BY <1>1, TablesStayGood, PTL
=============================================================================
