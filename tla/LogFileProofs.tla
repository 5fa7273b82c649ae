--------------------------- MODULE LogFileProofs ----------------------------
(***************************************************************************)
(* What the log files hold, for every roll size, number of files, length   *)
(* of a day, set of categories, levels and zones, and whatever fails.      *)
(*                                                                         *)
(* First the files of one log: its object f and its files d.  The          *)
(* predicates name the file L whose lines are the latest.  Then what the   *)
(* operations of LogOps do, that Close, CheckFileRoll, Write and           *)
(* InitLogFile keep the predicates, and that a roll empties no file but    *)
(* the oldest.  Last, the actions of LogFile keep LogOK for each category. *)
(***************************************************************************)
EXTENDS LogFile, TLAPS, WellFoundedInduction

Names == Nat \X Nat
Files == [lines : Seq(Nat), before : Nat, size : Nat, mtime : Nat]
Objects == [open : BOOLEAN, name : Names \cup {<<>>}, size : Nat, idx : Nat, time : Nat]

\* All lines of one file are older than all of the other.
Before(x, y) == \A k \in Lines(x), m \in Lines(y) : k < m

\* A file at time t, when n lines have been logged.
FileOK(x, t, n) ==
  x \in Files /\ x.mtime <= t /\ Lines(x) \subseteq 1 .. n

\* The files of a log; each holds one run of lines.
Kept(d, t, n) ==
  /\ DOMAIN d \subseteq Names
  /\ \A b \in DOMAIN d : b[2] < Count /\ FileOK(d[b], t, n)
  /\ \A a, b \in DOMAIN d : a # b => Before(d[a], d[b]) \/ Before(d[b], d[a])

\* The latest file is L, of a date up to D.  The ones below it are full, and the
\* ones above it no newer: InitFileRoll finds it, or a full one.
Latest(d, L, D) ==
  /\ L \in DOMAIN d /\ L[1] <= D
  /\ \A b \in DOMAIN d \ {L} : Before(d[b], d[L])
  /\ \A b \in DOMAIN d :
       /\ b[1] <= L[1]
       /\ b[1] = L[1] /\ b[2] < L[2] => d[b].size >= RollSize
       /\ b[1] = L[1] /\ b[2] > L[2] => d[b].mtime <= d[L].mtime

\* The file the object has open is the latest or a full one.
Holds(f, d, L) ==
  f.open =>
    /\ f.name \in DOMAIN d /\ f.idx = f.name[2] /\ f.size = d[f.name].size
    /\ \/ f.name = L
       \/ f.name[1] = L[1] /\ f.name[2] < L[2] /\ f.size >= RollSize

\* How many rolls ago file b was started, if all were to the next file.
Age(L, b) == IF b[2] <= L[2] THEN L[2] - b[2] ELSE L[2] - b[2] + Count

\* Without failures the files of the date are a cycle, and the latest one is open.
Cycle(f, d, L) ==
  /\ f.open => f.name = L /\ L[1] <= Date(f.time, Zone)
  /\ \A a \in DOMAIN d : a[1] = L[1] =>
       /\ d[a].mtime <= d[L].mtime
       /\ \A i \in 0 .. Count - 1 : Age(L, <<L[1], i>>) < Age(L, a) => <<L[1], i>> \in DOMAIN d
       /\ \A b \in DOMAIN d : b[1] = L[1] /\ Age(L, b) < Age(L, a) => Before(d[a], d[b])

LogAt(f, d, L, D, clean) ==
  Latest(d, L, D) /\ Holds(f, d, L) /\ (clean => Cycle(f, d, L))

ObjectOK(f, t) == f \in Objects /\ (~f.open => f.time = 0) /\ f.time <= t

\* The object and the files of a category.
LogOK(f, d, t, D, n, clean) ==
  /\ ObjectOK(f, t) /\ Kept(d, t, n)
  /\ (DOMAIN d = {} /\ ~f.open) \/ \E L \in DOMAIN d : LogAt(f, d, L, D, clean)

\* Every line is in a file of a date on which it was being logged.
Dated(f, d, z, dates) ==
  /\ f.open => f.name[1] = Date(f.time, z)
  /\ \A b \in DOMAIN d : \A l \in Lines(d[b]) : b[1] \in dates[l]

Bounded(d) == \A b \in DOMAIN d : d[b].before = 0 \/ d[b].before < RollSize

-----------------------------------------------------------------------------
(* Dates *)

\* The quotient of a division by d.
LEMMA Quotient ==
  ASSUME NEW d \in Nat \ {0}, NEW x \in Nat
  PROVE  /\ x \div d \in Nat /\ d * (x \div d) <= x /\ x < d * (x \div d) + d
  OBVIOUS

LEMMA QuotientMono ==
  ASSUME NEW d \in Nat \ {0}, NEW x \in Nat, NEW y \in Nat, x <= y
  PROVE  x \div d <= y \div d
<1> DEFINE p == x \div d
           q == y \div d
<1>1. p \in Nat /\ q \in Nat /\ d * p <= x /\ y < d * q + d
  BY Quotient, ZenonT(30)
<1> HIDE DEF p, q
<1>2. SUFFICES ASSUME p >= q + 1 PROVE FALSE
  BY <1>1 DEF p, q
<1>3. d * p >= d * (q + 1)
  BY <1>1, <1>2
<1>4. d * (q + 1) = d * q + d
  BY <1>1
<1> QED BY <1>1, <1>3, <1>4

LEMMA Dates ==
  ASSUME NEW t \in Nat, NEW z \in 0 .. Day - 1
  PROVE  /\ Date(t, z) \in Nat /\ Date(0, z) = 0
         /\ t >= Day => Date(t, z) >= 1
         /\ \A u \in Nat : t <= u => Date(t, z) <= Date(u, z)
<1>1. Day \in Nat \ {0}
  BY LogAssumption, ZenonT(30)
<1>2. Date(t, z) \in Nat /\ \A u \in Nat : t <= u => Date(t, z) <= Date(u, z)
  BY <1>1, Quotient, QuotientMono DEF Date
<1>3. z \div Day = 0
  <2> DEFINE q == z \div Day
  <2>1. q \in Nat /\ Day * q <= z /\ z < Day
    BY <1>1, Quotient
  <2> HIDE DEF q
  <2>2. q >= 1 => Day * q >= Day
    BY <1>1, <2>1
  <2> QED BY <1>1, <2>1, <2>2 DEF q
<1>4. Day \div Day = 1
  <2> DEFINE q == Day \div Day
  <2>1. q \in Nat /\ Day * q <= Day /\ Day < Day * q + Day
    BY <1>1, Quotient, ZenonT(30)
  <2> HIDE DEF q
  <2>2. q >= 2 => Day * q >= Day + Day
    BY <1>1, <2>1
  <2>3. q = 0 => Day * q = 0
    BY <1>1
  <2> QED BY <1>1, <2>1, <2>2, <2>3 DEF q
<1>5. t >= Day => Date(t, z) >= 1
  <2>1. t >= Day => Day \div Day <= (t + z) \div Day
    BY <1>1, QuotientMono
  <2> QED BY <1>4, <2>1, ZenonT(30) DEF Date
<1> QED BY <1>2, <1>3, <1>5 DEF Date

LEMMA NewDayMeans ==
  ASSUME NEW f \in Objects, NEW t \in Nat
  PROVE  /\ NewDay(f, t) <=> Date(t, Zone) # Date(f.time, Zone)
         /\ t >= Day /\ f.time = 0 => NewDay(f, t)
<1>1. Zone \in 0 .. Day - 1 /\ f.time \in Nat
  BY LogAssumption, ZenonT(30) DEF Objects
<1>2. Date(t, Zone) \in Nat /\ Date(f.time, Zone) \in Nat
  BY <1>1, Dates, ZenonT(30)
<1>3. NewDay(f, t) <=> Date(t, Zone) # Date(f.time, Zone)
  BY <1>2 DEF NewDay, GetDiffDays, Date
<1>4. t >= Day /\ f.time = 0 => NewDay(f, t)
  BY <1>1, <1>2, <1>3, Dates
<1> QED BY <1>3, <1>4, ZenonT(30)

-----------------------------------------------------------------------------
(* Files *)

LEMMA CountOK == Count \in Nat \ {0}
  BY LogAssumption DEF Count

LEMMA EmptyFileOK ==
  ASSUME NEW t \in Nat, NEW n
  PROVE  /\ FileOK(EmptyFile(t), t, n) /\ Lines(EmptyFile(t)) = {}
         /\ EmptyFile(t).before = 0 /\ EmptyFile(t).size = 0 /\ EmptyFile(t).mtime = t
<1>1. EmptyFile(t).lines = <<>> /\ <<>> \in Seq(Nat) /\ DOMAIN <<>> = {}
  BY DEF EmptyFile
<1>2. Lines(EmptyFile(t)) = {}
  BY <1>1, ZenonT(30) DEF Lines
<1> QED BY <1>1, <1>2 DEF EmptyFile, FileOK, Files

LEMMA WithCloseOK ==
  ASSUME NEW t \in Nat, NEW n, NEW x, FileOK(x, t, n)
  PROVE  LET y == WithClose(x, t)
         IN  /\ FileOK(y, t, n) /\ Lines(y) = Lines(x) /\ y.before = x.before
             /\ y.size \in Nat /\ y.size >= x.size /\ y.mtime = t
<1> DEFINE y == WithClose(x, t)
<1>1. x \in Files /\ CloseSize \in Nat
  BY LogAssumption, ZenonT(30) DEF FileOK
<1>2. y \in Files /\ y.lines = x.lines /\ y.before = x.before /\ y.size = x.size + CloseSize /\ y.mtime = t
  <2>1. x.size + CloseSize \in Nat
    BY <1>1 DEF Files
  <2>2. y = [x EXCEPT !.size = x.size + CloseSize, !.mtime = t]
    BY <1>1, ZenonT(30) DEF WithClose, Files
  <2>3. y \in Files
    BY <1>1, <2>1, <2>2, Zenon DEF Files
  <2> QED BY <1>1, <2>2, <2>3, ZenonT(30) DEF Files
<1> HIDE DEF y
<1>3. Lines(y) = Lines(x)
  BY <1>2, ZenonT(30) DEF Lines
<1>4. x.size \in Nat /\ Lines(x) \subseteq 1 .. n
  BY <1>1, ZenonT(30) DEF FileOK, Files
<1>5. y.size \in Nat /\ y.size >= x.size
  BY <1>1, <1>2, <1>4
<1> QED BY <1>2, <1>3, <1>4, <1>5 DEF FileOK, y

LEMMA WithLineLines ==
  ASSUME NEW x \in Files, NEW l \in Nat, NEW k, NEW u
  PROVE  Lines(WithLine(x, l, k, u)) = Lines(x) \cup {l}
<1> DEFINE y == WithLine(x, l, k, u)
           m == Len(x.lines)
<1>1. y.lines = Append(x.lines, l) /\ x.lines \in Seq(Nat)
  BY ZenonT(30) DEF WithLine, Files
<1> HIDE DEF y
<1>2. /\ m \in Nat /\ DOMAIN x.lines = 1 .. m /\ DOMAIN y.lines = 1 .. m + 1
      /\ \A i \in 1 .. m : y.lines[i] = x.lines[i]
      /\ y.lines[m + 1] = l
  BY <1>1
<1> HIDE DEF m
<1>3. Lines(y) = Lines(x) \cup {l}
  BY <1>2, SMTT(30) DEF Lines
<1> QED BY <1>3, ZenonT(30) DEF y

LEMMA WithLineOK ==
  ASSUME NEW t \in Nat, NEW u \in Nat, NEW n \in Nat, NEW k \in Nat, NEW x, FileOK(x, t, n)
  PROVE  LET y == WithLine(x, n + 1, k, u)
         IN  /\ FileOK(y, u, n + 1) /\ Lines(y) = Lines(x) \cup {n + 1}
             /\ y.before = x.size /\ y.size = x.size + k /\ y.mtime = u
<1> DEFINE y == WithLine(x, n + 1, k, u)
<1>1. x \in Files /\ x.lines \in Seq(Nat) /\ x.size \in Nat
      /\ Lines(x) \subseteq 1 .. n
  BY ZenonT(30) DEF FileOK, Files
<1>2. /\ y.lines = Append(x.lines, n + 1)
      /\ y.before = x.size /\ y.size = x.size + k /\ y.mtime = u
  BY ZenonT(30) DEF WithLine
<1>3. y \in Files
  BY <1>1 DEF WithLine, Files
<1> HIDE DEF y
<1>4. Lines(y) = Lines(x) \cup {n + 1}
  BY <1>1, WithLineLines DEF y
<1>5. Lines(y) \subseteq 1 .. n + 1
  BY <1>1, <1>4
<1> QED BY <1>1, <1>2, <1>3, <1>4, <1>5, SMTT(30) DEF FileOK, y

\* (f.idx + 1) % Count
LEMMA NextOK ==
  ASSUME NEW i \in Nat, i < Count
  PROVE  /\ (i + 1) % Count = IF i + 1 = Count THEN 0 ELSE i + 1
         /\ (i + 1) % Count \in 0 .. Count - 1
<1>1. Count \in Nat \ {0}
  BY CountOK, ZenonT(30)
<1> DEFINE q == (i + 1) \div Count
           r == (i + 1) % Count
<1>2. q \in Nat /\ r \in 0 .. Count - 1 /\ i + 1 = Count * q + r
  BY <1>1
<1> HIDE DEF q, r
<1>3. q >= 2 => Count * q >= Count + Count
  BY <1>1, <1>2
<1>4. q = 1 => Count * q = Count
  BY <1>1
<1>5. q = 0 => Count * q = 0
  BY <1>1
<1>6. q = 0 \/ q = 1
  BY <1>1, <1>2, <1>3
<1>7. r = IF i + 1 = Count THEN 0 ELSE i + 1
  BY <1>1, <1>2, <1>4, <1>5, <1>6
<1> QED BY <1>2, <1>7, ZenonT(30) DEF r

-----------------------------------------------------------------------------
(* What the operations do *)

\* e is d with f's file closed at time t.
Shut(f, d, e, t) ==
  /\ DOMAIN e = DOMAIN d
  /\ \A b \in DOMAIN d : e[b] = IF f.open /\ b = f.name THEN WithClose(d[b], t) ELSE d[b]

LEMMA CloseDoes ==
  ASSUME NEW f \in Objects, NEW d, NEW t, ~f.open => f.time = 0
  PROVE  LET r == Close([f |-> f, disk |-> d], t)
         IN  /\ r.f \in Objects /\ ~r.f.open /\ r.f.time = 0 /\ r.f.idx = f.idx
             /\ Shut(f, d, r.disk, t)
<1> DEFINE log == [f |-> f, disk |-> d]
           r == Close(log, t)
<1>1. CASE f.open
  <2>1. /\ r.f = [f EXCEPT !.open = FALSE, !.time = 0, !.size = 0]
        /\ r.disk = [d EXCEPT ![f.name] = WithClose(@, t)]
    BY <1>1, ZenonT(30) DEF Close
  <2> HIDE DEF r
  <2>2. r.f \in Objects
    <3>1. 0 \in Nat
      BY ZenonT(30)
    <3> QED BY <2>1, <3>1, Zenon DEF Objects
  <2>3. r.f.open = FALSE /\ r.f.time = 0 /\ r.f.idx = f.idx
    BY <2>1, ZenonT(30) DEF Objects
  <2>4. Shut(f, d, r.disk, t)
    BY <1>1, <2>1, ZenonT(30) DEF Shut
  <2> QED BY <2>2, <2>3, <2>4, ZenonT(30) DEF r
<1>2. CASE ~f.open
  <2>1. r.f = f /\ r.disk = d
    BY <1>2, ZenonT(30) DEF Close
  <2> QED BY <1>2, <2>1, ZenonT(30) DEF Shut
<1> QED BY <1>1, <1>2, ZenonT(30)

\* A file is opened: x is what it holds.
Opened(f, d, g, e, name, x, t, u) ==
  /\ g \in Objects /\ g.open /\ g.name = name /\ g.idx = name[2] /\ g.size = x.size /\ g.time = u
  /\ DOMAIN e = DOMAIN d \cup {name} /\ e[name] = x
  /\ \A b \in DOMAIN d \ {name} : e[b] = IF f.open /\ b = f.name THEN WithClose(d[b], t) ELSE d[b]

LEMMA OpenFileDoes ==
  ASSUME NEW f \in Objects, NEW d, NEW t \in Nat, NEW u \in Nat, ~f.open => f.time = 0,
         NEW name \in Names, f.idx = name[2], NEW clear \in BOOLEAN, NEW x,
         clear \/ name \notin DOMAIN d => x = EmptyFile(u),
         ~clear /\ name \in DOMAIN d =>
           x = IF f.open /\ name = f.name THEN WithClose(d[name], t) ELSE d[name],
         x.size \in Nat
  PROVE  LET r == OpenFile([f |-> f, disk |-> d], name, clear, t, u, TRUE)
         IN  Opened(f, d, r.f, r.disk, name, x, t, u)
<1> DEFINE c == Close([f |-> f, disk |-> d], t)
           r == OpenFile([f |-> f, disk |-> d], name, clear, t, u, TRUE)
           file == IF clear \/ name \notin DOMAIN c.disk THEN EmptyFile(u) ELSE c.disk[name]
<1>1. /\ c.f \in Objects /\ ~c.f.open /\ c.f.time = 0 /\ c.f.idx = f.idx
      /\ Shut(f, d, c.disk, t)
  BY CloseDoes, ZenonT(30)
<1>2. /\ r.f = [c.f EXCEPT !.open = TRUE, !.name = name, !.size = file.size, !.time = u]
      /\ r.disk = WithFile(c.disk, name, file)
  BY ZenonT(30) DEF OpenFile
<1> HIDE DEF c, r
<1>3. file = x
  BY <1>1, ZenonT(30) DEF Shut
<1> HIDE DEF file
<1>4. r.f \in Objects
  BY <1>1, <1>2, <1>3, Zenon DEF Objects
<1>5. r.f.open = TRUE /\ r.f.name = name /\ r.f.idx = f.idx /\ r.f.size = x.size /\ r.f.time = u
  BY <1>1, <1>2, <1>3, ZenonT(30) DEF Objects
<1>6. /\ DOMAIN r.disk = DOMAIN c.disk \cup {name} /\ r.disk[name] = x
      /\ \A b \in DOMAIN c.disk \ {name} : r.disk[b] = c.disk[b]
  BY <1>2, <1>3, ZenonT(30) DEF WithFile
<1> QED BY <1>1, <1>4, <1>5, <1>6, ZenonT(30) DEF Opened, Shut, r

LEMMA PairEq ==
  ASSUME NEW a \in Names, NEW b \in Names, a[1] = b[1], a[2] = b[2]
  PROVE  a = b
  BY DEF Names

LEMMA NameOK ==
  ASSUME NEW t \in Nat, NEW z \in 0 .. Day - 1, NEW i \in Nat
  PROVE  /\ GetFileName(i, t, z) \in Names /\ GetFileName(i, t, z)[1] = Date(t, z)
         /\ GetFileName(i, t, z)[2] = i
  BY Dates, ZenonT(30) DEF GetFileName, Names

LEMMA NextIdxOK ==
  ASSUME NEW f \in Objects, NEW t
  PROVE  NextIdx(f, t) \in Nat /\ NextIdx(f, t) < Count
<1>1. f.idx + 1 \in Nat /\ Count \in Nat \ {0}
  BY CountOK DEF Objects
<1>2. (f.idx + 1) % Count \in 0 .. Count - 1
  BY <1>1
<1> QED BY <1>1, <1>2 DEF NextIdx

(* What the roll before a line leaves, r, of an object f and its files d, when it would open N *)
RollDone(f, d, t, u, N, ok, r) ==
  /\ ~MustRoll(f, t) => r.f = f /\ r.disk = d
  /\ MustRoll(f, t) /\ ~ok =>
       r.f \in Objects /\ ~r.f.open /\ r.f.time = 0 /\ Shut(f, d, r.disk, t)
  /\ MustRoll(f, t) /\ ok => Opened(f, d, r.f, r.disk, N, EmptyFile(u), t, u)

LEMMA CheckFileRollDoes ==
  ASSUME NEW f \in Objects, NEW d, NEW t \in Nat, NEW u \in Nat, ~f.open => f.time = 0,
         NEW z \in 0 .. Day - 1, NEW ok \in BOOLEAN
  PROVE  RollDone(f, d, t, u, GetFileName(NextIdx(f, t), t, z), ok,
                  CheckFileRoll([f |-> f, disk |-> d], t, u, z, ok))
<1> DEFINE log == [f |-> f, disk |-> d]
           r == CheckFileRoll(log, t, u, z, ok)
           i == NextIdx(f, t)
           N == GetFileName(i, t, z)
           h == [f EXCEPT !.idx = i]
           log2 == [f |-> h, disk |-> d]
<1>1. i \in Nat
  BY NextIdxOK, ZenonT(30)
<1>2. N \in Names /\ N[2] = i
  BY <1>1, NameOK, ZenonT(30)
<1>3. [log EXCEPT !.f.idx = i] = log2
  OBVIOUS
<1>4. h \in Objects /\ h.open = f.open /\ h.name = f.name /\ h.time = f.time /\ h.idx = i
  <2> HIDE DEF i
  <2>1. h \in Objects
    BY <1>1, Zenon DEF Objects
  <2> QED BY <2>1, ZenonT(30) DEF Objects
<1> HIDE DEF h
<1>5. ~MustRoll(f, t) => r.f = f /\ r.disk = d
  BY ZenonT(30) DEF CheckFileRoll
<1>6. MustRoll(f, t) => r = OpenFile(log2, N, TRUE, t, u, ok)
  BY <1>3, ZenonT(30) DEF CheckFileRoll
<1> HIDE DEF i, N, r, log
<1>7. ASSUME MustRoll(f, t), ~ok
      PROVE  r.f \in Objects /\ ~r.f.open /\ r.f.time = 0 /\ Shut(f, d, r.disk, t)
  <2>1. r = Close(log2, t)
    BY <1>6, <1>7, ZenonT(30) DEF OpenFile
  <2>2. r.f \in Objects /\ ~r.f.open /\ r.f.time = 0 /\ Shut(h, d, r.disk, t)
    BY <1>4, <2>1, CloseDoes, ZenonT(30)
  <2> QED BY <1>4, <2>2, ZenonT(30) DEF Shut
<1>8. ASSUME MustRoll(f, t), ok
      PROVE  Opened(f, d, r.f, r.disk, N, EmptyFile(u), t, u)
  <2>1. r = OpenFile(log2, N, TRUE, t, u, TRUE)
    BY <1>6, <1>8, ZenonT(30)
  <2>2. EmptyFile(u).size \in Nat
    BY EmptyFileOK
  <2>3. Opened(h, d, r.f, r.disk, N, EmptyFile(u), t, u)
    BY <1>2, <1>4, <2>1, <2>2, OpenFileDoes, ZenonT(30)
  <2> QED BY <1>4, <2>3, ZenonT(30) DEF Opened
<1>9. RollDone(f, d, t, u, N, ok, r)
  BY <1>5, <1>7, <1>8, ZenonT(30) DEF RollDone
<1> QED BY <1>9, ZenonT(30) DEF r, N, i, log

-----------------------------------------------------------------------------
(* Closing a file *)

LEMMA ShutFile ==
  ASSUME NEW t \in Nat, NEW n, NEW d, Kept(d, t, n), NEW f, NEW b \in DOMAIN d, NEW y,
         y = IF f.open /\ b = f.name THEN WithClose(d[b], t) ELSE d[b]
  PROVE  /\ FileOK(y, t, n) /\ FileOK(d[b], t, n)
         /\ Lines(y) = Lines(d[b]) /\ y.before = d[b].before
         /\ y.size \in Nat /\ d[b].size \in Nat /\ y.size >= d[b].size
         /\ y.mtime \in Nat /\ d[b].mtime \in Nat /\ d[b].mtime <= y.mtime /\ y.mtime <= t
         /\ ~(f.open /\ b = f.name) => y = d[b]
         /\ f.open /\ b = f.name => y.mtime = t
<1>1. FileOK(d[b], t, n)
  BY ZenonT(30) DEF Kept
<1>2. d[b].size \in Nat /\ d[b].mtime \in Nat /\ d[b].mtime <= t
  BY <1>1, ZenonT(30) DEF FileOK, Files
<1>3. CASE f.open /\ b = f.name
  <2>1. y = WithClose(d[b], t)
    BY <1>3, ZenonT(30)
  <2>2. /\ FileOK(y, t, n) /\ Lines(y) = Lines(d[b]) /\ y.before = d[b].before
        /\ y.size \in Nat /\ y.size >= d[b].size /\ y.mtime = t
    BY <1>1, <2>1, WithCloseOK
  <2> QED BY <1>1, <1>2, <1>3, <2>2
<1>4. CASE ~(f.open /\ b = f.name)
  <2>1. y = d[b]
    BY <1>4, ZenonT(30)
  <2> QED BY <1>1, <1>2, <1>4, <2>1
<1> QED BY <1>3, <1>4, ZenonT(30)

LEMMA ShutOK ==
  ASSUME NEW t \in Nat, NEW D, NEW n, NEW f, NEW d, NEW clean, LogOK(f, d, t, D, n, clean),
         NEW e, Shut(f, d, e, t), NEW g \in Objects, ~g.open, g.time = 0
  PROVE  LogOK(g, e, t, D, n, clean)
<1>1. Kept(d, t, n) /\ DOMAIN d \subseteq Names
  BY ZenonT(30) DEF LogOK, Kept
<1>2. DOMAIN e = DOMAIN d
  BY ZenonT(30) DEF Shut
<1>3. \A b \in DOMAIN d :
        /\ FileOK(e[b], t, n) /\ Lines(e[b]) = Lines(d[b])
        /\ e[b].size \in Nat /\ d[b].size \in Nat /\ e[b].size >= d[b].size
        /\ e[b].mtime \in Nat /\ d[b].mtime \in Nat /\ d[b].mtime <= e[b].mtime /\ e[b].mtime <= t
        /\ ~(f.open /\ b = f.name) => e[b] = d[b]
        /\ f.open /\ b = f.name => e[b].mtime = t
  BY <1>1, ShutFile DEF Shut
<1>4. Kept(e, t, n)
  BY <1>1, <1>2, <1>3, ZenonT(30) DEF Kept, Before
<1>5. ObjectOK(g, t)
  BY DEF ObjectOK
<1>6. ASSUME NEW L \in DOMAIN d, LogAt(f, d, L, D, clean)
      PROVE  LogAt(g, e, L, D, clean)
  <2>0. RollSize \in Nat /\ \A b \in DOMAIN d : b[1] \in Nat /\ b[2] \in Nat
    BY <1>1, LogAssumption, ZenonT(30) DEF Names
  <2>1. Latest(d, L, D) /\ Holds(f, d, L)
    BY <1>6, ZenonT(30) DEF LogAt
  <2>2. ASSUME NEW b \in DOMAIN d
        PROVE  /\ b # L => Before(e[b], e[L])
               /\ b[1] <= L[1]
               /\ b[1] = L[1] /\ b[2] < L[2] => e[b].size >= RollSize
               /\ b[1] = L[1] /\ b[2] > L[2] => e[b].mtime <= e[L].mtime
    <3>1. b # L => Before(e[b], e[L])
      BY <1>3, <2>1, ZenonT(30) DEF Latest, Before
    <3>2. b[1] <= L[1]
      BY <2>1, ZenonT(30) DEF Latest
    <3>3. b[1] = L[1] /\ b[2] < L[2] => e[b].size >= RollSize
      <4>1. b[1] = L[1] /\ b[2] < L[2] => d[b].size >= RollSize
        BY <2>1, ZenonT(30) DEF Latest
      <4> QED BY <1>3, <2>0, <4>1
    <3>4. b[1] = L[1] /\ b[2] > L[2] => e[b].mtime <= e[L].mtime
      <4>1. b[1] = L[1] /\ b[2] > L[2] => d[b].mtime <= d[L].mtime
        BY <2>1, ZenonT(30) DEF Latest
      <4>2. f.open => f.name = L \/ f.name[2] < L[2]
        BY <2>1, ZenonT(30) DEF Holds
      <4>3. b[2] > L[2] => e[b] = d[b]
        BY <1>3, <2>0, <4>2
      <4> QED BY <1>3, <4>1, <4>3, ZenonT(30)
    <3> QED BY <3>1, <3>2, <3>3, <3>4, ZenonT(30)
  <2>3. Latest(e, L, D)
    BY <1>2, <2>1, <2>2, ZenonT(30) DEF Latest
  <2>4. Holds(g, e, L)
    BY ZenonT(30) DEF Holds
  <2>5. ASSUME clean
        PROVE  Cycle(g, e, L)
    <3>1. Cycle(f, d, L)
      BY <1>6, <2>5, ZenonT(30) DEF LogAt
    <3>2. \A a \in DOMAIN d : a[1] = L[1] => e[a].mtime <= e[L].mtime
      <4>1. \A a \in DOMAIN d : a[1] = L[1] => d[a].mtime <= d[L].mtime
        BY <3>1, ZenonT(30) DEF Cycle
      <4>2. f.open => f.name = L
        BY <3>1, ZenonT(30) DEF Cycle
      <4> QED BY <1>3, <4>1, <4>2, ZenonT(30)
    <3>3. ASSUME NEW a \in DOMAIN d, a[1] = L[1]
          PROVE  /\ \A i \in 0 .. Count - 1 : Age(L, <<L[1], i>>) < Age(L, a) => <<L[1], i>> \in DOMAIN e
                 /\ \A b \in DOMAIN e : b[1] = L[1] /\ Age(L, b) < Age(L, a) => Before(e[a], e[b])
      BY <1>2, <1>3, <3>1, <3>3, ZenonT(30) DEF Cycle, Before
    <3> QED BY <1>2, <3>2, <3>3, ZenonT(30) DEF Cycle
  <2> QED BY <2>3, <2>4, <2>5, ZenonT(30) DEF LogAt
<1>7. (DOMAIN d = {} /\ ~f.open) \/ \E L \in DOMAIN d : LogAt(f, d, L, D, clean)
  BY ZenonT(30) DEF LogOK
<1> QED BY <1>2, <1>4, <1>5, <1>6, <1>7, ZenonT(30) DEF LogOK

-----------------------------------------------------------------------------
(* Opening a file that is empty *)

Next1(i) == IF i + 1 = Count THEN 0 ELSE i + 1

\* All files are of dates up to D, and those of D below index i are full.
Target(d, D, i) ==
  \A b \in DOMAIN d : b[1] <= D /\ (b[1] = D /\ b[2] < i => d[b].size >= RollSize)

LEMMA EmptiedOK ==
  ASSUME NEW t \in Nat, NEW u \in Nat, t <= u, NEW n, NEW f, NEW d, Kept(d, t, n),
         NEW D \in Nat, NEW E \in Nat, D <= E, NEW N \in Names, N[1] = D, N[2] < Count,
         NEW g, NEW e, Opened(f, d, g, e, N, EmptyFile(u), t, u), Target(d, D, N[2])
  PROVE  ObjectOK(g, u) /\ Kept(e, u, n) /\ Latest(e, N, E) /\ Holds(g, e, N)
<1>1. DOMAIN d \subseteq Names /\ DOMAIN e = DOMAIN d \cup {N} /\ e[N] = EmptyFile(u)
  BY ZenonT(30) DEF Kept, Opened
<1>2. /\ FileOK(e[N], u, n) /\ Lines(e[N]) = {} /\ e[N].size = 0 /\ e[N].mtime = u
  BY <1>1, EmptyFileOK, ZenonT(30)
<1>3. \A b \in DOMAIN d \ {N} :
        /\ FileOK(e[b], t, n) /\ Lines(e[b]) = Lines(d[b])
        /\ e[b].size \in Nat /\ d[b].size \in Nat /\ e[b].size >= d[b].size
        /\ e[b].mtime \in Nat /\ e[b].mtime <= t
  BY ShutFile, SMTT(30) DEF Opened
<1>4. \A b \in DOMAIN e : b[2] < Count /\ FileOK(e[b], u, n)
  <2>1. \A x : FileOK(x, t, n) => FileOK(x, u, n)
    BY DEF FileOK, Files
  <2> QED BY <1>1, <1>2, <1>3, <2>1, ZenonT(30) DEF Kept
<1>5. \A a, b \in DOMAIN e : a # b => Before(e[a], e[b]) \/ Before(e[b], e[a])
  <2>1. \A b : Before(e[b], e[N]) /\ Before(e[N], e[b])
    BY <1>2, ZenonT(30) DEF Before
  <2>2. \A a, b \in DOMAIN d \ {N} : a # b => Before(e[a], e[b]) \/ Before(e[b], e[a])
    BY <1>3, ZenonT(30) DEF Kept, Before
  <2> QED BY <1>1, <2>1, <2>2, ZenonT(30)
<1>6. Kept(e, u, n)
  BY <1>1, <1>4, <1>5, ZenonT(30) DEF Kept
<1>7. ObjectOK(g, u)
  BY DEF ObjectOK, Opened
<1>8. Holds(g, e, N)
  BY <1>1, ZenonT(30) DEF Holds, Opened
<1>9. Latest(e, N, E)
  <2>1. \A b \in DOMAIN e \ {N} : Before(e[b], e[N])
    BY <1>2, ZenonT(30) DEF Before
  <2>2. ASSUME NEW b \in DOMAIN e
        PROVE  /\ b[1] <= N[1]
               /\ b[1] = N[1] /\ b[2] < N[2] => e[b].size >= RollSize
               /\ b[1] = N[1] /\ b[2] > N[2] => e[b].mtime <= e[N].mtime
    <3>0. N[1] \in Nat /\ N[2] \in Nat /\ RollSize \in Nat
      BY LogAssumption, ZenonT(30) DEF Names
    <3>1. CASE b = N
      BY <3>0, <3>1
    <3>2. CASE b # N
      <4>1. b \in DOMAIN d \ {N}
        BY <1>1, <3>2, ZenonT(30)
      <4>2. b[1] <= D /\ (b[1] = D /\ b[2] < N[2] => d[b].size >= RollSize)
        BY <4>1, ZenonT(30) DEF Target
      <4> QED BY <1>2, <1>3, <3>0, <4>1, <4>2
    <3> QED BY <3>1, <3>2, ZenonT(30)
  <2> QED BY <1>1, <2>1, <2>2, ZenonT(30) DEF Latest
<1> QED BY <1>6, <1>7, <1>8, <1>9, ZenonT(30)

\* The next file of a cycle.
LEMMA AgeNext ==
  ASSUME NEW i \in Nat, i < Count, NEW j \in Nat, j < Count, NEW D
  PROVE  /\ Age(<<D, i>>, <<D, Next1(i)>>) = Count - 1
         /\ j # Next1(i) => Age(<<D, i>>, <<D, j>>) < Count - 1
         /\ j # Next1(i) => Age(<<D, Next1(i)>>, <<D, j>>) = Age(<<D, i>>, <<D, j>>) + 1
         /\ Age(<<D, Next1(i)>>, <<D, Next1(i)>>) = 0
         /\ Age(<<D, i>>, <<D, j>>) \in Nat
<1> Count \in Nat \ {0}
  BY CountOK, ZenonT(30)
<1>1. \A x, y : Age(<<D, x>>, <<D, y>>) = IF y <= x THEN x - y ELSE x - y + Count
  BY ZenonT(30) DEF Age
<1>2. Next1(i) \in Nat /\ Next1(i) < Count
  BY DEF Next1
<1> QED BY <1>1, <1>2 DEF Next1

\* Rolling on from the latest file drops the oldest, when there are Count of them.
LEMMA CycleDrops ==
  ASSUME NEW f, NEW d, NEW t, NEW n, Kept(d, t, n), NEW L \in DOMAIN d, Cycle(f, d, L),
         NEW N \in DOMAIN d, N[1] = L[1], N[2] = Next1(L[2])
  PROVE  /\ \A i \in 0 .. Count - 1 : <<N[1], i>> \in DOMAIN d
         /\ \A b \in DOMAIN d \ {N} : b[1] = N[1] => Before(d[N], d[b])
<1>1. DOMAIN d \subseteq Names /\ Count \in Nat \ {0}
  BY CountOK, ZenonT(30) DEF Kept
<1>2. \A b \in DOMAIN d : b \in Names /\ b[1] \in Nat /\ b[2] \in Nat /\ b[2] < Count /\ b = <<b[1], b[2]>>
  BY <1>1 DEF Kept, Names
<1>3. Age(L, N) = Count - 1
  BY <1>2, AgeNext
<1>4. ASSUME NEW i \in 0 .. Count - 1, i # N[2]
      PROVE  Age(L, <<L[1], i>>) < Count - 1
  <2>1. i \in Nat /\ i < Count /\ L[2] \in Nat /\ L[2] < Count /\ L = <<L[1], L[2]>>
    BY <1>1, <1>2
  <2>2. Age(<<L[1], L[2]>>, <<L[1], i>>) < Count - 1
    BY <1>4, <2>1, AgeNext, ZenonT(30)
  <2> QED BY <2>1, <2>2, ZenonT(30)
<1>5. \A i \in 0 .. Count - 1 : <<N[1], i>> \in DOMAIN d
  BY <1>2, <1>3, <1>4, ZenonT(30) DEF Cycle
<1>6. ASSUME NEW b \in DOMAIN d \ {N}, b[1] = N[1]
      PROVE  Before(d[N], d[b])
  <2>1. b[2] # N[2]
    BY <1>2, <1>6, ZenonT(30)
  <2>2. b[2] \in 0 .. Count - 1 /\ b = <<L[1], b[2]>>
    BY <1>1, <1>2, <1>6
  <2>3. Age(L, b) < Age(L, N)
    BY <1>3, <1>4, <2>1, <2>2, ZenonT(30)
  <2> QED BY <1>6, <2>3, ZenonT(30) DEF Cycle
<1> QED BY <1>5, <1>6, ZenonT(30)

\* The files of the date of N are a cycle that N is next in, or there are none.
NextInCycle(f, d, N) ==
  \/ \A b \in DOMAIN d : b[1] # N[1]
  \/ \E L \in DOMAIN d : Cycle(f, d, L) /\ L[1] = N[1] /\ N[2] = Next1(L[2])

LEMMA CycleGoesOn ==
  ASSUME NEW t \in Nat, NEW u \in Nat, t <= u, NEW n, NEW f, NEW d, Kept(d, t, n),
         NEW N \in Names, N[2] < Count, N[1] <= Date(u, Zone),
         NEW g, NEW e, Opened(f, d, g, e, N, EmptyFile(u), t, u), NextInCycle(f, d, N)
  PROVE  Cycle(g, e, N)
<1>1. /\ DOMAIN d \subseteq Names /\ DOMAIN e = DOMAIN d \cup {N} /\ e[N] = EmptyFile(u)
      /\ g.name = N /\ g.time = u /\ Count \in Nat \ {0}
  BY CountOK, ZenonT(30) DEF Kept, Opened
<1>2. Lines(e[N]) = {} /\ e[N].mtime = u
  BY <1>1, EmptyFileOK, ZenonT(30)
<1>3. \A b \in DOMAIN d \ {N} :
        Lines(e[b]) = Lines(d[b]) /\ e[b].mtime \in Nat /\ e[b].mtime <= t
  BY ShutFile, SMTT(30) DEF Opened
<1>4. \A a \in DOMAIN e : e[a].mtime <= e[N].mtime
  BY <1>1, <1>2, <1>3
<1>5. \A b \in DOMAIN e : b \in Names /\ b[1] \in Nat /\ b[2] \in Nat /\ b[2] < Count /\ b = <<b[1], b[2]>>
  BY <1>1 DEF Kept, Names
<1>6. Age(N, N) = 0
  BY <1>5, SMTT(30) DEF Age, Names
<1>7. ASSUME NEW a \in DOMAIN e, a[1] = N[1]
      PROVE  /\ \A i \in 0 .. Count - 1 : Age(N, <<N[1], i>>) < Age(N, a) => <<N[1], i>> \in DOMAIN e
             /\ \A b \in DOMAIN e : b[1] = N[1] /\ Age(N, b) < Age(N, a) => Before(e[a], e[b])
  <2>a. ASSUME NEW i \in 0 .. Count - 1
        PROVE  Age(N, <<N[1], i>>) \in Nat
    <3>1. i \in Nat /\ i < Count /\ N[2] \in Nat /\ N[2] < Count /\ N = <<N[1], N[2]>>
      BY <1>1, <1>5
    <3>2. Age(<<N[1], N[2]>>, <<N[1], i>>) \in Nat
      BY <3>1, AgeNext, ZenonT(30)
    <3> QED BY <3>1, <3>2, ZenonT(30)
  <2>1. CASE a = N
    <3>1. \A b \in DOMAIN e : b[1] = N[1] => Age(N, b) \in Nat
      BY <1>1, <1>5, <2>a
    <3> QED BY <1>6, <2>1, <2>a, <3>1
  <2>2. CASE a # N
    <3>1. PICK L \in DOMAIN d : Cycle(f, d, L) /\ L[1] = N[1] /\ N[2] = Next1(L[2])
      BY <1>1, <1>7, <2>2, ZenonT(30) DEF NextInCycle
    <3>2. L = <<N[1], L[2]>> /\ L[2] \in Nat /\ L[2] < Count /\ N = <<N[1], Next1(L[2])>>
      BY <1>1, <1>5, <3>1, ZenonT(30)
    <3>3. \A j \in 0 .. Count - 1 : j # N[2] =>
            Age(N, <<N[1], j>>) = Age(L, <<N[1], j>>) + 1 /\ Age(L, <<N[1], j>>) \in Nat
      BY <1>1, <3>2, AgeNext
    <3>4. a \in DOMAIN d /\ a[2] # N[2] /\ a[2] \in 0 .. Count - 1 /\ a = <<N[1], a[2]>>
      BY <1>1, <1>5, <1>7, <2>2
    <3>5. Age(N, a) = Age(L, a) + 1 /\ Age(L, a) \in Nat
      BY <3>3, <3>4, ZenonT(30)
    <3>6. ASSUME NEW i \in 0 .. Count - 1, Age(N, <<N[1], i>>) < Age(N, a)
          PROVE  <<N[1], i>> \in DOMAIN e
      <4>1. CASE i = N[2]
        BY <1>1, <1>5, <4>1, ZenonT(30)
      <4>2. CASE i # N[2]
        <5>1. Age(L, <<L[1], i>>) < Age(L, a)
          BY <3>1, <3>3, <3>5, <3>6, <4>2
        <5> QED BY <1>1, <1>7, <3>1, <3>4, <5>1, ZenonT(30) DEF Cycle
      <4> QED BY <4>1, <4>2, ZenonT(30)
    <3>7. ASSUME NEW b \in DOMAIN e, b[1] = N[1], Age(N, b) < Age(N, a)
          PROVE  Before(e[a], e[b])
      <4>1. CASE b = N
        BY <1>2, <4>1, ZenonT(30) DEF Before
      <4>2. CASE b # N
        <5>1. b \in DOMAIN d /\ b[2] # N[2] /\ b[2] \in 0 .. Count - 1 /\ b = <<N[1], b[2]>>
          BY <1>1, <1>5, <3>7, <4>2
        <5>2. Age(N, b) = Age(L, b) + 1 /\ Age(L, b) \in Nat
          BY <3>3, <5>1, ZenonT(30)
        <5>3. Age(L, b) < Age(L, a)
          BY <3>5, <3>7, <5>2, SMTT(30)
        <5>4. Before(d[a], d[b])
          BY <1>7, <3>1, <3>4, <3>7, <5>1, <5>3, ZenonT(30) DEF Cycle
        <5> QED BY <1>3, <2>2, <3>4, <4>2, <5>1, <5>4 DEF Before
      <4> QED BY <4>1, <4>2, ZenonT(30)
    <3> QED BY <3>6, <3>7, ZenonT(30)
  <2> QED BY <2>1, <2>2, ZenonT(30)
<1> QED BY <1>1, <1>4, <1>7, ZenonT(30) DEF Cycle

-----------------------------------------------------------------------------
(* Rolling *)

LEMMA LaterAt ==
  ASSUME NEW D \in Nat, NEW E \in Nat, D <= E, NEW clean, NEW clean2, clean2 => clean,
         NEW f, NEW d, NEW L, L[1] \in Nat, LogAt(f, d, L, D, clean)
  PROVE  LogAt(f, d, L, E, clean2)
<1>1. Latest(d, L, E)
  BY DEF LogAt, Latest
<1> QED BY <1>1, ZenonT(30) DEF LogAt

LEMMA LaterOK ==
  ASSUME NEW t \in Nat, NEW u \in Nat, t <= u, NEW D \in Nat, NEW E \in Nat, D <= E,
         NEW n \in Nat, NEW m \in Nat, n <= m, NEW clean, NEW clean2, clean2 => clean,
         NEW f, NEW d, LogOK(f, d, t, D, n, clean)
  PROVE  LogOK(f, d, u, E, m, clean2)
<1>1. Kept(d, u, m)
  <2>1. \A x : FileOK(x, t, n) => FileOK(x, u, m)
    BY DEF FileOK, Files
  <2> QED BY <2>1, ZenonT(30) DEF LogOK, Kept
<1>2. ObjectOK(f, u)
  BY DEF LogOK, ObjectOK, Objects
<1>3. ASSUME NEW L \in DOMAIN d, LogAt(f, d, L, D, clean)
      PROVE  LogAt(f, d, L, E, clean2)
  <2>1. L[1] \in Nat
    BY ZenonT(30) DEF LogOK, Kept, Names
  <2> QED BY <1>3, <2>1, LaterAt, ZenonT(30)
<1> QED BY <1>1, <1>2, <1>3, ZenonT(30) DEF LogOK

\* Where CheckFileRoll rolls to.
LEMMA RollTarget ==
  ASSUME NEW t \in Nat, t >= Day, NEW z \in 0 .. Day - 1, NEW n, NEW f, NEW d, NEW clean,
         LogOK(f, d, t, Date(t, z), n, clean), MustRoll(f, t)
  PROVE  LET N == GetFileName(NextIdx(f, t), t, z)
         IN  /\ N \in Names /\ N[1] = Date(t, z) /\ N[2] < Count
             /\ Target(d, Date(t, z), N[2])
             /\ clean /\ z = Zone /\ f.open => NextInCycle(f, d, N)
<1> DEFINE D == Date(t, z)
           i == NextIdx(f, t)
           N == GetFileName(i, t, z)
<1>1. /\ f \in Objects /\ (~f.open => f.time = 0) /\ Kept(d, t, n) /\ f.time <= t
      /\ DOMAIN d \subseteq Names
  BY ZenonT(30) DEF LogOK, ObjectOK, Kept
<1>2. i \in Nat /\ i < Count /\ Count \in Nat \ {0}
  BY <1>1, NextIdxOK, CountOK, ZenonT(30)
<1>3. N \in Names /\ N[1] = D /\ N[2] = i /\ D \in Nat
  BY <1>2, NameOK, Dates, ZenonT(30)
<1>4. \A b \in DOMAIN d : b \in Names /\ b[1] \in Nat /\ b[2] \in Nat /\ b[2] < Count /\ d[b].size \in Nat
  BY <1>1, ZenonT(30) DEF Kept, Names, FileOK, Files
<1>5. f.time \in Nat /\ f.size \in Nat /\ RollSize \in Nat /\ Zone \in 0 .. Day - 1
  BY <1>1, LogAssumption, ZenonT(30) DEF Objects
<1>6. ~NewDay(f, t) => f.open /\ f.size >= RollSize /\ i = (f.idx + 1) % Count
  <2>1. ~NewDay(f, t) => f.open
    BY <1>1, NewDayMeans, ZenonT(30)
  <2> QED BY <2>1, ZenonT(30) DEF MustRoll, NextIdx
<1>7. NewDay(f, t) => i = 0
  BY ZenonT(30) DEF NextIdx
<1> HIDE DEF i, N, D
<1>8. ASSUME NEW L \in DOMAIN d, LogAt(f, d, L, D, clean)
      PROVE  /\ Target(d, D, i)
             /\ clean /\ z = Zone /\ f.open => NextInCycle(f, d, N)
  <2>1. Latest(d, L, D) /\ Holds(f, d, L) /\ L[1] \in Nat /\ L[2] \in Nat /\ L[1] <= D
    BY <1>4, <1>8, ZenonT(30) DEF LogAt, Latest
  <2>2. \A b \in DOMAIN d : b[1] <= D
    BY <1>3, <1>4, <2>1 DEF Latest
  <2>3. ~NewDay(f, t) => i = Next1(f.name[2]) /\ f.name \in DOMAIN d
    <3>1. ~NewDay(f, t) => f.name \in DOMAIN d /\ f.idx = f.name[2]
      BY <1>6, <2>1, ZenonT(30) DEF Holds
    <3>2. f.name \in DOMAIN d => (f.name[2] + 1) % Count = Next1(f.name[2])
      BY <1>4, NextOK, ZenonT(30) DEF Next1
    <3> QED BY <1>6, <3>1, <3>2, ZenonT(30)
  <2>4. ASSUME NEW b \in DOMAIN d, b[1] = D, b[2] < i
        PROVE  d[b].size >= RollSize
    <3>1. ~NewDay(f, t)
      BY <1>4, <1>7, <2>4
    <3>2. i = f.name[2] + 1 /\ f.name \in DOMAIN d
      BY <1>4, <2>3, <2>4, <3>1, SMTT(30) DEF Next1
    <3>3. L[1] = D
      BY <1>3, <1>4, <2>1, <2>4, SMTT(30) DEF Latest
    <3>4. f.name[1] = D /\ f.name[2] <= L[2]
      BY <1>4, <1>6, <2>1, <3>1, <3>3, SMTT(30) DEF Holds
    <3>5. CASE b[2] < f.name[2]
      <4>1. b[2] < L[2] /\ b[1] = L[1]
        BY <1>4, <2>1, <2>4, <3>2, <3>3, <3>4, <3>5, SMTT(30)
      <4> QED BY <2>1, <4>1, ZenonT(30) DEF Latest
    <3>6. CASE b[2] = f.name[2]
      <4>1. b = f.name
        BY <1>4, <2>4, <3>2, <3>4, <3>6, PairEq, ZenonT(30)
      <4> QED BY <1>6, <2>1, <3>1, <4>1, ZenonT(30) DEF Holds
    <3> QED BY <1>4, <2>4, <3>2, <3>5, <3>6
  <2>5. ASSUME clean, z = Zone, f.open
        PROVE  NextInCycle(f, d, N)
    <3>1. Cycle(f, d, L) /\ f.name = L /\ L[1] <= Date(f.time, Zone)
      BY <1>8, <2>5, ZenonT(30) DEF LogAt, Cycle
    <3>2. CASE NewDay(f, t)
      <4>1. Date(f.time, Zone) <= Date(t, Zone) /\ Date(t, Zone) # Date(f.time, Zone)
        BY <1>1, <1>5, <3>2, Dates, NewDayMeans, ZenonT(30)
      <4>2. Date(f.time, Zone) \in Nat /\ Date(t, Zone) \in Nat /\ D = Date(t, Zone)
        BY <1>5, <2>5, Dates, ZenonT(30) DEF D
      <4>3. L[1] < D
        BY <2>1, <3>1, <4>1, <4>2, SMTT(30)
      <4>4. \A b \in DOMAIN d : b[1] # N[1]
        BY <1>3, <1>4, <2>1, <4>3, SMTT(30) DEF Latest
      <4> QED BY <4>4, ZenonT(30) DEF NextInCycle
    <3>3. CASE ~NewDay(f, t)
      <4>1. N[2] = Next1(L[2])
        BY <1>3, <2>3, <3>1, <3>3, ZenonT(30)
      <4>2. CASE L[1] = N[1]
        BY <3>1, <4>1, <4>2, ZenonT(30) DEF NextInCycle
      <4>3. CASE L[1] # N[1]
        <5>1. \A b \in DOMAIN d : b[1] # N[1]
          BY <1>3, <1>4, <2>1, <4>3, SMTT(30) DEF Latest
        <5> QED BY <5>1 DEF NextInCycle
      <4> QED BY <4>2, <4>3, ZenonT(30)
    <3> QED BY <3>2, <3>3, ZenonT(30)
  <2> QED BY <2>2, <2>4, <2>5, ZenonT(30) DEF Target
<1>9. DOMAIN d = {} => Target(d, D, i) /\ NextInCycle(f, d, N)
  BY ZenonT(30) DEF Target, NextInCycle
<1>10. Target(d, D, i) /\ (clean /\ z = Zone /\ f.open => NextInCycle(f, d, N))
  BY <1>8, <1>9, ZenonT(30) DEF LogOK, D
<1> QED BY <1>2, <1>3, <1>10, ZenonT(30) DEF N, i, D

LEMMA CheckFileRollOK ==
  ASSUME NEW t \in Nat, t >= Day, NEW u \in Nat, t <= u, NEW z \in 0 .. Day - 1, NEW n \in Nat,
         NEW f, NEW d, NEW clean, LogOK(f, d, t, Date(t, z), n, clean), NEW ok \in BOOLEAN,
         NEW clean2, clean2 => clean /\ z = Zone /\ f.open /\ (MustRoll(f, t) => ok)
  PROVE  LET r == CheckFileRoll([f |-> f, disk |-> d], t, u, z, ok)
         IN  /\ LogOK(r.f, r.disk, u, Date(u, z), n, clean2)
             /\ r.f.open => r.f.name \in DOMAIN r.disk /\
                              LogAt(r.f, r.disk, r.f.name, Date(u, z), clean2)
             /\ (clean2 \/ ok) => r.f.open
<1> DEFINE r == CheckFileRoll([f |-> f, disk |-> d], t, u, z, ok)
           D == Date(t, z)
           E == Date(u, z)
           N == GetFileName(NextIdx(f, t), t, z)
<1>1. D \in Nat /\ E \in Nat /\ D <= E /\ n <= n /\ (clean2 => clean)
  BY Dates
<1>2. f \in Objects /\ (~f.open => f.time = 0) /\ Kept(d, t, n)
  BY ZenonT(30) DEF LogOK, ObjectOK
<1>r. RollDone(f, d, t, u, N, ok, r)
  BY <1>2, CheckFileRollDoes, ZenonT(30)
<1>3. /\ ~MustRoll(f, t) => r.f = f /\ r.disk = d
      /\ MustRoll(f, t) /\ ~ok =>
           r.f \in Objects /\ ~r.f.open /\ r.f.time = 0 /\ Shut(f, d, r.disk, t)
      /\ MustRoll(f, t) /\ ok => Opened(f, d, r.f, r.disk, N, EmptyFile(u), t, u)
  BY <1>r, ZenonT(30) DEF RollDone
<1> HIDE DEF r, D, E, N
<1>4. CASE ~MustRoll(f, t)
  <2>1. LogOK(f, d, u, E, n, clean2)
    <3>1. LogOK(f, d, t, D, n, clean)
      BY ZenonT(30) DEF D
    <3> QED BY <1>1, <3>1, LaterOK, ZenonT(30)
  <2>2. f.open /\ ~(f.size >= RollSize)
    BY <1>2, <1>4, NewDayMeans, ZenonT(30) DEF MustRoll
  <2>3. PICK L \in DOMAIN d : LogAt(f, d, L, D, clean)
    BY <2>2, ZenonT(30) DEF LogOK, D
  <2>4. LogAt(f, d, L, E, clean2)
    <3>1. L[1] \in Nat
      BY <1>2, ZenonT(30) DEF Kept, Names
    <3> QED BY <1>1, <2>3, <3>1, LaterAt, ZenonT(30)
  <2>5. f.name = L
    BY <2>2, <2>3, ZenonT(30) DEF LogAt, Holds
  <2>6. r.f = f /\ r.disk = d
    BY <1>3, <1>4, ZenonT(30)
  <2>7. f.name \in DOMAIN d /\ LogAt(f, d, f.name, E, clean2)
    BY <2>3, <2>4, <2>5, ZenonT(30)
  <2>8. /\ LogOK(r.f, r.disk, u, E, n, clean2) /\ r.f.open
        /\ r.f.name \in DOMAIN r.disk /\ LogAt(r.f, r.disk, r.f.name, E, clean2)
    BY <2>1, <2>2, <2>6, <2>7, ZenonT(30)
  <2> QED BY <2>8, ZenonT(30) DEF r, E
<1>5. CASE MustRoll(f, t) /\ ~ok
  <2>1. r.f \in Objects /\ ~r.f.open /\ r.f.time = 0 /\ Shut(f, d, r.disk, t)
    BY <1>3, <1>5, ZenonT(30)
  <2>2. LogOK(r.f, r.disk, t, D, n, clean)
    BY <2>1, ShutOK, ZenonT(30) DEF D
  <2>3. LogOK(r.f, r.disk, u, E, n, clean2)
    BY <1>1, <2>2, LaterOK, ZenonT(30)
  <2> QED BY <1>5, <2>1, <2>3, ZenonT(30) DEF r, E
<1>6. CASE MustRoll(f, t) /\ ok
  <2>1. Opened(f, d, r.f, r.disk, N, EmptyFile(u), t, u)
    BY <1>3, <1>6, ZenonT(30)
  <2>2. /\ N \in Names /\ N[1] = D /\ N[2] < Count /\ Target(d, D, N[2])
        /\ clean /\ z = Zone /\ f.open => NextInCycle(f, d, N)
    BY <1>6, RollTarget, ZenonT(30) DEF N, D
  <2>3. /\ ObjectOK(r.f, u) /\ Kept(r.disk, u, n)
        /\ Latest(r.disk, N, E) /\ Holds(r.f, r.disk, N)
    BY <1>1, <1>2, <2>1, <2>2, EmptiedOK, ZenonT(30)
  <2>4. ASSUME clean2
        PROVE  Cycle(r.f, r.disk, N)
    <3>1. N[1] <= Date(u, Zone)
      BY <1>1, <2>2, <2>4, ZenonT(30) DEF E
    <3> QED BY <1>2, <2>1, <2>2, <2>4, <3>1, CycleGoesOn, ZenonT(30)
  <2>5. r.f.name = N /\ N \in DOMAIN r.disk /\ r.f.open
    BY <2>1, ZenonT(30) DEF Opened
  <2>6. LogAt(r.f, r.disk, N, E, clean2)
    BY <2>3, <2>4, ZenonT(30) DEF LogAt
  <2>7. LogOK(r.f, r.disk, u, E, n, clean2)
    BY <2>3, <2>5, <2>6, ZenonT(30) DEF LogOK
  <2> QED BY <2>5, <2>6, <2>7, ZenonT(30) DEF r, E
<1> QED BY <1>4, <1>5, <1>6, ZenonT(30)

-----------------------------------------------------------------------------
(* Writing *)

\* A line is written to the open file.
Lined(g, e, h, e2, n, k, u) ==
  /\ h \in Objects /\ h.open /\ h.name = g.name /\ h.idx = g.idx /\ h.time = g.time
  /\ h.size = g.size + k
  /\ DOMAIN e2 = DOMAIN e
  /\ \A b \in DOMAIN e : e2[b] = IF b = g.name THEN WithLine(e[b], n + 1, k, u) ELSE e[b]

LEMMA WriteDoes ==
  ASSUME NEW f, NEW d, NEW t, NEW u, NEW z, NEW ok, NEW n \in Nat, NEW k \in Nat
  PROVE  LET r == CheckFileRoll([f |-> f, disk |-> d], t, u, z, ok)
             w == Write([f |-> f, disk |-> d], n + 1, k, t, u, z, ok)
         IN  r.f \in Objects =>
               /\ ~r.f.open => w.f = r.f /\ w.disk = r.disk
               /\ r.f.open => Lined(r.f, r.disk, w.f, w.disk, n, k, u)
<1> DEFINE r == CheckFileRoll([f |-> f, disk |-> d], t, u, z, ok)
           w == Write([f |-> f, disk |-> d], n + 1, k, t, u, z, ok)
<1>1. ~r.f.open => w = r
  BY ZenonT(30) DEF Write
<1>2. r.f.open => w = [f |-> [r.f EXCEPT !.size = @ + k],
                       disk |-> [r.disk EXCEPT ![r.f.name] = WithLine(@, n + 1, k, u)]]
  BY ZenonT(30) DEF Write
<1> HIDE DEF r, w
<1>3. ASSUME r.f \in Objects, r.f.open
      PROVE  Lined(r.f, r.disk, w.f, w.disk, n, k, u)
  <2> DEFINE g == r.f
             e == r.disk
  <2>1. w.f = [g EXCEPT !.size = @ + k] /\ w.disk = [e EXCEPT ![g.name] = WithLine(@, n + 1, k, u)]
    BY <1>2, <1>3
  <2> HIDE DEF g, e
  <2>2. g \in Objects /\ g.open
    BY <1>3, ZenonT(30) DEF g
  <2>3. g.size \in Nat /\ g.size + k \in Nat
    BY <2>2 DEF Objects
  <2>4. w.f \in Objects
    BY <2>1, <2>2, <2>3, ZenonT(30) DEF Objects
  <2>5. /\ w.f.open /\ w.f.name = g.name /\ w.f.idx = g.idx /\ w.f.time = g.time
        /\ w.f.size = g.size + k
    BY <2>1, <2>2 DEF Objects
  <2>6. /\ DOMAIN w.disk = DOMAIN e
        /\ \A b \in DOMAIN e : w.disk[b] = IF b = g.name THEN WithLine(e[b], n + 1, k, u) ELSE e[b]
    BY <2>1, ZenonT(30)
  <2> QED BY <2>4, <2>5, <2>6, ZenonT(30) DEF Lined, g, e
<1> QED BY <1>1, <1>3, ZenonT(30) DEF r, w

LEMMA LinedOK ==
  ASSUME NEW u \in Nat, NEW E, NEW n \in Nat, NEW k \in Nat, NEW g, NEW e, NEW clean,
         LogOK(g, e, u, E, n, clean), g.open, g.name \in DOMAIN e,
         LogAt(g, e, g.name, E, clean), NEW h, NEW e2, Lined(g, e, h, e2, n, k, u)
  PROVE  LogOK(h, e2, u, E, n + 1, clean)
<1> DEFINE L == g.name
<1>1. /\ ObjectOK(g, u) /\ Kept(e, u, n) /\ DOMAIN e2 = DOMAIN e /\ L \in DOMAIN e2
      /\ DOMAIN e \subseteq Names
  BY ZenonT(30) DEF LogOK, Lined, Kept
<1>2. /\ FileOK(e[L], u, n)
      /\ FileOK(e2[L], u, n + 1) /\ Lines(e2[L]) = Lines(e[L]) \cup {n + 1}
      /\ e2[L].size = e[L].size + k /\ e2[L].mtime = u
  <2>1. FileOK(e[L], u, n)
    BY <1>1, ZenonT(30) DEF Kept
  <2>2. e2[L] = WithLine(e[L], n + 1, k, u)
    BY ZenonT(30) DEF Lined
  <2> HIDE DEF L
  <2> DEFINE x == e[L]
             y == WithLine(x, n + 1, k, u)
  <2> HIDE DEF L, x
  <2>3. FileOK(x, u, n)
    BY <2>1, ZenonT(30) DEF x
  <2>4. FileOK(y, u, n + 1)
    BY <2>3, WithLineOK, ZenonT(30)
  <2>5. Lines(y) = Lines(x) \cup {n + 1}
    <3>1. x \in Files /\ n + 1 \in Nat
      BY <2>3 DEF FileOK
    <3> QED BY <3>1, WithLineLines, ZenonT(30)
  <2>6. y.size = x.size + k
    <3>1. x.size \in Nat
      BY <2>3, ZenonT(30) DEF FileOK, Files
    <3> QED BY <3>1, ZenonT(30) DEF WithLine
  <2>7. y.mtime = u
    BY ZenonT(30) DEF WithLine
  <2> QED BY <2>1, <2>2, <2>4, <2>5, <2>6, <2>7, ZenonT(30) DEF x
<1>3. \A b \in DOMAIN e : b # L => e2[b] = e[b]
  BY ZenonT(30) DEF Lined
<1>4. h.open /\ h.name = L /\ h.idx = g.idx /\ h.time = g.time /\ h.size = g.size + k /\ h \in Objects
  BY ZenonT(30) DEF Lined
<1>5. Latest(e, L, E) /\ Holds(g, e, L) /\ (clean => Cycle(g, e, L))
  BY ZenonT(30) DEF LogAt
<1>0. g.name = L /\ g.open
  BY ZenonT(30)
<1> HIDE DEF L
<1>6. ASSUME NEW b \in DOMAIN e
      PROVE  /\ FileOK(e[b], u, n) /\ Lines(e[b]) \subseteq 1 .. n /\ b[2] < Count
             /\ FileOK(e2[b], u, n + 1)
             /\ e2[b].mtime \in Nat /\ e2[b].mtime <= u
  <2>1. FileOK(e[b], u, n) /\ Lines(e[b]) \subseteq 1 .. n /\ b[2] < Count
    BY <1>1, ZenonT(30) DEF Kept, FileOK
  <2>2. FileOK(e[b], u, n + 1)
    BY <2>1 DEF FileOK
  <2>3. FileOK(e2[b], u, n + 1)
    BY <1>2, <1>3, <2>2, ZenonT(30)
  <2>4. e2[b].mtime \in Nat /\ e2[b].mtime <= u
    BY <2>3, ZenonT(30) DEF FileOK, Files
  <2> QED BY <2>1, <2>3, <2>4, ZenonT(30)
<1>7. ASSUME NEW b \in DOMAIN e, b # L
      PROVE  Before(e2[b], e2[L])
  <2>1. Before(e[b], e[L]) /\ e2[b] = e[b]
    BY <1>3, <1>5, <1>7, ZenonT(30) DEF Latest
  <2>2. Lines(e[b]) \subseteq 1 .. n
    BY <1>6, ZenonT(30)
  <2> QED BY <1>2, <2>1, <2>2 DEF Before
<1>8. Kept(e2, u, n + 1)
  <2>1. ASSUME NEW a \in DOMAIN e2, NEW b \in DOMAIN e2, a # b
        PROVE  Before(e2[a], e2[b]) \/ Before(e2[b], e2[a])
    <3>1. CASE a = L \/ b = L
      BY <1>1, <1>7, <2>1, <3>1, ZenonT(30)
    <3>2. CASE a # L /\ b # L
      BY <1>1, <1>3, <2>1, <3>2, ZenonT(30) DEF Kept
    <3> QED BY <3>1, <3>2, ZenonT(30)
  <2> QED BY <1>1, <1>6, <2>1, ZenonT(30) DEF Kept
<1>9. Latest(e2, L, E)
  <2>1. ASSUME NEW b \in DOMAIN e2
        PROVE  /\ b[1] <= L[1]
               /\ b[1] = L[1] /\ b[2] < L[2] => e2[b].size >= RollSize
               /\ b[1] = L[1] /\ b[2] > L[2] => e2[b].mtime <= e2[L].mtime
    <3>1. b[1] <= L[1] /\ (b[1] = L[1] /\ b[2] < L[2] => e[b].size >= RollSize)
      BY <1>1, <1>5, <2>1, ZenonT(30) DEF Latest
    <3>2. b # L => e2[b] = e[b]
      BY <1>1, <1>3, ZenonT(30)
    <3>3. b = L => ~(b[2] < L[2])
      BY <1>1 DEF Names
    <3>4. e2[b].mtime <= e2[L].mtime
      BY <1>1, <1>2, <1>6, ZenonT(30)
    <3> QED BY <3>1, <3>2, <3>3, <3>4, ZenonT(30)
  <2> QED BY <1>1, <1>5, <1>7, <2>1, ZenonT(30) DEF Latest
<1>10. Holds(h, e2, L)
  <2>1. g.idx = L[2] /\ g.size = e[L].size
    BY <1>5, <1>0, ZenonT(30) DEF Holds
  <2> QED BY <1>1, <1>2, <1>4, <2>1, ZenonT(30) DEF Holds
<1>11. clean => Cycle(h, e2, L)
  <2>1. SUFFICES ASSUME clean PROVE Cycle(h, e2, L)
    BY ZenonT(30)
  <2>2. ASSUME NEW a \in DOMAIN e2, a[1] = L[1]
        PROVE  /\ e2[a].mtime <= e2[L].mtime
               /\ \A i \in 0 .. Count - 1 : Age(L, <<L[1], i>>) < Age(L, a) => <<L[1], i>> \in DOMAIN e2
    BY <1>1, <1>2, <1>5, <1>6, <2>1, <2>2, ZenonT(30) DEF Cycle
  <2>3. ASSUME NEW a \in DOMAIN e2, a[1] = L[1], NEW b \in DOMAIN e2, b[1] = L[1],
               Age(L, b) < Age(L, a)
        PROVE  Before(e2[a], e2[b])
    <3>1. Before(e[a], e[b])
      BY <1>1, <1>5, <2>1, <2>3, ZenonT(30) DEF Cycle
    <3>2. a # L
      <4>1. Age(L, L) = 0
        BY <1>1 DEF Age, Names
      <4>2. Age(L, b) \in Nat
        <5>1. b[2] \in Nat /\ L[2] \in Nat /\ b[2] < Count /\ Count \in Nat
          BY <1>1, <1>6, CountOK DEF Names
        <5> QED BY <5>1 DEF Age
      <4> QED BY <2>3, <4>1, <4>2
    <3>3. CASE b = L
      BY <1>1, <1>7, <3>2, <3>3, ZenonT(30)
    <3>4. CASE b # L
      BY <1>1, <1>3, <3>1, <3>2, <3>4
    <3> QED BY <3>3, <3>4, ZenonT(30)
  <2>4. h.name = L /\ L[1] <= Date(h.time, Zone)
    BY <1>4, <1>5, <2>1, ZenonT(30) DEF Cycle
  <2> QED BY <2>2, <2>3, <2>4, ZenonT(30) DEF Cycle
<1>12. ObjectOK(h, u)
  BY <1>1, <1>4, ZenonT(30) DEF ObjectOK
<1> QED BY <1>1, <1>8, <1>9, <1>10, <1>11, <1>12, ZenonT(30) DEF LogOK, LogAt

LEMMA WriteOK ==
  ASSUME NEW t \in Nat, t >= Day, NEW u \in Nat, t <= u, NEW z \in 0 .. Day - 1, NEW n \in Nat,
         NEW f, NEW d, NEW clean, LogOK(f, d, t, Date(t, z), n, clean), NEW ok \in BOOLEAN,
         NEW clean2, clean2 => clean /\ z = Zone /\ f.open /\ (MustRoll(f, t) => ok),
         NEW k \in Nat
  PROVE  LET w == Write([f |-> f, disk |-> d], n + 1, k, t, u, z, ok)
         IN  /\ LogOK(w.f, w.disk, u, Date(u, z), n + 1, clean2)
             /\ clean2 => w.f.open
             /\ ok => \E name \in DOMAIN w.disk : n + 1 \in Lines(w.disk[name])
<1> DEFINE r == CheckFileRoll([f |-> f, disk |-> d], t, u, z, ok)
           w == Write([f |-> f, disk |-> d], n + 1, k, t, u, z, ok)
           E == Date(u, z)
<1>1. /\ LogOK(r.f, r.disk, u, E, n, clean2)
      /\ r.f.open => r.f.name \in DOMAIN r.disk /\ LogAt(r.f, r.disk, r.f.name, E, clean2)
      /\ (clean2 \/ ok) => r.f.open
  BY CheckFileRollOK, ZenonT(30)
<1>2. r.f \in Objects
  BY <1>1, ZenonT(30) DEF LogOK, ObjectOK
<1>3. /\ ~r.f.open => w.f = r.f /\ w.disk = r.disk
      /\ r.f.open => Lined(r.f, r.disk, w.f, w.disk, n, k, u)
  BY <1>2, WriteDoes, ZenonT(30)
<1>4. E \in Nat
  BY Dates, ZenonT(30)
<1> HIDE DEF r, w, E
<1>5. CASE r.f.open
  <2>1. LogOK(w.f, w.disk, u, E, n + 1, clean2)
    BY <1>1, <1>3, <1>5, LinedOK, ZenonT(30)
  <2>2. w.f.open
    BY <1>3, <1>5, ZenonT(30) DEF Lined
  <2>3. \E name \in DOMAIN w.disk : n + 1 \in Lines(w.disk[name])
    <3>1. /\ r.f.name \in DOMAIN w.disk
          /\ w.disk[r.f.name] = WithLine(r.disk[r.f.name], n + 1, k, u)
      BY <1>1, <1>3, <1>5, ZenonT(30) DEF Lined
    <3>2. FileOK(r.disk[r.f.name], u, n)
      BY <1>1, <1>5, ZenonT(30) DEF LogOK, Kept
    <3>3. n + 1 \in Lines(w.disk[r.f.name])
      <4>1. r.disk[r.f.name] \in Files /\ n + 1 \in Nat
        BY <3>2 DEF FileOK
      <4> QED BY <3>1, <4>1, WithLineLines
    <3> QED BY <3>1, <3>3, ZenonT(30)
  <2> QED BY <2>1, <2>2, <2>3, ZenonT(30) DEF w, E
<1>6. CASE ~r.f.open
  <2>1. LogOK(w.f, w.disk, u, E, n + 1, clean2)
    <3>1. n + 1 \in Nat /\ n <= n + 1 /\ u <= u /\ E <= E /\ (clean2 => clean2)
      BY <1>4
    <3>2. LogOK(w.f, w.disk, u, E, n, clean2)
      BY <1>1, <1>3, <1>6, ZenonT(30)
    <3> QED BY <1>4, <3>1, <3>2, LaterOK, ZenonT(30)
  <2> QED BY <1>1, <1>6, <2>1, ZenonT(30) DEF w, E
<1> QED BY <1>5, <1>6, ZenonT(30)

\* After the roll, the line that is written only adds to a file.
LEMMA WriteKeepsLines ==
  ASSUME NEW t \in Nat, t >= Day, NEW u \in Nat, t <= u, NEW z \in 0 .. Day - 1, NEW n \in Nat,
         NEW f, NEW d, NEW clean, LogOK(f, d, t, Date(t, z), n, clean), NEW ok \in BOOLEAN,
         NEW k \in Nat, NEW b, b \in DOMAIN CheckFileRoll([f |-> f, disk |-> d], t, u, z, ok).disk
  PROVE  Lines(CheckFileRoll([f |-> f, disk |-> d], t, u, z, ok).disk[b]) \subseteq
           Lines(Write([f |-> f, disk |-> d], n + 1, k, t, u, z, ok).disk[b])
<1> DEFINE r == CheckFileRoll([f |-> f, disk |-> d], t, u, z, ok)
           w == Write([f |-> f, disk |-> d], n + 1, k, t, u, z, ok)
<1>1. LogOK(r.f, r.disk, u, Date(u, z), n, FALSE)
  BY CheckFileRollOK, ZenonT(30)
<1>2. r.f \in Objects /\ Kept(r.disk, u, n)
  BY <1>1, ZenonT(30) DEF LogOK, ObjectOK
<1>3. /\ ~r.f.open => w.f = r.f /\ w.disk = r.disk
      /\ r.f.open => Lined(r.f, r.disk, w.f, w.disk, n, k, u)
  BY <1>2, WriteDoes, ZenonT(30)
<1> HIDE DEF r, w
<1>4. b \in DOMAIN r.disk
  BY ZenonT(30) DEF r
<1>5. CASE r.f.open /\ b = r.f.name
  <2>1. w.disk[b] = WithLine(r.disk[b], n + 1, k, u)
    BY <1>3, <1>4, <1>5, ZenonT(30) DEF Lined
  <2>2. r.disk[b] \in Files /\ n + 1 \in Nat
    <3>1. r.disk[b] \in Files
      BY <1>2, <1>4, ZenonT(30) DEF Kept, FileOK
    <3>2. n + 1 \in Nat
      OBVIOUS
    <3> QED BY <3>1, <3>2, ZenonT(30)
  <2>3. Lines(w.disk[b]) = Lines(r.disk[b]) \cup {n + 1}
    BY <2>1, <2>2, WithLineLines
  <2> QED BY <2>3, ZenonT(30) DEF r, w
<1>6. CASE ~(r.f.open /\ b = r.f.name)
  <2>1. w.disk[b] = r.disk[b]
    BY <1>3, <1>4, <1>6, ZenonT(30) DEF Lined
  <2> QED BY <2>1, ZenonT(30) DEF r, w
<1> QED BY <1>5, <1>6, ZenonT(30)

-----------------------------------------------------------------------------
(* The lines of the files, and how long they are *)

\* What the files of e hold they held in d.
Carried(d, e) ==
  \A b \in DOMAIN e :
    \/ b \in DOMAIN d /\ Lines(e[b]) = Lines(d[b]) /\ e[b].before = d[b].before
    \/ Lines(e[b]) = {} /\ e[b].before = 0

DatedFiles(d, dates) == \A b \in DOMAIN d : \A l \in Lines(d[b]) : b[1] \in dates[l]

LEMMA CarriedOK ==
  ASSUME NEW d, NEW e, Carried(d, e)
  PROVE  /\ Bounded(d) => Bounded(e)
         /\ \A dates : DatedFiles(d, dates) => DatedFiles(e, dates)
<1>1. Bounded(d) => Bounded(e)
  BY ZenonT(30) DEF Carried, Bounded
<1>2. ASSUME NEW dates, DatedFiles(d, dates)
      PROVE  DatedFiles(e, dates)
  BY <1>2, ZenonT(30) DEF Carried, DatedFiles
<1> QED BY <1>1, <1>2, ZenonT(30)

LEMMA CarriedShut ==
  ASSUME NEW t \in Nat, NEW n, NEW d, Kept(d, t, n), NEW f, NEW e, Shut(f, d, e, t)
  PROVE  Carried(d, e)
<1>1. ASSUME NEW b \in DOMAIN e
      PROVE  b \in DOMAIN d /\ Lines(e[b]) = Lines(d[b]) /\ e[b].before = d[b].before
  <2>1. b \in DOMAIN d /\ e[b] = IF f.open /\ b = f.name THEN WithClose(d[b], t) ELSE d[b]
    BY ZenonT(30) DEF Shut
  <2> QED BY <2>1, ShutFile
<1> QED BY <1>1, ZenonT(30) DEF Carried

LEMMA CarriedOpened ==
  ASSUME NEW t \in Nat, NEW u, NEW n, NEW d, Kept(d, t, n), NEW f, NEW g, NEW e, NEW N, NEW x,
         Opened(f, d, g, e, N, x, t, u),
         \/ Lines(x) = {} /\ x.before = 0
         \/ N \in DOMAIN d /\ Lines(x) = Lines(d[N]) /\ x.before = d[N].before
  PROVE  Carried(d, e)
<1>1. ASSUME NEW b \in DOMAIN e, b # N
      PROVE  b \in DOMAIN d /\ Lines(e[b]) = Lines(d[b]) /\ e[b].before = d[b].before
  <2>1. b \in DOMAIN d /\ e[b] = IF f.open /\ b = f.name THEN WithClose(d[b], t) ELSE d[b]
    BY <1>1, ZenonT(30) DEF Opened
  <2> QED BY <2>1, ShutFile
<1>2. e[N] = x
  BY ZenonT(30) DEF Opened
<1> QED BY <1>1, <1>2, ZenonT(30) DEF Carried

\* What CheckFileRoll with result r does to the lines, and where the next one goes.
RollsTo(f, d, t, u, z, r) ==
  /\ Carried(d, r.disk)
  /\ r.f.open =>
       /\ r.disk[r.f.name].size = 0 \/ r.disk[r.f.name].size < RollSize
       /\ \/ MustRoll(f, t) /\ r.f.name[1] = Date(t, z) /\ r.f.time = u
          \/ ~MustRoll(f, t) /\ r.f = f

LEMMA RollCarries ==
  ASSUME NEW t \in Nat, t >= Day, NEW u \in Nat, NEW z \in 0 .. Day - 1, NEW n,
         NEW f, NEW d, NEW clean, LogOK(f, d, t, Date(t, z), n, clean), NEW ok \in BOOLEAN
  PROVE  RollsTo(f, d, t, u, z, CheckFileRoll([f |-> f, disk |-> d], t, u, z, ok))
<1> DEFINE r == CheckFileRoll([f |-> f, disk |-> d], t, u, z, ok)
           N == GetFileName(NextIdx(f, t), t, z)
<1>1. f \in Objects /\ (~f.open => f.time = 0) /\ Kept(d, t, n)
  BY ZenonT(30) DEF LogOK, ObjectOK
<1>r. RollDone(f, d, t, u, N, ok, r)
  BY <1>1, CheckFileRollDoes, ZenonT(30)
<1>2. /\ ~MustRoll(f, t) => r.f = f /\ r.disk = d
      /\ MustRoll(f, t) /\ ~ok =>
           r.f \in Objects /\ ~r.f.open /\ r.f.time = 0 /\ Shut(f, d, r.disk, t)
      /\ MustRoll(f, t) /\ ok => Opened(f, d, r.f, r.disk, N, EmptyFile(u), t, u)
  BY <1>r, ZenonT(30) DEF RollDone
<1>3. N[1] = Date(t, z)
  BY <1>1, NextIdxOK, NameOK, ZenonT(30)
<1> HIDE DEF r, N
<1>4. ASSUME ~MustRoll(f, t) PROVE RollsTo(f, d, t, u, z, r)
  <2>1. r.f = f /\ r.disk = d
    BY <1>2, <1>4, ZenonT(30)
  <2>2. Carried(d, d)
    BY ZenonT(30) DEF Carried
  <2>3. ASSUME f.open
        PROVE  d[f.name].size < RollSize
    <3>1. f.name \in DOMAIN d /\ f.size = d[f.name].size
      BY <2>3, ZenonT(30) DEF LogOK, LogAt, Holds
    <3>2. d[f.name].size \in Nat
      BY <1>1, <3>1, ZenonT(30) DEF Kept, FileOK, Files
    <3>3. f.size < RollSize
      BY <1>4, <3>1, <3>2, LogAssumption, SMTT(30) DEF MustRoll
    <3> QED BY <3>1, <3>2, <3>3, LogAssumption
  <2> QED BY <1>4, <2>1, <2>2, <2>3, ZenonT(30) DEF RollsTo
<1>5. ASSUME MustRoll(f, t), ~ok PROVE RollsTo(f, d, t, u, z, r)
  <2>1. Carried(d, r.disk) /\ ~r.f.open
    BY <1>1, <1>2, <1>5, CarriedShut, ZenonT(30)
  <2> QED BY <2>1, ZenonT(30) DEF RollsTo
<1>6. ASSUME MustRoll(f, t), ok PROVE RollsTo(f, d, t, u, z, r)
  <2>1. Opened(f, d, r.f, r.disk, N, EmptyFile(u), t, u)
    BY <1>2, <1>6, ZenonT(30)
  <2>2. Lines(EmptyFile(u)) = {} /\ EmptyFile(u).before = 0 /\ EmptyFile(u).size = 0
    BY EmptyFileOK, ZenonT(30)
  <2>3. Carried(d, r.disk)
    BY <1>1, <2>1, <2>2, CarriedOpened, ZenonT(30)
  <2>4. r.f.name = N /\ r.f.time = u /\ r.disk[N].size = 0
    BY <2>1, <2>2, ZenonT(30) DEF Opened
  <2> QED BY <1>3, <1>6, <2>3, <2>4, ZenonT(30) DEF RollsTo
<1> QED BY <1>4, <1>5, <1>6, ZenonT(30) DEF r

LEMMA WriteBounded ==
  ASSUME NEW t \in Nat, t >= Day, NEW u \in Nat, t <= u, NEW z \in 0 .. Day - 1, NEW n \in Nat,
         NEW f, NEW d, NEW clean, LogOK(f, d, t, Date(t, z), n, clean), NEW ok \in BOOLEAN,
         NEW k \in Sizes, Bounded(d)
  PROVE  Bounded(Write([f |-> f, disk |-> d], n + 1, k, t, u, z, ok).disk)
<1> DEFINE r == CheckFileRoll([f |-> f, disk |-> d], t, u, z, ok)
           w == Write([f |-> f, disk |-> d], n + 1, k, t, u, z, ok)
<1>1. k \in Nat
  BY LogFileAssumption, ZenonT(30)
<1>2. LogOK(r.f, r.disk, u, Date(u, z), n, FALSE)
  BY CheckFileRollOK, ZenonT(30)
<1>r. RollsTo(f, d, t, u, z, r)
  BY RollCarries, ZenonT(30)
<1>3. /\ Carried(d, r.disk)
      /\ r.f.open => r.disk[r.f.name].size = 0 \/ r.disk[r.f.name].size < RollSize
  <2> HIDE DEF r
  <2> QED BY <1>r, ZenonT(30) DEF RollsTo
<1>4. r.f \in Objects /\ Kept(r.disk, u, n)
  BY <1>2, ZenonT(30) DEF LogOK, ObjectOK
<1>5. /\ ~r.f.open => w.f = r.f /\ w.disk = r.disk
      /\ r.f.open => Lined(r.f, r.disk, w.f, w.disk, n, k, u)
  BY <1>1, <1>4, WriteDoes, ZenonT(30)
<1> HIDE DEF r, w
<1>6. Bounded(r.disk)
  BY <1>3, CarriedOK, ZenonT(30)
<1>7. ASSUME r.f.open, NEW b \in DOMAIN w.disk
      PROVE  w.disk[b].before = 0 \/ w.disk[b].before < RollSize
  <2>1. b \in DOMAIN r.disk
    BY <1>5, <1>7, ZenonT(30) DEF Lined
  <2>2. CASE b = r.f.name
    <3>1. w.disk[b].before = r.disk[b].size
      <4>1. w.disk[b] = WithLine(r.disk[b], n + 1, k, u)
        BY <1>5, <1>7, <2>1, <2>2, ZenonT(30) DEF Lined
      <4>2. WithLine(r.disk[b], n + 1, k, u).before = r.disk[b].size
        BY ZenonT(30) DEF WithLine
      <4> QED BY <4>1, <4>2, ZenonT(30)
    <3> QED BY <1>3, <1>7, <2>2, <3>1, ZenonT(30)
  <2>3. CASE b # r.f.name
    <3>1. w.disk[b] = r.disk[b]
      BY <1>5, <1>7, <2>1, <2>3, ZenonT(30) DEF Lined
    <3> QED BY <1>6, <2>1, <3>1, ZenonT(30) DEF Bounded
  <2> QED BY <2>2, <2>3, ZenonT(30)
<1>8. Bounded(w.disk)
  BY <1>5, <1>6, <1>7, ZenonT(30) DEF Bounded
<1> QED BY <1>8, ZenonT(30) DEF w

LEMMA WriteDated ==
  ASSUME NEW t \in Nat, t >= Day, NEW u \in Nat, t <= u, NEW dates \in Seq(SUBSET Nat),
         NEW S \in SUBSET Nat, Date(t, Zone) \in S,
         NEW f, NEW d, NEW clean, LogOK(f, d, t, Date(t, Zone), Len(dates), clean),
         NEW ok \in BOOLEAN, NEW k \in Nat, Dated(f, d, Zone, dates),
         MustRoll(f, t) => Date(t, Zone) = Date(u, Zone)
  PROVE  LET w == Write([f |-> f, disk |-> d], Len(dates) + 1, k, t, u, Zone, ok)
         IN  Dated(w.f, w.disk, Zone, Append(dates, S))
<1> DEFINE n == Len(dates)
           r == CheckFileRoll([f |-> f, disk |-> d], t, u, Zone, ok)
           w == Write([f |-> f, disk |-> d], n + 1, k, t, u, Zone, ok)
           D == Date(t, Zone)
           more == Append(dates, S)
<1>1. Zone \in 0 .. Day - 1 /\ n \in Nat /\ D \in Nat
  BY LogAssumption, Dates, SMTT(30)
<1>2. /\ LogOK(r.f, r.disk, u, Date(u, Zone), n, FALSE)
      /\ r.f.open => r.f.name \in DOMAIN r.disk
  BY <1>1, CheckFileRollOK, ZenonT(30)
<1>r. RollsTo(f, d, t, u, Zone, r)
  <2>1. LogOK(f, d, t, Date(t, Zone), n, clean)
    BY ZenonT(30)
  <2> HIDE DEF n, D, w, more
  <2> QED BY <1>1, <2>1, RollCarries, ZenonT(30)
<1>3. /\ Carried(d, r.disk)
      /\ r.f.open => \/ MustRoll(f, t) /\ r.f.name[1] = Date(t, Zone) /\ r.f.time = u
                     \/ ~MustRoll(f, t) /\ r.f = f
  <2> HIDE DEF r
  <2> QED BY <1>r, ZenonT(30) DEF RollsTo
<1>4. r.f \in Objects /\ Kept(r.disk, u, n) /\ f \in Objects
  BY <1>2, ZenonT(30) DEF LogOK, ObjectOK
<1>5. /\ ~r.f.open => w.f = r.f /\ w.disk = r.disk
      /\ r.f.open => Lined(r.f, r.disk, w.f, w.disk, n, k, u)
  BY <1>1, <1>4, WriteDoes, ZenonT(30)
<1>6. more[n + 1] = S /\ D \in S /\ \A l \in 1 .. n : more[l] = dates[l]
  BY <1>1, SMTT(30)
<1> HIDE DEF r, w, more, n, D
<1>7. DatedFiles(r.disk, dates)
  BY <1>3, CarriedOK, SMTT(30) DEF Dated, DatedFiles
<1>8. r.f.open => r.f.name[1] = D /\ r.f.name[1] = Date(r.f.time, Zone)
  <2>1. CASE MustRoll(f, t)
    BY <1>3, <2>1, ZenonT(30) DEF D
  <2>2. CASE ~MustRoll(f, t)
    <3>1. Date(t, Zone) = Date(f.time, Zone)
      BY <1>4, <2>2, NewDayMeans, ZenonT(30) DEF MustRoll
    <3> QED BY <1>3, <2>2, <3>1, ZenonT(30) DEF Dated, D
  <2> QED BY <2>1, <2>2, ZenonT(30)
<1>9. DatedFiles(r.disk, more)
  <2>1. \A b \in DOMAIN r.disk : Lines(r.disk[b]) \subseteq 1 .. n
    BY <1>4, ZenonT(30) DEF Kept, FileOK
  <2> QED BY <1>6, <1>7, <2>1, ZenonT(30) DEF DatedFiles
<1>10. DatedFiles(w.disk, more)
  <2>1. ASSUME r.f.open, NEW b \in DOMAIN w.disk, NEW l \in Lines(w.disk[b])
        PROVE  b[1] \in more[l]
    <3>1. b \in DOMAIN r.disk /\ Lined(r.f, r.disk, w.f, w.disk, n, k, u)
      BY <1>5, <2>1, ZenonT(30) DEF Lined
    <3>2. CASE b = r.f.name
      <4>1. r.disk[b] \in Files /\ n + 1 \in Nat
        BY <1>1, <1>4, <3>1, SMTT(30) DEF Kept, FileOK
      <4>2. w.disk[b] = WithLine(r.disk[b], n + 1, k, u)
        BY <3>1, <3>2, ZenonT(30) DEF Lined
      <4>3. l \in Lines(r.disk[b]) \/ l = n + 1
        BY <2>1, <4>1, <4>2, WithLineLines, SMTT(30)
      <4> QED BY <1>6, <1>8, <1>9, <2>1, <3>1, <3>2, <4>3, ZenonT(30) DEF DatedFiles
    <3>3. CASE b # r.f.name
      <4>1. w.disk[b] = r.disk[b]
        BY <3>1, <3>3, ZenonT(30) DEF Lined
      <4> QED BY <1>9, <2>1, <3>1, <4>1, ZenonT(30) DEF DatedFiles
    <3> QED BY <3>2, <3>3, ZenonT(30)
  <2> QED BY <1>5, <1>9, <2>1, ZenonT(30) DEF DatedFiles
<1>11. w.f.open => w.f.name[1] = Date(w.f.time, Zone)
  BY <1>5, <1>8, ZenonT(30) DEF Lined
<1>12. Dated(w.f, w.disk, Zone, more)
  BY <1>10, <1>11, ZenonT(30) DEF Dated, DatedFiles
<1> QED BY <1>12, ZenonT(30) DEF w, more, n, D

\* Lines are lost by a roll onto the oldest of Count files.
Oldest(d, b) ==
  /\ \A i \in 0 .. Count - 1 : <<b[1], i>> \in DOMAIN d
  /\ \A o \in DOMAIN d \ {b} : o[1] = b[1] => Before(d[b], d[o])

LEMMA RollDropsOldest ==
  ASSUME NEW t \in Nat, t >= Day, NEW u \in Nat, NEW z \in 0 .. Day - 1, NEW n,
         NEW f, NEW d, NEW clean, LogOK(f, d, t, Date(t, z), n, clean), NEW ok \in BOOLEAN,
         NEW b \in DOMAIN d
  PROVE  LET r == CheckFileRoll([f |-> f, disk |-> d], t, u, z, ok)
         IN  clean /\ z = Zone /\ f.open =>
               b \in DOMAIN r.disk /\ (Lines(d[b]) \subseteq Lines(r.disk[b]) \/ Oldest(d, b))
<1> DEFINE r == CheckFileRoll([f |-> f, disk |-> d], t, u, z, ok)
           N == GetFileName(NextIdx(f, t), t, z)
<1>1. f \in Objects /\ (~f.open => f.time = 0) /\ Kept(d, t, n)
  BY ZenonT(30) DEF LogOK, ObjectOK
<1>r. RollDone(f, d, t, u, N, ok, r)
  BY <1>1, CheckFileRollDoes, ZenonT(30)
<1>2. /\ ~MustRoll(f, t) => r.f = f /\ r.disk = d
      /\ MustRoll(f, t) /\ ~ok =>
           r.f \in Objects /\ ~r.f.open /\ r.f.time = 0 /\ Shut(f, d, r.disk, t)
      /\ MustRoll(f, t) /\ ok => Opened(f, d, r.f, r.disk, N, EmptyFile(u), t, u)
  BY <1>r, ZenonT(30) DEF RollDone
<1>3. MustRoll(f, t) /\ clean /\ z = Zone /\ f.open => NextInCycle(f, d, N)
  BY RollTarget, ZenonT(30)
<1> HIDE DEF r, N
<1>4. CASE ~MustRoll(f, t)
  BY <1>2, <1>4, ZenonT(30) DEF r
<1>5. CASE MustRoll(f, t) /\ ~ok
  <2>1. b \in DOMAIN r.disk
        /\ r.disk[b] = IF f.open /\ b = f.name THEN WithClose(d[b], t) ELSE d[b]
    BY <1>2, <1>5, ZenonT(30) DEF Shut
  <2>2. Lines(r.disk[b]) = Lines(d[b])
    BY <1>1, <2>1, ShutFile, SMTT(30)
  <2> QED BY <2>1, <2>2, ZenonT(30) DEF r
<1>6. CASE MustRoll(f, t) /\ ok
  <2>1. Opened(f, d, r.f, r.disk, N, EmptyFile(u), t, u) /\ b \in DOMAIN r.disk
    BY <1>2, <1>6, ZenonT(30) DEF Opened
  <2>2. CASE b # N
    <3>1. r.disk[b] = IF f.open /\ b = f.name THEN WithClose(d[b], t) ELSE d[b]
      BY <2>1, <2>2, ZenonT(30) DEF Opened
    <3>2. Lines(r.disk[b]) = Lines(d[b])
      BY <1>1, <3>1, ShutFile, SMTT(30)
    <3> QED BY <2>1, <3>2, ZenonT(30) DEF r
  <2>3. CASE b = N
    <3> SUFFICES ASSUME clean, z = Zone, f.open PROVE Oldest(d, b)
      BY <2>1, ZenonT(30) DEF r
    <3>1. PICK L \in DOMAIN d : Cycle(f, d, L) /\ L[1] = N[1] /\ N[2] = Next1(L[2])
      BY <1>3, <1>6, <2>3, ZenonT(30) DEF NextInCycle
    <3>2. /\ \A i \in 0 .. Count - 1 : <<N[1], i>> \in DOMAIN d
          /\ \A o \in DOMAIN d \ {N} : o[1] = N[1] => Before(d[N], d[o])
      BY <1>1, <2>3, <3>1, CycleDrops, ZenonT(30)
    <3> QED BY <2>3, <3>2, ZenonT(30) DEF Oldest
  <2> QED BY <2>2, <2>3, ZenonT(30)
<1> QED BY <1>4, <1>5, <1>6, ZenonT(30)

-----------------------------------------------------------------------------
(* InitLogFile *)

LEMMA LeastNatural ==
  ASSUME NEW S \in SUBSET Nat, S # {}
  PROVE  \E x \in S : \A y \in S : x <= y
<1>1. \E x \in S : \A y \in S : ~(<<y, x>> \in OpToRel(<, Nat))
  BY NatLessThanWellFounded, WFMin, Zenon
<1>2. \A x \in S, y \in S : ~(<<y, x>> \in OpToRel(<, Nat)) => x <= y
  BY SMTT(30) DEF OpToRel
<1> QED BY <1>1, <1>2, Zenon

\* There are not two newest files.
OneNewest(d, t, z) == \A i, j \in Newest(d, t, z) : i = j

\* iLastRollID: the newest file, the first of several, if there are files of the date.
LEMMA LastRollIDOK ==
  ASSUME NEW t \in Nat, NEW z \in 0 .. Day - 1, NEW n, NEW d, Kept(d, t, n)
  PROVE  LET i == LastRollID(d, t, z)
             D == Date(t, z)
             time(j) == d[<<D, j>>].mtime
         IN  /\ i \in Nat /\ i < Count
             /\ <<D, i>> \notin DOMAIN d => \A b \in DOMAIN d : b[1] # D
             /\ <<D, i>> \in DOMAIN d => \A j \in Nat : <<D, j>> \in DOMAIN d =>
                  /\ time(j) <= time(i) /\ (j < i => time(j) < time(i))
                  /\ OneNewest(d, t, z) /\ time(j) = time(i) => j = i
<1> DEFINE D == Date(t, z)
           time(j) == d[<<D, j>>].mtime
           found == Found(d, t, z)
           newest == Newest(d, t, z)
           i == LastRollID(d, t, z)
<1>1. D \in Nat /\ Count \in Nat \ {0} /\ RollCountMax \in Nat
  BY Dates, CountOK, LogAssumption, ZenonT(30)
<1>2. /\ found = {j \in 0 .. RollCountMax - 1 : <<D, j>> \in DOMAIN d}
      /\ newest = {j \in found : \A k \in found : time(k) <= time(j)}
      /\ i = IF newest = {} THEN 0 ELSE CHOOSE j \in newest : \A k \in newest : j <= k
  BY ZenonT(30) DEF Found, Newest, LastRollID, GetFileName
<1>3. \A b \in DOMAIN d : b = <<b[1], b[2]>> /\ b[1] \in Nat /\ b[2] \in Nat /\ b[2] < Count
  BY DEF Kept, Names
<1>4. \A j : <<D, j>> \in DOMAIN d => time(j) \in Nat /\ time(j) <= t /\ j \in Nat /\ j < Count
  <2>1. ASSUME NEW j, <<D, j>> \in DOMAIN d
        PROVE  time(j) \in Nat /\ time(j) <= t /\ j \in Nat /\ j < Count
    <3>1. FileOK(d[<<D, j>>], t, n)
      BY <2>1, ZenonT(30) DEF Kept
    <3>2. <<D, j>>[2] = j
      BY ZenonT(30)
    <3> QED BY <1>3, <2>1, <3>1, <3>2, ZenonT(30) DEF FileOK, Files
  <2> QED BY <2>1, ZenonT(30)
<1> HIDE DEF D, time, found, newest, i
<1>5. CASE RollCountMax = 0
  <2>1. Count = 1 /\ found = {}
    BY <1>1, <1>2, <1>5 DEF Count
  <2>2. newest = {} /\ i = 0
    BY <1>2, <2>1, ZenonT(30)
  <2>3. \A j : <<D, j>> \in DOMAIN d => j = 0
    BY <1>4, <2>1
  <2>4. <<D, i>> \notin DOMAIN d => \A b \in DOMAIN d : b[1] # D
    BY <1>3, <2>2, <2>3, ZenonT(30)
  <2>5. \A j : <<D, j>> \in DOMAIN d => j = i /\ time(j) <= time(i)
    BY <1>4, <2>2, <2>3, SMTT(30)
  <2> QED BY <2>1, <2>2, <2>4, <2>5, SMTT(30) DEF D, time, newest, i
<1>6. CASE RollCountMax # 0 /\ found = {}
  <2>1. newest = {} /\ i = 0 /\ Count = RollCountMax
    BY <1>2, <1>6, ZenonT(30) DEF Count
  <2>2. \A j : <<D, j>> \notin DOMAIN d
    BY <1>1, <1>2, <1>4, <1>6, <2>1
  <2>3. \A b \in DOMAIN d : b[1] # D
    BY <1>3, <2>2, ZenonT(30)
  <2> QED BY <1>1, <2>1, <2>2, <2>3 DEF D, i
<1>7. CASE RollCountMax # 0 /\ found # {}
  <2>1. /\ Count = RollCountMax /\ found \subseteq Nat
        /\ \A j : <<D, j>> \in DOMAIN d <=> j \in found
    BY <1>1, <1>2, <1>4, <1>7 DEF Count
  <2>2. newest # {}
    <3> DEFINE S == {t - time(j) : j \in found}
    <3>0. \A j \in found : time(j) \in Nat /\ time(j) <= t
      BY <1>4, <2>1, ZenonT(30)
    <3>1. S \in SUBSET Nat /\ S # {}
      <4>1. \A j \in found : t - time(j) \in Nat
        BY <3>0
      <4> QED BY <1>7, <4>1, Zenon
    <3>2. PICK s \in S : \A x \in S : s <= x
      BY <3>1, LeastNatural, ZenonT(30)
    <3>3. PICK j \in found : s = t - time(j)
      BY <3>2, ZenonT(30)
    <3>4. ASSUME NEW k \in found PROVE time(k) <= time(j)
      <4>1. s <= t - time(k)
        BY <3>2, ZenonT(30)
      <4>2. s = t - time(j) /\ time(j) \in Nat /\ time(k) \in Nat
        BY <3>0, <3>3, ZenonT(30)
      <4> QED BY <4>1, <4>2
    <3> QED BY <1>2, <3>4, ZenonT(30)
  <2>3. newest \in SUBSET Nat
    BY <1>2, <2>1, ZenonT(30)
  <2>4. \E x \in newest : \A y \in newest : x <= y
    BY <2>2, <2>3, LeastNatural, ZenonT(30)
  <2>5. i \in newest /\ \A k \in newest : i <= k
    BY <1>2, <2>2, <2>4, ZenonT(30)
  <2>6. i \in found /\ i \in Nat /\ <<D, i>> \in DOMAIN d /\ i < Count /\ time(i) \in Nat
    BY <1>2, <1>4, <2>1, <2>5, ZenonT(30)
  <2>7. ASSUME NEW j \in Nat, <<D, j>> \in DOMAIN d
        PROVE  /\ time(j) <= time(i) /\ (j < i => time(j) < time(i))
               /\ OneNewest(d, t, z) /\ time(j) = time(i) => j = i
    <3>1. j \in found /\ time(j) \in Nat
      BY <1>4, <2>1, <2>7, ZenonT(30)
    <3>2. time(j) <= time(i)
      BY <1>2, <2>5, <3>1
    <3>3. time(j) = time(i) => j \in newest
      <4>1. \A k \in found : time(k) <= time(i)
        BY <1>2, <2>5
      <4>2. time(j) = time(i) => \A k \in found : time(k) <= time(j)
        BY <4>1, ZenonT(30)
      <4> QED BY <1>2, <3>1, <4>2, ZenonT(30)
    <3>4. j < i => time(j) < time(i)
      BY <2>5, <2>6, <3>1, <3>2, <3>3
    <3>5. OneNewest(d, t, z) /\ time(j) = time(i) => j = i
      BY <2>5, <3>3, ZenonT(30) DEF OneNewest, newest
    <3> QED BY <3>2, <3>4, <3>5, ZenonT(30)
  <2> QED BY <2>6, <2>7, ZenonT(30) DEF D, time, newest, i
<1> QED BY <1>5, <1>6, <1>7, ZenonT(30)

LEMMA NewLogFileOK ==
  /\ NewLogFile \in Objects /\ NewLogFile.open = FALSE /\ NewLogFile.time = 0
  BY ZenonT(30) DEF NewLogFile, Objects

\* As after a kill: without an object.
LEMMA NoObjectOK ==
  ASSUME NEW t \in Nat, NEW D, NEW n, NEW f, NEW d, NEW clean, LogOK(f, d, t, D, n, clean)
  PROVE  LogOK(NewLogFile, d, t, D, n, clean)
<1>1. ObjectOK(NewLogFile, t)
  BY NewLogFileOK, SMTT(30) DEF ObjectOK
<1>2. ASSUME NEW L \in DOMAIN d, LogAt(f, d, L, D, clean)
      PROVE  LogAt(NewLogFile, d, L, D, clean)
  BY <1>2, NewLogFileOK, ZenonT(30) DEF LogAt, Holds, Cycle
<1> QED BY <1>1, <1>2, NewLogFileOK, ZenonT(30) DEF LogOK

LEMMA SameFilesOK ==
  ASSUME NEW t, NEW D, NEW n, NEW f, NEW d, NEW clean, LogOK(f, d, t, D, n, clean),
         NEW e, DOMAIN e = DOMAIN d, \A b \in DOMAIN d : e[b] = d[b]
  PROVE  LogOK(f, e, t, D, n, clean)
<1>1. Kept(e, t, n)
  BY ZenonT(30) DEF LogOK, Kept
<1>2. ASSUME NEW L \in DOMAIN d, LogAt(f, d, L, D, clean)
      PROVE  LogAt(f, e, L, D, clean)
  <2>1. Latest(e, L, D)
    BY <1>2, ZenonT(30) DEF LogAt, Latest
  <2>2. Holds(f, e, L)
    BY <1>2, ZenonT(30) DEF LogAt, Holds
  <2>3. clean => Cycle(f, e, L)
    BY <1>2, ZenonT(30) DEF LogAt, Cycle
  <2> QED BY <2>1, <2>2, <2>3, ZenonT(30) DEF LogAt
<1> QED BY <1>1, <1>2, ZenonT(30) DEF LogOK

LEMMA InitLogFileDoes ==
  ASSUME NEW t \in Nat, NEW u \in Nat, NEW z \in 0 .. Day - 1, NEW n, NEW d, Kept(d, t, n),
         NEW ok \in BOOLEAN
  PROVE  LET r == InitLogFile(d, t, u, z, ok)
             N == GetFileName(LastRollID(d, t, z), t, z)
         IN  /\ ~ok => r.disk = d
             /\ ok => Opened(NewLogFile, d, r.f, r.disk, N,
                             IF N \in DOMAIN d THEN d[N] ELSE EmptyFile(u), t, u)
<1> DEFINE r == InitLogFile(d, t, u, z, ok)
           i == LastRollID(d, t, z)
           N == GetFileName(i, t, z)
           h == [NewLogFile EXCEPT !.idx = i]
           x == IF N \in DOMAIN d THEN d[N] ELSE EmptyFile(u)
           log == [f |-> NewLogFile, disk |-> d]
           log2 == [f |-> h, disk |-> d]
<1>1. i \in Nat
  BY LastRollIDOK, ZenonT(30)
<1>2. N \in Names /\ N[2] = i
  BY <1>1, NameOK, ZenonT(30)
<1>3. [log EXCEPT !.f.idx = i] = log2
  OBVIOUS
<1>4. r = OpenFile(log2, N, FALSE, t, u, ok)
  BY <1>3, ZenonT(30) DEF InitLogFile, InitFileRoll
<1>5. h \in Objects /\ h.open = FALSE /\ h.time = 0 /\ h.idx = i
  BY <1>1, ZenonT(30) DEF NewLogFile, Objects
<1>6. x.size \in Nat
  <2>1. EmptyFile(u).size \in Nat
    BY ZenonT(30) DEF EmptyFile
  <2>2. N \in DOMAIN d => d[N].size \in Nat
    BY ZenonT(30) DEF Kept, FileOK, Files
  <2> QED BY <2>1, <2>2, ZenonT(30)
<1> HIDE DEF h, i, N, r, log, x
<1>7. ASSUME ~ok PROVE r.disk = d
  BY <1>4, <1>5, <1>7, ZenonT(30) DEF OpenFile, Close
<1>8. ASSUME ok PROVE Opened(NewLogFile, d, r.f, r.disk, N, x, t, u)
  <2>1. r = OpenFile(log2, N, FALSE, t, u, TRUE)
    BY <1>4, <1>8, ZenonT(30)
  <2>2. (N \notin DOMAIN d => x = EmptyFile(u)) /\ (N \in DOMAIN d => x = d[N])
    BY ZenonT(30) DEF x
  <2>3. Opened(h, d, r.f, r.disk, N, x, t, u)
    BY <1>2, <1>5, <1>6, <2>1, <2>2, OpenFileDoes, ZenonT(30)
  <2> QED BY <1>5, <2>3, NewLogFileOK, ZenonT(30) DEF Opened
<1> QED BY <1>7, <1>8, ZenonT(30) DEF r, N, i, x

LEMMA InitLogFileOK ==
  ASSUME NEW t \in Nat, t >= Day, NEW u \in Nat, t <= u, NEW z \in 0 .. Day - 1, NEW n \in Nat,
         NEW f, NEW d, NEW clean, LogOK(f, d, t, Date(t, z), n, clean), NEW ok \in BOOLEAN,
         NEW clean2, clean2 => clean /\ z = Zone,
         clean2 /\ ok => OneNewest(d, t, z)
  PROVE  LET r == InitLogFile(d, t, u, z, ok)
         IN  /\ LogOK(IF ok THEN r.f ELSE NewLogFile, r.disk, u, Date(u, z), n, clean2)
             /\ Carried(d, r.disk)
             /\ ok => r.f.open /\ r.f.name[1] = Date(t, z) /\ r.f.time = u
<1> DEFINE r == InitLogFile(d, t, u, z, ok)
           i == LastRollID(d, t, z)
           N == GetFileName(i, t, z)
           D == Date(t, z)
           E == Date(u, z)
           x == IF N \in DOMAIN d THEN d[N] ELSE EmptyFile(u)
           time(j) == d[<<D, j>>].mtime
<1>1. /\ Kept(d, t, n) /\ DOMAIN d \subseteq Names
      /\ D \in Nat /\ E \in Nat /\ D <= E /\ n <= n /\ (clean2 => clean)
  BY Dates, SMTT(30) DEF LogOK, Kept
<1>2. /\ ~ok => r.disk = d
      /\ ok => Opened(NewLogFile, d, r.f, r.disk, N, x, t, u)
  BY <1>1, InitLogFileDoes
<1>3. /\ i \in Nat /\ i < Count
      /\ <<D, i>> \notin DOMAIN d => \A b \in DOMAIN d : b[1] # D
      /\ <<D, i>> \in DOMAIN d => \A j \in Nat : <<D, j>> \in DOMAIN d =>
           /\ time(j) <= time(i) /\ (j < i => time(j) < time(i))
           /\ OneNewest(d, t, z) /\ time(j) = time(i) => j = i
  BY <1>1, LastRollIDOK, ZenonT(30)
<1>4. N = <<D, i>> /\ N \in Names /\ N[1] = D /\ N[2] = i
  BY <1>3, NameOK, ZenonT(30) DEF GetFileName
<1>5. LogOK(NewLogFile, d, t, D, n, clean)
  BY NoObjectOK, ZenonT(30)
<1>6. ~NewLogFile.open /\ NewLogFile \in Objects
  BY NewLogFileOK, ZenonT(30)
<1> HIDE DEF r, i, N, D, E
<1>7. CASE ~ok
  <2>1. LogOK(NewLogFile, r.disk, u, E, n, clean2)
    <3>1. LogOK(NewLogFile, d, u, E, n, clean2)
      BY <1>1, <1>5, LaterOK, ZenonT(30)
    <3> QED BY <1>2, <1>7, <3>1, ZenonT(30)
  <2>2. Carried(d, r.disk)
    BY <1>2, <1>7, ZenonT(30) DEF Carried
  <2> QED BY <1>7, <2>1, <2>2, ZenonT(30) DEF r, E
<1>8. ASSUME ok, N \notin DOMAIN d
      PROVE  LogOK(r.f, r.disk, u, E, n, clean2) /\ Carried(d, r.disk)
  <2>1. Opened(NewLogFile, d, r.f, r.disk, N, EmptyFile(u), t, u)
    BY <1>2, <1>8, ZenonT(30)
  <2>2. \A b \in DOMAIN d : b[1] # D
    BY <1>3, <1>4, <1>8, ZenonT(30)
  <2>3. Target(d, D, N[2])
    <3>1. \A b \in DOMAIN d : b[1] <= D
      <4>1. ASSUME NEW L \in DOMAIN d, LogAt(NewLogFile, d, L, D, clean), NEW b \in DOMAIN d
            PROVE  b[1] <= D
        <5>1. b[1] <= L[1] /\ L[1] <= D
          BY <4>1, ZenonT(30) DEF LogAt, Latest
        <5>2. b[1] \in Nat /\ L[1] \in Nat
          BY <1>1, ZenonT(30) DEF Names
        <5> QED BY <1>1, <5>1, <5>2, SMTT(30)
      <4> QED BY <1>5, <4>1, ZenonT(30) DEF LogOK
    <3> QED BY <2>2, <3>1, ZenonT(30) DEF Target
  <2>4. NextInCycle(NewLogFile, d, N)
    BY <1>4, <2>2, ZenonT(30) DEF NextInCycle
  <2>5. /\ ObjectOK(r.f, u) /\ Kept(r.disk, u, n)
        /\ Latest(r.disk, N, E) /\ Holds(r.f, r.disk, N)
    BY <1>1, <1>3, <1>4, <2>1, <2>3, EmptiedOK, ZenonT(30)
  <2>6. clean2 => Cycle(r.f, r.disk, N)
    <3>1. clean2 => N[1] <= Date(u, Zone)
      BY <1>1, <1>4, ZenonT(30) DEF E
    <3> QED BY <1>1, <1>3, <1>4, <2>1, <2>4, <3>1, CycleGoesOn, ZenonT(30)
  <2>7. N \in DOMAIN r.disk
    BY <2>1, ZenonT(30) DEF Opened
  <2>8. Lines(EmptyFile(u)) = {} /\ EmptyFile(u).before = 0
    BY EmptyFileOK, ZenonT(30)
  <2>9. Carried(d, r.disk)
    BY <1>1, <2>1, <2>8, CarriedOpened, ZenonT(30)
  <2> QED BY <2>5, <2>6, <2>7, <2>9, ZenonT(30) DEF LogOK, LogAt
<1>9. ASSUME ok, N \in DOMAIN d
      PROVE  LogOK(r.f, r.disk, u, E, n, clean2) /\ Carried(d, r.disk)
  <2>1. Opened(NewLogFile, d, r.f, r.disk, N, d[N], t, u)
    BY <1>2, <1>9, ZenonT(30)
  <2>2. DOMAIN r.disk = DOMAIN d /\ \A b \in DOMAIN d : r.disk[b] = d[b]
    BY <1>6, <1>9, <2>1, ZenonT(30) DEF Opened
  <2>3. /\ r.f \in Objects /\ r.f.open /\ r.f.name = N /\ r.f.idx = N[2] /\ r.f.size = d[N].size
        /\ r.f.time = u
    BY <2>1, ZenonT(30) DEF Opened
  <2>4. PICK L \in DOMAIN d : LogAt(NewLogFile, d, L, D, clean)
    BY <1>5, <1>9, ZenonT(30) DEF LogOK
  <2>5. LogAt(NewLogFile, d, L, E, clean2)
    <3>1. L[1] \in Nat
      BY <1>1, <2>4, ZenonT(30) DEF Names
    <3> QED BY <1>1, <2>4, <3>1, LaterAt, ZenonT(30)
  <2>6. Latest(d, L, E) /\ (clean2 => Cycle(NewLogFile, d, L)) /\ Latest(d, L, D)
    BY <2>4, <2>5, ZenonT(30) DEF LogAt
  <2>7. L[1] = D /\ L[2] \in Nat /\ L = <<D, L[2]>>
    <3>1. D <= L[1] /\ L[1] <= D
      BY <1>4, <1>9, <2>6, ZenonT(30) DEF Latest
    <3>2. L[1] \in Nat /\ L[2] \in Nat /\ L = <<L[1], L[2]>>
      BY <1>1, <2>4, SMTT(30) DEF Names
    <3> QED BY <1>1, <3>1, <3>2
  <2>8. /\ time(L[2]) <= time(i) /\ (L[2] < i => time(L[2]) < time(i))
        /\ OneNewest(d, t, z) /\ time(L[2]) = time(i) => L[2] = i
    BY <1>3, <1>4, <1>9, <2>7, ZenonT(30)
  <2>9. /\ time(L[2]) = d[L].mtime /\ time(i) = d[N].mtime
        /\ d[L].mtime \in Nat /\ d[N].mtime \in Nat
    <3>1. FileOK(d[L], t, n) /\ FileOK(d[N], t, n)
      BY <1>1, <1>9, ZenonT(30) DEF Kept
    <3> QED BY <1>4, <2>7, <3>1, ZenonT(30) DEF FileOK, Files
  <2>10. N = L \/ (N[2] < L[2] /\ d[N].size >= RollSize)
    <3>1. i = L[2] => N = L
      BY <1>4, <2>7, ZenonT(30)
    <3>2. ~(i > L[2])
      <4>1. i > L[2] => d[N].mtime <= d[L].mtime
        BY <1>4, <1>9, <2>6, <2>7, ZenonT(30) DEF Latest
      <4> QED BY <1>3, <2>7, <2>8, <2>9, <4>1, SMTT(30)
    <3>3. i < L[2] => d[N].size >= RollSize
      BY <1>4, <1>9, <2>6, <2>7, ZenonT(30) DEF Latest
    <3> QED BY <1>3, <1>4, <2>7, <3>1, <3>2, <3>3
  <2>11. Holds(r.f, d, L)
    BY <1>4, <1>9, <2>3, <2>7, <2>10, ZenonT(30) DEF Holds
  <2>12. ASSUME clean2 PROVE Cycle(r.f, d, L)
    <3>1. Cycle(NewLogFile, d, L)
      BY <2>6, <2>12, ZenonT(30)
    <3>2. d[N].mtime <= d[L].mtime
      BY <1>4, <1>9, <2>7, <3>1, ZenonT(30) DEF Cycle
    <3>3. time(L[2]) = time(i)
      BY <2>8, <2>9, <3>2, SMTT(30)
    <3>4. L[2] = i
      BY <1>9, <2>8, <2>12, <3>3, ZenonT(30)
    <3>5. N = L
      BY <1>4, <2>7, <3>4, ZenonT(30)
    <3>6. L[1] <= Date(u, Zone)
      BY <1>1, <2>7, <2>12, ZenonT(30) DEF E
    <3> QED BY <2>3, <3>1, <3>5, <3>6, ZenonT(30) DEF Cycle
  <2>13. LogAt(r.f, d, L, E, clean2)
    BY <2>6, <2>11, <2>12, ZenonT(30) DEF LogAt
  <2>14. ObjectOK(r.f, u)
    BY <2>3 DEF ObjectOK
  <2>15. Kept(d, u, n)
    <3>1. LogOK(NewLogFile, d, u, E, n, clean2)
      BY <1>1, <1>5, LaterOK, ZenonT(30)
    <3> QED BY <3>1, ZenonT(30) DEF LogOK
  <2>16. LogOK(r.f, d, u, E, n, clean2)
    BY <2>13, <2>14, <2>15, ZenonT(30) DEF LogOK
  <2>17. Carried(d, r.disk)
    BY <2>2, ZenonT(30) DEF Carried
  <2>18. LogOK(r.f, r.disk, u, E, n, clean2)
    BY <2>2, <2>16, SameFilesOK, ZenonT(30)
  <2> QED BY <2>17, <2>18, ZenonT(30)
<1>10. ok => r.f.open /\ r.f.name[1] = D /\ r.f.time = u
  BY <1>2, <1>4, ZenonT(30) DEF Opened
<1> QED BY <1>7, <1>8, <1>9, <1>10, ZenonT(30) DEF r, E, D

-----------------------------------------------------------------------------
(* The log of each category *)

Clean == zone = Zone /\ {"fopen", "tie"} \cap mishap = {}
Calm == zone = Zone /\ "midnight" \notin mishap

\* A category without an object is as one with a new object.
Object(c) == IF c \in DOMAIN m_LogCats THEN m_LogCats[c] ELSE NewLogFile

CatOK(c) ==
  /\ LogOK(Object(c), disk[c], now, Date(now, zone), Len(date), Clean)
  /\ Calm => Dated(Object(c), disk[c], zone, date)
  /\ Bounded(disk[c])

IInv ==
  /\ now \in Nat /\ now >= Day /\ zone \in Zones /\ date \in Seq(SUBSET Nat)
  /\ DOMAIN m_LogCats \subseteq Cats /\ DOMAIN disk = Cats
  /\ \A c \in Cats : CatOK(c)
  /\ Clean => \A c \in DOMAIN m_LogCats : m_LogCats[c].open

-----------------------------------------------------------------------------
(* The actions *)

(* A membership is a truth value *)
LEMMA MembershipOK == \A x, S : (x \in S) \in BOOLEAN
  OBVIOUS

LEMMA InitOK == Init => IInv
<1> SUFFICES ASSUME Init PROVE IInv
  BY ZenonT(30)
<1>1. now \in Nat /\ now >= Day /\ zone \in Zones /\ date = <<>> /\ date \in Seq(SUBSET Nat) /\ Len(date) = 0
  BY LogAssumption DEF Init
<1>2. DOMAIN m_LogCats = {} /\ DOMAIN disk = Cats
  BY DEF Init
<1>3. ASSUME NEW c \in Cats PROVE CatOK(c)
  <2>1. disk[c] = <<>> /\ DOMAIN disk[c] = {} /\ Object(c) = NewLogFile
    BY <1>2, ZenonT(30) DEF Init, Object
  <2>2. Kept(disk[c], now, Len(date)) /\ Bounded(disk[c])
    BY <2>1, ZenonT(30) DEF Kept, Bounded
  <2>3. ObjectOK(NewLogFile, now) /\ ~NewLogFile.open
    BY <1>1, NewLogFileOK DEF ObjectOK
  <2>4. LogOK(NewLogFile, disk[c], now, Date(now, zone), Len(date), Clean)
    BY <2>1, <2>2, <2>3, ZenonT(30) DEF LogOK
  <2>5. Dated(NewLogFile, disk[c], zone, date)
    BY <2>1, <2>3, ZenonT(30) DEF Dated
  <2> QED BY <2>1, <2>2, <2>4, <2>5, ZenonT(30) DEF CatOK
<1> QED BY <1>1, <1>2, <1>3, ZenonT(30) DEF IInv

\* What the actions start from.
LEMMA Basics ==
  ASSUME IInv
  PROVE  /\ now \in Nat /\ now >= Day /\ zone \in 0 .. Day - 1 /\ Len(date) \in Nat
         /\ Date(now, zone) \in Nat /\ DOMAIN m_LogCats \subseteq Cats /\ DOMAIN disk = Cats
<1>1. /\ now \in Nat /\ now >= Day /\ zone \in Zones /\ date \in Seq(SUBSET Nat)
      /\ DOMAIN m_LogCats \subseteq Cats /\ DOMAIN disk = Cats
  BY ZenonT(30) DEF IInv
<1>2. zone \in 0 .. Day - 1 /\ Len(date) \in Nat
  BY <1>1, LogFileAssumption
<1>3. Date(now, zone) \in Nat
  BY <1>1, <1>2, Dates, ZenonT(30)
<1> QED BY <1>1, <1>2, <1>3, ZenonT(30)

\* The readings of a category are in order, and during the operation.
LEMMA ReadingOK ==
  ASSUME IInv, NEW r \in Readings, Elapses(r)
  PROVE  /\ now' \in Nat /\ now <= now' /\ now' >= Day
         /\ \A c \in Cats :
              /\ From(r, c) \in Nat /\ To(r, c) \in Nat /\ From(r, c) >= Day
              /\ now <= From(r, c) /\ From(r, c) <= To(r, c) /\ To(r, c) <= now'
<1>1. now \in Nat /\ now >= Day /\ Day \in Nat /\ MaxLapse \in Nat
  BY Basics, LogAssumption, LogFileAssumption, ZenonT(30)
<1>2. now' \in now .. now + MaxLapse
  BY ZenonT(30) DEF Elapses
<1>3. now' \in Nat /\ now <= now' /\ now' >= Day
  BY <1>1, <1>2
<1>4. ASSUME NEW c \in Cats
      PROVE  /\ From(r, c) \in Nat /\ To(r, c) \in Nat /\ From(r, c) >= Day
             /\ now <= From(r, c) /\ From(r, c) <= To(r, c) /\ To(r, c) <= now'
  <2>1. r[c].from \in 0 .. MaxLapse /\ r[c].to \in 0 .. MaxLapse /\ r[c].from <= r[c].to
    BY SMTT(30) DEF Readings
  <2>2. To(r, c) <= now'
    BY ZenonT(30) DEF Elapses
  <2> QED BY <1>1, <2>1, <2>2 DEF From, To
<1> QED BY <1>3, <1>4, ZenonT(30)

\* While nothing is done to the files.
LEMMA Lasts ==
  ASSUME NEW t \in Nat, NEW u \in Nat, t <= u, NEW z \in 0 .. Day - 1, NEW n \in Nat,
         NEW f, NEW d, NEW clean, LogOK(f, d, t, Date(t, z), n, clean)
  PROVE  LogOK(f, d, u, Date(u, z), n, clean)
<1>1. Date(t, z) \in Nat /\ Date(u, z) \in Nat /\ Date(t, z) <= Date(u, z)
  BY Dates, ZenonT(30)
<1>2. n <= n /\ (clean => clean)
  OBVIOUS
<1> QED BY <1>1, <1>2, LaterOK, ZenonT(30)

LEMMA TickOK == ASSUME IInv, Tick PROVE IInv'
<1>1. now' = now + 1 /\ UNCHANGED <<zone, m_LogCats, disk, date, mishap>>
  BY ZenonT(30) DEF Tick
<1>2. now \in Nat /\ now >= Day /\ zone \in 0 .. Day - 1 /\ Len(date) \in Nat
  BY Basics, ZenonT(30)
<1>3. now' \in Nat /\ now <= now' /\ now' >= Day
  BY <1>1, <1>2, LogAssumption
<1>4. Date(now, zone) \in Nat /\ Date(now', zone) \in Nat /\ Date(now, zone) <= Date(now', zone)
  BY <1>2, <1>3, Dates, ZenonT(30)
<1>5. ASSUME NEW c \in Cats PROVE CatOK(c)'
  <2>1. CatOK(c)
    BY ZenonT(30) DEF IInv
  <2>2. LogOK(Object(c), disk[c], now', Date(now', zone), Len(date), Clean)
    <3>1. Len(date) <= Len(date) /\ (Clean => Clean)
      BY <1>2
    <3>2. LogOK(Object(c), disk[c], now, Date(now, zone), Len(date), Clean)
      BY <2>1, ZenonT(30) DEF CatOK
    <3> QED BY <1>2, <1>3, <1>4, <3>1, <3>2, LaterOK, ZenonT(30)
  <2>3. Object(c)' = Object(c) /\ Clean' = Clean /\ Calm' = Calm
    BY <1>1, ZenonT(30) DEF Object, Clean, Calm
  <2> QED BY <1>1, <2>1, <2>2, <2>3, ZenonT(30) DEF CatOK
<1>6. Clean' => \A c \in DOMAIN m_LogCats' : m_LogCats'[c].open
  BY <1>1, ZenonT(30) DEF Clean, IInv
<1> QED BY <1>1, <1>3, <1>5, <1>6, ZenonT(30) DEF IInv

LEMMA StartOK ==
  ASSUME IInv, NEW ok \in SUBSET Cats, NEW q \in Readings, Start(ok, q)
  PROVE  IInv'
<1> DEFINE log(c) == InitLogFile(disk[c], From(q, c), To(q, c), zone, c \in ok)
<1>1. /\ Elapses(q) /\ zone' = zone /\ date' = date
      /\ DOMAIN m_LogCats' = ok /\ \A c \in ok : m_LogCats'[c] = log(c).f
      /\ DOMAIN disk' = Cats /\ \A c \in Cats : disk'[c] = log(c).disk
      /\ mishap' = mishap \cup Midnight(ok, q) \cup UNION {Tie(c, From(q, c)) : c \in ok}
  BY ZenonT(30) DEF Start
<1>2. /\ now \in Nat /\ now >= Day /\ zone \in 0 .. Day - 1 /\ Len(date) \in Nat
      /\ now' \in Nat /\ now <= now' /\ now' >= Day
  BY <1>1, Basics, ReadingOK, ZenonT(30)
<1>3. Clean' => Clean /\ zone = Zone
  BY <1>1, ZenonT(30) DEF Clean
<1>4. Calm' => /\ Calm /\ zone = Zone
               /\ \A c \in ok : Date(From(q, c), zone) = Date(To(q, c), zone)
  BY <1>1, ZenonT(30) DEF Calm, Midnight
<1>5. ASSUME NEW c \in ok, Clean' PROVE OneNewest(disk[c], From(q, c), zone)
  <2>1. "tie" \notin Tie(c, From(q, c))
    BY <1>1, <1>5 DEF Clean
  <2> QED BY <2>1, ZenonT(30) DEF Tie, OneNewest
<1> HIDE DEF log
<1>6. ASSUME NEW c \in Cats
      PROVE  CatOK(c)' /\ (c \in ok => m_LogCats'[c].open)
  <2> DEFINE r == log(c)
             d == disk[c]
             g == IF c \in ok THEN r.f ELSE NewLogFile
             free == Clean'
             n == Len(date)
             t == From(q, c)
             u == To(q, c)
  <2>0. /\ t \in Nat /\ u \in Nat /\ t >= Day /\ now <= t /\ t <= u /\ u <= now'
    BY <1>1, ReadingOK, ZenonT(30)
  <2>1. CatOK(c)
    BY ZenonT(30) DEF IInv
  <2>2. LogOK(Object(c), d, t, Date(t, zone), n, Clean)
    <3>1. LogOK(Object(c), d, now, Date(now, zone), n, Clean)
      BY <2>1, ZenonT(30) DEF CatOK
    <3> HIDE DEF d, t, n
    <3> QED BY <1>2, <2>0, <3>1, Lasts, ZenonT(30) DEF n
  <2>3. (c \in ok) \in BOOLEAN
    OBVIOUS
  <2>4. (free => Clean /\ zone = Zone)
        /\ (free /\ c \in ok => OneNewest(d, t, zone))
    BY <1>3, <1>5, ZenonT(30)
  <2>5. /\ LogOK(g, r.disk, u, Date(u, zone), n, free)
        /\ Carried(d, r.disk)
        /\ c \in ok => r.f.open /\ r.f.name[1] = Date(t, zone) /\ r.f.time = u
    <3> DEFINE yes == c \in ok
               f == Object(c)
               new == InitLogFile(d, t, u, zone, yes)
               clean == Clean
    <3>1. yes \in BOOLEAN /\ n \in Nat /\ LogOK(f, d, t, Date(t, zone), n, clean)
      BY <1>2, <2>2, <2>3, ZenonT(30)
    <3>2. (free => clean /\ zone = Zone)
          /\ (free /\ yes => OneNewest(d, t, zone))
      BY <2>4, ZenonT(30)
    <3>3. r = new
      BY ZenonT(30) DEF log
    <3> HIDE DEF free, d, n, yes, f, new, r, clean, t, u
    <3>4. /\ LogOK(IF yes THEN new.f ELSE NewLogFile, new.disk, u, Date(u, zone), n, free)
          /\ Carried(d, new.disk)
          /\ yes => new.f.open /\ new.f.name[1] = Date(t, zone) /\ new.f.time = u
      BY <1>2, <2>0, <3>1, <3>2, InitLogFileOK DEF new
    <3> QED BY <3>3, <3>4, ZenonT(30) DEF yes
  <2>6. Object(c)' = g /\ disk'[c] = r.disk /\ (c \in ok => m_LogCats'[c].open)
    BY <1>1, <2>5, ZenonT(30) DEF Object
  <2>7. Bounded(r.disk)
    BY <2>1, <2>5, CarriedOK, ZenonT(30) DEF CatOK
  <2>8. ASSUME Calm' PROVE Dated(g, r.disk, zone, date)
    <3>1. (c \in ok => Date(t, zone) = Date(u, zone)) /\ DatedFiles(d, date)
      BY <1>4, <2>1, <2>8, ZenonT(30) DEF CatOK, Dated, DatedFiles
    <3>2. DatedFiles(r.disk, date)
      BY <2>5, <3>1, CarriedOK, ZenonT(30)
    <3>3. g.open => g.name[1] = Date(g.time, zone)
      BY <2>5, <3>1, NewLogFileOK, ZenonT(30)
    <3> QED BY <3>2, <3>3, ZenonT(30) DEF Dated, DatedFiles
  <2> HIDE DEF r, g, t, u
  <2>9. LogOK(g, r.disk, now', Date(now', zone), n, free)
    <3> HIDE DEF n, free
    <3> QED BY <1>2, <2>0, <2>5, Lasts, ZenonT(30) DEF n
  <2> QED BY <1>1, <2>6, <2>7, <2>8, <2>9, ZenonT(30) DEF CatOK
<1> QED BY <1>1, <1>2, <1>6, ZenonT(30) DEF IInv

\* A category the line does not go to.
LEMMA DatedLater ==
  ASSUME NEW f, NEW d, NEW z, NEW t, NEW dates \in Seq(SUBSET Nat), NEW S \in SUBSET Nat,
         Kept(d, t, Len(dates)), Dated(f, d, z, dates)
  PROVE  Dated(f, d, z, Append(dates, S))
<1>1. \A b \in DOMAIN d : Lines(d[b]) \subseteq 1 .. Len(dates)
  BY ZenonT(30) DEF Kept, FileOK
<1>2. \A l \in 1 .. Len(dates) : Append(dates, S)[l] = dates[l]
  OBVIOUS
<1> QED BY <1>1, <1>2, ZenonT(30) DEF Dated

LEMMA LogLineOK ==
  ASSUME IInv, NEW lv \in Levels, NEW k \in Sizes, NEW ok \in SUBSET Cats, NEW q \in Readings,
         LogLine(lv, k, ok, q)
  PROVE  /\ IInv'
         /\ \A c \in Matching(lv) : c \in ok =>
              \E name \in DOMAIN disk'[c] : Len(date') \in Lines(disk'[c][name])
<1> DEFINE to == Matching(lv)
           n == Len(date)
           log(c) == Write(Log(c), n + 1, k, From(q, c), To(q, c), zone, c \in ok)
           opens == {c \in to : MustRoll(m_LogCats[c], From(q, c))}
           S == {Date(t, zone) : t \in now .. now'}
<1>1. to \subseteq DOMAIN m_LogCats /\ to \subseteq Cats
  BY Basics, ZenonT(30) DEF Matching
<1>2. /\ Elapses(q) /\ zone' = zone /\ date' = Append(date, S)
      /\ DOMAIN m_LogCats' = DOMAIN m_LogCats /\ DOMAIN disk' = Cats
      /\ \A c \in to : m_LogCats'[c] = log(c).f /\ disk'[c] = log(c).disk
      /\ \A c \in DOMAIN m_LogCats \ to : m_LogCats'[c] = m_LogCats[c]
      /\ \A c \in Cats \ to : disk'[c] = disk[c]
  BY <1>1, ZenonT(30) DEF LogLine
<1>3. mishap' = mishap \cup Midnight(opens, q)
                       \cup (IF opens \subseteq ok THEN {} ELSE {"fopen"})
  BY ZenonT(30) DEF LogLine
<1>4. /\ now \in Nat /\ now >= Day /\ zone \in 0 .. Day - 1 /\ n \in Nat /\ k \in Nat
      /\ now' \in Nat /\ now <= now' /\ now' >= Day
      /\ DOMAIN m_LogCats \subseteq Cats /\ DOMAIN disk = Cats
  BY <1>2, Basics, ReadingOK, LogFileAssumption, ZenonT(30)
<1>s. S \in SUBSET Nat
  <2>1. \A t \in now .. now' : t \in Nat
    BY <1>4
  <2> QED BY <1>4, <2>1, Dates, ZenonT(30)
<1>5. date \in Seq(SUBSET Nat) /\ date' \in Seq(SUBSET Nat) /\ Len(date') = n + 1
  <2>1. date \in Seq(SUBSET Nat)
    BY ZenonT(30) DEF IInv
  <2> HIDE DEF S
  <2> QED BY <1>2, <1>s, <2>1
<1>6. ASSUME NEW c \in Cats
      PROVE  /\ From(q, c) \in Nat /\ To(q, c) \in Nat /\ From(q, c) >= Day
             /\ now <= From(q, c) /\ From(q, c) <= To(q, c) /\ To(q, c) <= now'
             /\ Date(From(q, c), zone) \in S
  <2>1. /\ From(q, c) \in Nat /\ To(q, c) \in Nat /\ From(q, c) >= Day
        /\ now <= From(q, c) /\ From(q, c) <= To(q, c) /\ To(q, c) <= now'
    BY <1>2, ReadingOK, ZenonT(30)
  <2>2. From(q, c) \in now .. now'
    BY <1>4, <2>1
  <2> QED BY <2>1, <2>2, ZenonT(30)
<1>7. Clean' => /\ Clean /\ zone = Zone /\ opens \subseteq ok
                /\ \A c \in DOMAIN m_LogCats : m_LogCats[c].open
  BY <1>2, <1>3, ZenonT(30) DEF Clean, IInv
<1>8. Calm' => /\ Calm /\ zone = Zone
               /\ \A c \in opens : Date(From(q, c), zone) = Date(To(q, c), zone)
  BY <1>2, <1>3, ZenonT(30) DEF Calm, Midnight
<1>9. \A c \in to : MustRoll(m_LogCats[c], From(q, c)) <=> c \in opens
  BY ZenonT(30)
<1> HIDE DEF to, n, log, opens, S
<1>10. ASSUME NEW c \in to
       PROVE  /\ CatOK(c)' /\ (Clean' => m_LogCats'[c].open)
              /\ c \in ok => \E name \in DOMAIN disk'[c] : Len(date') \in Lines(disk'[c][name])
  <2> DEFINE f == m_LogCats[c]
             d == disk[c]
             w == log(c)
             yes == c \in ok
             free == Clean'
             clean == Clean
             t == From(q, c)
             u == To(q, c)
  <2>1. CatOK(c) /\ Object(c) = f /\ c \in Cats
    BY <1>1, ZenonT(30) DEF IInv, Object
  <2>0. /\ t \in Nat /\ u \in Nat /\ t >= Day /\ now <= t /\ t <= u /\ u <= now'
        /\ Date(t, zone) \in S
    BY <1>6, <2>1, ZenonT(30)
  <2>2. /\ yes \in BOOLEAN /\ LogOK(f, d, t, Date(t, zone), n, clean)
        /\ free => clean /\ zone = Zone /\ f.open /\ (MustRoll(f, t) => yes)
    <3>1. LogOK(f, d, now, Date(now, zone), n, clean)
      BY <2>1, ZenonT(30) DEF CatOK, n
    <3>2. LogOK(f, d, t, Date(t, zone), n, clean)
      <4> HIDE DEF f, d, clean, t
      <4> QED BY <1>4, <2>0, <3>1, Lasts, ZenonT(30)
    <3>3. yes \in BOOLEAN
      BY MembershipOK, ZenonT(30)
    <3> QED BY <1>1, <1>7, <1>9, <3>2, <3>3, ZenonT(30)
  <2>3. w = Write([f |-> f, disk |-> d], n + 1, k, t, u, zone, yes)
    BY ZenonT(30) DEF log, Log
  <2>4. Object(c)' = w.f /\ disk'[c] = w.disk /\ m_LogCats'[c] = w.f
    BY <1>1, <1>2, ZenonT(30) DEF Object
  <2>5. Bounded(d) /\ (Calm => Dated(f, d, zone, date))
    BY <2>1, ZenonT(30) DEF CatOK
  <2>m. Calm' /\ MustRoll(f, t) => Date(t, zone) = Date(u, zone)
    BY <1>8, <1>9, ZenonT(30)
  <2> HIDE DEF f, d, w, yes, free, clean, t, u
  <2>6. /\ LogOK(w.f, w.disk, u, Date(u, zone), n + 1, free)
        /\ free => w.f.open
        /\ yes => \E name \in DOMAIN w.disk : n + 1 \in Lines(w.disk[name])
    <3> DEFINE v == Write([f |-> f, disk |-> d], n + 1, k, t, u, zone, yes)
    <3>1. free => clean /\ zone = Zone /\ f.open /\ (MustRoll(f, t) => yes)
      BY <2>2, ZenonT(30)
    <3>2. /\ LogOK(v.f, v.disk, u, Date(u, zone), n + 1, free)
          /\ free => v.f.open
          /\ yes => \E name \in DOMAIN v.disk : n + 1 \in Lines(v.disk[name])
      BY <1>4, <2>0, <2>2, <3>1, WriteOK, ZenonT(30)
    <3> HIDE DEF v
    <3>3. w = v
      BY <2>3, ZenonT(30) DEF v
    <3> QED BY <3>2, <3>3, ZenonT(30)
  <2>7. Bounded(w.disk)
    BY <1>4, <2>0, <2>2, <2>3, <2>5, WriteBounded, ZenonT(30)
  <2>8. ASSUME Calm' PROVE Dated(w.f, w.disk, zone, date')
    <3>1. /\ zone = Zone /\ Dated(f, d, Zone, date) /\ Date(t, Zone) \in S
          /\ MustRoll(f, t) => Date(t, Zone) = Date(u, Zone)
      BY <1>8, <2>0, <2>m, <2>5, <2>8, ZenonT(30)
    <3>2. LogOK(f, d, t, Date(t, Zone), Len(date), clean)
      BY <2>2, <3>1, ZenonT(30) DEF n
    <3>3. w = Write([f |-> f, disk |-> d], Len(date) + 1, k, t, u, Zone, yes)
      BY <2>3, <3>1, ZenonT(30) DEF n
    <3>4. Dated(w.f, w.disk, Zone, Append(date, S))
      BY <1>4, <1>s, <1>5, <2>0, <2>2, <3>1, <3>2, <3>3, WriteDated, ZenonT(30)
    <3> QED BY <1>2, <3>1, <3>4, ZenonT(30)
  <2>9. LogOK(w.f, w.disk, now', Date(now', zone), n + 1, free)
    <3>1. n + 1 \in Nat
      BY <1>4
    <3> QED BY <1>4, <2>0, <2>6, <3>1, Lasts, ZenonT(30)
  <2>10. CatOK(c)'
    BY <1>2, <1>5, <2>4, <2>7, <2>8, <2>9, ZenonT(30) DEF CatOK, free
  <2> QED BY <1>5, <2>4, <2>6, <2>10, ZenonT(30) DEF free, yes
<1>11. ASSUME NEW c \in Cats \ to
       PROVE  CatOK(c)' /\ (Clean' /\ c \in DOMAIN m_LogCats' => m_LogCats'[c].open)
  <2> DEFINE f == Object(c)
             d == disk[c]
             free == Clean'
             clean == Clean
  <2>1. CatOK(c)
    BY ZenonT(30) DEF IInv
  <2>2. Object(c)' = f /\ disk'[c] = d
    BY <1>2, ZenonT(30) DEF Object
  <2>3. LogOK(f, d, now, Date(now, zone), n, clean) /\ Kept(d, now, Len(date))
        /\ Bounded(d) /\ (Calm => Dated(f, d, zone, date))
    BY <2>1, ZenonT(30) DEF CatOK, n, LogOK
  <2>4. n + 1 \in Nat /\ n <= n + 1 /\ (free => clean)
    BY <1>4, <1>7
  <2> HIDE DEF f, d, free, clean
  <2>5. LogOK(f, d, now', Date(now', zone), n + 1, free)
    <3>1. /\ Date(now, zone) \in Nat /\ Date(now', zone) \in Nat
          /\ Date(now, zone) <= Date(now', zone)
      BY <1>4, Dates, ZenonT(30)
    <3> QED BY <1>4, <2>3, <2>4, <3>1, LaterOK, ZenonT(30)
  <2>6. Calm' => Dated(f, d, zone, date')
    BY <1>2, <1>4, <1>s, <1>5, <1>8, <2>3, DatedLater, ZenonT(30)
  <2>7. CatOK(c)'
    BY <1>2, <1>5, <2>2, <2>3, <2>5, <2>6, ZenonT(30) DEF CatOK, free
  <2> QED BY <1>2, <1>7, <2>7, ZenonT(30)
<1>12. IInv'
  <2>1. now' \in Nat /\ now' >= Day /\ zone' \in Zones
    BY <1>2, <1>4, ZenonT(30) DEF IInv
  <2>2. Clean' => \A c \in DOMAIN m_LogCats' : m_LogCats'[c].open
    BY <1>2, <1>4, <1>10, <1>11, ZenonT(30)
  <2> QED BY <1>2, <1>4, <1>5, <1>10, <1>11, <2>1, <2>2, ZenonT(30) DEF IInv
<1> QED BY <1>10, <1>12, ZenonT(30) DEF to

\* The object of a category is gone, and its file may have been closed or rolled.
LEMMA GoneOK ==
  ASSUME IInv, NEW c \in Cats, NEW e, now' = now, zone' = zone, date' = date, mishap' = mishap,
         DOMAIN m_LogCats' = {}, disk'[c] = e,
         \/ e = disk[c]
         \/ c \in DOMAIN m_LogCats /\ e = Close(Log(c), now).disk
         \/ c \in DOMAIN m_LogCats /\ e = CheckFileRoll(Log(c), now, now, zone, TRUE).disk
  PROVE  CatOK(c)'
<1> DEFINE f == Object(c)
           d == disk[c]
           n == Len(date)
           D == Date(now, zone)
           z == zone
           clean == Clean
           log == [f |-> f, disk |-> d]
           cut == Close(log, now)
           roll == CheckFileRoll(log, now, now, z, TRUE)
<1>1. CatOK(c)
  BY ZenonT(30) DEF IInv
<1>2. LogOK(f, d, now, D, n, clean) /\ Bounded(d) /\ (Calm => Dated(f, d, z, date))
  BY <1>1, ZenonT(30) DEF CatOK
<1>3. /\ now \in Nat /\ now >= Day /\ z \in 0 .. Day - 1 /\ n \in Nat /\ now <= now
  BY Basics
<1>4. c \in DOMAIN m_LogCats => Log(c) = log
  BY ZenonT(30) DEF Log, Object
<1>5. clean => z = Zone
  BY ZenonT(30) DEF Clean
<1>6. clean /\ c \in DOMAIN m_LogCats => f.open
  BY ZenonT(30) DEF IInv, Object
<1>7. Clean' = clean /\ Calm' = Calm /\ Object(c)' = NewLogFile
  BY ZenonT(30) DEF Clean, Calm, Object
<1> HIDE DEF f, n, clean
<1>8. f \in Objects /\ (~f.open => f.time = 0) /\ Kept(d, now, n)
  BY <1>2, ZenonT(30) DEF LogOK, ObjectOK
<1>9. LogOK(NewLogFile, e, now, D, n, clean) /\ Carried(d, e)
  <2>1. CASE e = d
    <3>1. Carried(d, d)
      BY ZenonT(30) DEF Carried
    <3> HIDE DEF d, D
    <3>2. LogOK(NewLogFile, d, now, D, n, clean)
      BY <1>2, <1>3, NoObjectOK, ZenonT(30)
    <3> QED BY <2>1, <3>1, <3>2, ZenonT(30)
  <2>2. CASE c \in DOMAIN m_LogCats /\ e = Close(Log(c), now).disk
    <3> HIDE DEF d, D
    <3>1. Shut(f, d, cut.disk, now)
      BY <1>8, CloseDoes, ZenonT(30)
    <3>2. e = cut.disk
      BY <1>4, <2>2, ZenonT(30)
    <3> HIDE DEF cut
    <3>3. LogOK(NewLogFile, e, now, D, n, clean)
      BY <1>2, <1>3, <3>1, <3>2, ShutOK, NewLogFileOK, ZenonT(30)
    <3> QED BY <1>3, <1>8, <3>1, <3>2, <3>3, CarriedShut, ZenonT(30)
  <2>3. CASE c \in DOMAIN m_LogCats /\ e = CheckFileRoll(Log(c), now, now, zone, TRUE).disk
    <3>1. e = roll.disk
      BY <1>4, <2>3, ZenonT(30)
    <3>2. clean => clean /\ z = Zone /\ f.open /\ (MustRoll(f, now) => TRUE)
      BY <1>5, <1>6, <2>3, ZenonT(30)
    <3>3. LogOK(f, d, now, Date(now, z), n, clean)
      BY <1>2, ZenonT(30)
    <3> HIDE DEF d, D, z
    <3>4. LogOK(roll.f, roll.disk, now, Date(now, z), n, clean)
      BY <1>3, <3>2, <3>3, CheckFileRollOK, ZenonT(30)
    <3>5. Carried(d, roll.disk)
      BY <1>3, <3>3, RollCarries, ZenonT(30) DEF RollsTo
    <3> HIDE DEF roll
    <3>6. LogOK(NewLogFile, roll.disk, now, Date(now, z), n, clean)
      BY <1>3, <3>4, NoObjectOK, ZenonT(30)
    <3> QED BY <3>1, <3>5, <3>6, ZenonT(30) DEF D, z
  <2> QED BY <2>1, <2>2, <2>3, ZenonT(30)
<1>10. Bounded(e)
  BY <1>2, <1>9, CarriedOK, ZenonT(30)
<1>11. Calm => Dated(NewLogFile, e, z, date)
  <2>1. Calm => DatedFiles(d, date)
    BY <1>2, ZenonT(30) DEF Dated, DatedFiles
  <2>2. Calm => DatedFiles(e, date)
    BY <1>9, <2>1, CarriedOK, ZenonT(30)
  <2> QED BY <2>2, NewLogFileOK, ZenonT(30) DEF Dated, DatedFiles
<1> QED BY <1>7, <1>9, <1>10, <1>11, ZenonT(30) DEF CatOK, n

LEMMA DieOK == ASSUME IInv, Die PROVE IInv'
<1>1. /\ now' = now /\ zone' = zone /\ date' = date /\ mishap' = mishap
      /\ m_LogCats' = <<>> /\ DOMAIN m_LogCats' = {}
  BY SMTT(30) DEF Die
<1>2. DOMAIN disk' = Cats /\ \A c \in Cats :
        \/ disk'[c] = disk[c]
        \/ c \in DOMAIN m_LogCats /\ disk'[c] = Close(Log(c), now).disk
        \/ c \in DOMAIN m_LogCats /\ disk'[c] = CheckFileRoll(Log(c), now, now, zone, TRUE).disk
  <2>1. DOMAIN disk = Cats
    BY ZenonT(30) DEF IInv
  <2>2. CASE UNCHANGED disk
    BY <2>1, <2>2, ZenonT(30)
  <2>3. ASSUME NEW b \in DOMAIN m_LogCats, NEW e, disk' = [disk EXCEPT ![b] = e],
               \/ e = Close(Log(b), now).disk
               \/ e = CheckFileRoll(Log(b), now, now, zone, TRUE).disk
        PROVE  <1>2!2
    <3>1. \A c \in Cats : disk'[c] = IF c = b THEN e ELSE disk[c]
      BY <2>1, <2>3, ZenonT(30)
    <3> QED BY <2>3, <3>1, ZenonT(30)
  <2>4. DOMAIN disk' = Cats
    BY <2>1, ZenonT(30) DEF Die
  <2> QED BY <2>2, <2>3, <2>4, ZenonT(30) DEF Die
<1>3. \A c \in Cats : CatOK(c)'
  BY <1>1, <1>2, GoneOK, ZenonT(30)
<1> QED BY <1>1, <1>2, <1>3, ZenonT(30) DEF IInv

LEMMA ClearAllFileCatsOK == ASSUME IInv, ClearAllFileCats PROVE IInv'
<1>1. /\ now' = now /\ zone' = zone /\ date' = date /\ mishap' = mishap
      /\ m_LogCats' = <<>> /\ DOMAIN m_LogCats' = {} /\ DOMAIN disk' = Cats
  BY DEF ClearAllFileCats
<1>2. \A c \in Cats :
        \/ disk'[c] = disk[c]
        \/ c \in DOMAIN m_LogCats /\ disk'[c] = Close(Log(c), now).disk
  BY ZenonT(30) DEF ClearAllFileCats
<1>3. \A c \in Cats : CatOK(c)'
  BY <1>1, <1>2, GoneOK, ZenonT(30)
<1> QED BY <1>1, <1>3, ZenonT(30) DEF IInv

LEMMA Inductive == IInv /\ [Next]_vars => IInv'
<1> SUFFICES ASSUME IInv, [Next]_vars PROVE IInv'
  BY ZenonT(30)
<1>1. CASE UNCHANGED vars
  BY <1>1, ZenonT(30) DEF vars, IInv, CatOK, Object, Clean, Calm
<1>2. CASE Tick
  BY <1>2, TickOK, ZenonT(30)
<1>3. CASE Die
  BY <1>3, DieOK, ZenonT(30)
<1>4. CASE ClearAllFileCats
  BY <1>4, ClearAllFileCatsOK
<1>5. CASE \E r \in Readings, ok \in SUBSET Cats : Start(ok, r)
  BY <1>5, StartOK, ZenonT(30)
<1>6. CASE \E r \in Readings, lv \in Levels, n \in Sizes, ok \in SUBSET Cats : LogLine(lv, n, ok, r)
  BY <1>6, LogLineOK, ZenonT(30)
<1> QED BY <1>1, <1>2, <1>3, <1>4, <1>5, <1>6, ZenonT(30) DEF Next

-----------------------------------------------------------------------------
(* The theorems *)

\* The invariant: each log has a latest file, and the files below it are full.
THEOREM LogIsOK == Spec => []IInv
<1>1. Init => IInv
  BY InitOK, ZenonT(30)
<1>2. IInv /\ [Next]_vars => IInv'
  BY Inductive, ZenonT(30)
<1> QED BY <1>1, <1>2, PTL DEF Spec

\* EachFileOneRun: the lines of a file are consecutive in the log.
THEOREM FilesAlwaysHoldOneRun == Spec => []EachFileOneRun
<1>1. IInv => EachFileOneRun
  <2> SUFFICES ASSUME IInv, NEW c \in Cats,
                      NEW a \in DOMAIN disk[c], NEW b \in DOMAIN disk[c], a # b,
                      NEW l \in Lines(disk[c][b]),
                      NEW k \in Lines(disk[c][a]), NEW m \in Lines(disk[c][a]), k < l, l < m
               PROVE  FALSE
    BY ZenonT(30) DEF EachFileOneRun
  <2>1. Kept(disk[c], now, Len(date))
    BY ZenonT(30) DEF IInv, CatOK, LogOK
  <2>2. Before(disk[c][a], disk[c][b]) \/ Before(disk[c][b], disk[c][a])
    BY <2>1, ZenonT(30) DEF Kept
  <2>3. k \in Int /\ l \in Int /\ m \in Int
    BY <2>1, SMTT(30) DEF Kept, FileOK
  <2> QED BY <2>2, <2>3 DEF Before
<1> QED BY <1>1, LogIsOK, PTL

\* FiledByDay: a line is in a file of a date on which it was being logged, whatever
\* time passes before and between the categories' readings of the clock.
THEOREM LinesAlwaysFiledByDay == Spec => []FiledByDay
<1>1. IInv => FiledByDay
  BY ZenonT(30) DEF IInv, CatOK, Calm, Dated, FiledByDay
<1> QED BY <1>1, LogIsOK, PTL

\* FilesBounded: a file was empty, or smaller than the roll size, when its last
\* line was written.
THEOREM FilesAlwaysBounded == Spec => []FilesBounded
<1>1. IInv => FilesBounded
  BY ZenonT(30) DEF IInv, CatOK, Bounded, FilesBounded
<1> QED BY <1>1, LogIsOK, PTL

\* TriesAgain: a line that is logged while fopen works is on the disk.
THEOREM LogAlwaysTriesAgain == Spec => TriesAgain
<1> DEFINE OnDisk(c) == \E name \in DOMAIN disk'[c] : Len(date') \in Lines(disk'[c][name])
<1>1. ASSUME IInv, NEW lv \in Levels, NEW n \in Sizes, NEW r \in Readings,
             LogLine(lv, n, Cats, r), NEW c \in Matching(lv)
      PROVE  OnDisk(c)
  <2>1. c \in Cats
    BY <1>1, Basics, ZenonT(30) DEF Matching
  <2>2. Cats \in SUBSET Cats
    BY ZenonT(30)
  <2> QED BY <1>1, <2>1, <2>2, LogLineOK, ZenonT(30)
<1>2. IInv =>
        [\A lv \in Levels :
           \/ \A c \in Matching(lv) : OnDisk(c)
           \/ \A n \in Sizes, r \in Readings : ~LogLine(lv, n, Cats, r)]_vars
  BY <1>1, ZenonT(30)
<1> QED BY <1>2, LogIsOK, PTL DEF TriesAgain

\* Every action but rolling keeps all lines.
LEMMA StepDropsOldest ==
  ASSUME IInv, [Next]_vars, zone = Zone, {"fopen", "tie"} \cap mishap' = {},
         NEW c \in Cats, NEW b \in DOMAIN disk[c]
  PROVE  Lines(disk[c][b]) \subseteq Lines(disk'[c][b]) \/ Oldest(disk[c], b)
<1> DEFINE f == Object(c)
           d == disk[c]
           n == Len(date)
           z == zone
           clean == Clean
           log == [f |-> f, disk |-> d]
<1>1. LogOK(f, d, now, Date(now, z), n, clean) /\ Kept(d, now, n) /\ f \in Objects
      /\ (~f.open => f.time = 0)
  BY ZenonT(30) DEF IInv, CatOK, LogOK, ObjectOK
<1>2. /\ now \in Nat /\ now >= Day /\ z \in 0 .. Day - 1 /\ n \in Nat /\ z = Zone
  BY Basics, ZenonT(30)
<1>r. ASSUME NEW q \in Readings, Elapses(q)
      PROVE  /\ From(q, c) \in Nat /\ To(q, c) \in Nat /\ From(q, c) >= Day
             /\ From(q, c) <= To(q, c)
             /\ LogOK(f, d, From(q, c), Date(From(q, c), z), n, clean)
  <2>1. /\ From(q, c) \in Nat /\ To(q, c) \in Nat /\ From(q, c) >= Day
        /\ now <= From(q, c) /\ From(q, c) <= To(q, c)
    BY <1>r, ReadingOK, ZenonT(30)
  <2> HIDE DEF f, d, n, z, clean
  <2>2. LogOK(f, d, From(q, c), Date(From(q, c), z), n, clean)
    BY <1>1, <1>2, <2>1, Lasts, ZenonT(30)
  <2> QED BY <2>1, <2>2, ZenonT(30)
<1>3. c \in DOMAIN m_LogCats => Log(c) = log
  BY ZenonT(30) DEF Log, Object
<1>4. mishap \subseteq mishap'
  BY ZenonT(30) DEF Next, Tick, Die, ClearAllFileCats, Start, LogLine, vars
<1>5. clean /\ (c \in DOMAIN m_LogCats => f.open)
  BY <1>4, ZenonT(30) DEF Clean, IInv, Object
<1> HIDE DEF f, n, z, clean
<1>6. disk'[c] = d => Lines(d[b]) \subseteq Lines(disk'[c][b])
  BY ZenonT(30)
<1>7. ASSUME c \in DOMAIN m_LogCats, disk'[c] = Close(Log(c), now).disk
      PROVE  Lines(d[b]) \subseteq Lines(disk'[c][b])
  <2>1. Shut(f, d, disk'[c], now)
    BY <1>1, <1>3, <1>7, CloseDoes, ZenonT(30)
  <2>2. disk'[c][b] = IF f.open /\ b = f.name THEN WithClose(d[b], now) ELSE d[b]
    BY <2>1, ZenonT(30) DEF Shut
  <2>3. Lines(disk'[c][b]) = Lines(d[b])
    <3> DEFINE x == d[b]
    <3>1. FileOK(x, now, n)
      BY <1>1, ZenonT(30) DEF Kept
    <3> HIDE DEF x
    <3>2. Lines(WithClose(x, now)) = Lines(x)
      BY <1>2, <3>1, WithCloseOK
    <3> QED BY <2>2, <3>2, ZenonT(30) DEF x
  <2> QED BY <2>3, ZenonT(30)
<1>8. ASSUME NEW t \in Nat, t >= Day, LogOK(f, d, t, Date(t, z), n, clean),
             NEW u \in Nat, NEW ok \in BOOLEAN, c \in DOMAIN m_LogCats
      PROVE  LET r == CheckFileRoll(Log(c), t, u, zone, ok)
             IN  b \in DOMAIN r.disk /\ (Lines(d[b]) \subseteq Lines(r.disk[b]) \/ Oldest(d, b))
  <2>1. b \in DOMAIN d /\ f.open
    BY <1>5, <1>8, ZenonT(30)
  <2> DEFINE r == CheckFileRoll(log, t, u, z, ok)
  <2>2. Log(c) = log
    BY <1>3, <1>8, ZenonT(30)
  <2>3. b \in DOMAIN r.disk /\ (Lines(d[b]) \subseteq Lines(r.disk[b]) \/ Oldest(d, b))
    <3> HIDE DEF d
    <3> QED BY <1>2, <1>5, <1>8, <2>1, RollDropsOldest, ZenonT(30)
  <2> QED BY <2>2, <2>3, ZenonT(30) DEF z
<1>9. CASE UNCHANGED vars \/ Tick
  BY <1>6, <1>9, ZenonT(30) DEF vars, Tick
<1>10. CASE ClearAllFileCats
  BY <1>6, <1>7, <1>10, ZenonT(30) DEF ClearAllFileCats
<1>11. CASE Die
  <2>1. \/ disk'[c] = d
        \/ c \in DOMAIN m_LogCats /\ disk'[c] = Close(Log(c), now).disk
        \/ c \in DOMAIN m_LogCats /\ disk'[c] = CheckFileRoll(Log(c), now, now, zone, TRUE).disk
    BY <1>11, Basics, ZenonT(30) DEF Die
  <2> QED BY <1>1, <1>2, <1>6, <1>7, <1>8, <2>1, ZenonT(30)
<1>12. ASSUME NEW ok \in SUBSET Cats, NEW q \in Readings, Start(ok, q)
       PROVE  Lines(d[b]) \subseteq Lines(disk'[c][b])
  <2> DEFINE yes == c \in ok
             t == From(q, c)
             u == To(q, c)
             r == InitLogFile(d, t, u, z, yes)
             N == GetFileName(LastRollID(d, t, z), t, z)
             x == IF N \in DOMAIN d THEN d[N] ELSE EmptyFile(u)
  <2>1. disk'[c] = r.disk
    BY <1>12, ZenonT(30) DEF Start, z
  <2>2. yes \in BOOLEAN /\ b \in DOMAIN d
    BY MembershipOK, ZenonT(30)
  <2>t. t \in Nat /\ u \in Nat /\ t >= Day /\ t <= u /\ Kept(d, t, n)
    BY <1>r, <1>12, ZenonT(30) DEF Start, LogOK
  <2> HIDE DEF yes, d, t, u
  <2>3. /\ ~yes => r.disk = d
        /\ yes => Opened(NewLogFile, d, r.f, r.disk, N, x, t, u)
    BY <1>2, <2>t, <2>2, InitLogFileDoes
  <2> HIDE DEF r, N
  <2>4. yes => r.disk[b] = d[b]
    BY <2>2, <2>3, NewLogFileOK, ZenonT(30) DEF Opened
  <2> QED BY <2>1, <2>3, <2>4, ZenonT(30)
<1>13. ASSUME NEW lv \in Levels, NEW k \in Sizes, NEW ok \in SUBSET Cats, NEW q \in Readings,
              LogLine(lv, k, ok, q)
       PROVE  Lines(d[b]) \subseteq Lines(disk'[c][b]) \/ Oldest(d, b)
  <2>1. CASE c \notin Matching(lv)
    BY <1>6, <1>13, <2>1, ZenonT(30) DEF LogLine
  <2>2. CASE c \in Matching(lv)
    <3> DEFINE yes == c \in ok
               t == From(q, c)
               u == To(q, c)
               r == CheckFileRoll(log, t, u, z, yes)
               w == Write(log, n + 1, k, t, u, z, yes)
    <3>1. disk'[c] = w.disk /\ c \in DOMAIN m_LogCats
      BY <1>3, <1>13, <2>2, ZenonT(30) DEF LogLine, Matching, n, z
    <3>2. /\ yes \in BOOLEAN /\ k \in Nat /\ b \in DOMAIN d
          /\ t \in Nat /\ u \in Nat /\ t >= Day /\ t <= u
          /\ LogOK(f, d, t, Date(t, z), n, clean)
      <4>1. k \in Nat
        BY LogFileAssumption, ZenonT(30)
      <4>2. Elapses(q)
        BY <1>13, ZenonT(30) DEF LogLine
      <4> QED BY <1>r, <4>1, <4>2, MembershipOK, ZenonT(30)
    <3> HIDE DEF yes, t, u
    <3>3. b \in DOMAIN r.disk /\ (Lines(d[b]) \subseteq Lines(r.disk[b]) \/ Oldest(d, b))
      BY <1>3, <1>8, <3>1, <3>2, ZenonT(30) DEF z
    <3> HIDE DEF d
    <3>4. Lines(r.disk[b]) \subseteq Lines(w.disk[b])
      BY <1>2, <3>2, <3>3, WriteKeepsLines, ZenonT(30)
    <3> HIDE DEF r, w
    <3> QED BY <3>1, <3>3, <3>4, ZenonT(30)
  <2> QED BY <2>1, <2>2, ZenonT(30)
<1> QED BY <1>9, <1>10, <1>11, <1>12, <1>13, ZenonT(30) DEF Next

\* OnlyOldestDropped: without a failed fopen, two newest files or another zone,
\* lines leave the disk only when the oldest of RollCountMax files is used again.
THEOREM OnlyOldestEverDropped == Spec => OnlyOldestDropped
<1> DEFINE Loses == \A c \in Cats : \A name \in DOMAIN disk[c] :
             LET dropped == Lines(disk[c][name]) \ Lines(disk'[c][name])
             IN  dropped # {} =>
                   \/ zone # Zone \/ {"fopen", "tie"} \cap mishap' # {}
                   \/ /\ \A i \in 0 .. Count - 1 : <<name[1], i>> \in DOMAIN disk[c]
                      /\ \A other \in DOMAIN disk[c] \ {name} :
                           other[1] = name[1] =>
                             \A l \in Lines(disk[c][other]), d \in dropped : d < l
<1>1. ASSUME IInv, [Next]_vars PROVE Loses
  <2> SUFFICES ASSUME NEW c \in Cats, NEW name \in DOMAIN disk[c],
                      ~(Lines(disk[c][name]) \subseteq Lines(disk'[c][name])),
                      zone = Zone, {"fopen", "tie"} \cap mishap' = {}
               PROVE  /\ \A i \in 0 .. Count - 1 : <<name[1], i>> \in DOMAIN disk[c]
                      /\ \A other \in DOMAIN disk[c] \ {name} :
                           other[1] = name[1] =>
                             \A l \in Lines(disk[c][other]), d \in Lines(disk[c][name]) : d < l
    BY ZenonT(30)
  <2>1. Oldest(disk[c], name)
    BY <1>1, StepDropsOldest, ZenonT(30)
  <2> QED BY <2>1, ZenonT(30) DEF Oldest, Before
<1>2. IInv /\ [Next]_vars => [Loses]_vars
  BY <1>1, ZenonT(30)
<1> QED BY <1>2, LogIsOK, PTL DEF Spec, OnlyOldestDropped

=============================================================================
