------------------------------- MODULE LogOps -------------------------------
(***************************************************************************)
(* CLogFile: a log that rolls over RollCountMax files a day.  A log is     *)
(* [f, disk]: the object and the files of its name on the disk.  A file is *)
(* known by its date and its roll index; it has its lines (each a number), *)
(* its size, which counts the closing lines as well, the size it had       *)
(* before its last line, and its time of modification.                     *)
(*                                                                         *)
(* Times are in seconds.  An operation that opens a file reads the clock   *)
(* twice, so it takes two times, t and t2, and whether fopen succeeds.     *)
(***************************************************************************)
EXTENDS Integers, Sequences

CONSTANTS
  RollSize, RollCountMax,
  Day,         \* 86400
  Zone,        \* the offset 28800 that GetDiffDays has built in
  CloseSize    \* the length of "close file\n"

ASSUME LogAssumption ==
  /\ RollSize \in Nat /\ RollCountMax \in Nat /\ CloseSize \in Nat
  /\ Day \in Nat \ {0} /\ Zone \in 0 .. Day - 1

GetDiffDays(t1, t2) == (t1 + Zone) \div Day - (t2 + Zone) \div Day

\* localtime_r and strftime: the date in a zone.
Date(t, zone) == (t + zone) \div Day

\* The constructor; m_tCurFileTime and the name are set when a file is first opened.
NewLogFile == [open |-> FALSE, name |-> <<>>, size |-> 0, idx |-> 0, time |-> 0]

EmptyFile(t) == [lines |-> <<>>, before |-> 0, size |-> 0, mtime |-> t]

\* fwrite and fflush at time t, of a line and of the closing line.
WithLine(file, line, n, t) ==
  [lines |-> Append(file.lines, line), before |-> file.size, size |-> file.size + n, mtime |-> t]
WithClose(file, t) == [file EXCEPT !.size = @ + CloseSize, !.mtime = t]

\* fopen: the disk with a file of that name.
WithFile(disk, name, file) ==
  [b \in DOMAIN disk \cup {name} |-> IF b = name THEN file ELSE disk[b]]

GetFileName(idx, t, zone) == <<Date(t, zone), idx>>

-----------------------------------------------------------------------------
(* Close and OpenFile *)

\* Mutation: m_tCurFileTime is kept.
CloseKeepsTime(log, t) ==
  IF log.f.open
  THEN [f |-> [log.f EXCEPT !.open = FALSE, !.size = 0],
        disk |-> [log.disk EXCEPT ![log.f.name] = WithClose(@, t)]]
  ELSE log

Close(log, t) ==
  IF log.f.open
  THEN [f |-> [log.f EXCEPT !.open = FALSE, !.time = 0, !.size = 0],
        disk |-> [log.disk EXCEPT ![log.f.name] = WithClose(@, t)]]
  ELSE log

\* Mutation: the size of what is in the file already is not asked for.
OpenFileUnsized(log, name, isClear, t, t2, ok) ==
  LET c == Close(log, t)
      file == IF isClear \/ name \notin DOMAIN c.disk THEN EmptyFile(t2) ELSE c.disk[name]
  IN  IF ~ok THEN c
      ELSE [f |-> [c.f EXCEPT !.open = TRUE, !.name = name, !.size = 0, !.time = t2],
            disk |-> WithFile(c.disk, name, file)]

\* ok: one of the two fopen calls succeeds, the second after MakeDirFullPath when
\* a directory was missing.
OpenFile(log, name, isClear, t, t2, ok) ==
  LET c == Close(log, t)
      file == IF isClear \/ name \notin DOMAIN c.disk THEN EmptyFile(t2) ELSE c.disk[name]
  IN  IF ~ok THEN c
      ELSE [f |-> [c.f EXCEPT !.open = TRUE, !.name = name, !.size = file.size, !.time = t2],
            disk |-> WithFile(c.disk, name, file)]

-----------------------------------------------------------------------------
(* Rolling *)

NewDay(f, t) == GetDiffDays(t, f.time) # 0

\* Mutation: only the size counts.
MustRollBySize(f, t) == ~f.open \/ f.size >= RollSize

MustRoll(f, t) == NewDay(f, t) \/ f.size >= RollSize

\* m_uRollCountMax of 0 is set to 1.
Count == IF RollCountMax = 0 THEN 1 ELSE RollCountMax

\* The index CheckFileRoll rolls to.
NextIdx(f, t) == IF NewDay(f, t) THEN 0 ELSE (f.idx + 1) % Count

\* Mutation: a file that is used again is not emptied.
CheckFileRollAppends(log, t, t2, zone, ok) ==
  LET idx == NextIdx(log.f, t)
  IN  IF MustRoll(log.f, t)
      THEN OpenFile([log EXCEPT !.f.idx = idx], GetFileName(idx, t, zone), FALSE, t, t2, ok)
      ELSE log

CheckFileRoll(log, t, t2, zone, ok) ==
  LET idx == NextIdx(log.f, t)
  IN  IF MustRoll(log.f, t)
      THEN OpenFile([log EXCEPT !.f.idx = idx], GetFileName(idx, t, zone), TRUE, t, t2, ok)
      ELSE log

Write(log, line, n, t, t2, zone, ok) ==
  LET c == CheckFileRoll(log, t, t2, zone, ok)
  IN  IF ~c.f.open THEN c
      ELSE [f |-> [c.f EXCEPT !.size = @ + n],
            disk |-> [c.disk EXCEPT ![c.f.name] = WithLine(@, line, n, t2)]]

\* The indexes of the date's files that InitFileRoll finds.
Found(disk, t, zone) ==
  {i \in 0 .. RollCountMax - 1 : GetFileName(i, t, zone) \in DOMAIN disk}

Newest(disk, t, zone) ==
  LET mtime(i) == disk[GetFileName(i, t, zone)].mtime
  IN  {i \in Found(disk, t, zone) : \A j \in Found(disk, t, zone) : mtime(j) <= mtime(i)}

\* Mutation: the first file is taken, whatever the times.
LastRollIDFirst(disk, t, zone) == 0

\* iLastRollID: the most recently modified file, the first one of several.
LastRollID(disk, t, zone) ==
  LET newest == Newest(disk, t, zone)
  IN  IF newest = {} THEN 0 ELSE CHOOSE i \in newest : \A j \in newest : i <= j

InitFileRoll(log, t, t2, zone, ok) ==
  LET idx == LastRollID(log.disk, t, zone)
  IN  OpenFile([log EXCEPT !.f.idx = idx], GetFileName(idx, t, zone), FALSE, t, t2, ok)

\* InitLogFile on a new object.
InitLogFile(disk, t, t2, zone, ok) ==
  InitFileRoll([f |-> NewLogFile, disk |-> disk], t, t2, zone, ok)
=============================================================================
