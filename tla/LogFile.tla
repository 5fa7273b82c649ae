------------------------------- MODULE LogFile -------------------------------
(***************************************************************************)
(* The log of a process: CLogMgr with its categories, each of them a range *)
(* of levels and a CLogFile.  The process is killed and started again,     *)
(* fopen fails, time passes while an operation runs: each category reads   *)
(* the clock for itself when its turn comes, and again when it opens a     *)
(* file.                                                                   *)
(*                                                                         *)
(* Every line that is written is flushed: a process that dies leaves on    *)
(* the disk what it has written, and dies between any two calls that       *)
(* change a file.                                                          *)
(***************************************************************************)
EXTENDS LogOps

CONSTANTS
  CatConfs,    \* the categories main() adds, in order: [m_iMinLevel, m_iMaxLevel]
  Levels, Sizes,
  Zones,       \* zones the machine may be set to
  MaxLines, MaxTime, MaxStarts,
  MaxLapse     \* bound on the seconds an operation takes

ASSUME LogFileAssumption ==
  /\ CatConfs \in Seq([m_iMinLevel : Levels, m_iMaxLevel : Levels])
  /\ Levels \subseteq Nat /\ Sizes \subseteq Nat
  /\ Zones \subseteq 0 .. Day - 1
  /\ MaxLines \in Nat /\ MaxTime \in Nat /\ MaxStarts \in Nat /\ MaxLapse \in Nat

VARIABLES
  now, zone,
  running,   \* the process runs
  starts,    \* how often it was started
  m_LogCats, \* the files of the categories that could be added, by category
  disk,      \* the files of each category
  date,      \* date[l]: the dates on which line l was being logged, from its stamp on
  mishap     \* history: what has gone wrong

vars == <<now, zone, running, starts, m_LogCats, disk, date, mishap>>

Cats == DOMAIN CatConfs

\* m_LogCats[c]; a category whose file cannot be opened is taken off again.
Log(c) == [f |-> m_LogCats[c], disk |-> disk[c]]

\* The categories a level is written to.
Matching(lv) ==
  {c \in DOMAIN m_LogCats : lv >= CatConfs[c].m_iMinLevel /\ lv <= CatConfs[c].m_iMaxLevel}

\* When each category, in its turn, first reads the clock and when it is done, in
\* seconds since the operation began.
Readings ==
  {r \in [Cats -> [from : 0 .. MaxLapse, to : 0 .. MaxLapse]] :
     /\ \A c \in Cats : r[c].from <= r[c].to
     /\ \A c, e \in Cats : c < e => r[c].to <= r[e].from}

From(r, c) == now + r[c].from
To(r, c) == now + r[c].to

\* The operation is over after the last reading.
Elapses(r) ==
  /\ now' \in now .. now + MaxLapse /\ now' <= MaxTime
  /\ \A c \in Cats : To(r, c) <= now'

Init ==
  /\ now = Day
  /\ zone \in Zones
  /\ running = FALSE /\ starts = 0
  /\ m_LogCats = <<>>
  /\ disk = [c \in Cats |-> <<>>]
  /\ date = <<>>
  /\ mishap = {}

\* Time passes.
Tick ==
  /\ now < MaxTime
  /\ now' = now + 1
  /\ UNCHANGED <<zone, running, starts, m_LogCats, disk, date, mishap>>

\* Midnight lies between the reading from which one of the files gets its name
\* and the one OpenFile keeps.
Midnight(cats, r) ==
  IF \E c \in cats : Date(From(r, c), zone) # Date(To(r, c), zone) THEN {"midnight"} ELSE {}

\* The newest file cannot be told from an older one with lines.
Tie(c, t) == IF \E i, j \in Newest(disk[c], t, zone) : i # j THEN {"tie"} ELSE {}

\* main: AddFileCat for each category; ok are those whose file can be opened.
Start(ok, r) ==
  LET log == [c \in Cats |-> InitLogFile(disk[c], From(r, c), To(r, c), zone, c \in ok)]
  IN  /\ ~running /\ starts < MaxStarts
      /\ running' = TRUE /\ starts' = starts + 1 /\ Elapses(r)
      /\ m_LogCats' = [c \in ok |-> log[c].f]
      /\ disk' = [c \in Cats |-> log[c].disk]
      /\ mishap' = mishap \cup Midnight(ok, r) \cup UNION {Tie(c, From(r, c)) : c \in ok}
      /\ UNCHANGED <<zone, date>>

\* CLogMgr::Log.  The stamp has the time the call begins; each category then
\* finds its file by its own reading of the clock.
LogLine(lv, n, ok, r) ==
  LET to == Matching(lv)
      log == [c \in to |-> Write(Log(c), Len(date) + 1, n, From(r, c), To(r, c), zone, c \in ok)]
      opens == {c \in to : MustRoll(m_LogCats[c], From(r, c))}
  IN  /\ running /\ Len(date) < MaxLines
      /\ Elapses(r)
      /\ date' = Append(date, {Date(t, zone) : t \in now .. now'})
      /\ m_LogCats' = [c \in DOMAIN m_LogCats |-> IF c \in to THEN log[c].f ELSE m_LogCats[c]]
      /\ disk' = [c \in Cats |-> IF c \in to THEN log[c].disk ELSE disk[c]]
      /\ mishap' = mishap \cup Midnight(opens, r)
                          \cup (IF opens \subseteq ok THEN {} ELSE {"fopen"})
      /\ UNCHANGED <<zone, running, starts>>

\* The process is killed, perhaps while it rolls a log: when the old file is
\* closed, or the new one emptied and nothing written to it yet.
Die ==
  /\ running
  /\ running' = FALSE /\ m_LogCats' = <<>>
  /\ \/ UNCHANGED disk
     \/ \E c \in DOMAIN m_LogCats :
          /\ MustRoll(m_LogCats[c], now)
          /\ \/ disk' = [disk EXCEPT ![c] = Close(Log(c), now).disk]
             \/ disk' = [disk EXCEPT ![c] = CheckFileRoll(Log(c), now, now, zone, TRUE).disk]
  /\ UNCHANGED <<now, zone, starts, date, mishap>>

\* ClearAllFileCats, which the programs of the repository do not call.
ClearAllFileCats ==
  /\ running /\ m_LogCats # <<>>
  /\ m_LogCats' = <<>>
  /\ disk' = [c \in Cats |-> IF c \in DOMAIN m_LogCats THEN Close(Log(c), now).disk ELSE disk[c]]
  /\ UNCHANGED <<now, zone, running, starts, date, mishap>>

Next ==
  \/ Tick \/ Die \/ ClearAllFileCats
  \/ \E r \in Readings, ok \in SUBSET Cats : Start(ok, r)
  \/ \E r \in Readings, lv \in Levels, n \in Sizes, ok \in SUBSET Cats : LogLine(lv, n, ok, r)

Spec == Init /\ [][Next]_vars

-----------------------------------------------------------------------------
(* Properties *)

Lines(file) == {file.lines[i] : i \in DOMAIN file.lines}

\* Lines leave the disk only when the log rolls onto the oldest file of the date,
\* with all RollCountMax files in use: nothing newer than what is left is lost,
\* over rolls, new days, and kills and restarts at any point.  The exceptions are
\* a failed fopen (the log then starts over with file 0 and empties it), a
\* restart that finds two newest files of the same second, and a machine
\* that is not in the zone GetDiffDays assumes.
OnlyOldestDropped ==
  [][\A c \in Cats : \A name \in DOMAIN disk[c] :
       LET dropped == Lines(disk[c][name]) \ Lines(disk'[c][name])
       IN  dropped # {} =>
             \/ zone # Zone \/ {"fopen", "tie"} \cap mishap' # {}
             \/ /\ \A i \in 0 .. Count - 1 : <<name[1], i>> \in DOMAIN disk[c]
                /\ \A other \in DOMAIN disk[c] \ {name} :
                     other[1] = name[1] =>
                       \A l \in Lines(disk[c][other]), d \in dropped : d < l]_vars

\* A file holds one run of lines: no line in between is in another file of the
\* log.  This holds after failures and restarts too.
EachFileOneRun ==
  \A c \in Cats : \A a, b \in DOMAIN disk[c] :
    a # b =>
      LET between == {l \in Lines(disk[c][b]) :
                        \E k, m \in Lines(disk[c][a]) : k < l /\ l < m}
      IN  between = {}

\* A line is in a file of the date of its stamp or, when midnight fell while it
\* was being logged, of that or the next date.  The exceptions are a machine in another zone,
\* and a midnight between the two readings of the clock by CheckFileRoll or
\* InitFileRoll and by OpenFile: the next day's lines then go to the old file
\* until it is full.
FiledByDay ==
  (zone = Zone /\ "midnight" \notin mishap) =>
    \A c \in Cats : \A name \in DOMAIN disk[c] :
      \A l \in Lines(disk[c][name]) : name[1] \in date[l]

\* A line that is logged while fopen works is on the disk, also after any number
\* of failures: a log without a file tries again on every line.
TriesAgain ==
  [][\A lv \in Levels :
       \/ \A c \in Matching(lv) : \E name \in DOMAIN disk'[c] : Len(date') \in Lines(disk'[c][name])
       \/ \A n \in Sizes, r \in Readings : ~LogLine(lv, n, Cats, r)]_vars

\* A file was empty, or smaller than the roll size, when its last line was
\* written, whatever the length of that line and however many restarts have
\* appended to the file: without the last line it is within the bound.  (A closing line
\* comes on top: a process that is killed while it rolls leaves one, and so does
\* the next one.)
FilesBounded ==
  \A c \in Cats : \A name \in DOMAIN disk[c] :
    LET before == disk[c][name].before
    IN  before = 0 \/ before < RollSize
=============================================================================
