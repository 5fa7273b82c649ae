------------------------------ MODULE ServerApp ------------------------------
(***************************************************************************)
(* ServerApp: the main loop of a server (poll, OnProc, tick or sleep) and  *)
(* the commands of its control port (AppCtrlServer).                       *)
(*                                                                         *)
(* The clock counts microseconds, UsPerMs to a millisecond.  since is how  *)
(* far it is past ticktime; it is negative after the clock was set back.   *)
(* Of ticktime itself only the place within its second matters.            *)
(***************************************************************************)
EXTENDS Integers, Sequences

CONSTANTS
  UsPerMs, MsPerSec,
  Tick,       \* 100, in milliseconds
  IdleMax,    \* 10: rounds without work before a sleep
  Scripts,    \* what a control client may send: sequences of CR, LF and words
  MaxSince,   \* bound on since
  MaxBack     \* how far the clock may be set back, once

ASSUME AppAssumption ==
  /\ UsPerMs \in Nat \ {0} /\ MsPerSec \in Nat \ {0}
  /\ Tick \in Nat \ {0} /\ IdleMax \in Nat
  /\ MaxSince \in Nat /\ MaxBack \in Nat

VARIABLES
  pc,         \* where Run is
  m_is_stop,
  conf,       \* the configuration is whole: the last Parse succeeded
  idle,       \* idlesleepcount, up to IdleMax + 1: only whether it is larger matters
  tickat,     \* ticktime, within its second
  since,
  left,       \* what is left of a sleep
  ticked,     \* the last step called OnTick
  finis,      \* calls of OnFini
  unread,     \* what the control client has sent, or will, and is not read yet
  buf,        \* the channel's m_RecvBuf
  answers,    \* the answers, by command
  back        \* history: the clock was set back

loop == <<pc, m_is_stop, conf, idle, tickat, since, left, ticked, finis>>
vars == <<loop, unread, buf, answers, back>>

CR == "\r"
LF == "\n"

-----------------------------------------------------------------------------
(* The control port *)

\* _LoadConf: Parse empties the configuration first; its failure is only logged.
LoadConf(parsed) == parsed

App == [stop |-> m_is_stop, conf |-> conf, answers |-> answers]

FirstWord(line) ==
  LET words == SelectSeq(line, LAMBDA c : c # CR) IN IF words = <<>> THEN "" ELSE words[1]

\* ControlCmd; parsed says whether _LoadConf could parse the file.  Every command is
\* answered, by OnCtrlCmd or with "unsupport cmd".
ControlCmd(app, line, parsed) ==
  LET cmd == FirstWord(line)
      done == [app EXCEPT !.answers = Append(@, line)]
  IN  CASE cmd = "reload" -> [done EXCEPT !.conf = LoadConf(parsed)]
        [] cmd = "stop"   -> [done EXCEPT !.stop = TRUE]
        [] OTHER          -> done

\* The place of the first line end; 0 if there is none.
LineEnd(b) ==
  IF \E i \in DOMAIN b : b[i] = LF
  THEN CHOOSE i \in DOMAIN b : b[i] = LF /\ \A j \in 1 .. i - 1 : b[j] # LF
  ELSE 0

Rest(b, n) == SubSeq(b, n + 1, Len(b))

\* Mutation: a read is taken to hold one command.
OnMsgRecvOnce(app, b, parsed) ==
  LET i == LineEnd(b)
  IN  IF i = 0 THEN [app |-> app, buf |-> b]
      ELSE [app |-> IF i > 1 THEN ControlCmd(app, SubSeq(b, 1, i - 1), parsed) ELSE app,
            buf |-> Rest(b, i)]

\* AppCtrlServer::OnMsgRecv on a buffer with contents b.
RECURSIVE OnMsgRecv(_, _, _)
OnMsgRecv(app, b, parsed) ==
  LET i == LineEnd(b)
  IN  CASE b = <<>>   -> [app |-> app, buf |-> b]
        [] b # <<>> /\ b[1] = CR -> OnMsgRecv(app, Rest(b, 1), parsed)
        [] b # <<>> /\ b[1] # CR /\ i = 0 -> [app |-> app, buf |-> b]
        [] OTHER ->
             OnMsgRecv(IF i = 1 THEN app ELSE ControlCmd(app, SubSeq(b, 1, i - 1), parsed),
                       Rest(b, i), parsed)

-----------------------------------------------------------------------------
(* Time *)

Sec == UsPerMs * MsPerSec

\* Division in C.
Quotient(a, b) == IF a >= 0 THEN a \div b ELSE -((-a) \div b)

\* Mutation: the microseconds are left out.
CostInSeconds(at, passed) == ((at + passed) \div Sec) * MsPerSec

\* fcost: the milliseconds between two timevals.
Cost(at, passed) ==
  LET then == at + passed
  IN  (then \div Sec) * MsPerSec + Quotient((then % Sec) - at, UsPerMs)

-----------------------------------------------------------------------------
(* Steps *)

\* Before Run.
Init ==
  /\ pc = "init"
  /\ m_is_stop = FALSE /\ conf = FALSE
  /\ idle = 0 /\ since = 0 /\ left = 0 /\ ticked = FALSE /\ finis = 0
  /\ tickat \in 0 .. Sec - 1
  /\ unread \in Scripts
  /\ buf = <<>> /\ answers = <<>>
  /\ back = FALSE

\* Run calls Init; ret is the result of OnInit, parsed that of Parse.
AppInit(ret, parsed) ==
  /\ pc = "init"
  /\ conf' = LoadConf(parsed)
  /\ since' = 0
  /\ pc' = IF ret < 0 THEN "end" ELSE "poll"
  /\ UNCHANGED <<m_is_stop, idle, tickat, left, ticked, finis, unread, buf, answers, back>>

\* The head of the loop and Poll(0), in which n characters are read.
Poll(n, parsed) ==
  LET b == buf \o SubSeq(unread, 1, n)
      r == OnMsgRecv(App, b, parsed)
  IN  /\ pc = "poll" /\ ~m_is_stop
      /\ pc' = "proc" /\ ticked' = FALSE
      /\ unread' = Rest(unread, n)
      /\ IF n = 0 THEN UNCHANGED <<buf, m_is_stop, conf, answers>>
         ELSE /\ buf' = r.buf /\ m_is_stop' = r.app.stop
              /\ conf' = r.app.conf /\ answers' = r.app.answers
      /\ UNCHANGED <<idle, tickat, since, left, finis, back>>

OnProc(sleep) ==
  /\ pc = "proc"
  /\ idle' = IF ~sleep THEN 0 ELSE IF idle > IdleMax THEN idle ELSE idle + 1
  /\ pc' = "clock"
  /\ UNCHANGED <<m_is_stop, conf, tickat, since, left, ticked, finis, unread, buf, answers, back>>

\* Mutation: the sleep is not aligned with the tick.
AlignmsWhole(fcost) == IF fcost < Tick THEN Tick ELSE 0

Alignms(fcost) == Tick - fcost

\* Mutation: ticktime is set in every round.
ResetsAlways(fcost) == TRUE

ResetsTicktime(fcost) == fcost >= Tick

\* The clock is read; the loop sleeps, or calls OnTick, or neither.
Clock ==
  LET fcost == Cost(tickat, since)
      sleeps == idle > IdleMax /\ Alignms(fcost) > 0
  IN  /\ pc = "clock"
      /\ idle' = IF sleeps THEN 0 ELSE idle
      /\ left' = IF sleeps THEN Alignms(fcost) * UsPerMs ELSE 0
      /\ pc' = IF sleeps THEN "sleep" ELSE "poll"
      /\ ticked' = (fcost >= Tick)
      /\ tickat' = IF ResetsTicktime(fcost) THEN (tickat + since) % Sec ELSE tickat
      /\ since' = IF ResetsTicktime(fcost) THEN 0 ELSE since
      /\ UNCHANGED <<m_is_stop, conf, finis, unread, buf, answers, back>>

\* usleep returns.
Wake ==
  /\ pc = "sleep" /\ left = 0
  /\ pc' = "poll"
  /\ UNCHANGED <<m_is_stop, conf, idle, tickat, since, left, ticked, finis,
                 unread, buf, answers, back>>

\* The loop is left and OnFini called.
Fini ==
  /\ pc = "poll" /\ m_is_stop
  /\ pc' = "end" /\ finis' = finis + 1 /\ ticked' = FALSE
  /\ UNCHANGED <<m_is_stop, conf, idle, tickat, since, left, unread, buf, answers, back>>

\* Time passes.
Pass ==
  /\ pc \notin {"init", "end"} /\ since < MaxSince
  /\ since' = since + 1
  /\ left' = IF left = 0 THEN 0 ELSE left - 1
  /\ UNCHANGED <<pc, m_is_stop, conf, idle, tickat, ticked, finis, unread, buf, answers, back>>

\* The clock is set back, by n.
SetBack(n) ==
  /\ pc \notin {"init", "end"} /\ ~back
  /\ since' = since - n /\ back' = TRUE
  /\ UNCHANGED <<pc, m_is_stop, conf, idle, tickat, left, ticked, finis, unread, buf, answers>>

Step ==
  \/ \E ret \in {-1, 0}, parsed \in BOOLEAN : AppInit(ret, parsed)
  \/ \E n \in 0 .. Len(unread), parsed \in BOOLEAN : Poll(n, parsed)
  \/ \E sleep \in BOOLEAN : OnProc(sleep)
  \/ Clock \/ Wake \/ Fini

Next == Step \/ Pass \/ \E n \in 1 .. MaxBack : SetBack(n)

\* The process is scheduled, and time goes on.
Spec == Init /\ [][Next]_vars /\ WF_vars(Step) /\ WF_vars(Pass)

-----------------------------------------------------------------------------
(* Properties *)

\* The commands in a stream: its complete lines, without the CRs they begin with,
\* unless nothing is left.
RECURSIVE Commands(_)
Commands(s) ==
  LET line == SubSeq(s, 1, LineEnd(s) - 1)
      first == {i \in DOMAIN line : line[i] # CR}
      begin == CHOOSE i \in first : \A j \in first : i <= j
  IN  IF LineEnd(s) = 0 THEN <<>>
      ELSE (IF first = {} THEN <<>> ELSE <<SubSeq(line, begin, Len(line))>>)
             \o Commands(Rest(s, LineEnd(s)))

\* The control port executes and answers the commands of the stream, each once and
\* in order, as soon as the line end has been read and however the stream is
\* cut into reads; also those that follow a stop in the same read.
CommandsWhole ==
  \E s \in Scripts :
    \E n \in 0 .. Len(s) : unread = Rest(s, n) /\ answers = Commands(SubSeq(s, 1, n))

\* A round of the loop calls OnTick when, and only when, Tick milliseconds have passed
\* since the last call, up to one millisecond (the difference of the timevals'
\* microseconds is rounded towards 0 and may be negative).
TicksOnTime ==
  [][Clock => /\ ticked' => since > (Tick - 1) * UsPerMs
              /\ since >= (Tick + 1) * UsPerMs - 1 => ticked']_vars

\* A sleep ends no later than the clock shows that the next tick is due, up to one
\* millisecond, also when the clock was set back before the sleep or during it.
SleepsUntilTick ==
  (pc = "sleep" /\ left > 0) => since + left < (Tick + 1) * UsPerMs

Stopped == \E i \in DOMAIN answers : FirstWord(answers[i]) = "stop"

\* OnTick is called again and again until the loop ends, however much work there
\* is and although the clock was set back; after a stop command it does
\* end, with one call of OnFini.
TicksUntilStopped ==
  /\ []<>(ticked \/ pc = "end")
  /\ Stopped ~> (pc = "end" /\ finis = 1)
=============================================================================
