------------------------------ MODULE TimerSet ------------------------------
(***************************************************************************)
(* What the timer manager promises: a bounded set of timers, each with the *)
(* data of its owner, of which a tick delivers an earliest one that is     *)
(* due.  There is no heap, no pool and no position here.                   *)
(***************************************************************************)
EXTENDS Integers, FiniteSets

CONSTANTS
  Cap,     \* how many timers can run at a time
  Ids,     \* ids a client may pass or be given
  Times,   \* expiry times, and the times a tick may pass as now
  Bufs,    \* the owners' data
  NoBuf    \* no data delivered

VARIABLES
  up,      \* the manager is initialised
  timers,  \* the running timers
  ret      \* the last call: its name, argument and result, and the data delivered

vars == <<up, timers, ret>>

Outcome(op, arg, val, buf) == [op |-> op, arg |-> arg, val |-> val, buf |-> buf]
Fails(op, arg, val) ==
  ret' = Outcome(op, arg, val, NoBuf) /\ UNCHANGED <<up, timers>>

Init ==
  /\ up = FALSE
  /\ timers = {}
  /\ ret = Outcome("destroy", 0, 0, NoBuf)

InitMgr ==
  IF up THEN Fails("init", 0, -1)
  ELSE up' = TRUE /\ timers' = {} /\ ret' = Outcome("init", 0, 0, NoBuf)

Destroy == up' = FALSE /\ timers' = {} /\ ret' = Outcome("destroy", 0, 0, NoBuf)

Start(t, b) ==
  IF ~up \/ t = 0 THEN Fails("start", t, -1)
  ELSE IF Cardinality(timers) = Cap THEN Fails("start", t, -2)
  ELSE \E id \in Ids :
         /\ \A x \in timers : x.id # id
         /\ timers' = timers \union {[id |-> id, expire |-> t, buf |-> b]}
         /\ ret' = Outcome("start", t, 0, NoBuf)
         /\ UNCHANGED up

Update(id, t) ==
  LET mine == {x \in timers : x.id = id}
  IN  IF ~up \/ t = 0 THEN Fails("update", id, -1)
      ELSE IF mine = {} THEN Fails("update", id, -2)
      ELSE /\ timers' = (timers \ mine) \union {[x EXCEPT !.expire = t] : x \in mine}
           /\ ret' = Outcome("update", id, 0, NoBuf)
           /\ UNCHANGED up

Stop(id) ==
  LET mine == {x \in timers : x.id = id}
  IN  IF ~up THEN Fails("stop", id, -1)
      ELSE IF mine = {} THEN Fails("stop", id, -2)
      ELSE /\ timers' = timers \ mine
           /\ ret' = Outcome("stop", id, 0, NoBuf)
           /\ UNCHANGED up

\* Nothing fires before its time, and an earlier timer fires first.
Tick(now) ==
  LET due == {x \in timers : x.expire <= now}
  IN  IF due = {} THEN Fails("tick", now, -1)
      ELSE \E x \in due :
             /\ \A y \in timers : x.expire <= y.expire
             /\ timers' = timers \ {x}
             /\ ret' = Outcome("tick", now, x.id, x.buf)
             /\ UNCHANGED up

Count == Fails("count", 0, IF up THEN Cardinality(timers) ELSE -1)

Next ==
  \/ InitMgr \/ Destroy \/ Count
  \/ \E t \in Times \union {0} :
       \/ \E b \in Bufs : Start(t, b)
       \/ \E id \in Ids : Update(id, t)
       \/ Tick(t)
  \/ \E id \in Ids : Stop(id)

Spec == Init /\ [][Next]_vars
=============================================================================
