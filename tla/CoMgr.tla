------------------------------- MODULE CoMgr --------------------------------
(***************************************************************************)
(* The coroutine manager SCoMgr: coroutines in an object pool, addressed   *)
(* by id, that run until they call Yield or return, and that the manager   *)
(* resumes when their expiry time has come.                                *)
(*                                                                         *)
(* There is one thread.  A step is what happens between two moments at     *)
(* which client code runs: a call of the manager that returns to the       *)
(* caller, or one that passes control to the client code of another        *)
(* coroutine, which begins its function or returns from the call it was    *)
(* suspended in.  The client code of the coroutine mgr.k.cur is running,   *)
(* or that of Main.                                                        *)
(***************************************************************************)
EXTENDS CoroutineOps

CONSTANTS
  Times,       \* expiry times passed to Yield, and times passed to a check
  Counts,      \* iOnceProcessCount of ProcessPartExpire
  ReadyOnly    \* does a coroutine resume only coroutines not yet started?

ASSUME TimesPositive == Times \subseteq Nat \ {0}
ASSUME CountsAssumption == Counts \subseteq Nat
ASSUME ReadyOnlyAssumption == ReadyOnly \in BOOLEAN

VARIABLES
  up,        \* m_pCoPool # NULL
  mgr,       \* the SCoMgr, and the call each context is suspended in
  pass,      \* the check or traversal that Main is in
  iLastPos,  \* the static variable of ProcessPartExpire
  todo       \* history: ids that a ProcessAllExpire under way has yet to check

vars == <<up, mgr, pass, iLastPos, todo>>

YIELD_TIMEOUT == -987654321

Ids == -1 .. MaxInt

\* tExpireTime, isTimeOut and iPoolID of an SCoroutine; fresh memory reads as 0.
BlankInfo == [id |-> 0, expire |-> 0, isTimeOut |-> FALSE]

NoCall == [op |-> "none", id |-> 0]
InCall(op, id) == [op |-> op, id |-> id]

\* The last call that returned: by whom, which, and its result.
Outcome(who, op, val) == [who |-> who, op |-> op, val |-> val]

\* A manager whose pool's object memory holds info.
Fresh(info) ==
  [ pool  |-> objpool_init,
    k     |-> schedule,
    info  |-> info,
    runid |-> 0,
    call  |-> [x \in Contexts |-> NoCall],
    ret   |-> Outcome(Main, "init", 0) ]

NoPass == [kind |-> "none", pos |-> Nil, now |-> 0, end |-> 0, called |-> FALSE]

Returns(m, op, val) == [m EXCEPT !.ret = Outcome(m.k.cur, op, val)]

-----------------------------------------------------------------------------
(* The operations, on m = mgr *)

Alloc(m) ==
  LET r  == objpool_alloc(m.pool)
      s  == CRem(r.ret)
      k1 == co_init(m.k, s, Mode = "MALLOC")
  IN  IF r.ret < 0 THEN Returns(m, "alloc", -1)
      ELSE Returns([m EXCEPT !.pool = r.pool,
                             !.info[s] = [BlankInfo EXCEPT !.id = r.ret],
                             !.k = IF isDynamicStack /\ Reserve
                                   THEN [k1 EXCEPT !.stack[s] = TRUE] ELSE k1],
                   "alloc", r.ret)

\* Mutation: the memory of the stack is kept.
FreeCoKeepsStack(m, id) ==
  IF ~IsLive(m.pool, id) THEN m
  ELSE [m EXCEPT !.pool = objpool_free(m.pool, id).pool,
                 !.call[CRem(id)] = NoCall]

\* What Release does; nothing for an id that is not live.
FreeCo(m, id) ==
  IF ~IsLive(m.pool, id) THEN m
  ELSE [m EXCEPT !.pool = objpool_free(m.pool, id).pool,
                 !.call[CRem(id)] = NoCall,
                 !.k.stack[CRem(id)] = FALSE]

Release(m, id) ==
  Returns(FreeCo(m, id), "release", IF IsLive(m.pool, id) THEN 0 ELSE -1)

\* Mutation: m_iRunningID keeps the id of the coroutine that has left.
ResumeReturnsRunning(m, id) ==
  IF m.k.status[CRem(id)] = "END"
  THEN Returns(FreeCo(m, id), "resume", 0)
  ELSE Returns(m, "resume", id)

\* Resume after co_resume has returned 0.
ResumeReturns(m, id) ==
  LET m1 == [m EXCEPT !.runid = 0]
  IN  IF m.k.status[CRem(id)] = "END"
      THEN Returns(FreeCo(m1, id), "resume", 0)
      ELSE Returns(m1, "resume", id)

\* Yield after co_yield has returned; the SCoroutine was looked up before.
YieldReturns(m, id) ==
  Returns(m, "yield", IF m.info[CRem(id)].isTimeOut THEN YIELD_TIMEOUT ELSE 0)

\* The context that now has control goes on where it was suspended; one that
\* has just been started begins its function.
GoOn(m) ==
  LET c  == m.call[m.k.cur]
      m1 == [m EXCEPT !.call[m.k.cur] = NoCall]
  IN  CASE c.op = "resume" -> ResumeReturns(m1, c.id)
        [] c.op = "yield"  -> YieldReturns(m1, c.id)
        [] OTHER           -> Returns(m1, "start", 0)

Resume(m, id) ==
  LET r  == co_resume(m.k, CRem(id))
      m1 == [m EXCEPT !.runid = id, !.k = r.k]
  IN  IF ~IsLive(m.pool, id) THEN Returns(m, "resume", -1)
      ELSE IF r.ret < 0 THEN Returns(FreeCo(m1, id), "resume", -2)
      ELSE GoOn([m1 EXCEPT !.call[m.k.cur] = InCall("resume", id)])

\* Mutation: isTimeOut keeps its value.
YieldKeepsTimeOut(m, t) ==
  LET s  == CRem(m.runid)
      m1 == [m EXCEPT !.info[s].expire = t,
                      !.call[m.k.cur] = InCall("yield", m.runid)]
  IN  IF ~IsLive(m.pool, m.runid) THEN Returns(m, "yield", -1)
      ELSE GoOn([m1 EXCEPT !.k = co_yield(m.k)])

Yield(m, t) ==
  LET s  == CRem(m.runid)
      m1 == [m EXCEPT !.info[s].expire = t,
                      !.info[s].isTimeOut = FALSE,
                      !.call[m.k.cur] = InCall("yield", m.runid)]
  IN  IF ~IsLive(m.pool, m.runid) THEN Returns(m, "yield", -1)
      ELSE GoOn([m1 EXCEPT !.k = co_yield(m.k)])

\* The function of the running coroutine returns.
Finish(m) == GoOn([m EXCEPT !.k = process_end(m.k)])

-----------------------------------------------------------------------------
(* Calls by client code *)

Init ==
  /\ up = FALSE
  /\ mgr = Fresh([s \in Slots |-> BlankInfo])
  /\ pass = NoPass
  /\ iLastPos = 0
  /\ todo = {}

InMain == mgr.k.cur = Main

\* Client code has control: a coroutine's, or Main's outside a check of the
\* expiry times.  The callback of ProcessAllActiveFun is client code.
ClientRuns == ~InMain \/ pass.kind \in {"none", "fun"}

\* The coroutines whose functions have been entered and not left, and that are
\* not suspended in Yield.
Active == {s \in Slots : s = mgr.k.cur \/ mgr.call[s].op = "resume"}

\* What a client may resume or release, besides ids that are not live: not an
\* active coroutine, because releasing it frees the stack it is on, and
\* resuming it makes it its own ancestor.
Parked(id) == IsLive(mgr.pool, id) => CRem(id) \notin Active

\* co_resume reports an error when a coroutine resumes one that was suspended; in
\* mode DYNAMIC the process may then be lost (restore_stack).
MayResume(id) ==
  Parked(id) /\ (ReadyOnly /\ ~InMain /\ IsLive(mgr.pool, id)
                   => mgr.k.status[CRem(id)] = "READY")

\* Nothing is expected of a check during which a coroutine is released.
Forget == todo' = IF LiveIds(mgr.pool) \subseteq LiveIds(mgr'.pool) THEN todo ELSE {}

ClientStep(m) == ClientRuns /\ mgr' = m /\ Forget /\ UNCHANGED <<up, pass, iLastPos>>

CallAlloc == ClientStep(IF up THEN Alloc(mgr) ELSE Returns(mgr, "alloc", -1))

CallRelease == \E id \in Ids : Parked(id) /\ ClientStep(Release(mgr, id))

CallResume == \E id \in Ids : MayResume(id) /\ ClientStep(Resume(mgr, id))

CallYield == \E t \in Times : ClientStep(Yield(mgr, t))

FunctionReturns == ~InMain /\ ClientStep(Finish(mgr))

\* The memory of the new pool may be that of the old one.
InitCoMgr ==
  /\ InMain /\ ~up
  /\ up' = TRUE
  /\ \E info \in {mgr.info, [s \in Slots |-> BlankInfo]} : mgr' = Fresh(info)
  /\ UNCHANGED <<pass, iLastPos, todo>>

\* Coroutines that still exist are abandoned, with their stacks.
Destory ==
  /\ InMain /\ up /\ pass.kind = "none"
  /\ up' = FALSE
  /\ mgr' = Fresh(mgr.info)
  /\ UNCHANGED <<pass, iLastPos, todo>>

-----------------------------------------------------------------------------
(* Checks of the expiry times, and ProcessAllActiveFun.  While pass is not *)
(* NoPass, Main is in the loop of one of them at position pos; called says *)
(* that the coroutine there has been resumed, so that the loop goes on     *)
(* once Main has control again.  Clients call them from Main.              *)

Expired(s, now) == mgr.info[s].expire <= now

At(kind, pos, now, end) ==
  [kind |-> kind, pos |-> pos, now |-> now, end |-> end, called |-> FALSE]

\* objpool_travel_used comes to slot i, or ends.
TravelTo(i) == IF i = Nil THEN NoPass ELSE [pass EXCEPT !.pos = i, !.called = FALSE]

\* ProcessPartExpire comes to position i, or ends.
ScanTo(i) == IF i >= pass.end THEN NoPass ELSE [pass EXCEPT !.pos = i, !.called = FALSE]

InLoop(kind, called) == InMain /\ pass.kind = kind /\ pass.called = called

\* The loop resumes the coroutine at its position.
Expire(s) ==
  /\ mgr' = Resume([mgr EXCEPT !.info[s].isTimeOut = TRUE], mgr.info[s].id)
  /\ pass' = [pass EXCEPT !.called = TRUE]

ProcessAllExpire ==
  /\ InLoop("none", FALSE)
  /\ \E now \in Times :
       /\ pass' = IF mgr.pool.usedHead = Nil THEN NoPass
                  ELSE At("all", mgr.pool.usedHead, now, 0)
       /\ todo' = {LogicIdx(mgr.pool, s) : s \in {u \in UsedSlots(mgr.pool) : Expired(u, now)}}
  /\ UNCHANGED <<up, mgr, iLastPos>>

\* fnProcessExpire
AllVisit ==
  /\ InLoop("all", FALSE)
  /\ IF Expired(pass.pos, pass.now)
     THEN Expire(pass.pos)
     ELSE pass' = TravelTo(mgr.pool.next[pass.pos]) /\ UNCHANGED mgr
  /\ todo' = IF pass' = NoPass THEN {} ELSE todo \ {LogicIdx(mgr.pool, pass.pos)}
  /\ UNCHANGED <<up, iLastPos>>

\* Mutation: one coroutine is resumed in a check.
AllNextStops ==
  /\ InLoop("all", TRUE)
  /\ pass' = NoPass /\ todo' = {}
  /\ UNCHANGED <<up, mgr, iLastPos>>

AllNext ==
  /\ InLoop("all", TRUE)
  /\ pass' = TravelTo(mgr.pool.next[pass.pos])
  /\ todo' = IF pass' = NoPass THEN {} ELSE todo
  /\ UNCHANGED <<up, mgr, iLastPos>>

ProcessPartExpire ==
  /\ InLoop("none", FALSE)
  /\ \E now \in Times, n \in Counts :
       LET max == IF up THEN Cap ELSE Nil   \* objpool_get_size; an error code is below 0
           pos == IF iLastPos >= max THEN 0 ELSE iLastPos
           end == IF pos + n > max THEN max ELSE pos + n
       IN  /\ iLastPos' = pos
           /\ pass' = IF pos < end THEN At("part", pos, now, end) ELSE NoPass
  /\ UNCHANGED <<up, mgr, todo>>

\* Mutation: the position of the next call is the end of this one, less one.
PartNextRepeats ==
  /\ iLastPos' = IF iLastPos + 1 < pass.end THEN iLastPos + 1 ELSE iLastPos
  /\ pass' = ScanTo(iLastPos + 1)

PartNext ==
  /\ iLastPos' = iLastPos + 1
  /\ pass' = ScanTo(iLastPos + 1)

\* The loop visits unused slots too.
PartVisit ==
  /\ InLoop("part", FALSE)
  /\ IF objpool_get_bypos(mgr.pool, pass.pos) # Nil /\ Expired(pass.pos, pass.now)
     THEN Expire(pass.pos) /\ UNCHANGED iLastPos
     ELSE PartNext /\ UNCHANGED mgr
  /\ UNCHANGED <<up, todo>>

PartVisited == InLoop("part", TRUE) /\ PartNext /\ UNCHANGED <<up, mgr, todo>>

\* Its callback is client code, called with the id of the coroutine.
ProcessAllActiveFun ==
  /\ InLoop("none", FALSE) /\ mgr.pool.usedHead # Nil
  /\ pass' = At("fun", mgr.pool.usedHead, 0, 0)
  /\ UNCHANGED <<up, mgr, iLastPos, todo>>

FunNext ==
  /\ InLoop("fun", FALSE)
  /\ pass' = TravelTo(mgr.pool.next[pass.pos])
  /\ UNCHANGED <<up, mgr, iLastPos, todo>>

Client == CallAlloc \/ CallRelease \/ CallResume \/ CallYield \/ FunctionReturns
Check == AllVisit \/ AllNext \/ PartVisit \/ PartVisited

Next ==
  \/ InitCoMgr
  \/ Destory
  \/ Client
  \/ ProcessAllExpire
  \/ ProcessPartExpire
  \/ ProcessAllActiveFun
  \/ FunNext
  \/ Check

Spec == Init /\ [][Next]_vars

\* The program calls ProcessPartExpire in every round of its main loop, and the
\* loops of the manager have nothing to wait for but the coroutines they resume.
FairSpec ==
  /\ Spec
  /\ SF_vars(ProcessPartExpire)
  /\ SF_vars(Check)
  /\ SF_vars(FunNext)

-----------------------------------------------------------------------------
(* Properties *)

\* Control and bookkeeping agree: pRunCo is the coroutine whose code is
\* executed, it is the only one in state RUN, and every context that waits in
\* Resume waits for a coroutine that exists under that id and that will hand
\* control back to it.
ControlOK ==
  LET k == mgr.k
  IN  /\ k.run = k.cur
      /\ \A s \in Slots : k.status[s] = "RUN" <=> s = k.cur
      /\ \A x \in Contexts : mgr.call[x].op = "resume" =>
           /\ IsLive(mgr.pool, mgr.call[x].id)
           /\ k.parent[CRem(mgr.call[x].id)] = x
           /\ k.ctx[x] = x

\* m_iRunningID, by which Yield finds the coroutine to suspend, is that of no
\* other coroutine than the running one.
RunningIdOK == mgr.runid # 0 => ~InMain /\ mgr.info[mgr.k.cur].id = mgr.runid

\* Every coroutine in the pool can still be resumed, under the id it carries:
\* ended ones leave the pool on all the ways control can go back, and the memory
\* of their stacks is freed, whoever releases them.
PoolHoldsUnfinished ==
  /\ \A s \in UsedSlots(mgr.pool) :
       /\ mgr.info[s].id = LogicIdx(mgr.pool, s)
       /\ mgr.k.status[s] \in {"READY", "RUN", "SUSPEND"}
  /\ \A s \in FreeSlots(mgr.pool) : ~mgr.k.stack[s]

\* A suspended Yield returns YIELD_TIMEOUT exactly if a check of the expiry
\* times ended it, and a check ends it only when its time has come.
TimeoutsAreReal ==
  [][LET c       == mgr'.k.cur
         byCheck == InMain /\ pass.kind \in {"all", "part"}
     IN  mgr.call[c].op = "yield" /\ mgr'.call[c].op = "none" =>
           /\ mgr'.ret.val = (IF byCheck THEN YIELD_TIMEOUT ELSE 0)
           /\ byCheck => mgr.info[c].expire <= pass.now]_vars

\* ProcessAllExpire resumes every coroutine that had expired when it was called, although
\* those it resumes allocate, resume and yield.  The exception is that a coroutine
\* ends or is released during the check: the traversal then stands on a
\* node that is in the list no more, and stops.
AllExpireChecksAll ==
  [][pass.kind = "all" /\ pass'.kind = "none" => todo = {}]_vars

\* Mode DYNAMIC: the frames of the coroutine that executes are the ones on its
\* runtime stack, although others have used it meanwhile: they were saved in time,
\* nothing else was saved in their place, and they were put back before it goes on.
\* It is so when a coroutine resumes only coroutines not yet started (ReadyOnly);
\* the code reports the other case as an error, after it has changed the stack.
StackInPlace ==
  isDynamicStack /\ ~InMain => mgr.k.rt[mgr.k.second[mgr.k.cur]] = mgr.k.cur

\* A suspended coroutine whose time has come gets control or is released, if
\* Main always gets control back: the scan of ProcessPartExpire passes nobody
\* over.  (The times passed to checks need not grow: a time has come for good
\* when it has for each of them.)
PartExpireReachesAll ==
  []<>InMain =>
    \A s \in Slots :
      mgr.call[s].op = "yield" /\ mgr.pool.used[s] /\ (\A t \in Times : mgr.info[s].expire <= t)
        ~> mgr.k.cur = s \/ ~mgr.pool.used[s]

-----------------------------------------------------------------------------
(* What comments say and the code does not do *)

\* comgr.h:158: Yield suspends the coroutine that is executing.
YieldSuspends ==
  [][~InMain /\ mgr'.ret.op = "yield" /\ mgr'.ret.who = mgr.k.cur =>
       mgr'.ret.val # -1]_vars

=============================================================================
