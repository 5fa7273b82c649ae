---------------------------- MODULE CoroutineOps ----------------------------
(***************************************************************************)
(* Stackful coroutines of util/coroutine: a schedule and its coroutines as *)
(* a record, and one operator per co_* function.  A coroutine is the pool  *)
(* slot that holds it; Main is the code that runs outside all coroutines,  *)
(* saved in the context of the schedule, and is also the NULL of pRunCo    *)
(* and parent.                                                             *)
(*                                                                         *)
(*   run     pRunCo, the coroutine the schedule believes to be running     *)
(*   cur     whose code the processor really executes                      *)
(*   ctx     whose execution a saved context continues                     *)
(*   status, parent, second   fields of a coroutine (second is             *)
(*           usesecondstack)                                               *)
(*   stack   whether the coroutine owns memory from allocfunc: its stack   *)
(*           in mode MALLOC, the copy of its stack in mode DYNAMIC         *)
(*   copy    mode DYNAMIC: whose frames that copy holds                    *)
(*   rt      mode DYNAMIC: whose frames lie on the first (FALSE) and on    *)
(*           the second (TRUE) runtime stack; Main stands for nobody's     *)
(***************************************************************************)
EXTENDS ObjPoolOps

CONSTANTS
  Mode,      \* CoMgrWorkMode
  Reserve    \* mode DYNAMIC: m_iDefaultStackSize # 0

ASSUME ModeAssumption == Mode \in {"POOL", "MALLOC", "DYNAMIC"} /\ Reserve \in BOOLEAN

Main == Nil
Contexts == Slots \union {Main}
isDynamicStack == Mode = "DYNAMIC"

schedule ==
  [ run    |-> Main,
    cur    |-> Main,
    ctx    |-> [x \in Contexts |-> x],
    status |-> [s \in Slots |-> "NONE"],
    parent |-> [s \in Slots |-> Main],
    second |-> [s \in Slots |-> FALSE],
    stack  |-> [s \in Slots |-> FALSE],
    copy   |-> [s \in Slots |-> Main],
    rt     |-> [b \in BOOLEAN |-> Main] ]

-----------------------------------------------------------------------------
(* Contexts and stacks *)

\* The execution under way is saved in the context of from, and the one saved
\* in the context of to goes on.
co_swapcontext(k, from, to) ==
  LET saved == [k.ctx EXCEPT ![from] = k.cur]
  IN  [k EXCEPT !.ctx = saved, !.cur = saved[to]]

\* What lies on the runtime stack of c is copied.
save_stack(k, c) ==
  IF isDynamicStack THEN [k EXCEPT !.stack[c] = TRUE, !.copy[c] = k.rt[k.second[c]]] ELSE k

\* The copy is put on the runtime stack of c.  If the code that does so executes
\* on that stack itself, memcpy overwrites its own frames, which is undefined.
restore_stack(k, c) ==
  LET overwrites == k.cur # Main /\ k.second[k.cur] = k.second[c]
  IN  IF isDynamicStack
      THEN [k EXCEPT !.rt[k.second[c]] = IF overwrites THEN Main ELSE k.copy[c]]
      ELSE k

\* A coroutine is started on the given runtime stack.
set_dynamic_stack(k, c, issecond) ==
  IF isDynamicStack
  THEN [k EXCEPT !.second[c] = issecond, !.rt[issecond] = c]
  ELSE k

\* pStack: the caller has taken the stack of c from allocfunc.  The parent
\* field is not initialised.
co_init(k, c, pStack) ==
  [k EXCEPT !.status[c] = "READY", !.second[c] = FALSE, !.stack[c] = pStack,
            !.copy[c] = Main]

-----------------------------------------------------------------------------
(* co_resume: the caller becomes the parent of c, and c is started or      *)
(* continued.  A status that allows neither is refused after pRunCo and    *)
(* the parent have been changed.                                           *)

\* Mutation: the parent stays in state RUN.
EnterFromRunningParent(k, c) ==
  LET p  == k.run
      k1 == IF p = Main THEN k ELSE save_stack(k, p)
  IN  [k1 EXCEPT !.parent[c] = p, !.run = c]

\* The part before the switch on the status.
Enter(k, c) ==
  LET p  == k.run
      k1 == IF p = Main THEN k
            ELSE save_stack([k EXCEPT !.status[p] = "SUSPEND"], p)
  IN  [k1 EXCEPT !.parent[c] = p, !.run = c]

\* getcontext and makecontext: the context of c continues at the start of
\* _process, on c's stack.
Start(k, c) ==
  LET p  == k.parent[c]
      k1 == set_dynamic_stack([k EXCEPT !.status[c] = "RUN"], c,
                              p # Main /\ ~k.second[p])
  IN  co_swapcontext([k1 EXCEPT !.ctx[c] = c], p, c)

\* With a parent, c was suspended before it, and may have to lie on the stack that
\* the parent executes on: see restore_stack.  The message that the code prints then,
\* from its local variables, is not modelled.
Continue(k, c) ==
  LET p  == k.parent[c]
      k1 == restore_stack([k EXCEPT !.status[c] = "RUN"], c)
  IN  co_swapcontext(k1, p, c)

co_resume(k, c) ==
  LET e == Enter(k, c)
  IN  CASE e.status[c] = "READY"   -> [k |-> Start(e, c), ret |-> 0]
        [] e.status[c] = "SUSPEND" -> [k |-> Continue(e, c), ret |-> 0]
        [] OTHER                   -> [k |-> e, ret |-> -2]

-----------------------------------------------------------------------------
(* Leaving a coroutine: its parent, or Main, goes on.                      *)

\* Mutation: the stack of the parent is not copied back.
BackToUnrestored(k, c) ==
  LET p == k.parent[c]
  IN  IF p = Main
      THEN co_swapcontext([k EXCEPT !.run = Main], c, Main)
      ELSE co_swapcontext([k EXCEPT !.run = p, !.parent[c] = Main, !.status[p] = "RUN"], c, p)

BackTo(k, c) ==
  LET p  == k.parent[c]
  IN  IF p = Main
      THEN co_swapcontext([k EXCEPT !.run = Main], c, Main)
      ELSE co_swapcontext(
             restore_stack([k EXCEPT !.run       = p,
                                     !.parent[c] = Main,
                                     !.status[p] = "RUN"], p), c, p)

\* Nothing happens outside coroutines.
co_yield(k) ==
  LET c == k.run
  IN  IF c = Main THEN k
      ELSE BackTo([save_stack(k, c) EXCEPT !.status[c] = "SUSPEND"], c)

\* _process after the coroutine's function has returned.
process_end(k) == BackTo([k EXCEPT !.status[k.cur] = "END"], k.cur)
=============================================================================
