---------------------------- MODULE CoMgrProofs -----------------------------
(***************************************************************************)
(* Proofs about the coroutine manager, for every pool size, int range and  *)
(* working mode, and for any nesting of coroutines.                        *)
(*                                                                         *)
(* The invariant follows the chain of coroutines that have resumed one     *)
(* another, from Main to the one that executes: each is the parent of the  *)
(* next and waits in Resume for its id.                                    *)
(***************************************************************************)
EXTENDS CoMgr, ObjPoolOpsProofs

Statuses == {"NONE", "READY", "RUN", "SUSPEND", "END"}

Schedules ==
  [ run    : Contexts,
    cur    : Contexts,
    ctx    : [Contexts -> Contexts],
    status : [Slots -> Statuses],
    parent : [Slots -> Contexts],
    second : [Slots -> BOOLEAN],
    stack  : [Slots -> BOOLEAN],
    copy   : [Slots -> Contexts],
    rt     : [BOOLEAN -> Contexts] ]

Calls == [op : {"none", "resume", "yield"}, id : Int]
Infos == [id : Nat, expire : Nat, isTimeOut : BOOLEAN]

LEMMA MainIsNoSlot == Main \notin Slots /\ Main \in Contexts /\ Slots \subseteq Contexts
  BY CapAssumption DEF Main, Nil, Slots, Contexts

-----------------------------------------------------------------------------
(* Switches of the schedule *)

\* The schedule k believes in the coroutine that executes, and a saved context
\* continues the execution it belongs to.
Sound(k) == k \in Schedules /\ k.run = k.cur /\ k.ctx = [x \in Contexts |-> x]

\* The stacks of k2, which is k after the one that executed has resumed c: it is
\* saved, and c is started on the other stack, or put back where Main executes.
EnteredStack(k, k2, c) ==
  isDynamicStack =>
    /\ \A s \in Slots \ {c} : k2.second[s] = k.second[s]
    /\ \A s \in Slots \ {k.cur} : k2.copy[s] = k.copy[s]
    /\ k.cur # Main => k2.copy[k.cur] = k.rt[k.second[k.cur]]
    /\ k.status[c] = "READY" =>
         k2.rt[k2.second[c]] = c /\ (k.cur # Main => k2.second[c] # k.second[k.cur])
    /\ k.status[c] = "SUSPEND" /\ k.cur = Main => k2.rt[k2.second[c]] = k.copy[c]

\* The stacks of k2, which is k after the coroutine that executed has given control
\* back in state st: its parent is put back, if it lies on the other stack.
LeftStack(k, k2, st) ==
  LET c == k.cur
      p == k.parent[c]
  IN  isDynamicStack =>
        /\ k2.second = k.second
        /\ \A s \in Slots \ {c} : k2.copy[s] = k.copy[s]
        /\ st = "SUSPEND" => k2.copy[c] = k.rt[k.second[c]]
        /\ p # Main /\ k.second[p] # k.second[c] => k2.rt[k.second[p]] = k.copy[p]

\* k2 is k after the one that executed has resumed c.
Entered(k, k2, c) ==
  /\ Sound(k2) /\ EnteredStack(k, k2, c) /\ k2.cur = c
  /\ k2.parent = [k.parent EXCEPT ![c] = k.cur]
  /\ k2.status = [s \in Slots |-> IF s = c THEN "RUN"
                                  ELSE IF s = k.cur THEN "SUSPEND" ELSE k.status[s]]
  /\ \A s \in Slots \ {k.cur} : k2.stack[s] = k.stack[s]

\* k2 is k after the coroutine that executed has given control back to its parent,
\* in state st.
Left(k, k2, st) ==
  LET c == k.cur
      p == k.parent[c]
  IN  /\ Sound(k2) /\ LeftStack(k, k2, st) /\ k2.cur = p
      /\ k2.parent = [k.parent EXCEPT ![c] = Main]
      /\ k2.status = [s \in Slots |-> IF s = c THEN st ELSE IF s = p THEN "RUN" ELSE k.status[s]]
      /\ \A s \in Slots \ {c} : k2.stack[s] = k.stack[s]

LEMMA EnterDoes ==
  ASSUME NEW k, Sound(k), NEW c \in Slots, c # k.cur
  PROVE  LET e == Enter(k, c)
         IN  /\ e \in Schedules /\ e.run = c /\ e.cur = k.cur /\ e.ctx = k.ctx
             /\ e.parent = [k.parent EXCEPT ![c] = k.cur]
             /\ e.status = [s \in Slots |-> IF s = k.cur THEN "SUSPEND" ELSE k.status[s]]
             /\ e.second = k.second /\ e.rt = k.rt
             /\ \A s \in Slots \ {k.cur} : e.stack[s] = k.stack[s] /\ e.copy[s] = k.copy[s]
             /\ isDynamicStack /\ k.cur # Main => e.copy[k.cur] = k.rt[k.second[k.cur]]
<1>1. k.cur \in Slots \/ k.cur = Main
  BY ZenonT(30) DEF Sound, Schedules, Contexts
<1>2. CASE k.cur = Main
  BY <1>2, MainIsNoSlot, ZenonT(30) DEF Sound, Schedules, Enter
<1>3. CASE k.cur \in Slots
  <2>1. k.run = k.cur /\ k.run # Main /\ k \in Schedules
    BY <1>3, MainIsNoSlot, ZenonT(30) DEF Sound
  <2> DEFINE k1 == [k EXCEPT !.status[k.cur] = "SUSPEND"]
             k2 == save_stack(k1, k.cur)
  <2>2. /\ k1 \in Schedules /\ k1.run = k.run /\ k1.cur = k.cur /\ k1.ctx = k.ctx
        /\ k1.parent = k.parent /\ k1.second = k.second /\ k1.rt = k.rt /\ k1.stack = k.stack
        /\ k1.copy = k.copy
        /\ k1.status = [k.status EXCEPT ![k.cur] = "SUSPEND"]
    BY <1>3, <2>1, ZenonT(30) DEF Schedules, Statuses
  <2> HIDE DEF k1
  <2>3. /\ k2 \in Schedules /\ k2.run = k1.run /\ k2.cur = k1.cur /\ k2.ctx = k1.ctx
        /\ k2.parent = k1.parent /\ k2.second = k1.second /\ k2.rt = k1.rt /\ k2.status = k1.status
        /\ \A s \in Slots \ {k.cur} : k2.stack[s] = k1.stack[s] /\ k2.copy[s] = k1.copy[s]
        /\ isDynamicStack => k2.copy[k.cur] = k1.rt[k1.second[k.cur]]
    BY <1>3, <2>2, ZenonT(30) DEF Schedules, save_stack
  <2>4. Enter(k, c) = [k2 EXCEPT !.parent[c] = k.cur, !.run = c]
    BY <2>1, ZenonT(30) DEF Enter, k1
  <2> HIDE DEF k2
  <2>5. k1.status = [s \in Slots |-> IF s = k.cur THEN "SUSPEND" ELSE k.status[s]]
    BY <2>1, <2>2, ZenonT(30) DEF Schedules
  <2> DEFINE e == [k2 EXCEPT !.parent[c] = k.cur, !.run = c]
  <2>6. /\ e \in Schedules /\ e.run = c /\ e.cur = k2.cur /\ e.ctx = k2.ctx
        /\ e.parent = [k2.parent EXCEPT ![c] = k.cur] /\ e.status = k2.status
        /\ e.second = k2.second /\ e.rt = k2.rt /\ e.stack = k2.stack /\ e.copy = k2.copy
    BY <1>3, <2>3, MainIsNoSlot, ZenonT(30) DEF Schedules
  <2>10. Enter(k, c) = e
    BY <2>4, ZenonT(30)
  <2> HIDE DEF e
  <2>7. \A s \in Slots \ {k.cur} :
          Enter(k, c).stack[s] = k.stack[s] /\ Enter(k, c).copy[s] = k.copy[s]
    BY <2>2, <2>3, <2>6, <2>10
  <2>11. isDynamicStack => Enter(k, c).copy[k.cur] = k.rt[k.second[k.cur]]
    BY <2>2, <2>3, <2>6, <2>10
  <2>8. /\ Enter(k, c).parent = [k.parent EXCEPT ![c] = k.cur]
        /\ Enter(k, c).status = [s \in Slots |-> IF s = k.cur THEN "SUSPEND" ELSE k.status[s]]
    BY <2>2, <2>3, <2>5, <2>6, <2>10
  <2>9. Enter(k, c).cur = k.cur /\ Enter(k, c).ctx = k.ctx
        /\ Enter(k, c).second = k.second /\ Enter(k, c).rt = k.rt
    BY <2>2, <2>3, <2>6, <2>10
  <2> QED BY <2>6, <2>7, <2>8, <2>9, <2>10, <2>11, ZenonT(30)
<1> QED BY <1>1, <1>2, <1>3, ZenonT(30)

LEMMA SwapDoes ==
  ASSUME NEW k \in Schedules, k.ctx = [x \in Contexts |-> x], NEW to \in Contexts
  PROVE  LET r == co_swapcontext(k, k.cur, to)
         IN  /\ r \in Schedules /\ r.cur = to /\ r.ctx = k.ctx /\ r.run = k.run
             /\ r.parent = k.parent /\ r.status = k.status /\ r.second = k.second
             /\ r.rt = k.rt /\ r.stack = k.stack /\ r.copy = k.copy
<1>1. [k.ctx EXCEPT ![k.cur] = k.cur] = k.ctx /\ k.ctx[to] = to
  BY ZenonT(30) DEF Schedules
<1>2. co_swapcontext(k, k.cur, to) = [k EXCEPT !.ctx = k.ctx, !.cur = to]
  BY <1>1, ZenonT(30) DEF co_swapcontext
<1> QED BY <1>2, ZenonT(30) DEF Schedules

\* co_resume passes control to a coroutine that is ready or suspended.
LEMMA ResumeEnters ==
  ASSUME NEW k, Sound(k), NEW c \in Slots, c # k.cur, k.status[c] \in {"READY", "SUSPEND"}
  PROVE  co_resume(k, c).ret = 0 /\ Entered(k, co_resume(k, c).k, c)
<1> DEFINE e == Enter(k, c)
<1>1. /\ e \in Schedules /\ e.run = c /\ e.cur = k.cur /\ e.ctx = [x \in Contexts |-> x]
      /\ e.parent = [k.parent EXCEPT ![c] = k.cur]
      /\ e.status = [s \in Slots |-> IF s = k.cur THEN "SUSPEND" ELSE k.status[s]]
      /\ e.second = k.second /\ e.rt = k.rt
      /\ \A s \in Slots \ {k.cur} : e.stack[s] = k.stack[s] /\ e.copy[s] = k.copy[s]
      /\ isDynamicStack /\ k.cur # Main => e.copy[k.cur] = k.rt[k.second[k.cur]]
  <2>1. LET x == Enter(k, c)
        IN  /\ x \in Schedules /\ x.run = c /\ x.cur = k.cur /\ x.ctx = k.ctx
            /\ x.parent = [k.parent EXCEPT ![c] = k.cur]
            /\ x.status = [s \in Slots |-> IF s = k.cur THEN "SUSPEND" ELSE k.status[s]]
            /\ x.second = k.second /\ x.rt = k.rt
            /\ \A s \in Slots \ {k.cur} : x.stack[s] = k.stack[s] /\ x.copy[s] = k.copy[s]
            /\ isDynamicStack /\ k.cur # Main => x.copy[k.cur] = k.rt[k.second[k.cur]]
    BY EnterDoes, ZenonT(30)
  <2>2. k.ctx = [x \in Contexts |-> x]
    BY ZenonT(30) DEF Sound
  <2> HIDE DEF e
  <2>3. e = Enter(k, c)
    BY ZenonT(30) DEF e
  <2> QED BY <2>1, <2>2, <2>3, ZenonT(30)
<1>2. e.status[c] = k.status[c] /\ e.parent[c] = k.cur /\ k.cur \in Contexts
  BY <1>1, ZenonT(30) DEF Sound, Schedules
<1> HIDE DEF e
<1>6. /\ e.second = k.second /\ e.cur = k.cur
      /\ \A s \in Slots \ {k.cur} : e.copy[s] = k.copy[s]
      /\ isDynamicStack /\ k.cur # Main => e.copy[k.cur] = k.rt[k.second[k.cur]]
  BY <1>1, ZenonT(30)
<1>3. ASSUME NEW k1 \in Schedules, k1.run = c, k1.cur = k.cur, k1.ctx = e.ctx,
             k1.parent = e.parent, k1.stack = e.stack,
             k1.status = [e.status EXCEPT ![c] = "RUN"],
             EnteredStack(k, k1, c)
      PROVE  Entered(k, co_swapcontext(k1, k.cur, c), c)
  <2>1. LET r == co_swapcontext(k1, k.cur, c)
        IN  /\ r \in Schedules /\ r.cur = c /\ r.ctx = k1.ctx /\ r.run = k1.run
            /\ r.parent = k1.parent /\ r.status = k1.status /\ r.second = k1.second
            /\ r.rt = k1.rt /\ r.stack = k1.stack /\ r.copy = k1.copy
    BY <1>1, <1>3, SwapDoes, MainIsNoSlot
  <2>2. k1.status = [s \in Slots |-> IF s = c THEN "RUN"
                                     ELSE IF s = k.cur THEN "SUSPEND" ELSE k.status[s]]
    BY <1>1, <1>3, ZenonT(30)
  <2>3. \A s \in Slots \ {k.cur} : k1.stack[s] = k.stack[s]
    BY <1>1, <1>3, ZenonT(30)
  <2>4. k1.ctx = [x \in Contexts |-> x] /\ k1.parent = [k.parent EXCEPT ![c] = k.cur]
    BY <1>1, <1>3, ZenonT(30)
  <2> HIDE DEF co_swapcontext
  <2>5. Sound(co_swapcontext(k1, k.cur, c))
    BY <1>3, <2>1, <2>4, ZenonT(30) DEF Sound
  <2>6. EnteredStack(k, co_swapcontext(k1, k.cur, c), c)
    BY <1>3, <2>1, ZenonT(30) DEF EnteredStack
  <2> QED BY <2>1, <2>2, <2>3, <2>4, <2>5, <2>6, ZenonT(30) DEF Entered
<1>4. CASE k.status[c] = "READY"
  <2> DEFINE b == k.cur # Main /\ ~e.second[k.cur]
             k0 == [e EXCEPT !.status[c] = "RUN"]
             k1 == set_dynamic_stack(k0, c, b)
             k2 == [k1 EXCEPT !.ctx[c] = c]
  <2>1. /\ k0 \in Schedules /\ k0.run = e.run /\ k0.cur = e.cur /\ k0.ctx = e.ctx
        /\ k0.parent = e.parent /\ k0.stack = e.stack /\ k0.status = [e.status EXCEPT ![c] = "RUN"]
        /\ k0.second = e.second /\ k0.rt = e.rt /\ k0.copy = e.copy
    BY <1>1, ZenonT(30) DEF Schedules, Statuses
  <2>2. b \in BOOLEAN
    <3>1. k.cur # Main => k.cur \in Slots
      BY <1>2, ZenonT(30) DEF Contexts
    <3> QED BY <1>1, <3>1, ZenonT(30) DEF Schedules
  <2> HIDE DEF b, k0
  <2>3. /\ k1 \in Schedules /\ k1.run = k0.run /\ k1.cur = k0.cur /\ k1.ctx = k0.ctx
        /\ k1.parent = k0.parent /\ k1.stack = k0.stack /\ k1.status = k0.status
        /\ k1.copy = k0.copy
        /\ isDynamicStack => /\ k1.rt[k1.second[c]] = c /\ k1.second[c] = b
                             /\ \A s \in Slots \ {c} : k1.second[s] = k0.second[s]
    BY <2>1, <2>2, MainIsNoSlot, ZenonT(30) DEF Schedules, set_dynamic_stack
  <2> HIDE DEF k1
  <2>6. EnteredStack(k, k1, c)
    <3>1. k.cur # Main => k.cur \in Slots /\ e.second[k.cur] \in BOOLEAN
      BY <1>1, <1>2, ZenonT(30) DEF Contexts, Schedules
    <3>2. isDynamicStack /\ k.cur # Main => k1.second[c] # k.second[k.cur]
      BY <1>1, <2>3, <3>1, ZenonT(30) DEF b
    <3>0. k0.second = e.second /\ k1.copy = e.copy
      BY <2>1, <2>3, ZenonT(30)
    <3>3. isDynamicStack => \A s \in Slots \ {c} : k1.second[s] = k.second[s]
      BY <1>6, <2>3, <3>0, ZenonT(30)
    <3>4. \A s \in Slots \ {k.cur} : k1.copy[s] = k.copy[s]
      BY <1>6, <3>0, ZenonT(30)
    <3>5. isDynamicStack /\ k.cur # Main => k1.copy[k.cur] = k.rt[k.second[k.cur]]
      BY <1>6, <3>0, ZenonT(30)
    <3>6. k.status[c] # "SUSPEND"
      BY <1>4
    <3> QED BY <2>3, <3>2, <3>3, <3>4, <3>5, <3>6, ZenonT(30) DEF EnteredStack
  <2>4. k2 = k1
    BY <1>1, <2>1, <2>3, MainIsNoSlot DEF Schedules
  <2>5. co_resume(k, c) = [k |-> co_swapcontext(k1, k.cur, c), ret |-> 0]
    BY <1>2, <1>4, <2>4, ZenonT(30) DEF co_resume, Start, e, k2, k1, k0, b
  <2> QED BY <1>1, <1>3, <2>1, <2>3, <2>5, <2>6
<1>5. CASE k.status[c] = "SUSPEND"
  <2> DEFINE k0 == [e EXCEPT !.status[c] = "RUN"]
             k1 == restore_stack(k0, c)
  <2>1. /\ k0 \in Schedules /\ k0.run = e.run /\ k0.cur = e.cur /\ k0.ctx = e.ctx
        /\ k0.parent = e.parent /\ k0.stack = e.stack /\ k0.status = [e.status EXCEPT ![c] = "RUN"]
        /\ k0.second = e.second /\ k0.rt = e.rt /\ k0.copy = e.copy
    BY <1>1 DEF Schedules, Statuses
  <2> HIDE DEF k0
  <2>3. /\ k1 \in Schedules /\ k1.run = k0.run /\ k1.cur = k0.cur /\ k1.ctx = k0.ctx
        /\ k1.parent = k0.parent /\ k1.stack = k0.stack /\ k1.status = k0.status
        /\ k1.second = k0.second /\ k1.copy = k0.copy
        /\ isDynamicStack /\ k0.cur = Main => k1.rt[k0.second[c]] = k0.copy[c]
    BY <2>1, MainIsNoSlot, ZenonT(30) DEF Schedules, restore_stack
  <2> HIDE DEF k1
  <2>6. EnteredStack(k, k1, c)
    <3>2. k.status[c] # "READY"
      BY <1>5
    <3>0. k1.second = e.second /\ k0.second = e.second /\ k0.copy = e.copy /\ k1.copy = e.copy
      BY <2>1, <2>3, ZenonT(30)
    <3>7. k0.cur = e.cur
      BY <2>1, ZenonT(30)
    <3>3. \A s \in Slots \ {c} : k1.second[s] = k.second[s]
      BY <1>6, <3>0, ZenonT(30)
    <3>4. \A s \in Slots \ {k.cur} : k1.copy[s] = k.copy[s]
      BY <1>6, <3>0, ZenonT(30)
    <3>5. isDynamicStack /\ k.cur # Main => k1.copy[k.cur] = k.rt[k.second[k.cur]]
      BY <1>6, <3>0, ZenonT(30)
    <3>6. isDynamicStack /\ k.cur = Main => k1.rt[k1.second[c]] = k.copy[c]
      <4>1. k.cur = Main => c # k.cur
        BY MainIsNoSlot, ZenonT(30)
      <4>2. k.cur = Main => k0.copy[c] = k.copy[c] /\ k0.cur = Main /\ k1.second[c] = k0.second[c]
        BY <1>6, <3>0, <3>7, <4>1, ZenonT(30)
      <4> QED BY <2>3, <4>2, ZenonT(30)
    <3> QED BY <3>2, <3>3, <3>4, <3>5, <3>6, ZenonT(30) DEF EnteredStack
  <2>5. co_resume(k, c) = [k |-> co_swapcontext(k1, k.cur, c), ret |-> 0]
    BY <1>2, <1>5, ZenonT(30) DEF co_resume, Continue, e, k1, k0
  <2> QED BY <1>1, <1>3, <2>1, <2>3, <2>5, <2>6
<1> QED BY <1>4, <1>5, ZenonT(30)

LEMMA BackDoes ==
  ASSUME NEW k \in Schedules, k.ctx = [x \in Contexts |-> x], k.cur \in Slots, k.parent[k.cur] # k.cur
  PROVE  LET r == BackTo(k, k.cur)
             p == k.parent[k.cur]
         IN  /\ Sound(r) /\ r.cur = p
             /\ r.parent = [k.parent EXCEPT ![k.cur] = Main]
             /\ r.status = [s \in Slots |-> IF s = p THEN "RUN" ELSE k.status[s]]
             /\ r.stack = k.stack /\ r.copy = k.copy /\ r.second = k.second
             /\ isDynamicStack /\ p # Main /\ k.second[p] # k.second[k.cur] =>
                  r.rt[k.second[p]] = k.copy[p]
<1> DEFINE c == k.cur
           p == k.parent[c]
<1>1. p \in Contexts /\ (p \in Slots \/ p = Main)
  BY DEF Schedules, Contexts
<1>2. CASE p = Main
  <2> DEFINE k1 == [k EXCEPT !.run = Main]
  <2>1. /\ k1 \in Schedules /\ k1.run = Main /\ k1.cur = c /\ k1.ctx = k.ctx
        /\ k1.parent = k.parent /\ k1.status = k.status /\ k1.second = k.second
        /\ k1.rt = k.rt /\ k1.stack = k.stack /\ k1.copy = k.copy
    BY MainIsNoSlot, ZenonT(30) DEF Schedules
  <2> HIDE DEF k1
  <2> DEFINE r == co_swapcontext(k1, k1.cur, Main)
  <2>2. /\ r \in Schedules /\ r.cur = Main /\ r.ctx = k1.ctx /\ r.run = k1.run
        /\ r.parent = k1.parent /\ r.status = k1.status /\ r.second = k1.second
        /\ r.rt = k1.rt /\ r.stack = k1.stack /\ r.copy = k1.copy
    BY <2>1, SwapDoes, MainIsNoSlot
  <2>3. BackTo(k, c) = r
    BY <1>2, <2>1, ZenonT(30) DEF BackTo, k1
  <2> HIDE DEF r
  <2>4. k.parent = [k.parent EXCEPT ![c] = Main]
    BY <1>2, ZenonT(30) DEF Schedules
  <2>5. k.status = [s \in Slots |-> IF s = p THEN "RUN" ELSE k.status[s]]
    BY <1>2, MainIsNoSlot, ZenonT(30) DEF Schedules
  <2>6. Sound(r)
    BY <2>1, <2>2, ZenonT(30) DEF Sound
  <2> QED BY <1>2, <2>1, <2>2, <2>3, <2>4, <2>5, <2>6, ZenonT(30)
<1>3. CASE p \in Slots
  <2> DEFINE k0 == [k EXCEPT !.run = p, !.parent[c] = Main, !.status[p] = "RUN"]
             k1 == restore_stack(k0, p)
  <2>1. /\ k0 \in Schedules /\ k0.run = p /\ k0.cur = c /\ k0.ctx = k.ctx
        /\ k0.parent = [k.parent EXCEPT ![c] = Main]
        /\ k0.status = [k.status EXCEPT ![p] = "RUN"] /\ k0.stack = k.stack
        /\ k0.second = k.second /\ k0.copy = k.copy /\ k0.rt = k.rt
    BY <1>1, <1>3, MainIsNoSlot, ZenonT(30) DEF Schedules, Statuses
  <2> HIDE DEF k0
  <2>2. /\ k1 \in Schedules /\ k1.run = k0.run /\ k1.cur = k0.cur /\ k1.ctx = k0.ctx
        /\ k1.parent = k0.parent /\ k1.stack = k0.stack /\ k1.status = k0.status
        /\ k1.second = k0.second /\ k1.copy = k0.copy
        /\ isDynamicStack /\ k0.second[p] # k0.second[k0.cur] => k1.rt[k0.second[p]] = k0.copy[p]
    BY <1>3, <2>1, MainIsNoSlot, ZenonT(30) DEF Schedules, restore_stack
  <2> HIDE DEF k1
  <2> DEFINE r == co_swapcontext(k1, k1.cur, p)
  <2>3. /\ r \in Schedules /\ r.cur = p /\ r.ctx = k1.ctx /\ r.run = k1.run
        /\ r.parent = k1.parent /\ r.status = k1.status /\ r.second = k1.second
        /\ r.rt = k1.rt /\ r.stack = k1.stack /\ r.copy = k1.copy
    BY <1>1, <2>1, <2>2, SwapDoes
  <2>4. BackTo(k, c) = r
    <3>1. p # Main
      BY <1>3, MainIsNoSlot, ZenonT(30)
    <3> QED BY <2>1, <2>2, <3>1, ZenonT(30) DEF BackTo, k0, k1
  <2> HIDE DEF r
  <2>5. k0.status = [s \in Slots |-> IF s = p THEN "RUN" ELSE k.status[s]]
    BY <2>1, ZenonT(30) DEF Schedules
  <2>6. Sound(r)
    BY <2>1, <2>2, <2>3 DEF Sound
  <2> QED BY <2>1, <2>2, <2>3, <2>4, <2>5, <2>6, ZenonT(30)
<1> QED BY <1>1, <1>2, <1>3, ZenonT(30)

\* co_yield and the end of a coroutine's function give control back to the parent.
LEMMA YieldLeaves ==
  ASSUME NEW k, Sound(k), k.cur \in Slots, k.parent[k.cur] # k.cur
  PROVE  Left(k, co_yield(k), "SUSPEND")
<1> DEFINE c == k.cur
           k0 == save_stack(k, c)
           k1 == [k0 EXCEPT !.status[c] = "SUSPEND"]
<1>1. /\ k0 \in Schedules /\ k0.run = k.run /\ k0.cur = k.cur /\ k0.ctx = k.ctx
      /\ k0.parent = k.parent /\ k0.status = k.status
      /\ \A s \in Slots \ {c} : k0.stack[s] = k.stack[s] /\ k0.copy[s] = k.copy[s]
      /\ k0.second = k.second /\ (isDynamicStack => k0.copy[c] = k.rt[k.second[c]])
  BY ZenonT(30) DEF Sound, Schedules, save_stack
<1> HIDE DEF k0
<1>2. /\ k1 \in Schedules /\ k1.run = k0.run /\ k1.cur = k0.cur /\ k1.ctx = k0.ctx
      /\ k1.parent = k0.parent /\ k1.status = [k0.status EXCEPT ![c] = "SUSPEND"]
      /\ k1.stack = k0.stack /\ k1.copy = k0.copy /\ k1.second = k0.second
  BY <1>1, ZenonT(30) DEF Schedules, Statuses
<1>3. co_yield(k) = BackTo(k1, c)
  BY MainIsNoSlot, ZenonT(30) DEF co_yield, Sound, k0
<1> HIDE DEF k1
<1>4. LET r == BackTo(k1, k1.cur)
          p == k1.parent[k1.cur]
      IN  /\ Sound(r) /\ r.cur = p
          /\ r.parent = [k1.parent EXCEPT ![k1.cur] = Main]
          /\ r.status = [s \in Slots |-> IF s = p THEN "RUN" ELSE k1.status[s]]
          /\ r.stack = k1.stack /\ r.copy = k1.copy /\ r.second = k1.second
          /\ isDynamicStack /\ p # Main /\ k1.second[p] # k1.second[k1.cur] =>
               r.rt[k1.second[p]] = k1.copy[p]
  <2>1. k1.ctx = [x \in Contexts |-> x] /\ k1.cur \in Slots /\ k1.parent[k1.cur] # k1.cur
    BY <1>1, <1>2, ZenonT(30) DEF Sound
  <2> QED BY <1>2, <2>1, BackDoes, ZenonT(30)
<1>5. [s \in Slots |-> IF s = k.parent[c] THEN "RUN" ELSE k1.status[s]] =
      [s \in Slots |-> IF s = c THEN "SUSPEND" ELSE IF s = k.parent[c] THEN "RUN" ELSE k.status[s]]
  BY <1>1, <1>2 DEF Sound, Schedules
<1>6. LeftStack(k, co_yield(k), "SUSPEND")
  <2>0. k.parent[c] \in Contexts
    BY ZenonT(30) DEF Sound, Schedules
  <2>1. k.parent[c] # Main => k.parent[c] \in Slots \ {c}
    BY <2>0, ZenonT(30) DEF Contexts
  <2>2. k1.cur = c /\ k1.second = k.second /\ k1.parent = k.parent
    BY <1>1, <1>2, ZenonT(30)
  <2> DEFINE p == k.parent[c]
             r == co_yield(k)
  <2>3. /\ r.copy = k1.copy /\ r.second = k.second
        /\ isDynamicStack /\ p # Main /\ k.second[p] # k.second[c] => r.rt[k.second[p]] = k1.copy[p]
    BY <1>3, <1>4, <2>2, ZenonT(30)
  <2> HIDE DEF r
  <2>4. \A s \in Slots \ {c} : k1.copy[s] = k.copy[s]
    BY <1>1, <1>2, ZenonT(30)
  <2>5. isDynamicStack => k1.copy[c] = k.rt[k.second[c]]
    BY <1>1, <1>2, ZenonT(30)
  <2>6. isDynamicStack /\ p # Main /\ k.second[p] # k.second[c] => r.rt[k.second[p]] = k.copy[p]
    BY <2>1, <2>3, <2>4, ZenonT(30)
  <2>7. \A s \in Slots \ {c} : r.copy[s] = k.copy[s]
    BY <2>3, <2>4, ZenonT(30)
  <2>8. isDynamicStack => r.copy[c] = k.rt[k.second[c]]
    BY <2>3, <2>5, ZenonT(30)
  <2> QED BY <2>3, <2>6, <2>7, <2>8, ZenonT(30) DEF LeftStack, r
<1> QED BY <1>1, <1>2, <1>3, <1>4, <1>5, <1>6 DEF Left

LEMMA EndLeaves ==
  ASSUME NEW k, Sound(k), k.cur \in Slots, k.parent[k.cur] # k.cur
  PROVE  Left(k, process_end(k), "END")
<1> DEFINE c == k.cur
           k1 == [k EXCEPT !.status[c] = "END"]
<1>1. /\ k1 \in Schedules /\ k1.run = k.run /\ k1.cur = k.cur /\ k1.ctx = k.ctx
      /\ k1.parent = k.parent /\ k1.status = [k.status EXCEPT ![c] = "END"]
      /\ k1.stack = k.stack /\ k1.copy = k.copy /\ k1.second = k.second
  BY ZenonT(30) DEF Sound, Schedules, Statuses
<1>2. process_end(k) = BackTo(k1, c)
  BY ZenonT(30) DEF process_end
<1> HIDE DEF k1
<1>3. LET r == BackTo(k1, k1.cur)
          p == k1.parent[k1.cur]
      IN  /\ Sound(r) /\ r.cur = p
          /\ r.parent = [k1.parent EXCEPT ![k1.cur] = Main]
          /\ r.status = [s \in Slots |-> IF s = p THEN "RUN" ELSE k1.status[s]]
          /\ r.stack = k1.stack /\ r.copy = k1.copy /\ r.second = k1.second
          /\ isDynamicStack /\ p # Main /\ k1.second[p] # k1.second[k1.cur] =>
               r.rt[k1.second[p]] = k1.copy[p]
  BY <1>1, BackDoes, ZenonT(30) DEF Sound
<1>4. [s \in Slots |-> IF s = k.parent[c] THEN "RUN" ELSE k1.status[s]] =
      [s \in Slots |-> IF s = c THEN "END" ELSE IF s = k.parent[c] THEN "RUN" ELSE k.status[s]]
  BY <1>1, ZenonT(30) DEF Sound, Schedules
<1>5. LeftStack(k, process_end(k), "END")
  <2>1. "END" # "SUSPEND"
    OBVIOUS
  <2>2. k1.cur = c /\ k1.second = k.second /\ k1.parent = k.parent /\ k1.copy = k.copy
    BY <1>1, ZenonT(30)
  <2> DEFINE p == k.parent[c]
             r == process_end(k)
  <2>3. /\ r.copy = k.copy /\ r.second = k.second
        /\ isDynamicStack /\ p # Main /\ k.second[p] # k.second[c] => r.rt[k.second[p]] = k.copy[p]
    BY <1>2, <1>3, <2>2, ZenonT(30)
  <2> HIDE DEF r
  <2> QED BY <2>1, <2>3, ZenonT(30) DEF LeftStack, r
<1> QED BY <1>1, <1>2, <1>3, <1>4, <1>5 DEF Left

-----------------------------------------------------------------------------
(* The chain of coroutines that wait for one another.  p is the pool, k    *)
(* the schedule and cl the calls that the contexts are suspended in.       *)

Waits(cl, x) == cl[x].op = "resume"
Running(k, cl, s) == s = k.cur \/ Waits(cl, s)

\* Every coroutine that runs or waits is in the pool, and its parent waits for
\* it; whoever waits has such a child.
Chain(p, k, cl) ==
  /\ \A s \in Slots : Running(k, cl, s) =>
       s \in UsedSlots(p) /\ Waits(cl, k.parent[s]) /\ cl[k.parent[s]].id = LogicIdx(p, s)
  /\ \A x \in Contexts : Waits(cl, x) => \E s \in Slots : Running(k, cl, s) /\ k.parent[s] = x

\* d numbers the contexts of the chain, from Main on: there are no others.
Levels(k, cl, d) ==
  /\ d[Main] = 0
  /\ \A x \in Contexts : Waits(cl, x) => d[x] < d[k.cur]
  /\ \A s \in Slots : Running(k, cl, s) => d[s] = d[k.parent[s]] + 1
  /\ \A x, y \in Contexts : Waits(cl, x) /\ Waits(cl, y) /\ d[x] = d[y] => x = y

\* Mode DYNAMIC: the frames of the coroutine that executes are on its runtime
\* stack, those of one that is suspended or waits are in its copy, and one that
\* runs or waits is not on the stack of its parent.
FramesOK(k, cl) ==
  isDynamicStack /\ ReadyOnly =>
    /\ k.cur # Main => k.rt[k.second[k.cur]] = k.cur
    /\ \A s \in Slots : k.status[s] = "SUSPEND" \/ Waits(cl, s) => k.copy[s] = s
    /\ \A s \in Slots : Running(k, cl, s) /\ k.parent[s] # Main =>
         k.second[s] # k.second[k.parent[s]]

Control(p, k, cl) ==
  /\ PoolOK(p) /\ Sound(k) /\ cl \in [Contexts -> Calls]
  /\ cl[k.cur].op = "none" /\ cl[Main].op # "yield"
  /\ \A s \in Slots : k.status[s] = "RUN" <=> s = k.cur
  /\ Chain(p, k, cl)
  /\ \E d \in [Contexts -> Nat] : Levels(k, cl, d)
  /\ FramesOK(k, cl)

LEMMA CallTypes ==
  /\ NoCall \in Calls /\ NoCall.op = "none"
  /\ \A op \in {"none", "resume", "yield"}, id \in Int :
       InCall(op, id) \in Calls /\ InCall(op, id).op = op /\ InCall(op, id).id = id
BY DEF NoCall, InCall, Calls

\* Main executes only when no coroutine runs or waits.
LEMMA MainAlone ==
  ASSUME NEW p, NEW k, NEW cl, Control(p, k, cl), k.cur = Main
  PROVE  \A s \in Slots : ~Running(k, cl, s)
<1>1. PICK d \in [Contexts -> Nat] : Levels(k, cl, d)
  BY ZenonT(30) DEF Control
<1> SUFFICES ASSUME NEW s \in Slots, Waits(cl, s) PROVE FALSE
  BY MainIsNoSlot, ZenonT(30) DEF Running
<1>2. d[s] < d[Main] /\ d[Main] = 0
  BY <1>1, MainIsNoSlot, ZenonT(30) DEF Levels
<1> QED BY <1>2, MainIsNoSlot

\* The parent of the coroutine that executes waits for it.
LEMMA ParentWaits ==
  ASSUME NEW p, NEW k, NEW cl, Control(p, k, cl), k.cur # Main
  PROVE  LET c == k.cur
             x == k.parent[c]
         IN  /\ c \in Slots /\ c \in UsedSlots(p) /\ x \in Contexts /\ x # c
             /\ cl[x].op = "resume" /\ cl[x].id = LogicIdx(p, c)
<1>1. k.cur \in Slots
  BY ZenonT(30) DEF Control, Sound, Schedules, Contexts
<1>2. k.parent[k.cur] \in Contexts
  BY <1>1, ZenonT(30) DEF Control, Sound, Schedules
<1> QED BY <1>1, <1>2, ZenonT(30) DEF Control, Chain, Running, Waits

LEMMA EnterControl ==
  ASSUME NEW p, NEW k, NEW cl, Control(p, k, cl),
         NEW c \in UsedSlots(p), ~Running(k, cl, c), NEW k2, Entered(k, k2, c),
         k.status[c] \in {"READY", "SUSPEND"}, ReadyOnly /\ k.cur # Main => k.status[c] = "READY"
  PROVE  Control(p, k2, [cl EXCEPT ![k.cur] = InCall("resume", LogicIdx(p, c)), ![c] = NoCall])
<1> DEFINE id == LogicIdx(p, c)
           cl2 == [cl EXCEPT ![k.cur] = InCall("resume", id), ![c] = NoCall]
<1>1. /\ c \in Slots /\ c \in Contexts /\ k.cur \in Contexts /\ c # k.cur /\ c # Main
      /\ ~Waits(cl, c) /\ id \in Int /\ cl \in [Contexts -> Calls] /\ k \in Schedules
  BY MainIsNoSlot, IdOfUsed DEF UsedSlots, Control, Running, Sound, Schedules, PoolOK
<1>2. /\ cl2 \in [Contexts -> Calls] /\ cl2[k.cur].op = "resume" /\ cl2[k.cur].id = id
      /\ cl2[c].op = "none" /\ \A x \in Contexts \ {c, k.cur} : cl2[x] = cl[x]
  BY <1>1, CallTypes
<1>3. \A x \in Contexts : Waits(cl2, x) <=> x = k.cur \/ Waits(cl, x)
  BY <1>1, <1>2, ZenonT(30) DEF Waits
<1> HIDE DEF cl2, id
<1>4. \A s \in Slots : Running(k2, cl2, s) <=> s = c \/ Running(k, cl, s)
  BY <1>1, <1>3, MainIsNoSlot, ZenonT(30) DEF Running, Entered
<1>5. /\ k2.cur = c /\ k2.parent[c] = k.cur
      /\ \A s \in Slots : s # c => k2.parent[s] = k.parent[s]
      /\ \A s \in Slots : k.parent[s] \in Contexts
  BY <1>1, ZenonT(30) DEF Entered, Schedules
<1>6. Chain(p, k2, cl2)
  <2>1. ASSUME NEW s \in Slots, Running(k2, cl2, s)
        PROVE  s \in UsedSlots(p) /\ Waits(cl2, k2.parent[s]) /\ cl2[k2.parent[s]].id = LogicIdx(p, s)
    <3>1. CASE s = c
      BY <1>1, <1>2, <1>3, <1>5, <3>1, ZenonT(30) DEF id
    <3>2. CASE s # c
      <4>1. /\ s \in UsedSlots(p) /\ Waits(cl, k.parent[s]) /\ cl[k.parent[s]].id = LogicIdx(p, s)
            /\ k2.parent[s] = k.parent[s] /\ k.parent[s] \in Contexts
        BY <1>4, <1>5, <2>1, <3>2, ZenonT(30) DEF Control, Chain
      <4>2. k.parent[s] # c /\ k.parent[s] # k.cur
        BY <1>1, <4>1, ZenonT(30) DEF Control, Waits
      <4> QED BY <1>2, <1>3, <4>1, <4>2, ZenonT(30)
    <3> QED BY <3>1, <3>2, ZenonT(30)
  <2>2. ASSUME NEW x \in Contexts, Waits(cl2, x)
        PROVE  \E s \in Slots : Running(k2, cl2, s) /\ k2.parent[s] = x
    <3>1. CASE x = k.cur
      BY <1>1, <1>4, <1>5, <3>1, ZenonT(30)
    <3>2. CASE x # k.cur
      <4>1. PICK s \in Slots : Running(k, cl, s) /\ k.parent[s] = x
        BY <1>3, <2>2, <3>2, ZenonT(30) DEF Control, Chain
      <4>2. s # c
        BY <4>1, ZenonT(30)
      <4> QED BY <1>4, <1>5, <4>1, <4>2, ZenonT(30)
    <3> QED BY <3>1, <3>2, ZenonT(30)
  <2> QED BY <2>1, <2>2, ZenonT(30) DEF Chain
<1>7. \E d \in [Contexts -> Nat] : Levels(k2, cl2, d)
  <2>1. PICK d \in [Contexts -> Nat] : Levels(k, cl, d)
    BY ZenonT(30) DEF Control
  <2> DEFINE d2 == [d EXCEPT ![c] = d[k.cur] + 1]
  <2>2. /\ d2 \in [Contexts -> Nat] /\ d2[c] = d[k.cur] + 1 /\ d[k.cur] \in Nat
        /\ \A x \in Contexts : d[x] \in Nat /\ (x # c => d2[x] = d[x])
    BY <1>1, <2>1
  <2> HIDE DEF d2
  <2>3. \A x \in Contexts : Waits(cl2, x) => x # c /\ d2[x] = d[x] /\ d[x] <= d[k.cur]
    BY <1>1, <1>3, <2>1, <2>2 DEF Levels
  <2>4. ASSUME NEW s \in Slots, Running(k2, cl2, s) PROVE d2[s] = d2[k2.parent[s]] + 1
    <3>1. CASE s = c
      BY <1>1, <1>5, <2>2, <3>1, ZenonT(30)
    <3>2. CASE s # c
      <4>1. /\ d[s] = d[k.parent[s]] + 1 /\ Waits(cl, k.parent[s])
            /\ k2.parent[s] = k.parent[s] /\ k.parent[s] \in Contexts
        BY <1>4, <1>5, <2>1, <2>4, <3>2, ZenonT(30) DEF Control, Chain, Levels
      <4>2. k.parent[s] # c /\ s \in Contexts
        BY <1>1, <4>1, MainIsNoSlot, ZenonT(30)
      <4> QED BY <2>2, <3>2, <4>1, <4>2, ZenonT(30)
    <3> QED BY <3>1, <3>2, ZenonT(30)
  <2>5. ASSUME NEW x \in Contexts, NEW y \in Contexts, Waits(cl2, x), Waits(cl2, y), d2[x] = d2[y]
        PROVE  x = y
    <3>1. d[x] = d[y]
      BY <2>3, <2>5, ZenonT(30)
    <3>2. CASE x = k.cur \/ y = k.cur
      BY <1>3, <2>1, <2>2, <2>5, <3>1, <3>2 DEF Levels
    <3>3. CASE x # k.cur /\ y # k.cur
      BY <1>3, <2>1, <2>5, <3>1, <3>3, ZenonT(30) DEF Levels
    <3> QED BY <3>2, <3>3, ZenonT(30)
  <2>6. d2[Main] = 0
    BY <1>1, <2>1, <2>2, MainIsNoSlot, ZenonT(30) DEF Levels
  <2>7. \A x \in Contexts : Waits(cl2, x) => d2[x] < d2[k2.cur]
    BY <1>5, <2>2, <2>3
  <2> QED BY <2>2, <2>4, <2>5, <2>6, <2>7, ZenonT(30) DEF Levels
<1>8. \A s \in Slots : k2.status[s] = "RUN" <=> s = k2.cur
  BY <1>1 DEF Control, Entered
<1>9. cl2[Main].op # "yield"
  BY <1>1, <1>2, MainIsNoSlot, ZenonT(30) DEF Control
<1>10. PoolOK(p) /\ Sound(k2)
  BY ZenonT(30) DEF Control, Entered
<1>11. FramesOK(k2, cl2)
  <2> SUFFICES ASSUME isDynamicStack, ReadyOnly
               PROVE  /\ k2.rt[k2.second[c]] = c
                      /\ \A s \in Slots : k2.status[s] = "SUSPEND" \/ Waits(cl2, s) => k2.copy[s] = s
                      /\ \A s \in Slots : Running(k2, cl2, s) /\ k2.parent[s] # Main =>
                           k2.second[s] # k2.second[k2.parent[s]]
    BY <1>5, ZenonT(30) DEF FramesOK
  <2>1. /\ k.cur # Main => k.rt[k.second[k.cur]] = k.cur
        /\ \A s \in Slots : k.status[s] = "SUSPEND" \/ Waits(cl, s) => k.copy[s] = s
        /\ \A s \in Slots : Running(k, cl, s) /\ k.parent[s] # Main =>
             k.second[s] # k.second[k.parent[s]]
    BY ZenonT(30) DEF Control, FramesOK
  <2>2. /\ \A s \in Slots \ {c} : k2.second[s] = k.second[s]
        /\ \A s \in Slots \ {k.cur} : k2.copy[s] = k.copy[s]
        /\ k.cur # Main => k2.copy[k.cur] = k.rt[k.second[k.cur]]
        /\ k.status[c] = "READY" =>
             k2.rt[k2.second[c]] = c /\ (k.cur # Main => k2.second[c] # k.second[k.cur])
        /\ k.status[c] = "SUSPEND" /\ k.cur = Main => k2.rt[k2.second[c]] = k.copy[c]
    BY ZenonT(30) DEF Entered, EnteredStack
  <2>3. k2.rt[k2.second[c]] = c
    BY <1>1, <2>1, <2>2, ZenonT(30)
  <2>4. ASSUME NEW s \in Slots, k2.status[s] = "SUSPEND" \/ Waits(cl2, s) PROVE k2.copy[s] = s
    <3>1. CASE s = k.cur
      BY <2>1, <2>2, <3>1, MainIsNoSlot, ZenonT(30)
    <3>2. CASE s # k.cur
      <4>1. k2.status[s] = IF s = c THEN "RUN" ELSE IF s = k.cur THEN "SUSPEND" ELSE k.status[s]
        BY ZenonT(30) DEF Entered
      <4>2. k2.status[s] = "SUSPEND" => k.status[s] = "SUSPEND"
        BY <3>2, <4>1
      <4>3. Waits(cl2, s) => Waits(cl, s)
        BY <1>3, <3>2, MainIsNoSlot, ZenonT(30)
      <4> QED BY <2>1, <2>2, <2>4, <3>2, <4>2, <4>3, ZenonT(30)
    <3> QED BY <3>1, <3>2, ZenonT(30)
  <2>5. ASSUME NEW s \in Slots, Running(k2, cl2, s), k2.parent[s] # Main
        PROVE  k2.second[s] # k2.second[k2.parent[s]]
    <3>1. CASE s = c
      <4>1. k.cur # Main /\ k.cur \in Slots \ {c}
        BY <1>1, <1>5, <2>5, <3>1, ZenonT(30) DEF Contexts
      <4> QED BY <1>5, <2>2, <3>1, <4>1, ZenonT(30)
    <3>2. CASE s # c
      <4>0. Running(k, cl, s) /\ k2.parent[s] = k.parent[s] /\ k.parent[s] \in Contexts
        BY <1>4, <1>5, <2>5, <3>2, ZenonT(30)
      <4>1. Running(k, cl, s) /\ k2.parent[s] = k.parent[s] /\ k.parent[s] \in Slots
        BY <2>5, <4>0, ZenonT(30) DEF Contexts
      <4>2. k.parent[s] # c
        BY <1>1, <4>1, ZenonT(30) DEF Control, Chain
      <4>3. k2.second[s] = k.second[s] /\ k2.second[k.parent[s]] = k.second[k.parent[s]]
        BY <2>2, <3>2, <4>1, <4>2, ZenonT(30)
      <4>4. k.second[s] # k.second[k.parent[s]]
        BY <2>1, <2>5, <4>1, ZenonT(30)
      <4>5. k2.second[s] # k2.second[k.parent[s]]
        BY <4>3, <4>4, ZenonT(30)
      <4> QED BY <4>1, <4>5, ZenonT(30)
    <3> QED BY <3>1, <3>2, ZenonT(30)
  <2> QED BY <2>3, <2>4, <2>5, ZenonT(30)
<1> QED BY <1>2, <1>5, <1>6, <1>7, <1>8, <1>9, <1>10, <1>11, ZenonT(30) DEF Control, cl2, id

LEMMA LeaveControl ==
  ASSUME NEW p, NEW k, NEW cl, Control(p, k, cl), k.cur # Main,
         NEW st, st # "RUN", NEW k2, Left(k, k2, st),
         NEW v \in Calls, v.op # "resume"
  PROVE  Control(p, k2, [cl EXCEPT ![k.cur] = v, ![k.parent[k.cur]] = NoCall])
<1> DEFINE c == k.cur
           w == k.parent[c]
           cl2 == [cl EXCEPT ![c] = v, ![w] = NoCall]
<1>1. /\ c \in Slots /\ c \in Contexts /\ w \in Contexts /\ w # c /\ c # Main
      /\ cl[w].op = "resume" /\ cl[w].id = LogicIdx(p, c)
      /\ cl \in [Contexts -> Calls] /\ k \in Schedules /\ PoolType(p)
  BY ParentWaits, MainIsNoSlot DEF Control, Sound, PoolOK
<1>2. /\ cl2 \in [Contexts -> Calls] /\ cl2[w].op = "none" /\ cl2[c].op # "resume"
      /\ \A x \in Contexts \ {c, w} : cl2[x] = cl[x]
  BY <1>1, CallTypes
<1>3. \A x \in Contexts : Waits(cl2, x) <=> x # w /\ Waits(cl, x)
  BY <1>1, <1>2, ZenonT(30) DEF Waits, Control
<1>4. /\ k2.cur = w /\ \A s \in Slots : s # c => k2.parent[s] = k.parent[s]
      /\ \A s \in Slots : k.parent[s] \in Contexts
  BY <1>1, ZenonT(30) DEF Left, Schedules
<1>5. Waits(cl, w) /\ ~Waits(cl, c) /\ Running(k, cl, c)
  BY <1>1, ZenonT(30) DEF Waits, Control, Running
<1> HIDE DEF cl2
<1>6. \A s \in Slots : Running(k2, cl2, s) <=> s # c /\ Running(k, cl, s)
  BY <1>1, <1>3, <1>4, <1>5, MainIsNoSlot, ZenonT(30) DEF Running
<1> HIDE DEF w, c
<1>7. PICK d \in [Contexts -> Nat] : Levels(k, cl, d)
  BY ZenonT(30) DEF Control
<1>8. \A s \in Slots : Running(k2, cl2, s) => k.parent[s] # w /\ k.parent[s] # c
  <2> SUFFICES ASSUME NEW s \in Slots, s # c, Running(k, cl, s)
               PROVE  k.parent[s] # w /\ k.parent[s] # c
    BY <1>6, ZenonT(30)
  <2>1. Waits(cl, k.parent[s]) /\ cl[k.parent[s]].id = LogicIdx(p, s)
    BY ZenonT(30) DEF Control, Chain
  <2>2. k.parent[s] # c
    BY <1>5, <2>1, ZenonT(30)
  <2>3. LogicIdx(p, s) # LogicIdx(p, c)
    BY <1>1, IdsDiffer, ZenonT(30)
  <2> QED BY <1>1, <2>1, <2>2, <2>3, ZenonT(30)
<1>9. Chain(p, k2, cl2)
  <2>1. ASSUME NEW s \in Slots, Running(k2, cl2, s)
        PROVE  s \in UsedSlots(p) /\ Waits(cl2, k2.parent[s]) /\ cl2[k2.parent[s]].id = LogicIdx(p, s)
    <3>1. /\ s \in UsedSlots(p) /\ Waits(cl, k.parent[s]) /\ cl[k.parent[s]].id = LogicIdx(p, s)
          /\ k2.parent[s] = k.parent[s] /\ k.parent[s] \in Contexts
      BY <1>4, <1>6, <2>1, ZenonT(30) DEF Control, Chain
    <3> QED BY <1>2, <1>3, <1>8, <2>1, <3>1, ZenonT(30)
  <2>2. ASSUME NEW x \in Contexts, Waits(cl2, x)
        PROVE  \E s \in Slots : Running(k2, cl2, s) /\ k2.parent[s] = x
    <3>1. PICK s \in Slots : Running(k, cl, s) /\ k.parent[s] = x
      BY <1>3, <2>2, ZenonT(30) DEF Control, Chain
    <3>2. s # c
      BY <1>3, <2>2, <3>1, ZenonT(30) DEF w
    <3> QED BY <1>4, <1>6, <3>1, <3>2, ZenonT(30)
  <2> QED BY <2>1, <2>2, ZenonT(30) DEF Chain
<1>10. Levels(k2, cl2, d)
  <2>1. d[c] = d[w] + 1 /\ d[w] \in Nat /\ d[c] \in Nat
    BY <1>1, <1>5, <1>7, ZenonT(30) DEF Levels, w
  <2>2. ASSUME NEW x \in Contexts, Waits(cl2, x) PROVE d[x] < d[k2.cur]
    <3>1. x # w /\ Waits(cl, x) /\ d[x] \in Nat
      BY <1>3, <1>7, <2>2, ZenonT(30)
    <3>2. d[x] < d[c] /\ d[x] # d[w]
      BY <1>1, <1>5, <1>7, <3>1, ZenonT(30) DEF Levels, c
    <3> QED BY <1>4, <2>1, <3>1, <3>2
  <2>3. ASSUME NEW s \in Slots, Running(k2, cl2, s) PROVE d[s] = d[k2.parent[s]] + 1
    BY <1>4, <1>6, <1>7, <2>3, ZenonT(30) DEF Levels
  <2> QED BY <1>3, <1>7, <2>2, <2>3, ZenonT(30) DEF Levels
<1>11. \A s \in Slots : k2.status[s] = "RUN" <=> s = k2.cur
  BY <1>1, <1>4 DEF Control, Left, w, c
<1>12. cl2[k2.cur].op = "none" /\ cl2[Main].op # "yield"
  BY <1>1, <1>2, <1>4, MainIsNoSlot, ZenonT(30) DEF Control
<1>13. PoolOK(p) /\ Sound(k2)
  BY ZenonT(30) DEF Control, Left
<1>14. FramesOK(k2, cl2)
  <2> SUFFICES ASSUME isDynamicStack, ReadyOnly
               PROVE  /\ w # Main => k2.rt[k2.second[w]] = w
                      /\ \A s \in Slots : k2.status[s] = "SUSPEND" \/ Waits(cl2, s) => k2.copy[s] = s
                      /\ \A s \in Slots : Running(k2, cl2, s) /\ k2.parent[s] # Main =>
                           k2.second[s] # k2.second[k2.parent[s]]
    BY <1>4, ZenonT(30) DEF FramesOK
  <2>1. /\ k.rt[k.second[c]] = c
        /\ \A s \in Slots : k.status[s] = "SUSPEND" \/ Waits(cl, s) => k.copy[s] = s
        /\ \A s \in Slots : Running(k, cl, s) /\ k.parent[s] # Main =>
             k.second[s] # k.second[k.parent[s]]
    BY ZenonT(30) DEF Control, FramesOK, c
  <2>2. /\ k2.second = k.second
        /\ \A s \in Slots \ {c} : k2.copy[s] = k.copy[s]
        /\ st = "SUSPEND" => k2.copy[c] = k.rt[k.second[c]]
        /\ w # Main /\ k.second[w] # k.second[c] => k2.rt[k.second[w]] = k.copy[w]
    BY ZenonT(30) DEF Left, LeftStack, c, w
  <2>3. w # Main => k2.rt[k2.second[w]] = w
    <3> SUFFICES ASSUME w # Main PROVE k2.rt[k2.second[w]] = w
      BY ZenonT(30)
    <3>1. w \in Slots /\ k.copy[w] = w
      BY <1>1, <1>5, <2>1, ZenonT(30) DEF Contexts
    <3>2. k.second[c] # k.second[w]
      BY <1>1, <1>5, <2>1, ZenonT(30) DEF w
    <3> QED BY <2>2, <3>1, <3>2, ZenonT(30)
  <2>4. ASSUME NEW s \in Slots, k2.status[s] = "SUSPEND" \/ Waits(cl2, s) PROVE k2.copy[s] = s
    <3>1. k2.status[s] = IF s = c THEN st ELSE IF s = w THEN "RUN" ELSE k.status[s]
      BY ZenonT(30) DEF Left, c, w
    <3>2. CASE s = c
      <4>1. ~Waits(cl2, s)
        BY <1>1, <1>3, <1>5, <3>2, ZenonT(30)
      <4> QED BY <2>1, <2>2, <2>4, <3>1, <3>2, <4>1, ZenonT(30)
    <3>3. CASE s # c
      <4>1. k2.status[s] = "SUSPEND" => k.status[s] = "SUSPEND"
        BY <3>1, <3>3
      <4>2. Waits(cl2, s) => Waits(cl, s)
        BY <1>3, MainIsNoSlot, ZenonT(30)
      <4> QED BY <2>1, <2>2, <2>4, <3>3, <4>1, <4>2, ZenonT(30)
    <3> QED BY <3>2, <3>3, ZenonT(30)
  <2>5. ASSUME NEW s \in Slots, Running(k2, cl2, s), k2.parent[s] # Main
        PROVE  k2.second[s] # k2.second[k2.parent[s]]
    <3>1. Running(k, cl, s) /\ k2.parent[s] = k.parent[s]
      BY <1>4, <1>6, <2>5, ZenonT(30)
    <3> QED BY <2>1, <2>2, <2>5, <3>1, ZenonT(30)
  <2> QED BY <2>3, <2>4, <2>5, ZenonT(30)
<1> QED BY <1>2, <1>7, <1>9, <1>10, <1>11, <1>12, <1>13, <1>14, ZenonT(30) DEF Control, cl2, c, w

LEMMA FreeControl ==
  ASSUME NEW p, NEW k, NEW cl, Control(p, k, cl),
         NEW s \in UsedSlots(p), ~Running(k, cl, s)
  PROVE  Control(ReturnSlot(p, s), [k EXCEPT !.stack[s] = FALSE], [cl EXCEPT ![s] = NoCall])
<1> DEFINE q == ReturnSlot(p, s)
           k2 == [k EXCEPT !.stack[s] = FALSE]
           cl2 == [cl EXCEPT ![s] = NoCall]
<1>1. /\ PoolOK(q) /\ UsedSlots(q) = UsedSlots(p) \ {s}
      /\ \A t : LogicIdx(q, t) = LogicIdx(p, t)
  BY ReturnDoes, ZenonT(30) DEF Control
<1>2. /\ s \in Slots /\ s \in Contexts /\ s # k.cur /\ s # Main /\ ~Waits(cl, s)
      /\ cl \in [Contexts -> Calls] /\ k \in Schedules
  BY MainIsNoSlot, ZenonT(30) DEF UsedSlots, Running, Control, Sound
<1>3. /\ Sound(k2) /\ k2.cur = k.cur /\ k2.parent = k.parent /\ k2.status = k.status
      /\ k2.second = k.second /\ k2.rt = k.rt /\ k2.copy = k.copy
  BY <1>2, ZenonT(30) DEF Control, Sound, Schedules
<1>4. /\ cl2 \in [Contexts -> Calls] /\ cl2[s].op = "none"
      /\ \A x \in Contexts \ {s} : cl2[x] = cl[x]
  BY <1>2, CallTypes
<1> HIDE DEF q, k2, cl2
<1>5. \A x \in Contexts : Waits(cl2, x) <=> Waits(cl, x)
  BY <1>2, <1>4, ZenonT(30) DEF Waits
<1>6. \A t \in Slots : Running(k2, cl2, t) <=> Running(k, cl, t)
  BY <1>3, <1>5, MainIsNoSlot, ZenonT(30) DEF Running
<1>7. Chain(q, k2, cl2)
  <2>1. ASSUME NEW t \in Slots, Running(k2, cl2, t)
        PROVE  t \in UsedSlots(q) /\ Waits(cl2, k2.parent[t]) /\ cl2[k2.parent[t]].id = LogicIdx(q, t)
    <3>1. /\ t # s /\ t \in UsedSlots(p) /\ Waits(cl, k.parent[t])
          /\ cl[k.parent[t]].id = LogicIdx(p, t) /\ k.parent[t] \in Contexts
      BY <1>2, <1>6, <2>1, ZenonT(30) DEF Control, Chain, Schedules
    <3>2. k.parent[t] # s
      BY <1>2, <3>1, ZenonT(30)
    <3> QED BY <1>1, <1>3, <1>4, <1>5, <3>1, <3>2, ZenonT(30)
  <2>2. ASSUME NEW x \in Contexts, Waits(cl2, x)
        PROVE  \E t \in Slots : Running(k2, cl2, t) /\ k2.parent[t] = x
    BY <1>3, <1>5, <1>6, <2>2 DEF Control, Chain
  <2> QED BY <2>1, <2>2, ZenonT(30) DEF Chain
<1>8. \E d \in [Contexts -> Nat] : Levels(k2, cl2, d)
  <2>1. PICK d \in [Contexts -> Nat] : Levels(k, cl, d)
    BY ZenonT(30) DEF Control
  <2>2. Levels(k2, cl2, d)
    BY <1>3, <1>5, <1>6, <2>1, ZenonT(30) DEF Levels
  <2> QED BY <2>2, ZenonT(30)
<1>9. /\ cl2[k2.cur].op = "none" /\ cl2[Main].op # "yield"
      /\ \A t \in Slots : k2.status[t] = "RUN" <=> t = k2.cur
  BY <1>2, <1>3, <1>4, MainIsNoSlot DEF Control, Sound, Schedules
<1>10. FramesOK(k2, cl2)
  <2>1. FramesOK(k, cl)
    BY ZenonT(30) DEF Control
  <2>2. \A t \in Slots : Waits(cl2, t) <=> Waits(cl, t)
    BY <1>5, MainIsNoSlot, ZenonT(30)
  <2> QED BY <1>3, <1>6, <2>1, <2>2, ZenonT(30) DEF FramesOK
<1> QED BY <1>1, <1>3, <1>4, <1>7, <1>8, <1>9, <1>10, ZenonT(30) DEF Control, q, k2, cl2

LEMMA TakeControl ==
  ASSUME NEW p, NEW k, NEW cl, Control(p, k, cl), p.usedCount < Cap,
         NEW k2, Sound(k2), k2.cur = k.cur, k2.parent = k.parent,
         k2.status = [k.status EXCEPT ![p.freeHead] = "READY"], k2.rt = k.rt,
         \A s \in Slots \ {p.freeHead} : k2.second[s] = k.second[s] /\ k2.copy[s] = k.copy[s]
  PROVE  Control(TakeFreeHead(p), k2, cl) /\ ~Running(k, cl, p.freeHead)
<1> DEFINE q == TakeFreeHead(p)
           h == p.freeHead
<1>1. /\ PoolOK(q) /\ h \in FreeSlots(p) /\ UsedSlots(q) = UsedSlots(p) \union {h}
      /\ \A t \in UsedSlots(p) : LogicIdx(q, t) = LogicIdx(p, t)
  <2>1. PoolOK(p)
    BY ZenonT(30) DEF Control
  <2> QED BY <2>1, TakeDoes, ZenonT(30)
<1>2. h \in Slots /\ h \notin UsedSlots(p)
  BY <1>1, ZenonT(30) DEF FreeSlots, UsedSlots
<1>3. ~Running(k, cl, h)
  BY <1>2, ZenonT(30) DEF Control, Chain
<1> HIDE DEF q, h
<1>4. \A t \in Slots : Running(k2, cl, t) <=> Running(k, cl, t)
  BY ZenonT(30) DEF Running
<1>5. Chain(q, k2, cl)
  <2>1. Chain(p, k, cl)
    BY ZenonT(30) DEF Control
  <2>2. ASSUME NEW s \in Slots, Running(k2, cl, s)
        PROVE  s \in UsedSlots(q) /\ Waits(cl, k2.parent[s]) /\ cl[k2.parent[s]].id = LogicIdx(q, s)
    BY <1>1, <1>4, <2>1, <2>2, ZenonT(30) DEF Chain
  <2>3. ASSUME NEW x \in Contexts, Waits(cl, x)
        PROVE  \E s \in Slots : Running(k2, cl, s) /\ k2.parent[s] = x
    BY <1>4, <2>1, <2>3, ZenonT(30) DEF Chain
  <2> QED BY <2>2, <2>3, ZenonT(30) DEF Chain
<1>6. \E d \in [Contexts -> Nat] : Levels(k2, cl, d)
  <2>1. PICK d \in [Contexts -> Nat] : Levels(k, cl, d)
    BY ZenonT(30) DEF Control
  <2>2. Levels(k2, cl, d)
    BY <1>4, <2>1, ZenonT(30) DEF Levels
  <2> QED BY <2>2, ZenonT(30)
<1>7. h # k.cur
  BY <1>3, ZenonT(30) DEF Running
<1>8. \A t \in Slots : k2.status[t] = "RUN" <=> t = k2.cur
  BY <1>2, <1>7 DEF Control, Sound, Schedules, h
<1>9. FramesOK(k2, cl)
  <2> SUFFICES ASSUME isDynamicStack, ReadyOnly
               PROVE  /\ k.cur # Main => k2.rt[k2.second[k.cur]] = k.cur
                      /\ \A s \in Slots : k2.status[s] = "SUSPEND" \/ Waits(cl, s) => k2.copy[s] = s
                      /\ \A s \in Slots : Running(k2, cl, s) /\ k2.parent[s] # Main =>
                           k2.second[s] # k2.second[k2.parent[s]]
    BY ZenonT(30) DEF FramesOK
  <2>1. /\ k.cur # Main => k.rt[k.second[k.cur]] = k.cur
        /\ \A s \in Slots : k.status[s] = "SUSPEND" \/ Waits(cl, s) => k.copy[s] = s
        /\ \A s \in Slots : Running(k, cl, s) /\ k.parent[s] # Main =>
             k.second[s] # k.second[k.parent[s]]
    BY ZenonT(30) DEF Control, FramesOK
  <2>2. \A s \in Slots \ {h} : k2.second[s] = k.second[s] /\ k2.copy[s] = k.copy[s]
    BY ZenonT(30) DEF h
  <2>3. k.cur # Main => k.cur \in Slots \ {h}
    BY <1>7, ZenonT(30) DEF Control, Sound, Schedules, Contexts
  <2>4. ASSUME NEW s \in Slots, k2.status[s] = "SUSPEND" \/ Waits(cl, s) PROVE k2.copy[s] = s
    <3>1. s # h /\ k2.status[s] = k.status[s]
      <4>1. k2.status[s] = IF s = h THEN "READY" ELSE k.status[s]
        BY ZenonT(30) DEF Control, Sound, Schedules, h
      <4>2. s # h
        BY <1>3, <2>4, <4>1 DEF Running
      <4> QED BY <4>1, <4>2, ZenonT(30)
    <3> QED BY <2>1, <2>2, <2>4, <3>1, ZenonT(30)
  <2>5. ASSUME NEW s \in Slots, Running(k2, cl, s), k2.parent[s] # Main
        PROVE  k2.second[s] # k2.second[k2.parent[s]]
    <3>0. Running(k, cl, s) /\ s # h /\ k2.parent[s] = k.parent[s]
      BY <1>3, <1>4, <2>5, ZenonT(30)
    <3>3. k.parent[s] \in Contexts
      BY ZenonT(30) DEF Control, Sound, Schedules
    <3>1. k.parent[s] \in Slots /\ k.parent[s] # Main
      BY <2>5, <3>0, <3>3, ZenonT(30) DEF Contexts
    <3>2. k.parent[s] # h
      BY <1>3, <3>0, ZenonT(30) DEF Control, Chain, Running
    <3>4. k2.second[s] = k.second[s] /\ k2.second[k.parent[s]] = k.second[k.parent[s]]
      BY <2>2, <3>0, <3>1, <3>2, ZenonT(30)
    <3>5. k.second[s] # k.second[k.parent[s]]
      BY <2>1, <3>0, <3>1, ZenonT(30)
    <3>6. k2.second[s] # k2.second[k.parent[s]]
      BY <3>4, <3>5, ZenonT(30)
    <3> QED BY <3>0, <3>6, ZenonT(30)
  <2>6. k.cur # Main => k2.rt[k2.second[k.cur]] = k.cur
    BY <2>1, <2>2, <2>3, ZenonT(30)
  <2> QED BY <2>4, <2>5, <2>6, ZenonT(30)
<1> QED BY <1>1, <1>3, <1>5, <1>6, <1>8, <1>9, ZenonT(30) DEF Control, q, h

-----------------------------------------------------------------------------
(* The operations of the manager, field by field *)

IsMgr(m) == m = [ pool |-> m.pool, k |-> m.k, info |-> m.info, runid |-> m.runid,
                  call |-> m.call, ret |-> m.ret ]

\* r is m but for the last result.
Same(r, m) ==
  /\ IsMgr(r) /\ r.pool = m.pool /\ r.k = m.k /\ r.info = m.info
  /\ r.runid = m.runid /\ r.call = m.call

LEMMA ReturnsDoes ==
  ASSUME NEW m, IsMgr(m), NEW op, NEW val
  PROVE  Same(Returns(m, op, val), m) /\ Returns(m, op, val).ret = Outcome(m.k.cur, op, val)
BY DEF IsMgr, Same, Returns

LEMMA FreeCoDoes ==
  ASSUME NEW m, IsMgr(m), NEW id, IsLive(m.pool, id), m.k \in Schedules,
         NEW s \in Slots, s = CRem(id)
  PROVE  LET f == FreeCo(m, id)
         IN  /\ IsMgr(f) /\ f.pool = ReturnSlot(m.pool, s)
             /\ f.k = [m.k EXCEPT !.stack[s] = FALSE]
             /\ f.info = m.info /\ f.runid = m.runid
             /\ f.call = [m.call EXCEPT ![s] = NoCall]
<1>1. objpool_free(m.pool, id).pool = ReturnSlot(m.pool, s)
  BY ZenonT(30) DEF objpool_free
<1>2. FreeCo(m, id) = [m EXCEPT !.pool = ReturnSlot(m.pool, s), !.call[s] = NoCall, !.k.stack[s] = FALSE]
  BY <1>1, ZenonT(30) DEF FreeCo
<1> QED BY <1>2, ZenonT(30) DEF IsMgr, Schedules

\* One that was started, or was suspended in Yield, goes on.
LEMMA GoOnDoes ==
  ASSUME NEW m, IsMgr(m), m.call[m.k.cur].op # "resume"
  PROVE  LET r == GoOn(m)
             c == m.call[m.k.cur]
         IN  /\ IsMgr(r) /\ r.pool = m.pool /\ r.k = m.k /\ r.info = m.info /\ r.runid = m.runid
             /\ r.call = [m.call EXCEPT ![m.k.cur] = NoCall]
             /\ c.op = "yield" =>
                  r.ret.val = (IF m.info[CRem(c.id)].isTimeOut THEN YIELD_TIMEOUT ELSE 0)
<1> DEFINE c == m.call[m.k.cur]
           m1 == [m EXCEPT !.call[m.k.cur] = NoCall]
<1>1. /\ IsMgr(m1) /\ m1.pool = m.pool /\ m1.k = m.k /\ m1.info = m.info /\ m1.runid = m.runid
      /\ m1.call = [m.call EXCEPT ![m.k.cur] = NoCall]
  BY DEF IsMgr
<1>2. GoOn(m) = IF c.op = "yield" THEN YieldReturns(m1, c.id) ELSE Returns(m1, "start", 0)
  BY ZenonT(30) DEF GoOn
<1> HIDE DEF m1, c
<1>3. CASE c.op = "yield"
  <2> DEFINE val == IF m1.info[CRem(c.id)].isTimeOut THEN YIELD_TIMEOUT ELSE 0
  <2>1. GoOn(m) = Returns(m1, "yield", val)
    BY <1>2, <1>3, ZenonT(30) DEF YieldReturns
  <2>2. Same(GoOn(m), m1) /\ GoOn(m).ret = Outcome(m1.k.cur, "yield", val)
    BY <1>1, <2>1, ReturnsDoes
  <2>3. GoOn(m).ret.val = val
    BY <2>2 DEF Outcome
  <2> QED BY <1>1, <2>2, <2>3, ZenonT(30) DEF Same, c
<1>4. CASE c.op # "yield"
  <2>1. Same(GoOn(m), m1)
    BY <1>1, <1>2, <1>4, ReturnsDoes
  <2> QED BY <1>1, <1>4, <2>1, ZenonT(30) DEF Same, c
<1> QED BY <1>3, <1>4, ZenonT(30)

\* One that waited in Resume goes on: what it resumed has yielded or ended.
LEMMA GoOnResumes ==
  ASSUME NEW m, IsMgr(m), m.call[m.k.cur].op = "resume"
  PROVE  \E m1 : /\ IsMgr(m1) /\ m1.pool = m.pool /\ m1.k = m.k /\ m1.info = m.info /\ m1.runid = 0
                 /\ m1.call = [m.call EXCEPT ![m.k.cur] = NoCall]
                 /\ LET id == m.call[m.k.cur].id
                    IN  GoOn(m) = IF m.k.status[CRem(id)] = "END"
                                  THEN Returns(FreeCo(m1, id), "resume", 0)
                                  ELSE Returns(m1, "resume", id)
<1> DEFINE c == m.call[m.k.cur]
           m0 == [m EXCEPT !.call[m.k.cur] = NoCall]
           m1 == [m0 EXCEPT !.runid = 0]
<1>1. /\ IsMgr(m0) /\ m0.pool = m.pool /\ m0.k = m.k /\ m0.info = m.info
      /\ m0.call = [m.call EXCEPT ![m.k.cur] = NoCall]
  BY DEF IsMgr
<1>2. GoOn(m) = ResumeReturns(m0, c.id)
  BY ZenonT(30) DEF GoOn
<1> HIDE DEF m0, c
<1>3. /\ IsMgr(m1) /\ m1.pool = m0.pool /\ m1.k = m0.k /\ m1.info = m0.info /\ m1.runid = 0
      /\ m1.call = m0.call
  BY <1>1 DEF IsMgr
<1>4. GoOn(m) = IF m0.k.status[CRem(c.id)] = "END" THEN Returns(FreeCo(m1, c.id), "resume", 0)
                ELSE Returns(m1, "resume", c.id)
  BY <1>2, ZenonT(30) DEF ResumeReturns
<1> HIDE DEF m1
<1> WITNESS m1
<1> QED BY <1>1, <1>3, <1>4, ZenonT(30) DEF c

-----------------------------------------------------------------------------
(* What the operations preserve *)

\* The objects of the pool: what it holds can be resumed, but for the coroutines
\* in e, which have ended and are about to be released.
Objects(p, k, i, e) ==
  /\ i \in [Slots -> Infos]
  /\ \A s \in UsedSlots(p) : /\ i[s].id = LogicIdx(p, s)
                             /\ s \notin e => k.status[s] \in {"READY", "RUN", "SUSPEND"}
  /\ \A s \in Slots : i[s].id # 0 => CRem(i[s].id) = s
  /\ \A s \in FreeSlots(p) : ~k.stack[s]

\* The coroutines suspended in Yield: their isTimeOut is not set, but for those
\* in a, which a check is about to resume.
Sleepers(p, cl, i, a) ==
  \A s \in Slots : cl[s].op = "yield" =>
    s \in UsedSlots(p) /\ cl[s].id = LogicIdx(p, s) /\ (s \notin a => ~i[s].isTimeOut)

RunId(k, i, r) == r \in Nat /\ (r # 0 => k.cur # Main /\ i[k.cur].id = r)

LEMMA RunIdNone == \A k, i : RunId(k, i, 0)
BY DEF RunId

MgrOK(m, e, a) ==
  /\ IsMgr(m)
  /\ Control(m.pool, m.k, m.call)
  /\ Objects(m.pool, m.k, m.info, e)
  /\ Sleepers(m.pool, m.call, m.info, a)
  /\ RunId(m.k, m.info, m.runid)

LEMMA SameOK ==
  ASSUME NEW m, NEW e, NEW a, MgrOK(m, e, a), NEW r, Same(r, m)
  PROVE  MgrOK(r, e, a)
BY ZenonT(30) DEF MgrOK, Same

LEMMA FreshOK ==
  ASSUME NEW i, i \in [Slots -> Infos], \A s \in Slots : i[s].id # 0 => CRem(i[s].id) = s
  PROVE  MgrOK(Fresh(i), {}, {})
<1> DEFINE m == Fresh(i)
<1>1. /\ IsMgr(m) /\ m.pool = objpool_init /\ m.k = schedule /\ m.info = i /\ m.runid = 0
      /\ m.call = [x \in Contexts |-> NoCall]
  BY ZenonT(30) DEF Fresh, IsMgr
<1> HIDE DEF m
<1>2. /\ Sound(m.k) /\ m.k.cur = Main
      /\ \A s \in Slots : m.k.status[s] = "NONE" /\ ~m.k.stack[s]
  BY <1>1, MainIsNoSlot DEF Sound, schedule, Schedules, Statuses
<1>3. UsedSlots(m.pool) = {} /\ FreeSlots(m.pool) = Slots
  BY <1>1 DEF UsedSlots, FreeSlots, objpool_init
<1>4. m.call \in [Contexts -> Calls] /\ \A x \in Contexts : m.call[x].op = "none"
  BY <1>1, CallTypes
<1>5. \A s \in Slots : s \in Contexts /\ s # Main
  BY MainIsNoSlot, ZenonT(30)
<1>6. Chain(m.pool, m.k, m.call)
  BY <1>2, <1>4, <1>5, ZenonT(30) DEF Chain, Running, Waits
<1>7. Levels(m.k, m.call, [x \in Contexts |-> 0])
  BY <1>2, <1>4, <1>5, MainIsNoSlot, ZenonT(30) DEF Levels, Running, Waits
<1>10. FramesOK(m.k, m.call)
  BY <1>2, <1>4, <1>5 DEF FramesOK, Running, Waits
<1>8. Control(m.pool, m.k, m.call)
  BY <1>1, <1>2, <1>4, <1>5, <1>6, <1>7, <1>10, InitPoolOK, MainIsNoSlot, ZenonT(30) DEF Control
<1>9. Objects(m.pool, m.k, m.info, {}) /\ Sleepers(m.pool, m.call, m.info, {}) /\ RunId(m.k, m.info, m.runid)
  BY <1>1, <1>2, <1>3, <1>4, <1>5 DEF Objects, Sleepers, RunId
<1> QED BY <1>1, <1>2, <1>8, <1>9, ZenonT(30) DEF MgrOK, m

\* A coroutine that is not active is released.
LEMMA FreeCoOK ==
  ASSUME NEW m, NEW s \in UsedSlots(m.pool), NEW e, e \subseteq {s}, MgrOK(m, e, {}),
         ~Running(m.k, m.call, s)
  PROVE  LET f == FreeCo(m, LogicIdx(m.pool, s))
         IN  /\ MgrOK(f, {}, {}) /\ f.pool = ReturnSlot(m.pool, s)
             /\ f.call = [m.call EXCEPT ![s] = NoCall] /\ f.k.cur = m.k.cur /\ f.k.parent = m.k.parent
<1> DEFINE id == LogicIdx(m.pool, s)
           f == FreeCo(m, id)
           q == ReturnSlot(m.pool, s)
<1>1. /\ PoolOK(m.pool) /\ PoolType(m.pool) /\ m.k \in Schedules /\ s \in Slots
      /\ s \in Contexts /\ m.call \in [Contexts -> Calls]
  BY MainIsNoSlot, ZenonT(30) DEF MgrOK, Control, Sound, PoolOK, UsedSlots
<1>2. id \in Int /\ id \in LiveIds(m.pool) /\ CRem(id) = s
  BY <1>1, IdOfUsed
<1>3. IsLive(m.pool, id)
  BY <1>1, <1>2, IsLiveIff, ZenonT(30)
<1>4. /\ IsMgr(f) /\ f.pool = q /\ f.k = [m.k EXCEPT !.stack[s] = FALSE]
      /\ f.info = m.info /\ f.runid = m.runid /\ f.call = [m.call EXCEPT ![s] = NoCall]
  BY <1>1, <1>2, <1>3, FreeCoDoes DEF MgrOK
<1>5. Control(f.pool, f.k, f.call)
  BY <1>4, FreeControl DEF MgrOK
<1> HIDE DEF f, q, id
<1>6. /\ UsedSlots(q) = UsedSlots(m.pool) \ {s} /\ FreeSlots(q) = FreeSlots(m.pool) \union {s}
      /\ \A t : LogicIdx(q, t) = LogicIdx(m.pool, t)
  BY <1>1, ReturnDoes, ZenonT(30) DEF q
<1>7. /\ f.k.cur = m.k.cur /\ f.k.status = m.k.status /\ f.k.parent = m.k.parent
      /\ f.k.second = m.k.second /\ f.k.rt = m.k.rt
      /\ ~f.k.stack[s] /\ \A t \in Slots \ {s} : f.k.stack[t] = m.k.stack[t]
  BY <1>1, <1>4 DEF Schedules
<1>8. Objects(f.pool, f.k, f.info, {})
  <2>1. \A t \in UsedSlots(q) : /\ m.info[t].id = LogicIdx(q, t)
                                /\ f.k.status[t] \in {"READY", "RUN", "SUSPEND"}
    BY <1>6, <1>7, ZenonT(30) DEF MgrOK, Objects
  <2>2. \A t \in FreeSlots(q) : ~f.k.stack[t]
    BY <1>6, <1>7, ZenonT(30) DEF MgrOK, Objects, FreeSlots
  <2> QED BY <1>4, <2>1, <2>2, ZenonT(30) DEF MgrOK, Objects
<1>9. Sleepers(f.pool, f.call, f.info, {})
  <2> SUFFICES ASSUME NEW t \in Slots, f.call[t].op = "yield"
               PROVE  t \in UsedSlots(q) /\ f.call[t].id = LogicIdx(q, t) /\ ~f.info[t].isTimeOut
    BY <1>4, ZenonT(30) DEF Sleepers
  <2>1. t # s /\ f.call[t] = m.call[t]
    BY <1>1, <1>4, CallTypes, MainIsNoSlot
  <2> QED BY <1>4, <1>6, <2>1, ZenonT(30) DEF MgrOK, Sleepers
<1>10. RunId(f.k, f.info, f.runid)
  BY <1>4, <1>7, ZenonT(30) DEF MgrOK, RunId
<1> QED BY <1>4, <1>5, <1>7, <1>8, <1>9, <1>10, ZenonT(30) DEF MgrOK, f, q, id

LEMMA AllocFull ==
  ASSUME NEW m, MgrOK(m, {}, {}), ~(m.pool.usedCount < Cap)
  PROVE  Same(Alloc(m), m)
<1>1. objpool_alloc(m.pool).ret < 0
  BY CapAssumption DEF objpool_alloc, ERR_OBJPOOL_FULL, MgrOK, Control, PoolOK, PoolType
<1>2. Alloc(m) = Returns(m, "alloc", -1)
  BY <1>1, ZenonT(30) DEF Alloc
<1> QED BY <1>2, ReturnsDoes, ZenonT(30) DEF MgrOK

LEMMA AllocOK ==
  ASSUME NEW m, MgrOK(m, {}, {}), m.pool.usedCount < Cap
  PROVE  LET r == Alloc(m)
             h == m.pool.freeHead
         IN  /\ MgrOK(r, {}, {}) /\ r.pool = TakeFreeHead(m.pool)
             /\ r.call = m.call /\ r.k.cur = m.k.cur /\ r.k.parent = m.k.parent /\ r.runid = m.runid
             /\ \A s \in UsedSlots(m.pool) : r.info[s] = m.info[s]
<1> DEFINE p == m.pool
           q == TakeFreeHead(p)
           h == p.freeHead
           id == LogicIdx(q, h)
           k1 == co_init(m.k, h, Mode = "MALLOC")
           k2 == IF isDynamicStack /\ Reserve THEN [k1 EXCEPT !.stack[h] = TRUE] ELSE k1
           blank == [BlankInfo EXCEPT !.id = id]
           i2 == [m.info EXCEPT ![h] = blank]
           m2 == [m EXCEPT !.pool = q, !.info = i2, !.k = k2]
           r == Alloc(m)
<1>1. PoolOK(p) /\ Sound(m.k) /\ m.k \in Schedules /\ IsMgr(m) /\ m.info \in [Slots -> Infos]
  BY ZenonT(30) DEF MgrOK, Control, Sound, Objects
<1>2. /\ objpool_alloc(p) = [pool |-> q, ret |-> id]
      /\ PoolOK(q) /\ h \in FreeSlots(p)
      /\ UsedSlots(q) = UsedSlots(p) \union {h} /\ FreeSlots(q) = FreeSlots(p) \ {h}
      /\ id \in 1 .. MaxInt /\ CRem(id) = h
      /\ \A s \in UsedSlots(p) : s # h /\ LogicIdx(q, s) = LogicIdx(p, s)
  BY <1>1, TakeDoes, ZenonT(30)
<1>3. h \in Slots
  BY <1>2, ZenonT(30) DEF FreeSlots
<1>4. Alloc(m) = Returns(m2, "alloc", id)
  <2>1. objpool_alloc(p).ret = id /\ objpool_alloc(p).pool = q /\ ~(id < 0)
    BY <1>2, MaxIntAssumption
  <2>2. m2 = [m EXCEPT !.pool = q, !.info[h] = blank, !.k = k2]
    BY <1>1, ZenonT(30) DEF IsMgr
  <2> HIDE DEF q, h, id, p
  <2> QED BY <1>2, <2>1, <2>2, ZenonT(30) DEF Alloc, p
<1>5. /\ k1 \in Schedules /\ k1.run = m.k.run /\ k1.cur = m.k.cur /\ k1.ctx = m.k.ctx
      /\ k1.parent = m.k.parent /\ k1.rt = m.k.rt
      /\ k1.status = [m.k.status EXCEPT ![h] = "READY"]
      /\ \A s \in Slots \ {h} : k1.second[s] = m.k.second[s] /\ k1.stack[s] = m.k.stack[s]
                               /\ k1.copy[s] = m.k.copy[s]
  <2> HIDE DEF h
  <2>1. Main \in Contexts /\ (Mode = "MALLOC") \in BOOLEAN
    BY MainIsNoSlot, ZenonT(30)
  <2> QED BY <1>1, <1>3, <2>1, ZenonT(30) DEF Schedules, Statuses, co_init
<1> HIDE DEF k1
<1>6. /\ k2 \in Schedules /\ k2.run = k1.run /\ k2.cur = k1.cur /\ k2.ctx = k1.ctx
      /\ k2.parent = k1.parent /\ k2.rt = k1.rt /\ k2.status = k1.status /\ k2.second = k1.second
      /\ k2.copy = k1.copy
      /\ \A s \in Slots \ {h} : k2.stack[s] = k1.stack[s]
  BY <1>3, <1>5, ZenonT(30) DEF Schedules
<1> HIDE DEF k2
<1> HIDE DEF q, h, id
<1>7. blank \in Infos /\ blank.id = id /\ blank.isTimeOut = FALSE
  <2>1. id \in Nat
    BY <1>2, MaxIntAssumption
  <2> QED BY <2>1, ZenonT(30) DEF BlankInfo, Infos
<1>8. /\ i2 \in [Slots -> Infos] /\ i2[h].id = id /\ i2[h].isTimeOut = FALSE
      /\ \A s \in Slots \ {h} : i2[s] = m.info[s]
  BY <1>1, <1>3, <1>7, ZenonT(30)
<1> HIDE DEF i2
<1>9. /\ IsMgr(m2) /\ m2.pool = q /\ m2.k = k2 /\ m2.info = i2 /\ m2.runid = m.runid /\ m2.call = m.call
  <2> DEFINE a1 == [m EXCEPT !.pool = q]
             a2 == [a1 EXCEPT !.info = i2]
             a3 == [a2 EXCEPT !.k = k2]
  <2>1. /\ IsMgr(a1) /\ a1.pool = q /\ a1.k = m.k /\ a1.info = m.info
        /\ a1.runid = m.runid /\ a1.call = m.call
    BY <1>1 DEF IsMgr
  <2> HIDE DEF a1
  <2>2. /\ IsMgr(a2) /\ a2.pool = q /\ a2.k = m.k /\ a2.info = i2
        /\ a2.runid = m.runid /\ a2.call = m.call
    BY <2>1 DEF IsMgr
  <2>3. m2 = a3
    BY ZenonT(30) DEF a1
  <2> HIDE DEF a2
  <2>4. /\ IsMgr(a3) /\ a3.pool = q /\ a3.k = k2 /\ a3.info = i2
        /\ a3.runid = m.runid /\ a3.call = m.call
    BY <2>2 DEF IsMgr
  <2> HIDE DEF a3, m2
  <2> QED BY <2>3, <2>4, ZenonT(30)
<1> HIDE DEF m2
<1>10. Same(r, m2)
  BY <1>4, <1>9, ReturnsDoes, ZenonT(30)
<1>11. Control(q, k2, m.call) /\ ~Running(m.k, m.call, h)
  <2>1. Sound(k2) /\ k2.cur = m.k.cur /\ k2.parent = m.k.parent /\ k2.status = [m.k.status EXCEPT ![h] = "READY"]
    BY <1>1, <1>5, <1>6, ZenonT(30) DEF Sound
  <2>2. /\ k2.rt = m.k.rt
        /\ \A s \in Slots \ {h} : k2.second[s] = m.k.second[s] /\ k2.copy[s] = m.k.copy[s]
    BY <1>5, <1>6, ZenonT(30)
  <2> QED BY <2>1, <2>2, TakeControl, ZenonT(30) DEF MgrOK, q, h
<1>12. Objects(q, k2, i2, {})
  <2>1. \A s \in UsedSlots(q) : i2[s].id = LogicIdx(q, s) /\ k2.status[s] \in {"READY", "RUN", "SUSPEND"}
    <3> SUFFICES ASSUME NEW s \in UsedSlots(q)
                 PROVE  i2[s].id = LogicIdx(q, s) /\ k2.status[s] \in {"READY", "RUN", "SUSPEND"}
      BY ZenonT(30)
    <3>1. CASE s = h
      BY <1>1, <1>3, <1>5, <1>6, <1>8, <3>1 DEF id, Schedules
    <3>2. CASE s # h
      <4>1. s \in UsedSlots(p) /\ s \in Slots
        BY <1>2, <3>2, ZenonT(30) DEF UsedSlots
      <4>2. i2[s].id = LogicIdx(q, s)
        BY <1>2, <1>8, <3>2, <4>1, ZenonT(30) DEF MgrOK, Objects
      <4>3. k2.status[s] = m.k.status[s]
        BY <1>1, <1>3, <1>5, <1>6, <3>2, <4>1 DEF Schedules
      <4> QED BY <4>1, <4>2, <4>3, ZenonT(30) DEF MgrOK, Objects
    <3> QED BY <3>1, <3>2, ZenonT(30)
  <2>2. \A s \in Slots : i2[s].id # 0 => CRem(i2[s].id) = s
    BY <1>2, <1>8, ZenonT(30) DEF MgrOK, Objects
  <2>3. \A s \in FreeSlots(q) : ~k2.stack[s]
    BY <1>2, <1>5, <1>6, ZenonT(30) DEF MgrOK, Objects, FreeSlots
  <2> QED BY <1>8, <2>1, <2>2, <2>3, ZenonT(30) DEF Objects
<1>13. Sleepers(q, m.call, i2, {})
  BY <1>2, <1>8, ZenonT(30) DEF MgrOK, Sleepers
<1>14. h # m.k.cur
  BY <1>11, ZenonT(30) DEF Running
<1>15. RunId(k2, i2, m.runid)
  <2>1. m.k.cur \in Slots \/ m.k.cur = Main
    BY <1>1, ZenonT(30) DEF Schedules, Contexts
  <2> QED BY <1>5, <1>6, <1>8, <1>14, <2>1 DEF MgrOK, RunId
<1>16. MgrOK(m2, {}, {})
  BY <1>9, <1>11, <1>12, <1>13, <1>15, ZenonT(30) DEF MgrOK
<1>17. MgrOK(r, {}, {})
  BY <1>10, <1>16, SameOK, ZenonT(30)
<1>18. \A s \in UsedSlots(p) : i2[s] = m.info[s]
  BY <1>2, <1>8, ZenonT(30) DEF UsedSlots
<1> QED BY <1>5, <1>6, <1>9, <1>10, <1>17, <1>18, ZenonT(30) DEF Same, q, h

\* A coroutine of the pool that is not active is resumed.
LEMMA ResumeOK ==
  ASSUME NEW m, NEW c \in UsedSlots(m.pool), NEW a, a \subseteq {c}, MgrOK(m, {}, a),
         ~Running(m.k, m.call, c), ReadyOnly /\ m.k.cur # Main => m.k.status[c] = "READY"
  PROVE  LET id == LogicIdx(m.pool, c)
             r == Resume(m, id)
         IN  /\ MgrOK(r, {}, {})
             /\ r.pool = m.pool /\ r.info = m.info /\ r.runid = id /\ r.k.cur = c
             /\ r.k.parent = [m.k.parent EXCEPT ![c] = m.k.cur]
             /\ r.call = [m.call EXCEPT ![m.k.cur] = InCall("resume", id), ![c] = NoCall]
             /\ m.call[c].op = "yield" =>
                  r.ret.val = (IF m.info[c].isTimeOut THEN YIELD_TIMEOUT ELSE 0)
<1> DEFINE id == LogicIdx(m.pool, c)
           x == m.k.cur
           o == co_resume(m.k, c)
           m1 == [m EXCEPT !.runid = id]
           m2 == [m1 EXCEPT !.k = o.k]
           m3 == [m2 EXCEPT !.call[x] = InCall("resume", id)]
           r == GoOn(m3)
<1>1. /\ PoolOK(m.pool) /\ PoolType(m.pool) /\ Sound(m.k) /\ m.k \in Schedules /\ IsMgr(m)
      /\ c \in Slots /\ c \in Contexts /\ c # x /\ x \in Contexts
      /\ m.call \in [Contexts -> Calls] /\ m.call[c].op # "resume"
  BY MainIsNoSlot, ZenonT(30) DEF MgrOK, Control, Sound, Schedules, PoolOK, UsedSlots, Running, Waits
<1>2. id \in 1 .. MaxInt /\ id \in LiveIds(m.pool) /\ CRem(id) = c
  BY <1>1, IdOfUsed, ZenonT(30)
<1>3. IsLive(m.pool, id)
  BY <1>1, <1>2, IsLiveIff
<1>4. m.k.status[c] \in {"READY", "SUSPEND"} /\ m.info[c].id = id
  BY <1>1, ZenonT(30) DEF MgrOK, Objects, Control
<1>5. o.ret = 0 /\ Entered(m.k, o.k, c)
  BY <1>1, <1>4, ResumeEnters, ZenonT(30)
<1> HIDE DEF o, id
<1>6. Resume(m, id) = r
  <2>1. ~(o.ret < 0)
    BY <1>5
  <2> QED BY <1>2, <1>3, <2>1, ZenonT(30) DEF Resume, o
<1>7. /\ IsMgr(m1) /\ m1.pool = m.pool /\ m1.k = m.k /\ m1.info = m.info /\ m1.runid = id
      /\ m1.call = m.call
  BY <1>1 DEF IsMgr
<1> HIDE DEF m1
<1>8. /\ IsMgr(m2) /\ m2.pool = m1.pool /\ m2.k = o.k /\ m2.info = m1.info /\ m2.runid = m1.runid
      /\ m2.call = m1.call
  BY <1>7 DEF IsMgr
<1> HIDE DEF m2
<1>9. /\ IsMgr(m3) /\ m3.pool = m2.pool /\ m3.k = m2.k /\ m3.info = m2.info /\ m3.runid = m2.runid
      /\ m3.call = [m2.call EXCEPT ![x] = InCall("resume", id)]
  BY <1>8 DEF IsMgr
<1> HIDE DEF m3
<1>10. m3.k.cur = c /\ m3.call[c] = m.call[c]
  BY <1>1, <1>5, <1>7, <1>8, <1>9 DEF Entered
<1>11. /\ IsMgr(r) /\ r.pool = m3.pool /\ r.k = m3.k /\ r.info = m3.info /\ r.runid = m3.runid
       /\ r.call = [m3.call EXCEPT ![c] = NoCall]
       /\ m.call[c].op = "yield" =>
            r.ret.val = (IF m3.info[CRem(m.call[c].id)].isTimeOut THEN YIELD_TIMEOUT ELSE 0)
  <2>1. m3.call[m3.k.cur].op # "resume"
    BY <1>1, <1>10, ZenonT(30)
  <2>2. /\ IsMgr(r) /\ r.pool = m3.pool /\ r.k = m3.k /\ r.info = m3.info /\ r.runid = m3.runid
        /\ r.call = [m3.call EXCEPT ![m3.k.cur] = NoCall]
        /\ m3.call[m3.k.cur].op = "yield" =>
             r.ret.val = (IF m3.info[CRem(m3.call[m3.k.cur].id)].isTimeOut THEN YIELD_TIMEOUT ELSE 0)
    BY <1>9, <2>1, GoOnDoes, ZenonT(30)
  <2> HIDE DEF r
  <2> QED BY <1>10, <2>2, ZenonT(30)
<1> HIDE DEF r
<1>12. /\ r.pool = m.pool /\ r.k = o.k /\ r.info = m.info /\ r.runid = id
       /\ r.call = [m.call EXCEPT ![x] = InCall("resume", id), ![c] = NoCall]
  BY <1>7, <1>8, <1>9, <1>11
<1>13. Control(r.pool, r.k, r.call)
  <2>1. Control(m.pool, m.k, m.call)
    BY ZenonT(30) DEF MgrOK
  <2> QED BY <1>4, <1>5, <1>12, <2>1, EnterControl DEF id
<1>14. /\ r.k.cur = c /\ r.k.parent = [m.k.parent EXCEPT ![c] = x]
       /\ r.k.status = [s \in Slots |-> IF s = c THEN "RUN"
                                        ELSE IF s = x THEN "SUSPEND" ELSE m.k.status[s]]
       /\ \A s \in Slots \ {x} : r.k.stack[s] = m.k.stack[s]
  BY <1>5, <1>12, ZenonT(30) DEF Entered
<1>15. Objects(r.pool, r.k, r.info, {})
  <2>1. \A s \in UsedSlots(m.pool) : r.k.status[s] \in {"READY", "RUN", "SUSPEND"}
    BY <1>14 DEF MgrOK, Objects, UsedSlots
  <2>2. ASSUME NEW s \in FreeSlots(m.pool) PROVE ~r.k.stack[s]
    <3>1. s # x
      <4>1. x \in Slots => x \in UsedSlots(m.pool)
        BY ZenonT(30) DEF MgrOK, Control, Chain, Running
      <4> QED BY <2>2, <4>1, ZenonT(30) DEF UsedSlots, FreeSlots
    <3> QED BY <1>14, <2>2, <3>1, ZenonT(30) DEF MgrOK, Objects, FreeSlots
  <2> QED BY <1>12, <2>1, <2>2, ZenonT(30) DEF MgrOK, Objects
<1>16. Sleepers(r.pool, r.call, r.info, {})
  <2> SUFFICES ASSUME NEW s \in Slots, r.call[s].op = "yield"
               PROVE  s \in UsedSlots(m.pool) /\ r.call[s].id = LogicIdx(m.pool, s) /\ ~m.info[s].isTimeOut
    BY <1>12, ZenonT(30) DEF Sleepers
  <2>1. s # c /\ r.call[s] = m.call[s]
    BY <1>1, <1>2, <1>12, CallTypes, MainIsNoSlot
  <2> QED BY <2>1, ZenonT(30) DEF MgrOK, Sleepers
<1>17. RunId(r.k, r.info, r.runid)
  BY <1>1, <1>2, <1>4, <1>12, <1>14, MainIsNoSlot DEF RunId
<1>18. MgrOK(r, {}, {})
  BY <1>11, <1>13, <1>14, <1>15, <1>16, <1>17, ZenonT(30) DEF MgrOK
<1>19. m.call[c].op = "yield" => CRem(m.call[c].id) = c
  BY <1>1, <1>2, ZenonT(30) DEF MgrOK, Sleepers, id
<1>20. m3.info = m.info
  BY <1>7, <1>8, <1>9, ZenonT(30)
<1> QED BY <1>6, <1>11, <1>12, <1>14, <1>18, <1>19, <1>20, ZenonT(30) DEF id

LEMMA ResumeRefused ==
  ASSUME NEW m, IsMgr(m), NEW id, ~IsLive(m.pool, id)
  PROVE  Same(Resume(m, id), m)
<1>1. Resume(m, id) = Returns(m, "resume", -1)
  BY ZenonT(30) DEF Resume
<1> QED BY <1>1, ReturnsDoes, ZenonT(30)

\* m1 is m after the coroutine that executed has given control back in state st,
\* with call v, and Resume has reset m_iRunningID.
GivenBack(m, m1, st, v) ==
  LET c == m.k.cur
  IN  /\ IsMgr(m1) /\ Left(m.k, m1.k, st) /\ m1.pool = m.pool /\ m1.runid = 0
      /\ m1.call = [m.call EXCEPT ![c] = v, ![m.k.parent[c]] = NoCall]
      /\ \/ v.op = "none"
         \/ v.op = "yield" /\ v.id = LogicIdx(m.pool, c) /\ ~m1.info[c].isTimeOut
      /\ m1.info \in [Slots -> Infos] /\ m1.info[c].id = m.info[c].id
      /\ \A s \in Slots \ {c} : m1.info[s] = m.info[s]

LEMMA BackOK ==
  ASSUME NEW m, MgrOK(m, {}, {}), m.k.cur # Main,
         NEW st \in {"SUSPEND", "END"}, NEW v \in Calls, NEW m1, GivenBack(m, m1, st, v)
  PROVE  /\ MgrOK(m1, IF st = "END" THEN {m.k.cur} ELSE {}, {})
         /\ ~Running(m1.k, m1.call, m.k.cur)
<1> DEFINE c == m.k.cur
           w == m.k.parent[c]
<1>0. /\ IsMgr(m1) /\ Left(m.k, m1.k, st) /\ m1.pool = m.pool /\ m1.runid = 0
      /\ m1.call = [m.call EXCEPT ![c] = v, ![w] = NoCall]
      /\ \/ v.op = "none"
         \/ v.op = "yield" /\ v.id = LogicIdx(m.pool, c) /\ ~m1.info[c].isTimeOut
      /\ m1.info \in [Slots -> Infos] /\ m1.info[c].id = m.info[c].id
      /\ \A s \in Slots \ {c} : m1.info[s] = m.info[s]
  BY ZenonT(30) DEF GivenBack
<1>1. /\ c \in Slots /\ c \in UsedSlots(m.pool) /\ w \in Contexts /\ w # c /\ c \in Contexts
      /\ m.call \in [Contexts -> Calls] /\ Control(m.pool, m.k, m.call)
  BY ParentWaits, MainIsNoSlot, ZenonT(30) DEF MgrOK, Control
<1>2. /\ m1.call[c] = v /\ m1.call[w].op = "none"
      /\ \A x \in Contexts \ {c, w} : m1.call[x] = m.call[x]
  BY <1>0, <1>1, CallTypes
<1>3. Control(m1.pool, m1.k, m1.call)
  BY <1>0, <1>1, LeaveControl
<1>4. /\ m1.k.cur = w
      /\ m1.k.status = [s \in Slots |-> IF s = c THEN st ELSE IF s = w THEN "RUN" ELSE m.k.status[s]]
      /\ \A s \in Slots \ {c} : m1.k.stack[s] = m.k.stack[s]
  BY <1>0, ZenonT(30) DEF Left
<1>5. ~Running(m1.k, m1.call, c)
  BY <1>0, <1>1, <1>2, <1>4, ZenonT(30) DEF Running, Waits
<1> HIDE DEF w, c
<1>6. Objects(m1.pool, m1.k, m1.info, IF st = "END" THEN {c} ELSE {})
  <2>1. ASSUME NEW s \in UsedSlots(m.pool)
        PROVE  /\ m1.info[s].id = LogicIdx(m.pool, s)
               /\ s \notin (IF st = "END" THEN {c} ELSE {}) => m1.k.status[s] \in {"READY", "RUN", "SUSPEND"}
    <3>1. s \in Slots /\ m.info[s].id = LogicIdx(m.pool, s) /\ m.k.status[s] \in {"READY", "RUN", "SUSPEND"}
      BY <1>0, ZenonT(30) DEF MgrOK, Objects, UsedSlots
    <3>2. m1.info[s].id = m.info[s].id
      BY <1>0, <3>1, ZenonT(30) DEF c
    <3>3. m1.k.status[s] = IF s = c THEN st ELSE IF s = w THEN "RUN" ELSE m.k.status[s]
      BY <1>0, <1>4, <3>1, ZenonT(30)
    <3> QED BY <1>0, <3>1, <3>2, <3>3, ZenonT(30)
  <2>2. \A s \in Slots : m1.info[s].id # 0 => CRem(m1.info[s].id) = s
    BY <1>0 DEF MgrOK, Objects, c
  <2>3. \A s \in FreeSlots(m.pool) : ~m1.k.stack[s]
    BY <1>0, <1>1, <1>4, ZenonT(30) DEF MgrOK, Objects, FreeSlots, UsedSlots
  <2> QED BY <1>0, <2>1, <2>2, <2>3, ZenonT(30) DEF Objects
<1>7. Sleepers(m1.pool, m1.call, m1.info, {})
  <2> SUFFICES ASSUME NEW s \in Slots, m1.call[s].op = "yield"
               PROVE  s \in UsedSlots(m.pool) /\ m1.call[s].id = LogicIdx(m.pool, s) /\ ~m1.info[s].isTimeOut
    BY <1>0, ZenonT(30) DEF Sleepers
  <2>1. CASE s = c
    BY <1>0, <1>1, <1>2, <2>1, ZenonT(30) DEF c
  <2>2. CASE s # c
    <3>1. m1.call[s] = m.call[s] /\ m1.info[s] = m.info[s]
      BY <1>0, <1>2, <2>2, MainIsNoSlot, ZenonT(30) DEF c
    <3> QED BY <1>0, <3>1, ZenonT(30) DEF MgrOK, Sleepers
  <2> QED BY <1>0, <2>1, <2>2, ZenonT(30)
<1>8. RunId(m1.k, m1.info, m1.runid)
  BY <1>0, RunIdNone, ZenonT(30)
<1> QED BY <1>0, <1>3, <1>4, <1>5, <1>6, <1>7, <1>8, ZenonT(30) DEF MgrOK, c

\* The coroutine that executes is suspended by Yield.
LEMMA YieldOK ==
  ASSUME NEW m, MgrOK(m, {}, {}), m.runid # 0, NEW t \in Nat
  PROVE  LET r == Yield(m, t)
             c == m.k.cur
             w == m.k.parent[c]
         IN  /\ MgrOK(r, {}, {})
             /\ r.pool = m.pool /\ r.runid = 0 /\ r.k.cur = w
             /\ r.k.parent = [m.k.parent EXCEPT ![c] = Main]
             /\ r.call = [m.call EXCEPT ![c] = InCall("yield", m.runid), ![w] = NoCall]
             /\ \A s \in Slots \ {c} : r.info[s] = m.info[s]
<1> DEFINE c == m.k.cur
           w == m.k.parent[c]
           id == m.runid
           v == InCall("yield", id)
           i2 == [m.info EXCEPT ![c].expire = t, ![c].isTimeOut = FALSE]
           m1 == [m EXCEPT !.info = i2]
           m2 == [m1 EXCEPT !.call[c] = v]
           m3 == [m2 EXCEPT !.k = co_yield(m.k)]
<1>1. /\ c # Main /\ m.info[c].id = id /\ Control(m.pool, m.k, m.call) /\ IsMgr(m)
      /\ m.info \in [Slots -> Infos] /\ PoolOK(m.pool) /\ PoolType(m.pool) /\ Sound(m.k)
      /\ m.call \in [Contexts -> Calls]
  BY ZenonT(30) DEF MgrOK, RunId, Control, Objects, PoolOK
<1>2. /\ c \in Slots /\ c \in UsedSlots(m.pool) /\ w \in Contexts /\ w # c /\ c \in Contexts
      /\ m.call[w].op = "resume" /\ m.call[w].id = LogicIdx(m.pool, c)
  BY <1>1, ParentWaits, MainIsNoSlot
<1>3. id = LogicIdx(m.pool, c)
  BY <1>1, <1>2, ZenonT(30) DEF MgrOK, Objects
<1>4. id \in 1 .. MaxInt /\ id \in LiveIds(m.pool) /\ CRem(id) = c
  BY <1>1, <1>2, <1>3, IdOfUsed
<1>5. IsLive(m.pool, id)
  BY <1>1, <1>4, IsLiveIff
<1>6. v \in Calls /\ v.op = "yield" /\ v.id = id
  BY <1>4, CallTypes
<1>7. Left(m.k, co_yield(m.k), "SUSPEND")
  BY <1>1, <1>2, YieldLeaves, ZenonT(30)
<1>8. /\ i2 \in [Slots -> Infos] /\ i2[c].id = m.info[c].id /\ i2[c].isTimeOut = FALSE
      /\ \A s \in Slots \ {c} : i2[s] = m.info[s]
  BY <1>1, <1>2, ZenonT(30) DEF Infos
<1>9. Yield(m, t) = GoOn(m3)
  <2>1. Yield(m, t) = GoOn([[m EXCEPT !.info[c].expire = t, !.info[c].isTimeOut = FALSE, !.call[c] = v]
                              EXCEPT !.k = co_yield(m.k)])
    BY <1>4, <1>5, ZenonT(30) DEF Yield
  <2> DEFINE b1 == [m EXCEPT !.info[c].expire = t]
             b2 == [b1 EXCEPT !.info[c].isTimeOut = FALSE]
  <2>2. Yield(m, t) = GoOn([[b2 EXCEPT !.call[c] = v] EXCEPT !.k = co_yield(m.k)])
    BY <2>1, ZenonT(30)
  <2>3. b1 = [ pool |-> m.pool, k |-> m.k, info |-> [m.info EXCEPT ![c].expire = t],
               runid |-> m.runid, call |-> m.call, ret |-> m.ret ]
    BY <1>1 DEF IsMgr
  <2> HIDE DEF b1
  <2>4. b2 = [ pool |-> m.pool, k |-> m.k, info |-> i2,
               runid |-> m.runid, call |-> m.call, ret |-> m.ret ]
    BY <2>3
  <2> HIDE DEF b2, i2
  <2>5. m1 = [ pool |-> m.pool, k |-> m.k, info |-> i2,
               runid |-> m.runid, call |-> m.call, ret |-> m.ret ]
    BY <1>1 DEF IsMgr
  <2>6. b2 = m1
    BY <2>4, <2>5, ZenonT(30)
  <2> QED BY <2>2, <2>6, ZenonT(30)
<1> HIDE DEF v, id, i2
<1>10. /\ IsMgr(m1) /\ m1.pool = m.pool /\ m1.k = m.k /\ m1.info = i2 /\ m1.call = m.call
  BY <1>1 DEF IsMgr
<1> HIDE DEF m1
<1>11. /\ IsMgr(m2) /\ m2.pool = m1.pool /\ m2.k = m1.k /\ m2.info = m1.info
       /\ m2.call = [m1.call EXCEPT ![c] = v]
  BY <1>10 DEF IsMgr
<1> HIDE DEF m2
<1>12. /\ IsMgr(m3) /\ m3.pool = m2.pool /\ m3.k = co_yield(m.k) /\ m3.info = m2.info
       /\ m3.call = m2.call
  BY <1>11 DEF IsMgr
<1> HIDE DEF m3
<1>13. m3.k.cur = w /\ m3.call[w] = m.call[w] /\ m3.k.status[c] = "SUSPEND" /\ m3.k.parent = [m.k.parent EXCEPT ![c] = Main]
  <2>1. /\ m3.k.cur = w /\ m3.k.parent = [m.k.parent EXCEPT ![c] = Main]
        /\ m3.k.status = [s \in Slots |-> IF s = c THEN "SUSPEND"
                                          ELSE IF s = w THEN "RUN" ELSE m.k.status[s]]
    BY <1>7, <1>12, ZenonT(30) DEF Left
  <2>2. m3.call[w] = m.call[w]
    BY <1>1, <1>2, <1>10, <1>11, <1>12, ZenonT(30)
  <2> QED BY <1>2, <2>1, <2>2, ZenonT(30)
<1>14. PICK m4 : /\ IsMgr(m4) /\ m4.pool = m3.pool /\ m4.k = m3.k /\ m4.info = m3.info /\ m4.runid = 0
                 /\ m4.call = [m3.call EXCEPT ![w] = NoCall]
                 /\ GoOn(m3) = Returns(m4, "resume", id)
  <2>1. /\ m3.call[m3.k.cur].op = "resume" /\ m3.call[m3.k.cur].id = id
        /\ m3.k.status[CRem(id)] # "END"
    BY <1>2, <1>3, <1>4, <1>13, ZenonT(30)
  <2>2. PICK m4 : /\ IsMgr(m4) /\ m4.pool = m3.pool /\ m4.k = m3.k /\ m4.info = m3.info /\ m4.runid = 0
                  /\ m4.call = [m3.call EXCEPT ![m3.k.cur] = NoCall]
                  /\ GoOn(m3) = IF m3.k.status[CRem(m3.call[m3.k.cur].id)] = "END"
                                THEN Returns(FreeCo(m4, m3.call[m3.k.cur].id), "resume", 0)
                                ELSE Returns(m4, "resume", m3.call[m3.k.cur].id)
    BY <1>12, <2>1, GoOnResumes, ZenonT(30)
  <2>3. GoOn(m3) = Returns(m4, "resume", id) /\ m4.call = [m3.call EXCEPT ![w] = NoCall]
    BY <1>13, <2>1, <2>2, ZenonT(30)
  <2> QED BY <2>2, <2>3, ZenonT(30)
<1>15. m4.call = [m.call EXCEPT ![c] = v, ![w] = NoCall] /\ m4.info = i2 /\ m4.pool = m.pool /\ m4.k = co_yield(m.k)
  BY <1>10, <1>11, <1>12, <1>14, ZenonT(30)
<1>16. MgrOK(m4, {}, {})
  <2>1. /\ v.op = "yield" /\ v.id = LogicIdx(m.pool, c) /\ ~m4.info[c].isTimeOut
        /\ m4.info \in [Slots -> Infos] /\ m4.info[c].id = m.info[c].id
        /\ \A s \in Slots \ {c} : m4.info[s] = m.info[s]
        /\ Left(m.k, m4.k, "SUSPEND") /\ "SUSPEND" \in {"SUSPEND", "END"}
    BY <1>3, <1>6, <1>7, <1>8, <1>15, ZenonT(30)
  <2>2. GivenBack(m, m4, "SUSPEND", v)
    BY <1>14, <1>15, <2>1, ZenonT(30) DEF GivenBack
  <2>3. MgrOK(m4, IF "SUSPEND" = "END" THEN {c} ELSE {}, {})
    BY <1>1, <1>6, <2>1, <2>2, BackOK, ZenonT(30)
  <2> QED BY <2>3, ZenonT(30)
<1>17. Same(GoOn(m3), m4)
  BY <1>14, ReturnsDoes
<1>18. MgrOK(GoOn(m3), {}, {})
  BY <1>16, <1>17, SameOK, ZenonT(30)
<1> DEFINE r == Yield(m, t)
<1>19. r.pool = m4.pool /\ r.runid = m4.runid /\ r.k = m4.k /\ r.info = m4.info /\ r.call = m4.call
  BY <1>9, <1>17, ZenonT(30) DEF Same
<1>20. MgrOK(r, {}, {})
  BY <1>9, <1>18, ZenonT(30)
<1> HIDE DEF r
<1>21. /\ r.pool = m.pool /\ r.runid = 0 /\ r.k.cur = w
       /\ r.k.parent = [m.k.parent EXCEPT ![c] = Main]
       /\ \A s \in Slots \ {c} : r.info[s] = m.info[s]
  BY <1>8, <1>13, <1>14, <1>15, <1>19, ZenonT(30)
<1>22. r.call = [m.call EXCEPT ![c] = InCall("yield", m.runid), ![w] = NoCall]
  BY <1>15, <1>19, ZenonT(30) DEF v, id
<1> QED BY <1>20, <1>21, <1>22, ZenonT(30) DEF r

LEMMA YieldRefused ==
  ASSUME NEW m, MgrOK(m, {}, {}), m.runid = 0, NEW t
  PROVE  Same(Yield(m, t), m)
<1>1. PoolOK(m.pool) /\ PoolType(m.pool) /\ IsMgr(m)
  BY ZenonT(30) DEF MgrOK, Control, PoolOK
<1>2. ~IsLive(m.pool, 0)
  BY <1>1, IsLiveIff, LiveIdsType
<1>3. Yield(m, t) = Returns(m, "yield", -1)
  BY <1>2, ZenonT(30) DEF Yield
<1> QED BY <1>1, <1>3, ReturnsDoes, ZenonT(30)

\* The function of the coroutine that executes returns, and it is released.
LEMMA FinishOK ==
  ASSUME NEW m, MgrOK(m, {}, {}), m.k.cur # Main
  PROVE  LET r == Finish(m)
             c == m.k.cur
             w == m.k.parent[c]
         IN  /\ MgrOK(r, {}, {}) /\ c \in UsedSlots(m.pool)
             /\ r.pool = ReturnSlot(m.pool, c) /\ r.k.cur = w
             /\ r.k.parent = [m.k.parent EXCEPT ![c] = Main]
             /\ r.call = [m.call EXCEPT ![w] = NoCall, ![c] = NoCall]
<1> DEFINE c == m.k.cur
           w == m.k.parent[c]
           id == LogicIdx(m.pool, c)
           m3 == [m EXCEPT !.k = process_end(m.k)]
<1>1. /\ c # Main /\ Control(m.pool, m.k, m.call) /\ IsMgr(m)
      /\ m.info \in [Slots -> Infos] /\ PoolOK(m.pool) /\ PoolType(m.pool) /\ Sound(m.k)
      /\ m.call \in [Contexts -> Calls] /\ m.call[c].op = "none"
  BY ZenonT(30) DEF MgrOK, Control, Objects, PoolOK
<1>2. /\ c \in Slots /\ c \in UsedSlots(m.pool) /\ w \in Contexts /\ w # c /\ c \in Contexts
      /\ m.call[w].op = "resume" /\ m.call[w].id = id
  BY <1>1, ParentWaits, MainIsNoSlot
<1>3. id \in 1 .. MaxInt /\ CRem(id) = c
  BY <1>1, <1>2, IdOfUsed, ZenonT(30)
<1>4. Left(m.k, process_end(m.k), "END")
  BY <1>1, <1>2, EndLeaves, ZenonT(30)
<1>5. /\ IsMgr(m3) /\ m3.pool = m.pool /\ m3.k = process_end(m.k) /\ m3.info = m.info
      /\ m3.call = m.call
  BY <1>1 DEF IsMgr
<1>6. Finish(m) = GoOn(m3)
  BY ZenonT(30) DEF Finish
<1> HIDE DEF m3, id
<1>7. m3.k.cur = w /\ m3.k.status[c] = "END" /\ m3.k.parent = [m.k.parent EXCEPT ![c] = Main]
  BY <1>1, <1>2, <1>4, <1>5, ZenonT(30) DEF Left
<1>8. PICK m4 : /\ IsMgr(m4) /\ m4.pool = m3.pool /\ m4.k = m3.k /\ m4.info = m3.info /\ m4.runid = 0
                /\ m4.call = [m3.call EXCEPT ![w] = NoCall]
                /\ GoOn(m3) = Returns(FreeCo(m4, id), "resume", 0)
  <2>1. m3.call[m3.k.cur] = m.call[w] /\ m3.call[m3.k.cur].op = "resume"
    BY <1>2, <1>5, <1>7, ZenonT(30)
  <2>2. PICK m4 : /\ IsMgr(m4) /\ m4.pool = m3.pool /\ m4.k = m3.k /\ m4.info = m3.info /\ m4.runid = 0
                  /\ m4.call = [m3.call EXCEPT ![m3.k.cur] = NoCall]
                  /\ LET i == m3.call[m3.k.cur].id
                     IN  GoOn(m3) = IF m3.k.status[CRem(i)] = "END"
                                    THEN Returns(FreeCo(m4, i), "resume", 0)
                                    ELSE Returns(m4, "resume", i)
    BY <1>5, <2>1, GoOnResumes, ZenonT(30)
  <2>3. GoOn(m3) = Returns(FreeCo(m4, id), "resume", 0)
    BY <1>2, <1>3, <1>7, <2>1, <2>2, ZenonT(30)
  <2> QED BY <1>7, <2>2, <2>3, ZenonT(30)
<1>9. /\ m4.call = [m.call EXCEPT ![c] = m.call[c], ![w] = NoCall]
      /\ m4.info = m.info /\ m4.pool = m.pool /\ m4.k = process_end(m.k)
  BY <1>1, <1>2, <1>5, <1>8, ZenonT(30)
<1>10. m.call[c] \in Calls
  BY <1>1, <1>2, ZenonT(30)
<1>11. MgrOK(m4, {c}, {}) /\ ~Running(m4.k, m4.call, c)
  <2>1. GivenBack(m, m4, "END", m.call[c])
    BY <1>1, <1>4, <1>8, <1>9, ZenonT(30) DEF GivenBack
  <2>2. MgrOK(m4, IF "END" = "END" THEN {c} ELSE {}, {}) /\ ~Running(m4.k, m4.call, c)
    BY <1>1, <1>10, <2>1, BackOK, ZenonT(30)
  <2> QED BY <2>2, ZenonT(30)
<1> DEFINE f == FreeCo(m4, id)
<1>12. /\ MgrOK(f, {}, {}) /\ f.pool = ReturnSlot(m.pool, c)
       /\ f.call = [m4.call EXCEPT ![c] = NoCall] /\ f.k.cur = m4.k.cur /\ f.k.parent = m4.k.parent
  <2>1. c \in UsedSlots(m4.pool) /\ id = LogicIdx(m4.pool, c)
    BY <1>2, <1>9, ZenonT(30) DEF id
  <2>2. LET g == FreeCo(m4, LogicIdx(m4.pool, c))
        IN  /\ MgrOK(g, {}, {}) /\ g.pool = ReturnSlot(m4.pool, c)
            /\ g.call = [m4.call EXCEPT ![c] = NoCall] /\ g.k.cur = m4.k.cur /\ g.k.parent = m4.k.parent
    BY <1>11, <2>1, FreeCoOK, ZenonT(30)
  <2> QED BY <1>9, <2>1, <2>2, ZenonT(30)
<1> HIDE DEF f
<1>13. Same(GoOn(m3), f)
  BY <1>8, <1>12, ReturnsDoes DEF MgrOK, f
<1>14. MgrOK(GoOn(m3), {}, {})
  BY <1>12, <1>13, SameOK, ZenonT(30)
<1> DEFINE r == Finish(m)
<1>15. MgrOK(r, {}, {}) /\ r.pool = f.pool /\ r.k = f.k /\ r.call = f.call
  BY <1>6, <1>13, <1>14, ZenonT(30) DEF Same
<1> HIDE DEF r
<1>16. r.k.cur = w /\ r.k.parent = [m.k.parent EXCEPT ![c] = Main]
  BY <1>7, <1>8, <1>12, <1>15, ZenonT(30)
<1>17. r.call = [m.call EXCEPT ![w] = NoCall, ![c] = NoCall]
  BY <1>5, <1>8, <1>12, <1>15, ZenonT(30)
<1> QED BY <1>2, <1>12, <1>15, <1>16, <1>17, ZenonT(30) DEF r

-----------------------------------------------------------------------------
(* How a step changes the manager, from m to n *)

Allocates(m, n) ==
  /\ m.pool.usedCount < Cap /\ n.pool = TakeFreeHead(m.pool)
  /\ n.call = m.call /\ n.k.cur = m.k.cur /\ n.k.parent = m.k.parent /\ n.runid = m.runid
  /\ \A s \in UsedSlots(m.pool) : n.info[s] = m.info[s]

Frees(m, n, s) ==
  /\ s \in UsedSlots(m.pool) /\ ~Running(m.k, m.call, s)
  /\ n.pool = ReturnSlot(m.pool, s) /\ n.call = [m.call EXCEPT ![s] = NoCall]
  /\ n.k.cur = m.k.cur /\ n.k.parent = m.k.parent

\* val is what Yield returns if c was suspended in it.
Resumes(m, n, c, val) ==
  LET id == LogicIdx(m.pool, c)
  IN  /\ c \in UsedSlots(m.pool) /\ ~Running(m.k, m.call, c)
      /\ n.pool = m.pool /\ n.runid = id /\ n.k.cur = c
      /\ \A s \in Slots : n.info[s].expire = m.info[s].expire
      /\ n.k.parent = [m.k.parent EXCEPT ![c] = m.k.cur]
      /\ n.call = [m.call EXCEPT ![m.k.cur] = InCall("resume", id), ![c] = NoCall]
      /\ m.call[c].op = "yield" => n.ret.val = val

Yields(m, n) ==
  LET c == m.k.cur
      w == m.k.parent[c]
  IN  /\ m.runid # 0 /\ c # Main
      /\ n.pool = m.pool /\ n.runid = 0 /\ n.k.cur = w
      /\ n.k.parent = [m.k.parent EXCEPT ![c] = Main]
      /\ n.call = [m.call EXCEPT ![c] = InCall("yield", m.runid), ![w] = NoCall]
      /\ \A s \in Slots \ {c} : n.info[s] = m.info[s]

Finishes(m, n) ==
  LET c == m.k.cur
      w == m.k.parent[c]
  IN  /\ c # Main /\ c \in UsedSlots(m.pool)
      /\ n.pool = ReturnSlot(m.pool, c) /\ n.k.cur = w
      /\ n.k.parent = [m.k.parent EXCEPT ![c] = Main]
      /\ n.call = [m.call EXCEPT ![w] = NoCall, ![c] = NoCall]

Moves(m, n) ==
  \/ Same(n, m)
  \/ Allocates(m, n)
  \/ \E s \in Slots : Frees(m, n, s)
  \/ \E c \in Slots : Resumes(m, n, c, 0)
  \/ Yields(m, n)
  \/ Finishes(m, n)

\* What a call by client code does to the manager.
LEMMA ClientMoves ==
  ASSUME MgrOK(mgr, {}, {}), Client
  PROVE  /\ MgrOK(mgr', {}, {}) /\ Moves(mgr, mgr')
         /\ ClientRuns /\ Forget /\ UNCHANGED <<up, pass, iLastPos>>
<1> DEFINE Does == MgrOK(mgr', {}, {}) /\ Moves(mgr, mgr')
<1>1. IsMgr(mgr) /\ PoolOK(mgr.pool) /\ PoolType(mgr.pool)
  BY ZenonT(30) DEF MgrOK, Control, PoolOK
<1>2. ASSUME Same(mgr', mgr) PROVE Does
  BY <1>2, SameOK, ZenonT(30) DEF Moves
<1>3. \A id \in Ids : id \in Int
  BY MaxIntAssumption DEF Ids
<1>4. ASSUME NEW id \in Ids, IsLive(mgr.pool, id), Parked(id)
      PROVE  /\ CRem(id) \in UsedSlots(mgr.pool) /\ id = LogicIdx(mgr.pool, CRem(id))
             /\ CRem(id) \in Slots /\ ~Running(mgr.k, mgr.call, CRem(id))
  <2>1. CRem(id) \in UsedSlots(mgr.pool) /\ id = LogicIdx(mgr.pool, CRem(id))
    BY <1>1, <1>3, <1>4, LiveSlot, ZenonT(30)
  <2>2. CRem(id) \in Slots
    BY <2>1, ZenonT(30) DEF UsedSlots
  <2>3. CRem(id) \notin Active
    BY <1>4, ZenonT(30) DEF Parked
  <2> QED BY <2>1, <2>2, <2>3, ZenonT(30) DEF Active, Running, Waits
<1>5. CASE CallAlloc
  <2>1. CASE ~up
    <3>1. mgr' = Returns(mgr, "alloc", -1)
      BY <1>5, <2>1, ZenonT(30) DEF CallAlloc, ClientStep
    <3>2. Same(mgr', mgr)
      BY <1>1, <3>1, ReturnsDoes, ZenonT(30)
    <3> QED BY <1>2, <1>5, <3>2, ZenonT(30) DEF CallAlloc, ClientStep
  <2>2. CASE up
    <3>1. mgr' = Alloc(mgr)
      BY <1>5, <2>2, ZenonT(30) DEF CallAlloc, ClientStep
    <3>2. CASE mgr.pool.usedCount < Cap
      <4>1. MgrOK(mgr', {}, {}) /\ Allocates(mgr, mgr')
        BY <3>1, <3>2, AllocOK, ZenonT(30) DEF Allocates
      <4> QED BY <1>5, <4>1, ZenonT(30) DEF CallAlloc, ClientStep, Moves
    <3>3. CASE ~(mgr.pool.usedCount < Cap)
      <4>1. Same(mgr', mgr)
        BY <3>1, <3>3, AllocFull, ZenonT(30)
      <4> QED BY <1>2, <1>5, <4>1 DEF CallAlloc, ClientStep
    <3> QED BY <3>2, <3>3, ZenonT(30)
  <2> QED BY <2>1, <2>2, ZenonT(30)
<1>6. CASE CallRelease
  <2>1. PICK id \in Ids : Parked(id) /\ ClientStep(Release(mgr, id))
    BY <1>6, ZenonT(30) DEF CallRelease
  <2>2. mgr' = Release(mgr, id)
    BY <2>1, ZenonT(30) DEF ClientStep
  <2>3. CASE IsLive(mgr.pool, id)
    <3> DEFINE s == CRem(id)
    <3>1. s \in UsedSlots(mgr.pool) /\ id = LogicIdx(mgr.pool, s) /\ s \in Slots /\ ~Running(mgr.k, mgr.call, s)
      BY <1>4, <2>1, <2>3, ZenonT(30)
    <3> DEFINE f == FreeCo(mgr, LogicIdx(mgr.pool, s))
    <3>2. /\ MgrOK(f, {}, {}) /\ f.pool = ReturnSlot(mgr.pool, s)
          /\ f.call = [mgr.call EXCEPT ![s] = NoCall] /\ f.k.cur = mgr.k.cur /\ f.k.parent = mgr.k.parent
      BY <3>1, FreeCoOK, ZenonT(30)
    <3>3. mgr' = Returns(f, "release", 0)
      BY <2>2, <2>3, <3>1, ZenonT(30) DEF Release
    <3> HIDE DEF f, s
    <3>4. Same(mgr', f)
      BY <3>2, <3>3, ReturnsDoes, ZenonT(30) DEF MgrOK
    <3>5. MgrOK(mgr', {}, {})
      BY <3>2, <3>4, SameOK, ZenonT(30)
    <3>6. Frees(mgr, mgr', s)
      BY <3>1, <3>2, <3>4, ZenonT(30) DEF Frees, Same
    <3> QED BY <2>1, <3>1, <3>5, <3>6, ZenonT(30) DEF ClientStep, Moves
  <2>4. CASE ~IsLive(mgr.pool, id)
    <3>1. mgr' = Returns(mgr, "release", -1)
      BY <2>2, <2>4, ZenonT(30) DEF Release, FreeCo
    <3>2. Same(mgr', mgr)
      BY <1>1, <3>1, ReturnsDoes, ZenonT(30)
    <3> QED BY <1>2, <2>1, <3>2, ZenonT(30) DEF ClientStep
  <2> QED BY <2>3, <2>4, ZenonT(30)
<1>7. CASE CallResume
  <2>1. PICK id \in Ids : /\ Parked(id) /\ ClientStep(Resume(mgr, id))
                          /\ ReadyOnly /\ mgr.k.cur # Main /\ IsLive(mgr.pool, id) =>
                               mgr.k.status[CRem(id)] = "READY"
    BY <1>7, ZenonT(30) DEF CallResume, MayResume, InMain
  <2>2. mgr' = Resume(mgr, id)
    BY <2>1 DEF ClientStep
  <2>3. CASE IsLive(mgr.pool, id)
    <3> DEFINE c == CRem(id)
    <3>1. c \in UsedSlots(mgr.pool) /\ id = LogicIdx(mgr.pool, c) /\ c \in Slots /\ ~Running(mgr.k, mgr.call, c)
      BY <1>4, <2>1, <2>3
    <3>5. ReadyOnly /\ mgr.k.cur # Main => mgr.k.status[c] = "READY"
      BY <2>1, <2>3, ZenonT(30)
    <3> HIDE DEF c
    <3>2. /\ MgrOK(mgr', {}, {})
          /\ mgr'.pool = mgr.pool /\ mgr'.info = mgr.info /\ mgr'.runid = id /\ mgr'.k.cur = c
          /\ mgr'.k.parent = [mgr.k.parent EXCEPT ![c] = mgr.k.cur]
          /\ mgr'.call = [mgr.call EXCEPT ![mgr.k.cur] = InCall("resume", id), ![c] = NoCall]
          /\ mgr.call[c].op = "yield" =>
               mgr'.ret.val = (IF mgr.info[c].isTimeOut THEN YIELD_TIMEOUT ELSE 0)
      BY <2>2, <3>1, <3>5, ResumeOK
    <3>3. mgr.call[c].op = "yield" => ~mgr.info[c].isTimeOut
      BY <3>1, ZenonT(30) DEF MgrOK, Sleepers
    <3>4. Resumes(mgr, mgr', c, 0)
      BY <3>1, <3>2, <3>3, ZenonT(30) DEF Resumes
    <3> QED BY <2>1, <3>1, <3>2, <3>4, ZenonT(30) DEF ClientStep, Moves
  <2>4. CASE ~IsLive(mgr.pool, id)
    <3>1. Same(mgr', mgr)
      BY <1>1, <2>2, <2>4, ResumeRefused, ZenonT(30)
    <3> QED BY <1>2, <2>1, <3>1 DEF ClientStep
  <2> QED BY <2>3, <2>4
<1>8. CASE CallYield
  <2>1. PICK t \in Times : ClientStep(Yield(mgr, t))
    BY <1>8, ZenonT(30) DEF CallYield
  <2>2. mgr' = Yield(mgr, t) /\ t \in Nat
    BY <2>1, TimesPositive, ZenonT(30) DEF ClientStep
  <2>3. CASE mgr.runid # 0
    <3>1. mgr.k.cur # Main
      BY <2>3, ZenonT(30) DEF MgrOK, RunId
    <3>2. MgrOK(mgr', {}, {}) /\ Yields(mgr, mgr')
      BY <2>2, <2>3, <3>1, YieldOK DEF Yields
    <3> QED BY <2>1, <3>2, ZenonT(30) DEF ClientStep, Moves
  <2>4. CASE mgr.runid = 0
    <3>1. Same(mgr', mgr)
      BY <2>2, <2>4, YieldRefused, ZenonT(30)
    <3> QED BY <1>2, <2>1, <3>1, ZenonT(30) DEF ClientStep
  <2> QED BY <2>3, <2>4, ZenonT(30)
<1>9. CASE FunctionReturns
  <2>1. mgr.k.cur # Main /\ mgr' = Finish(mgr)
    BY <1>9, ZenonT(30) DEF FunctionReturns, ClientStep, InMain
  <2>2. MgrOK(mgr', {}, {}) /\ Finishes(mgr, mgr')
    BY <2>1, FinishOK, ZenonT(30) DEF Finishes
  <2> QED BY <1>9, <2>2, ZenonT(30) DEF FunctionReturns, ClientStep, Moves
<1> QED BY <1>5, <1>6, <1>7, <1>8, <1>9, ZenonT(30) DEF Client

\* Only the isTimeOut of an unused slot has changed.
Marks(m, n) ==
  /\ n.pool = m.pool /\ n.k = m.k /\ n.call = m.call /\ n.runid = m.runid
  /\ \A s \in Slots : n.info[s].expire = m.info[s].expire

\* What a check does to the manager when the time of the object at s has come.
LEMMA ExpireMoves ==
  ASSUME MgrOK(mgr, {}, {}), InMain, NEW s \in Slots, Expire(s)
  PROVE  /\ MgrOK(mgr', {}, {})
         /\ Marks(mgr, mgr') \/ Resumes(mgr, mgr', s, YIELD_TIMEOUT)
<1> DEFINE id == mgr.info[s].id
           i2 == [mgr.info EXCEPT ![s].isTimeOut = TRUE]
           m == [mgr EXCEPT !.info = i2]
<1>1. /\ IsMgr(mgr) /\ PoolOK(mgr.pool) /\ PoolType(mgr.pool) /\ mgr.info \in [Slots -> Infos]
      /\ Control(mgr.pool, mgr.k, mgr.call) /\ mgr.k.cur = Main
  BY ZenonT(30) DEF MgrOK, Control, PoolOK, Objects, InMain
<1>2. mgr' = Resume(m, id)
  <2>1. [mgr EXCEPT !.info[s].isTimeOut = TRUE] = m
    BY <1>1, ZenonT(30) DEF IsMgr
  <2> QED BY <2>1, ZenonT(30) DEF Expire
<1>3. /\ i2 \in [Slots -> Infos] /\ i2[s].isTimeOut = TRUE
      /\ \A t \in Slots : i2[t].id = mgr.info[t].id /\ i2[t].expire = mgr.info[t].expire
      /\ \A t \in Slots \ {s} : i2[t] = mgr.info[t]
  BY <1>1, ZenonT(30) DEF Infos
<1> HIDE DEF i2
<1>4. /\ IsMgr(m) /\ m.pool = mgr.pool /\ m.k = mgr.k /\ m.info = i2 /\ m.runid = mgr.runid
      /\ m.call = mgr.call
  BY <1>1 DEF IsMgr
<1> HIDE DEF m
<1>5. Objects(m.pool, m.k, m.info, {})
  BY <1>3, <1>4 DEF MgrOK, Objects, UsedSlots
<1>6. Sleepers(m.pool, m.call, m.info, {s})
  BY <1>3, <1>4 DEF MgrOK, Sleepers
<1>7. RunId(m.k, m.info, m.runid)
  BY <1>1, <1>4, ZenonT(30) DEF MgrOK, RunId
<1>8. MgrOK(m, {}, {s})
  BY <1>4, <1>5, <1>6, <1>7, ZenonT(30) DEF MgrOK
<1>9. CASE s \in UsedSlots(mgr.pool)
  <2>1. id = LogicIdx(m.pool, s) /\ ~Running(m.k, m.call, s) /\ s \in UsedSlots(m.pool)
    BY <1>1, <1>4, <1>9, MainAlone, ZenonT(30) DEF MgrOK, Objects
  <2> HIDE DEF id
  <2>2. /\ MgrOK(mgr', {}, {})
        /\ mgr'.pool = m.pool /\ mgr'.info = m.info /\ mgr'.runid = id /\ mgr'.k.cur = s
        /\ mgr'.k.parent = [m.k.parent EXCEPT ![s] = m.k.cur]
        /\ mgr'.call = [m.call EXCEPT ![m.k.cur] = InCall("resume", id), ![s] = NoCall]
        /\ m.call[s].op = "yield" =>
             mgr'.ret.val = (IF m.info[s].isTimeOut THEN YIELD_TIMEOUT ELSE 0)
    BY <1>1, <1>2, <1>4, <1>8, <2>1, ResumeOK
  <2>3. Resumes(mgr, mgr', s, YIELD_TIMEOUT)
    BY <1>3, <1>4, <2>1, <2>2 DEF Resumes
  <2> QED BY <2>2, <2>3, ZenonT(30)
<1>10. CASE s \notin UsedSlots(mgr.pool)
  <2>1. id \in Int
    BY <1>1 DEF Infos
  <2>2. ~IsLive(mgr.pool, id)
    <3> SUFFICES ASSUME IsLive(mgr.pool, id) PROVE FALSE
      BY ZenonT(30)
    <3>1. CRem(id) \in UsedSlots(mgr.pool) /\ id \in LiveIds(mgr.pool)
      BY <1>1, <2>1, LiveSlot, IsLiveIff, ZenonT(30)
    <3>2. id # 0
      BY <1>1, <3>1, LiveIdsType
    <3> QED BY <1>10, <3>1, <3>2, ZenonT(30) DEF MgrOK, Objects
  <2>3. Same(mgr', m)
    BY <1>2, <1>4, <2>2, ResumeRefused, ZenonT(30)
  <2>4. Sleepers(m.pool, m.call, m.info, {})
    BY <1>4, <1>6, <1>10, ZenonT(30) DEF Sleepers
  <2>5. MgrOK(m, {}, {})
    BY <1>8, <2>4, ZenonT(30) DEF MgrOK
  <2>6. MgrOK(mgr', {}, {})
    BY <2>3, <2>5, SameOK, ZenonT(30)
  <2> QED BY <1>3, <1>4, <2>3, <2>6, ZenonT(30) DEF Same, Marks
<1> QED BY <1>9, <1>10, ZenonT(30)

-----------------------------------------------------------------------------
(* The inductive invariant *)

PassType == [ kind : {"none", "all", "part", "fun"}, pos : Slots \union {Nil}, now : Nat,
              end : 0 .. Cap, called : BOOLEAN ]

PassOK ==
  /\ pass \in PassType
  /\ iLastPos \in 0 .. Cap
  /\ pass.kind # "none" => pass.pos \in Slots
  /\ pass.kind = "part" => iLastPos = pass.pos /\ pass.pos < pass.end

IInv == MgrOK(mgr, {}, {}) /\ PassOK

LEMMA NoPassType == NoPass \in PassType /\ NoPass.kind = "none"
BY CapAssumption DEF NoPass, PassType

LEMMA MovedPass ==
  ASSUME NEW p \in PassType, NEW i \in Slots
  PROVE  LET n == [p EXCEPT !.pos = i, !.called = FALSE]
         IN  /\ n \in PassType /\ n.kind = p.kind /\ n.pos = i /\ n.end = p.end
             /\ n.now = p.now /\ n.called = FALSE
BY ZenonT(30) DEF PassType

LEMMA InitIInv == Init => IInv
<1> SUFFICES ASSUME Init PROVE IInv
  BY ZenonT(30)
<1>1. BlankInfo \in Infos /\ BlankInfo.id = 0
  BY ZenonT(30) DEF BlankInfo, Infos
<1>2. MgrOK(mgr, {}, {})
  BY <1>1, FreshOK, ZenonT(30) DEF Init
<1>3. PassOK
  BY CapAssumption, NoPassType DEF Init, PassOK
<1> QED BY <1>2, <1>3, ZenonT(30) DEF IInv

\* The loops of the passes stay in range.
LEMMA TravelToOK ==
  ASSUME PassOK, MgrOK(mgr, {}, {}), pass.kind \in {"all", "fun"}, pass' = TravelTo(mgr.pool.next[pass.pos]),
         UNCHANGED iLastPos
  PROVE  PassOK'
<1>1. mgr.pool.next[pass.pos] \in Slots \union {Nil}
  BY ZenonT(30) DEF PassOK, MgrOK, Control, PoolOK, PoolType
<1>2. CASE mgr.pool.next[pass.pos] = Nil
  BY <1>2, NoPassType, ZenonT(30) DEF PassOK, TravelTo
<1>3. CASE mgr.pool.next[pass.pos] # Nil
  BY <1>1, <1>3, MovedPass, ZenonT(30) DEF PassOK, TravelTo
<1> QED BY <1>2, <1>3, ZenonT(30)

LEMMA NextPass ==
  ASSUME IInv, [Next]_vars
  PROVE  PassOK'
<1> USE CapAssumption DEF IInv
<1>1. mgr.pool.usedHead \in Slots \union {Nil}
  BY ZenonT(30) DEF MgrOK, Control, PoolOK, PoolType
<1>2. ASSUME pass' = [pass EXCEPT !.called = TRUE], UNCHANGED iLastPos PROVE PassOK'
  BY <1>2, ZenonT(30) DEF PassOK, PassType
<1>3. ASSUME pass.kind = "part", PartNext PROVE PassOK'
  <2> DEFINE i == iLastPos + 1
  <2>1. /\ iLastPos' = i /\ pass' = IF i >= pass.end THEN NoPass ELSE [pass EXCEPT !.pos = i, !.called = FALSE]
    BY <1>3, ZenonT(30) DEF PartNext, ScanTo
  <2>2. i \in 0 .. Cap /\ pass.end \in 0 .. Cap /\ pass \in PassType /\ (~(i >= pass.end) => i \in Slots /\ i < pass.end)
    BY <1>3 DEF PassOK, PassType, Slots
  <2> HIDE DEF i
  <2>3. CASE i >= pass.end
    BY <2>1, <2>2, <2>3, NoPassType, ZenonT(30) DEF PassOK
  <2>4. CASE ~(i >= pass.end)
    BY <1>3, <2>1, <2>2, <2>4, MovedPass, ZenonT(30) DEF PassOK
  <2> QED BY <2>3, <2>4, ZenonT(30)
<1>4. CASE ProcessAllExpire
  <2>1. PICK now \in Times : pass' = IF mgr.pool.usedHead = Nil THEN NoPass
                                     ELSE At("all", mgr.pool.usedHead, now, 0)
    BY <1>4, ZenonT(30) DEF ProcessAllExpire
  <2>2. now \in Nat /\ iLastPos' = iLastPos
    BY <1>4, TimesPositive, ZenonT(30) DEF ProcessAllExpire
  <2> QED BY <1>1, <2>1, <2>2 DEF PassOK, PassType, At, NoPass, Nil, Slots
<1>5. CASE ProcessPartExpire
  <2> DEFINE max == IF up THEN Cap ELSE Nil
             pos == IF iLastPos >= max THEN 0 ELSE iLastPos
             End(n) == IF pos + n > max THEN max ELSE pos + n
  <2>1. PICK now \in Times, n \in Counts :
          iLastPos' = pos /\ pass' = IF pos < End(n) THEN At("part", pos, now, End(n)) ELSE NoPass
    BY <1>5, ZenonT(30) DEF ProcessPartExpire
  <2>2. now \in Nat /\ n \in Nat
    BY <2>1, TimesPositive, CountsAssumption, ZenonT(30)
  <2>3. pos \in 0 .. Cap /\ (pos < End(n) => End(n) \in 0 .. Cap /\ pos \in Slots)
    BY <2>2 DEF PassOK, Nil, Slots
  <2> HIDE DEF pos, End
  <2> QED BY <2>1, <2>2, <2>3 DEF PassOK, PassType, At, NoPass, Nil, Slots
<1>6. CASE ProcessAllActiveFun
  BY <1>1, <1>6 DEF ProcessAllActiveFun, PassOK, PassType, At, Nil, Slots
<1>7. CASE FunNext
  BY <1>7, TravelToOK, ZenonT(30) DEF FunNext, InLoop
<1>8. CASE AllVisit
  <2>1. pass.kind = "all" /\ UNCHANGED iLastPos
    BY <1>8, ZenonT(30) DEF AllVisit, InLoop
  <2>2. CASE Expired(pass.pos, pass.now)
    BY <1>2, <1>8, <2>1, <2>2, ZenonT(30) DEF AllVisit, Expire
  <2>3. CASE ~Expired(pass.pos, pass.now)
    BY <1>8, <2>1, <2>3, TravelToOK, ZenonT(30) DEF AllVisit
  <2> QED BY <2>2, <2>3, ZenonT(30)
<1>9. CASE AllNext
  BY <1>9, TravelToOK, ZenonT(30) DEF AllNext, InLoop
<1>10. CASE PartVisit
  BY <1>2, <1>3, <1>10, ZenonT(30) DEF PartVisit, Expire, InLoop
<1>11. CASE PartVisited
  BY <1>3, <1>11, ZenonT(30) DEF PartVisited, InLoop
<1>12. CASE Client \/ InitCoMgr \/ Destory \/ UNCHANGED vars
  <2>1. UNCHANGED <<pass, iLastPos>>
    BY <1>12, ClientMoves, ZenonT(30) DEF InitCoMgr, Destory, vars
  <2> QED BY <2>1, ZenonT(30) DEF PassOK
<1> QED BY <1>4, <1>5, <1>6, <1>7, <1>8, <1>9, <1>10, <1>11, <1>12, ZenonT(30) DEF Next, Check

\* How a step of any kind changes the manager.
LEMMA NextMgr ==
  ASSUME IInv, [Next]_vars
  PROVE  /\ MgrOK(mgr', {}, {})
         /\ \/ Client
            \/ UNCHANGED mgr
            \/ InMain /\ mgr'.k.cur = Main /\ (InitCoMgr \/ Destory)
            \/ /\ InMain /\ pass.kind \in {"all", "part"} /\ Expired(pass.pos, pass.now) /\ pass.pos \in Slots
               /\ (Marks(mgr, mgr') \/ Resumes(mgr, mgr', pass.pos, YIELD_TIMEOUT))
<1>1. MgrOK(mgr, {}, {}) /\ mgr.info \in [Slots -> Infos]
      /\ \A s \in Slots : mgr.info[s].id # 0 => CRem(mgr.info[s].id) = s
  BY ZenonT(30) DEF IInv, MgrOK, Objects
<1>2. ASSUME InMain, pass.kind \in {"all", "part"}, Expired(pass.pos, pass.now), Expire(pass.pos)
      PROVE  /\ MgrOK(mgr', {}, {}) /\ pass.pos \in Slots
             /\ Marks(mgr, mgr') \/ Resumes(mgr, mgr', pass.pos, YIELD_TIMEOUT)
  <2>1. pass.pos \in Slots
    BY <1>2, ZenonT(30) DEF IInv, PassOK
  <2> QED BY <1>1, <1>2, <2>1, ExpireMoves, ZenonT(30)
<1>3. ASSUME UNCHANGED mgr PROVE MgrOK(mgr', {}, {})
  BY <1>1, <1>3, ZenonT(30)
<1>4. CASE Client
  BY <1>1, <1>4, ClientMoves, ZenonT(30)
<1>5. CASE InitCoMgr \/ Destory
  <2>1. \A s \in Slots : BlankInfo.id # 0 => CRem(BlankInfo.id) = s
    BY ZenonT(30) DEF BlankInfo
  <2>2. [s \in Slots |-> BlankInfo] \in [Slots -> Infos]
    BY ZenonT(30) DEF BlankInfo, Infos
  <2>3. InMain /\ \E i \in {mgr.info, [s \in Slots |-> BlankInfo]} : mgr' = Fresh(i)
    BY <1>5, ZenonT(30) DEF InitCoMgr, Destory
  <2>4. PICK i : /\ mgr' = Fresh(i) /\ i \in [Slots -> Infos]
                 /\ \A s \in Slots : i[s].id # 0 => CRem(i[s].id) = s
    BY <1>1, <2>1, <2>2, <2>3
  <2>5. mgr'.k.cur = Main
    BY <2>4, ZenonT(30) DEF Fresh, schedule
  <2> QED BY <1>5, <2>3, <2>4, <2>5, FreshOK, ZenonT(30)
<1>6. CASE AllVisit
  <2>1. InMain /\ pass.kind = "all"
    BY <1>6, ZenonT(30) DEF AllVisit, InLoop
  <2> QED BY <1>2, <1>3, <1>6, <2>1, ZenonT(30) DEF AllVisit
<1>7. CASE PartVisit
  <2>1. InMain /\ pass.kind = "part"
    BY <1>7, ZenonT(30) DEF PartVisit, InLoop
  <2> QED BY <1>2, <1>3, <1>7, <2>1, ZenonT(30) DEF PartVisit
<1>8. CASE ProcessAllExpire \/ ProcessPartExpire \/ ProcessAllActiveFun \/ FunNext \/ AllNext \/ PartVisited
           \/ UNCHANGED vars
  <2>1. UNCHANGED mgr
    BY <1>8, ZenonT(30) DEF ProcessAllExpire, ProcessPartExpire, ProcessAllActiveFun, FunNext, AllNext, PartVisited, vars
  <2> QED BY <1>3, <2>1, ZenonT(30)
<1> QED BY <1>4, <1>5, <1>6, <1>7, <1>8, ZenonT(30) DEF Next, Check

LEMMA NextIInv == IInv /\ [Next]_vars => IInv'
BY NextPass, NextMgr, ZenonT(30) DEF IInv

\* The inductive invariant holds in every reachable state.
THEOREM Inductive == Spec => []IInv
BY InitIInv, NextIInv, PTL DEF Spec

-----------------------------------------------------------------------------
(* Control and the pool *)

LEMMA IInvControl == IInv => ControlOK
<1> SUFFICES ASSUME IInv PROVE ControlOK
  BY ZenonT(30)
<1> DEFINE k == mgr.k
           p == mgr.pool
<1>1. /\ Control(p, k, mgr.call) /\ Sound(k) /\ PoolOK(p) /\ PoolType(p)
      /\ k.run = k.cur /\ k.ctx = [x \in Contexts |-> x]
      /\ \A s \in Slots : k.status[s] = "RUN" <=> s = k.cur
  BY ZenonT(30) DEF IInv, MgrOK, Control, Sound, PoolOK
<1>2. ASSUME NEW x \in Contexts, mgr.call[x].op = "resume"
      PROVE  IsLive(p, mgr.call[x].id) /\ k.parent[CRem(mgr.call[x].id)] = x /\ k.ctx[x] = x
  <2>1. PICK s \in Slots : Running(k, mgr.call, s) /\ k.parent[s] = x
    BY <1>1, <1>2, ZenonT(30) DEF Control, Chain, Waits
  <2>2. s \in UsedSlots(p) /\ mgr.call[x].id = LogicIdx(p, s)
    BY <1>1, <2>1, ZenonT(30) DEF Control, Chain
  <2>3. LogicIdx(p, s) \in LiveIds(p) /\ LogicIdx(p, s) \in 1 .. MaxInt /\ CRem(LogicIdx(p, s)) = s
    BY <1>1, <2>2, IdOfUsed, ZenonT(30)
  <2>4. LogicIdx(p, s) \in Int
    BY <2>3
  <2>5. IsLive(p, LogicIdx(p, s))
    BY <1>1, <2>3, <2>4, IsLiveIff, ZenonT(30)
  <2> QED BY <1>1, <2>1, <2>2, <2>3, <2>5, ZenonT(30)
<1> QED BY <1>1, <1>2, ZenonT(30) DEF ControlOK

\* pRunCo is always the coroutine whose code is executed, which is the only one in
\* state RUN, and every context that waits in SCoMgr::Resume waits for a coroutine
\* that is in the pool under that id and will hand control back to it.
THEOREM ControlAlwaysOK == Spec => []ControlOK
BY Inductive, IInvControl, PTL

\* m_iRunningID never names another coroutine than the one that executes.
THEOREM RunningIdAlwaysOK == Spec => []RunningIdOK
<1>1. IInv => RunningIdOK
  BY ZenonT(30) DEF IInv, MgrOK, RunId, RunningIdOK, InMain
<1> QED BY <1>1, Inductive, PTL

\* Every coroutine in the pool can still be resumed under the id it carries, and
\* a slot that is not in use owns no stack memory.
THEOREM PoolAlwaysHoldsUnfinished == Spec => []PoolHoldsUnfinished
<1>1. IInv => PoolHoldsUnfinished
  BY ZenonT(30) DEF IInv, MgrOK, Objects, PoolHoldsUnfinished
<1> QED BY <1>1, Inductive, PTL

\* With shared runtime stacks, and if coroutines resume only coroutines that are not
\* yet started, the frames of the one that executes are the ones on its runtime
\* stack, however deep coroutines resume one another and however often Main
\* continues them.
THEOREM StackAlwaysInPlace ==
  ASSUME ReadyOnly
  PROVE  Spec => []StackInPlace
<1>1. IInv => StackInPlace
  BY ZenonT(30) DEF IInv, MgrOK, Control, FramesOK, StackInPlace, InMain
<1> QED BY <1>1, Inductive, PTL

-----------------------------------------------------------------------------
(* What a suspended Yield returns *)

\* The step that a run checks: TimeoutsAreReal is [][TimeoutStep]_vars.
TimeoutStep ==
  LET c       == mgr'.k.cur
      byCheck == InMain /\ pass.kind \in {"all", "part"}
  IN  mgr.call[c].op = "yield" /\ mgr'.call[c].op = "none" =>
        /\ mgr'.ret.val = (IF byCheck THEN YIELD_TIMEOUT ELSE 0)
        /\ byCheck => mgr.info[c].expire <= pass.now

LEMMA NextTimeout ==
  ASSUME IInv, [Next]_vars
  PROVE  TimeoutStep
<1> DEFINE c == mgr'.k.cur
           byCheck == InMain /\ pass.kind \in {"all", "part"}
<1>1. /\ MgrOK(mgr, {}, {}) /\ Control(mgr.pool, mgr.k, mgr.call)
      /\ mgr.call[mgr.k.cur].op = "none" /\ mgr.call[Main].op # "yield"
  BY ZenonT(30) DEF IInv, MgrOK, Control
<1>2. ASSUME c = mgr.k.cur \/ c = Main \/ mgr.call[c].op = "resume" PROVE TimeoutStep
  BY <1>1, <1>2, ZenonT(30) DEF TimeoutStep
<1>3. CASE Client
  <2>1. Moves(mgr, mgr') /\ ~byCheck
    BY <1>1, <1>3, ClientMoves, ZenonT(30) DEF ClientRuns
  <2>2. CASE \E s \in Slots : Resumes(mgr, mgr', s, 0)
    BY <2>1, <2>2, ZenonT(30) DEF Resumes, TimeoutStep
  <2>3. CASE Yields(mgr, mgr') \/ Finishes(mgr, mgr')
    <3>1. mgr.k.cur # Main /\ c = mgr.k.parent[mgr.k.cur]
      BY <2>3, ZenonT(30) DEF Yields, Finishes
    <3> QED BY <1>1, <1>2, <3>1, ParentWaits
  <2>4. CASE Same(mgr', mgr) \/ Allocates(mgr, mgr') \/ \E s \in Slots : Frees(mgr, mgr', s)
    BY <1>2, <2>4, ZenonT(30) DEF Same, Allocates, Frees
  <2> QED BY <2>1, <2>2, <2>3, <2>4, ZenonT(30) DEF Moves
<1>4. CASE /\ InMain /\ pass.kind \in {"all", "part"} /\ Expired(pass.pos, pass.now) /\ pass.pos \in Slots
           /\ (Marks(mgr, mgr') \/ Resumes(mgr, mgr', pass.pos, YIELD_TIMEOUT))
  <2>1. CASE Marks(mgr, mgr')
    BY <1>2, <2>1, ZenonT(30) DEF Marks
  <2>2. CASE Resumes(mgr, mgr', pass.pos, YIELD_TIMEOUT)
    BY <1>4, <2>2, ZenonT(30) DEF Resumes, TimeoutStep, Expired
  <2> QED BY <1>4, <2>1, <2>2, ZenonT(30)
<1>5. CASE UNCHANGED mgr \/ mgr'.k.cur = Main
  BY <1>2, <1>5, ZenonT(30)
<1> QED BY <1>3, <1>4, <1>5, NextMgr, ZenonT(30)

\* A suspended SCoMgr::Yield returns YIELD_TIMEOUT exactly if a check of the expiry
\* times ended it, and a check ends it only when its time has come.
THEOREM TimeoutsAlwaysReal == Spec => TimeoutsAreReal
<1>1. IInv /\ [Next]_vars => [TimeoutStep]_vars
  BY NextTimeout, ZenonT(30)
<1>2. TimeoutsAreReal <=> [][TimeoutStep]_vars
  BY ZenonT(30) DEF TimeoutsAreReal, TimeoutStep
<1> QED BY <1>1, <1>2, Inductive, PTL DEF Spec

-----------------------------------------------------------------------------
(* ProcessAllExpire reaches every coroutine that had expired.  todo has    *)
(* the ids it has yet to check; they are ahead in the used list.  One of   *)
(* them can be given a new expiry time only by another coroutine that      *)
(* resumes it, and that one cannot suspend itself any more: m_iRunningID   *)
(* is 0 when its Resume returns.  It can only end, and then nothing is     *)
(* expected of the check.                                                  *)

\* A coroutine waits for another, or has had one back.
Nested(m) == (\E s \in Slots : Waits(m.call, s)) \/ (m.k.cur # Main /\ m.runid = 0)

\* The ids of todo are ahead of position pos in the used list.
TodoAhead(p, pos, called, td) ==
  \E T : Ahead(p, pos, T) /\ td \subseteq (IF called THEN T \ {LogicIdx(p, pos)} ELSE T)

\* The coroutines of todo have expired.
TodoExpired(m, now, td) ==
  \A s \in UsedSlots(m.pool) : LogicIdx(m.pool, s) \in td => m.info[s].expire <= now

\* What Main waits for is the coroutine at position pos.
AtPos(m, pos, called) ==
  \A s \in Slots : Running(m.k, m.call, s) /\ m.k.parent[s] = Main => called /\ s = pos

Walk ==
  /\ ~up => UsedSlots(mgr.pool) = {} /\ pass.kind = "none"
  /\ pass.kind = "all" => AtPos(mgr, pass.pos, pass.called)
  /\ pass.kind = "all" /\ todo # {} =>
       /\ TodoAhead(mgr.pool, pass.pos, pass.called, todo)
       /\ Nested(mgr) \/ TodoExpired(mgr, pass.now, todo)

\* A coroutine that Main has resumed runs alone.
LEMMA FirstAlone ==
  ASSUME NEW p, NEW k, NEW cl, Control(p, k, cl), k.cur # Main, k.parent[k.cur] = Main
  PROVE  \A s \in Slots : ~Waits(cl, s)
<1>1. PICK d \in [Contexts -> Nat] : Levels(k, cl, d)
  BY ZenonT(30) DEF Control
<1>2. k.cur \in Slots /\ k \in Schedules
  BY ZenonT(30) DEF Control, Sound, Schedules, Contexts
<1> SUFFICES ASSUME NEW s \in Slots, Waits(cl, s) PROVE FALSE
  BY ZenonT(30)
<1>3. d[k.cur] = d[Main] + 1 /\ d[Main] = 0
  BY <1>1, <1>2, ZenonT(30) DEF Levels, Running
<1>4. d[s] < d[k.cur] /\ d[s] = d[k.parent[s]] + 1
  BY <1>1, MainIsNoSlot, ZenonT(30) DEF Levels, Running
<1>5. d[s] \in Nat /\ d[k.parent[s]] \in Nat
  BY <1>1, <1>2, MainIsNoSlot, ZenonT(30) DEF Schedules
<1> QED BY <1>3, <1>4, <1>5

\* The ids of todo are live.
LEMMA TodoLive ==
  ASSUME NEW p, PoolOK(p), NEW pos, NEW called, NEW td, TodoAhead(p, pos, called, td)
  PROVE  td \subseteq LiveIds(p)
<1>1. PICK T : Ahead(p, pos, T) /\ td \subseteq T
  BY ZenonT(30) DEF TodoAhead
<1>2. PICK u \in [1 .. p.usedCount -> Slots], j \in 1 .. p.usedCount :
        /\ IsUsedList(p, u) /\ T = {LogicIdx(p, u[i]) : i \in j .. p.usedCount}
  BY <1>1, ZenonT(30) DEF Ahead
<1>3. p.usedCount \in Nat /\ \A i \in 1 .. p.usedCount : u[i] \in UsedSlots(p)
  BY <1>2, UsedList, ZenonT(30)
<1>4. \A i \in j .. p.usedCount : i \in 1 .. p.usedCount
  BY <1>3
<1> QED BY <1>1, <1>2, <1>3, <1>4, ZenonT(30) DEF LiveIds

\* The switches that leave the one Main has resumed in its place.
LEMMA AtPosKept ==
  ASSUME MgrOK(mgr, {}, {}), Moves(mgr, mgr'), mgr.k.cur # Main,
         NEW pos, NEW called, AtPos(mgr, pos, called)
  PROVE  AtPos(mgr', pos, called)
<1> DEFINE m == mgr
           n == mgr'
           c == m.k.cur
           w == m.k.parent[c]
<1>1. /\ c \in Slots /\ w \in Contexts /\ w # c /\ c \in Contexts /\ m.call[w].op = "resume"
      /\ m.call \in [Contexts -> Calls] /\ m.k \in Schedules
  <2>1. Control(m.pool, m.k, m.call)
    BY ZenonT(30) DEF MgrOK
  <2>2. /\ c \in Slots /\ c \in UsedSlots(m.pool) /\ w \in Contexts /\ w # c
        /\ m.call[w].op = "resume" /\ m.call[w].id = LogicIdx(m.pool, c)
    BY <2>1, ParentWaits
  <2> QED BY <2>1, <2>2, MainIsNoSlot, ZenonT(30) DEF Control, Sound
<1> SUFFICES ASSUME NEW s \in Slots, Running(n.k, n.call, s), n.k.parent[s] = Main
             PROVE  Running(m.k, m.call, s) /\ m.k.parent[s] = Main
  BY ZenonT(30) DEF AtPos
<1>2. s \in Contexts /\ s # Main
  BY MainIsNoSlot, ZenonT(30)
<1>3. CASE Same(n, m) \/ Allocates(m, n)
  BY <1>3, ZenonT(30) DEF Same, Allocates, Running, Waits
<1>4. CASE \E t \in Slots : Frees(m, n, t)
  <2>1. PICK t \in Slots : Frees(m, n, t)
    BY <1>4, ZenonT(30)
  <2>2. n.call = [m.call EXCEPT ![t] = NoCall] /\ n.k.cur = m.k.cur /\ n.k.parent = m.k.parent
    BY <2>1, ZenonT(30) DEF Frees
  <2> QED BY <1>1, <1>2, <2>2, CallTypes, ZenonT(30) DEF Running, Waits
<1>5. CASE \E t \in Slots : Resumes(m, n, t, 0)
  <2>1. PICK t \in Slots : Resumes(m, n, t, 0)
    BY <1>5, ZenonT(30)
  <2> DEFINE v == InCall("resume", LogicIdx(m.pool, t))
  <2>2. /\ n.k.cur = t /\ n.k.parent = [m.k.parent EXCEPT ![t] = m.k.cur]
        /\ n.call = [m.call EXCEPT ![m.k.cur] = v, ![t] = NoCall]
    BY <2>1, ZenonT(30) DEF Resumes
  <2> HIDE DEF v
  <2>3. s # t /\ m.k.parent[s] = Main
    BY <1>1, <2>2, ZenonT(30) DEF Schedules
  <2> QED BY <1>1, <1>2, <2>2, <2>3, ZenonT(30) DEF Running, Waits
<1>6. CASE Yields(m, n)
  <2> DEFINE v == InCall("yield", m.runid)
  <2>1. /\ n.k.cur = w /\ n.k.parent = [m.k.parent EXCEPT ![c] = Main]
        /\ n.call = [m.call EXCEPT ![c] = v, ![w] = NoCall] /\ v.op = "yield"
    BY <1>6, ZenonT(30) DEF Yields, InCall
  <2> HIDE DEF v
  <2>2. s # c
    BY <1>1, <2>1, ZenonT(30) DEF Running, Waits
  <2> QED BY <1>1, <1>2, <2>1, <2>2, ZenonT(30) DEF Running, Waits, Schedules
<1>7. CASE Finishes(m, n)
  <2>1. /\ n.k.cur = w /\ n.k.parent = [m.k.parent EXCEPT ![c] = Main]
        /\ n.call = [m.call EXCEPT ![w] = NoCall, ![c] = NoCall]
    BY <1>7, ZenonT(30) DEF Finishes
  <2>2. s # c
    BY <1>1, <2>1, CallTypes DEF Running, Waits
  <2> QED BY <1>1, <1>2, <2>1, <2>2, ZenonT(30) DEF Running, Waits, Schedules
<1> QED BY <1>3, <1>4, <1>5, <1>6, <1>7, ZenonT(30) DEF Moves

\* What todo is known to be survives every call by a coroutine that releases none.
LEMMA TodoKept ==
  ASSUME MgrOK(mgr, {}, {}), Moves(mgr, mgr'), mgr.k.cur # Main,
         LiveIds(mgr.pool) \subseteq LiveIds(mgr'.pool),
         NEW pos, NEW called, NEW now, NEW td,
         AtPos(mgr, pos, called), TodoAhead(mgr.pool, pos, called, td),
         Nested(mgr) \/ TodoExpired(mgr, now, td)
  PROVE  /\ TodoAhead(mgr'.pool, pos, called, td)
         /\ Nested(mgr') \/ TodoExpired(mgr', now, td)
<1> DEFINE m == mgr
           n == mgr'
           c == m.k.cur
           w == m.k.parent[c]
<1>1. /\ c \in Slots /\ c \in UsedSlots(m.pool) /\ w \in Contexts /\ w # c /\ c \in Contexts
      /\ m.call \in [Contexts -> Calls] /\ PoolOK(m.pool) /\ Control(m.pool, m.k, m.call)
  BY ParentWaits, MainIsNoSlot, ZenonT(30) DEF MgrOK, Control
<1>2. ASSUME NEW s \in UsedSlots(m.pool), n.pool = ReturnSlot(m.pool, s) PROVE FALSE
  <2>1. LiveIds(n.pool) = LiveIds(m.pool) \ {LogicIdx(m.pool, s)}
    BY <1>1, <1>2, ReturnDoes
  <2>2. LogicIdx(m.pool, s) \in LiveIds(m.pool)
    BY ZenonT(30) DEF LiveIds
  <2> QED BY <2>1, <2>2, ZenonT(30)
<1>3. CASE Same(n, m)
  BY <1>3, ZenonT(30) DEF Same, Nested, TodoExpired
<1>4. CASE Allocates(m, n)
  <2> DEFINE h == m.pool.freeHead
  <2>1. /\ m.pool.usedCount < Cap /\ n.pool = TakeFreeHead(m.pool)
        /\ n.call = m.call /\ n.k.cur = m.k.cur /\ n.runid = m.runid
        /\ \A s \in UsedSlots(m.pool) : n.info[s] = m.info[s]
    BY <1>4, ZenonT(30) DEF Allocates
  <2>2. /\ PoolOK(n.pool) /\ h \in FreeSlots(m.pool) /\ UsedSlots(n.pool) = UsedSlots(m.pool) \union {h}
        /\ \A s \in UsedSlots(m.pool) : s # h /\ LogicIdx(n.pool, s) = LogicIdx(m.pool, s)
    BY <1>1, <2>1, TakeDoes, ZenonT(30)
  <2>3. PICK T : Ahead(m.pool, pos, T) /\ td \subseteq (IF called THEN T \ {LogicIdx(m.pool, pos)} ELSE T)
    BY ZenonT(30) DEF TodoAhead
  <2>4. Ahead(n.pool, pos, T)
    BY <1>1, <2>1, <2>3, AheadTake, ZenonT(30)
  <2>5. pos \in UsedSlots(m.pool)
    BY <1>1, <2>3, AheadNext, ZenonT(30)
  <2>6. TodoAhead(n.pool, pos, called, td)
    BY <2>2, <2>3, <2>4, <2>5, ZenonT(30) DEF TodoAhead
  <2>7. LogicIdx(n.pool, h) \notin td
    <3> SUFFICES ASSUME LogicIdx(n.pool, h) \in td PROVE FALSE
      BY ZenonT(30)
    <3>1. PICK s \in UsedSlots(m.pool) : LogicIdx(n.pool, h) = LogicIdx(m.pool, s)
      BY <1>1, TodoLive DEF LiveIds
    <3>2. s # h /\ s \in Slots /\ h \in Slots /\ LogicIdx(n.pool, s) = LogicIdx(n.pool, h) /\ PoolType(n.pool)
      BY <2>2, <3>1, ZenonT(30) DEF UsedSlots, FreeSlots, PoolOK
    <3> QED BY <3>2, IdsDiffer, ZenonT(30)
  <2>8. TodoExpired(m, now, td) => TodoExpired(n, now, td)
    BY <2>1, <2>2, <2>7, ZenonT(30) DEF TodoExpired
  <2>9. Nested(m) => Nested(n)
    BY <2>1, ZenonT(30) DEF Nested
  <2> QED BY <2>6, <2>8, <2>9, ZenonT(30)
<1>5. CASE \E s \in Slots : Frees(m, n, s)
  BY <1>2, <1>5, ZenonT(30) DEF Frees
<1>6. CASE \E s \in Slots : Resumes(m, n, s, 0)
  <2>1. PICK s \in Slots : Resumes(m, n, s, 0)
    BY <1>6, ZenonT(30)
  <2> DEFINE v == InCall("resume", LogicIdx(m.pool, s))
  <2>2. /\ n.pool = m.pool /\ v.op = "resume" /\ s # c
        /\ n.call = [m.call EXCEPT ![c] = v, ![s] = NoCall]
    BY <2>1, ZenonT(30) DEF Resumes, InCall, Running
  <2> HIDE DEF v
  <2>3. Waits(n.call, c)
    BY <1>1, <2>2, ZenonT(30) DEF Waits
  <2> QED BY <1>1, <2>2, <2>3, ZenonT(30) DEF Nested
<1>7. CASE Yields(m, n)
  <2>1. /\ n.pool = m.pool /\ n.k.cur = w /\ n.runid = 0 /\ m.runid # 0
        /\ \A s \in Slots \ {c} : n.info[s] = m.info[s]
    BY <1>7, ZenonT(30) DEF Yields
  <2>2. CASE w # Main
    BY <2>1, <2>2, ZenonT(30) DEF Nested
  <2>3. CASE w = Main
    <3>1. ~Nested(m)
      BY <1>1, <2>1, <2>3, FirstAlone, ZenonT(30) DEF Nested
    <3>2. called /\ pos = c
      BY <1>1, <2>3, ZenonT(30) DEF AtPos, Running
    <3>3. LogicIdx(m.pool, c) \notin td
      BY <3>2, ZenonT(30) DEF TodoAhead
    <3>4. TodoExpired(n, now, td)
      <4> SUFFICES ASSUME NEW s \in UsedSlots(m.pool), LogicIdx(m.pool, s) \in td
                   PROVE  n.info[s].expire <= now
        BY <2>1, ZenonT(30) DEF TodoExpired
      <4>1. s # c /\ s \in Slots
        BY <3>3, ZenonT(30) DEF UsedSlots
      <4> QED BY <2>1, <3>1, <4>1, ZenonT(30) DEF TodoExpired
    <3> QED BY <2>1, <3>4, ZenonT(30)
  <2> QED BY <2>2, <2>3, ZenonT(30)
<1>8. CASE Finishes(m, n)
  BY <1>2, <1>8, ZenonT(30) DEF Finishes
<1> QED BY <1>3, <1>4, <1>5, <1>6, <1>7, <1>8, ZenonT(30) DEF Moves

LEMMA NextWalk ==
  ASSUME IInv, Walk, [Next]_vars
  PROVE  Walk'
<1>1. /\ MgrOK(mgr, {}, {}) /\ PoolOK(mgr.pool) /\ PoolType(mgr.pool) /\ PassOK
      /\ Control(mgr.pool, mgr.k, mgr.call)
  BY ZenonT(30) DEF IInv, MgrOK, Control, PoolOK
<1>2. ASSUME InMain PROVE ~Nested(mgr) /\ \A s \in Slots : ~Running(mgr.k, mgr.call, s)
  BY <1>1, <1>2, MainAlone, ZenonT(30) DEF InMain, Nested, Running
<1>3. CASE Client
  <2>1. /\ MgrOK(mgr', {}, {}) /\ Moves(mgr, mgr')
        /\ ClientRuns /\ Forget /\ up' = up /\ pass' = pass
    BY <1>1, <1>3, ClientMoves, ZenonT(30)
  <2>2. ASSUME ~up PROVE UsedSlots(mgr'.pool) = {}
    <3>1. UsedSlots(mgr.pool) = {}
      BY <2>2, ZenonT(30) DEF Walk
    <3>2. CASE mgr'.pool = mgr.pool
      BY <3>1, <3>2, ZenonT(30)
    <3>3. mgr.k.cur = Main
      BY <1>1, <3>1, ParentWaits, ZenonT(30)
    <3>4. mgr'.pool = mgr.pool
      <4>1. CASE CallAlloc
        <5>1. mgr' = Returns(mgr, "alloc", -1)
          BY <2>2, <4>1, ZenonT(30) DEF CallAlloc, ClientStep
        <5> QED BY <1>1, <5>1, ReturnsDoes DEF MgrOK, Same
      <4>2. CASE CallRelease
        <5>1. PICK id \in Ids : mgr' = Release(mgr, id)
          BY <4>2, ZenonT(30) DEF CallRelease, ClientStep
        <5>2. ~IsLive(mgr.pool, id)
          <6>1. id \in Int
            BY MaxIntAssumption DEF Ids
          <6> QED BY <1>1, <3>1, <6>1, LiveSlot, ZenonT(30)
        <5>3. mgr' = Returns(mgr, "release", -1)
          BY <5>1, <5>2, ZenonT(30) DEF Release, FreeCo
        <5> QED BY <1>1, <5>3, ReturnsDoes DEF MgrOK, Same
      <4>3. CASE CallResume
        <5>1. PICK id \in Ids : mgr' = Resume(mgr, id)
          BY <4>3 DEF CallResume, ClientStep
        <5>2. ~IsLive(mgr.pool, id)
          <6>1. id \in Int
            BY MaxIntAssumption DEF Ids
          <6> QED BY <1>1, <3>1, <6>1, LiveSlot
        <5> QED BY <1>1, <5>1, <5>2, ResumeRefused, ZenonT(30) DEF MgrOK, Same
      <4>4. CASE CallYield
        <5>1. PICK t \in Times : mgr' = Yield(mgr, t)
          BY <4>4, ZenonT(30) DEF CallYield, ClientStep
        <5>2. mgr.runid = 0
          BY <1>1, <3>3, ZenonT(30) DEF MgrOK, RunId
        <5> QED BY <1>1, <5>1, <5>2, YieldRefused, ZenonT(30) DEF Same
      <4>5. CASE FunctionReturns
        BY <3>3, <4>5, ZenonT(30) DEF FunctionReturns, InMain
      <4> QED BY <1>3, <4>1, <4>2, <4>3, <4>4, <4>5, ZenonT(30) DEF Client
    <3> QED BY <3>1, <3>4, ZenonT(30)
  <2>3. CASE pass.kind = "all"
    <3>1. mgr.k.cur # Main /\ AtPos(mgr, pass.pos, pass.called)
      BY <2>1, <2>3, ZenonT(30) DEF ClientRuns, InMain, Walk
    <3>2. AtPos(mgr', pass.pos, pass.called)
      BY <1>1, <2>1, <3>1, AtPosKept, ZenonT(30)
    <3>3. ASSUME todo' # {}
          PROVE  /\ TodoAhead(mgr'.pool, pass.pos, pass.called, todo')
                 /\ Nested(mgr') \/ TodoExpired(mgr', pass.now, todo')
      <4>1. LiveIds(mgr.pool) \subseteq LiveIds(mgr'.pool) /\ todo' = todo
        BY <2>1, <3>3, ZenonT(30) DEF Forget
      <4>2. TodoAhead(mgr.pool, pass.pos, pass.called, todo) /\ (Nested(mgr) \/ TodoExpired(mgr, pass.now, todo))
        BY <2>3, <3>3, <4>1, ZenonT(30) DEF Walk
      <4> QED BY <1>1, <2>1, <3>1, <4>1, <4>2, TodoKept, ZenonT(30)
    <3> QED BY <2>1, <2>2, <3>2, <3>3, ZenonT(30) DEF Walk
  <2>4. CASE pass.kind # "all"
    BY <2>1, <2>2, <2>4, ZenonT(30) DEF Walk
  <2> QED BY <2>3, <2>4, ZenonT(30)
<1>4. CASE InitCoMgr
  <2>1. pass.kind = "none" /\ pass' = pass /\ up'
    BY <1>4, ZenonT(30) DEF InitCoMgr, Walk
  <2> QED BY <2>1, ZenonT(30) DEF Walk
<1>5. CASE Destory
  <2>1. pass.kind = "none" /\ pass' = pass /\ mgr' = Fresh(mgr.info)
    BY <1>5, ZenonT(30) DEF Destory
  <2>2. UsedSlots(mgr'.pool) = {}
    BY <2>1, ZenonT(30) DEF Fresh, objpool_init, UsedSlots
  <2> QED BY <2>1, <2>2, ZenonT(30) DEF Walk
<1>6. CASE ProcessAllExpire
  <2>1. PICK now \in Times :
          /\ pass' = IF mgr.pool.usedHead = Nil THEN NoPass ELSE At("all", mgr.pool.usedHead, now, 0)
          /\ todo' = {LogicIdx(mgr.pool, s) : s \in {u \in UsedSlots(mgr.pool) : Expired(u, now)}}
    BY <1>6, ZenonT(30) DEF ProcessAllExpire
  <2>2. InMain /\ up' = up /\ mgr' = mgr
    BY <1>6, ZenonT(30) DEF ProcessAllExpire, InLoop
  <2>3. CASE mgr.pool.usedHead = Nil
    BY <2>1, <2>2, <2>3, NoPassType, ZenonT(30) DEF Walk
  <2>4. CASE mgr.pool.usedHead # Nil
    <3> DEFINE h == mgr.pool.usedHead
    <3>1. h \in Slots /\ Ahead(mgr.pool, h, LiveIds(mgr.pool))
      BY <1>1, <2>4, AheadAtHead, ZenonT(30)
    <3>2. h \in UsedSlots(mgr.pool)
      BY <1>1, <3>1, AheadNext, ZenonT(30)
    <3>3. up
      BY <3>2, ZenonT(30) DEF Walk
    <3>4. pass'.kind = "all" /\ pass'.pos = h /\ pass'.now = now /\ pass'.called = FALSE
      BY <2>1, <2>4, ZenonT(30) DEF At
    <3>5. TodoAhead(mgr.pool, h, FALSE, todo')
      <4>1. todo' \subseteq LiveIds(mgr.pool)
        BY <2>1, ZenonT(30) DEF LiveIds
      <4> QED BY <3>1, <4>1, ZenonT(30) DEF TodoAhead
    <3>6. TodoExpired(mgr, now, todo')
      <4> SUFFICES ASSUME NEW s \in UsedSlots(mgr.pool), LogicIdx(mgr.pool, s) \in todo'
                   PROVE  mgr.info[s].expire <= now
        BY ZenonT(30) DEF TodoExpired
      <4>1. PICK u \in UsedSlots(mgr.pool) : Expired(u, now) /\ LogicIdx(mgr.pool, s) = LogicIdx(mgr.pool, u)
        BY <2>1, ZenonT(30)
      <4>2. s = u
        BY <1>1, <4>1, IdsDiffer, ZenonT(30) DEF UsedSlots
      <4> QED BY <4>1, <4>2, ZenonT(30) DEF Expired
    <3>7. AtPos(mgr, h, FALSE)
      BY <1>2, <2>2, ZenonT(30) DEF AtPos
    <3> QED BY <2>2, <3>3, <3>4, <3>5, <3>6, <3>7, ZenonT(30) DEF Walk
  <2> QED BY <2>3, <2>4, ZenonT(30)
<1> DEFINE id == LogicIdx(mgr.pool, pass.pos)
           nx == mgr.pool.next[pass.pos]
<1>7. ASSUME InMain, pass.kind = "all", up' = up, mgr' = mgr, pass' = TravelTo(nx),
             NEW td, todo' = IF pass' = NoPass THEN {} ELSE td, td \subseteq todo, id \notin td \/ pass.called
      PROVE  Walk'
  <2>1. CASE pass'.kind # "all"
    <3>1. pass'.kind = "none"
      <4>1. nx \in Slots \union {Nil} /\ pass \in PassType
        BY <1>1, <1>7, ZenonT(30) DEF PassOK, PoolType
      <4> QED BY <1>7, <2>1, <4>1, NoPassType, MovedPass, ZenonT(30) DEF TravelTo
    <3> QED BY <1>7, <3>1, ZenonT(30) DEF Walk
  <2>2. CASE pass'.kind = "all"
    <3>1. nx # Nil /\ pass' = [pass EXCEPT !.pos = nx, !.called = FALSE]
      BY <1>7, <2>2, NoPassType, ZenonT(30) DEF TravelTo
    <3>2. nx \in Slots /\ pass \in PassType /\ up
      BY <1>1, <1>7, <3>1, ZenonT(30) DEF PassOK, PoolType, Walk
    <3>3. pass'.pos = nx /\ pass'.now = pass.now /\ pass'.called = FALSE
      BY <3>1, <3>2, MovedPass, ZenonT(30)
    <3>4. AtPos(mgr, nx, FALSE)
      BY <1>2, <1>7, ZenonT(30) DEF AtPos
    <3>5. ASSUME todo' # {}
          PROVE  TodoAhead(mgr.pool, nx, FALSE, todo') /\ TodoExpired(mgr, pass.now, todo')
      <4>1. todo' = td /\ todo # {}
        BY <1>7, <3>5, ZenonT(30)
      <4>2. PICK T : /\ Ahead(mgr.pool, pass.pos, T)
                     /\ todo \subseteq (IF pass.called THEN T \ {id} ELSE T)
        BY <1>7, <4>1, ZenonT(30) DEF Walk, TodoAhead
      <4>3. Ahead(mgr.pool, nx, T \ {id})
        BY <1>1, <3>1, <4>2, AheadNext, ZenonT(30)
      <4>4. td \subseteq T \ {id}
        BY <1>7, <4>2, ZenonT(30)
      <4>5. TodoExpired(mgr, pass.now, todo)
        BY <1>2, <1>7, <4>1, ZenonT(30) DEF Walk
      <4> QED BY <1>7, <4>1, <4>3, <4>4, <4>5, ZenonT(30) DEF TodoAhead, TodoExpired
    <3> QED BY <1>7, <3>2, <3>3, <3>4, <3>5, ZenonT(30) DEF Walk
  <2> QED BY <2>1, <2>2, ZenonT(30)
<1>8. CASE AllVisit
  <2>1. /\ InMain /\ pass.kind = "all" /\ ~pass.called /\ up' = up
        /\ todo' = IF pass' = NoPass THEN {} ELSE todo \ {id}
    BY <1>8, ZenonT(30) DEF AllVisit, InLoop
  <2>2. CASE ~Expired(pass.pos, pass.now)
    <3>1. pass' = TravelTo(nx) /\ mgr' = mgr
      BY <1>8, <2>2, ZenonT(30) DEF AllVisit
    <3> QED BY <1>7, <2>1, <3>1, ZenonT(30)
  <2>3. CASE Expired(pass.pos, pass.now)
    <3>1. Expire(pass.pos) /\ pass.pos \in Slots /\ up
      BY <1>1, <1>8, <2>1, <2>3, ZenonT(30) DEF AllVisit, PassOK, Walk
    <3>2. Marks(mgr, mgr') \/ Resumes(mgr, mgr', pass.pos, YIELD_TIMEOUT)
      BY <1>1, <2>1, <3>1, ExpireMoves, ZenonT(30)
    <3>3. pass'.kind = "all" /\ pass'.pos = pass.pos /\ pass'.now = pass.now /\ pass'.called = TRUE
      BY <1>1, <2>1, <3>1, ZenonT(30) DEF Expire, PassOK, PassType
    <3>4. todo' = todo \ {id}
      BY <2>1, <3>3, NoPassType, ZenonT(30)
    <3>5. mgr'.pool = mgr.pool /\ \A s \in Slots : mgr'.info[s].expire = mgr.info[s].expire
      BY <3>2, ZenonT(30) DEF Marks, Resumes
    <3>6. AtPos(mgr', pass.pos, TRUE)
      <4>1. CASE Marks(mgr, mgr')
        BY <1>2, <2>1, <4>1, ZenonT(30) DEF Marks, AtPos
      <4>2. CASE Resumes(mgr, mgr', pass.pos, YIELD_TIMEOUT)
        <5> DEFINE v == InCall("resume", id)
        <5>1. mgr'.k.cur = pass.pos /\ mgr'.call = [mgr.call EXCEPT ![mgr.k.cur] = v, ![pass.pos] = NoCall]
          BY <4>2, ZenonT(30) DEF Resumes
        <5> HIDE DEF v
        <5>2. mgr.call \in [Contexts -> Calls] /\ mgr.k.cur = Main
          BY <1>1, <2>1, ZenonT(30) DEF Control, InMain
        <5>3. \A s \in Slots : s # pass.pos => ~Running(mgr'.k, mgr'.call, s)
          BY <1>2, <2>1, <5>1, <5>2, MainIsNoSlot, ZenonT(30) DEF Running, Waits
        <5> QED BY <5>3, ZenonT(30) DEF AtPos
      <4> QED BY <3>2, <4>1, <4>2, ZenonT(30)
    <3>7. ASSUME todo' # {}
          PROVE  TodoAhead(mgr'.pool, pass.pos, TRUE, todo') /\ TodoExpired(mgr', pass.now, todo')
      <4>1. /\ TodoAhead(mgr.pool, pass.pos, FALSE, todo) /\ TodoExpired(mgr, pass.now, todo)
        BY <1>2, <2>1, <3>4, <3>7, ZenonT(30) DEF Walk, TodoAhead
      <4>2. TodoAhead(mgr.pool, pass.pos, TRUE, todo')
        BY <3>4, <4>1, ZenonT(30) DEF TodoAhead
      <4>3. TodoExpired(mgr', pass.now, todo')
        BY <3>4, <3>5, <4>1, ZenonT(30) DEF TodoExpired, UsedSlots
      <4> QED BY <3>5, <4>2, <4>3, ZenonT(30)
    <3> QED BY <2>1, <3>1, <3>3, <3>6, <3>7, ZenonT(30) DEF Walk
  <2> QED BY <2>2, <2>3, ZenonT(30)
<1>9. CASE AllNext
  <2>1. /\ InMain /\ pass.kind = "all" /\ pass.called /\ up' = up /\ mgr' = mgr
        /\ pass' = TravelTo(nx) /\ todo' = IF pass' = NoPass THEN {} ELSE todo
    BY <1>9, ZenonT(30) DEF AllNext, InLoop
  <2> QED BY <1>7, <2>1, ZenonT(30)
<1>10. CASE ProcessPartExpire \/ ProcessAllActiveFun \/ FunNext \/ PartVisit \/ PartVisited
  <2>1. up' = up /\ pass'.kind # "all" /\ (~up => pass'.kind = "none" /\ mgr' = mgr)
    <3>1. CASE ProcessPartExpire
      <4> DEFINE max == IF up THEN Cap ELSE Nil
                 ps == IF iLastPos >= max THEN 0 ELSE iLastPos
                 End(n) == IF ps + n > max THEN max ELSE ps + n
      <4>1. PICK now \in Times, n \in Counts :
              pass' = IF ps < End(n) THEN At("part", ps, now, End(n)) ELSE NoPass
        BY <3>1, ZenonT(30) DEF ProcessPartExpire
      <4>2. ~up => ~(ps < End(n))
        BY <1>1, <4>1, CountsAssumption DEF Nil, PassOK
      <4>3. up' = up /\ mgr' = mgr
        BY <3>1, ZenonT(30) DEF ProcessPartExpire
      <4> HIDE DEF ps, End
      <4> QED BY <4>1, <4>2, <4>3, NoPassType, ZenonT(30) DEF At
    <3>2. CASE ProcessAllActiveFun
      <4>1. up' = up /\ mgr' = mgr /\ mgr.pool.usedHead # Nil /\ pass'.kind = "fun"
        BY <3>2, ZenonT(30) DEF ProcessAllActiveFun, At
      <4>2. mgr.pool.usedHead \in UsedSlots(mgr.pool)
        BY <1>1, <4>1, AheadAtHead, AheadNext, ZenonT(30)
      <4> QED BY <4>1, <4>2, ZenonT(30) DEF Walk
    <3>3. CASE FunNext
      <4>1. up' = up /\ pass.kind = "fun" /\ pass' = TravelTo(nx) /\ mgr' = mgr
        BY <3>3, ZenonT(30) DEF FunNext, InLoop
      <4>2. nx \in Slots \union {Nil} /\ pass \in PassType /\ up
        BY <1>1, <4>1, ZenonT(30) DEF PassOK, PoolType, Walk
      <4> QED BY <4>1, <4>2, NoPassType, MovedPass, ZenonT(30) DEF TravelTo
    <3>4. CASE PartVisit \/ PartVisited
      <4>1. up' = up /\ pass.kind = "part" /\ up
        BY <3>4, ZenonT(30) DEF PartVisit, PartVisited, InLoop, Walk
      <4>2. PartNext \/ pass' = [pass EXCEPT !.called = TRUE]
        BY <3>4, ZenonT(30) DEF PartVisit, PartVisited, Expire
      <4>3. pass \in PassType
        BY <1>1, ZenonT(30) DEF PassOK
      <4>4. pass' = NoPass \/ pass'.kind = "part"
        BY <4>1, <4>2, <4>3, ZenonT(30) DEF PartNext, ScanTo, PassType
      <4> QED BY <4>1, <4>4, NoPassType, ZenonT(30)
    <3> QED BY <1>10, <3>1, <3>2, <3>3, <3>4, ZenonT(30)
  <2> QED BY <2>1, ZenonT(30) DEF Walk
<1>11. CASE UNCHANGED vars
  BY <1>11, ZenonT(30) DEF vars, Walk, AtPos, TodoAhead, TodoExpired, Nested
<1> QED BY <1>3, <1>4, <1>5, <1>6, <1>8, <1>9, <1>10, <1>11, ZenonT(30) DEF Next, Check

\* A ProcessAllExpire that comes to its end has checked all there was to check.
LEMMA WalkEnds ==
  ASSUME IInv, Walk, Next, pass.kind = "all", pass'.kind = "none"
  PROVE  todo = {}
<1> DEFINE id == LogicIdx(mgr.pool, pass.pos)
           nx == mgr.pool.next[pass.pos]
<1>1. /\ PoolOK(mgr.pool) /\ PoolType(mgr.pool) /\ pass \in PassType /\ pass.pos \in Slots
      /\ Control(mgr.pool, mgr.k, mgr.call)
  BY ZenonT(30) DEF IInv, MgrOK, Control, PoolOK, PassOK
<1> SUFFICES ASSUME todo # {} PROVE FALSE
  BY ZenonT(30)
<1>2. PICK T : Ahead(mgr.pool, pass.pos, T) /\ todo \subseteq (IF pass.called THEN T \ {id} ELSE T)
  BY ZenonT(30) DEF Walk, TodoAhead
<1>3. pass.pos \in UsedSlots(mgr.pool) /\ (nx = Nil => T \ {id} = {})
  BY <1>1, <1>2, AheadNext, ZenonT(30)
<1>4. ASSUME pass' = TravelTo(nx) PROVE nx = Nil
  <2> SUFFICES ASSUME nx # Nil PROVE FALSE
    BY ZenonT(30)
  <2>1. nx \in Slots
    BY <1>1, ZenonT(30) DEF PoolType
  <2>2. pass' = [pass EXCEPT !.pos = nx, !.called = FALSE]
    BY <1>4, ZenonT(30) DEF TravelTo
  <2> QED BY <1>1, <2>1, <2>2, MovedPass, ZenonT(30)
<1>5. CASE AllVisit
  <2>1. CASE Expired(pass.pos, pass.now)
    BY <1>1, <1>5, <2>1, ZenonT(30) DEF AllVisit, Expire, PassType
  <2>2. CASE ~Expired(pass.pos, pass.now)
    <3>1. InMain /\ pass' = TravelTo(nx)
      BY <1>5, <2>2, ZenonT(30) DEF AllVisit, InLoop
    <3>2. id \in todo
      BY <1>2, <1>3, <1>4, <3>1, ZenonT(30)
    <3>3. ~Nested(mgr)
      BY <1>1, <3>1, MainAlone, ZenonT(30) DEF Nested, InMain, Running
    <3>4. mgr.info[pass.pos].expire <= pass.now
      BY <1>3, <3>2, <3>3, ZenonT(30) DEF Walk, TodoExpired
    <3> QED BY <2>2, <3>4, ZenonT(30) DEF Expired
  <2> QED BY <2>1, <2>2, ZenonT(30)
<1>6. CASE AllNext
  <2>1. pass.called /\ pass' = TravelTo(nx)
    BY <1>6, ZenonT(30) DEF AllNext, InLoop
  <2> QED BY <1>2, <1>3, <1>4, <2>1, ZenonT(30)
<1>7. CASE Client \/ InitCoMgr \/ Destory
  BY <1>7, ClientMoves, ZenonT(30) DEF IInv, InitCoMgr, Destory
<1>8. CASE ProcessAllExpire \/ ProcessPartExpire \/ ProcessAllActiveFun \/ FunNext \/ PartVisit \/ PartVisited
  BY <1>8, ZenonT(30) DEF ProcessAllExpire, ProcessPartExpire, ProcessAllActiveFun, FunNext, PartVisit, PartVisited, InLoop
<1> QED BY <1>5, <1>6, <1>7, <1>8, ZenonT(30) DEF Next, Check

\* SCoMgr::ProcessAllExpire resumes every coroutine that had expired when it was
\* called, whatever those it resumes allocate, resume and yield, unless one of
\* them ends or is released meanwhile.
THEOREM AllExpireChecks == Spec => AllExpireChecksAll
<1>1. Init => Walk
  <2> SUFFICES ASSUME Init PROVE Walk
    OBVIOUS
  <2>1. pass.kind = "none" /\ mgr.pool = objpool_init
    BY NoPassType, ZenonT(30) DEF Init, Fresh
  <2> QED BY <2>1 DEF Walk, UsedSlots, objpool_init
<1>2. IInv /\ Walk /\ [Next]_vars => Walk'
  BY NextWalk, ZenonT(30)
<1>3. IInv /\ Walk /\ [Next]_vars => [pass.kind = "all" /\ pass'.kind = "none" => todo = {}]_vars
  BY WalkEnds, ZenonT(30)
<1> QED BY <1>1, <1>2, <1>3, Inductive, PTL DEF Spec, AllExpireChecksAll
=============================================================================
