----------------------------- MODULE LiteTimer ------------------------------
(***************************************************************************)
(* The timer manager of util/timer: a binary heap of (id, expiry time)     *)
(* ordered by expiry, and an object pool that gives a timer its id and     *)
(* holds its data together with its position in the heap.  The position is *)
(* what UpdateTimer and StopTimer go by; it is kept by the assignment      *)
(* operator of LiteTimer, which every move of std::push_heap and           *)
(* std::pop_heap goes through.                                             *)
(*                                                                         *)
(* Heap positions are 0-based as in the code: position i is heap[i + 1].   *)
(* An element's m_TimerIdx is its position, set by push_back and left      *)
(* alone by assignment, and is not represented.                            *)
(***************************************************************************)
EXTENDS ObjPoolOps, Sequences, FiniteSets

CONSTANTS
  Times,   \* expiry times, and the times a tick may pass as now
  Bufs,    \* TTimerBuf
  NoBuf    \* the caller's TTimerBuf when a tick delivers nothing

\* A time_t may be negative; the manager uses 0 as a time before all others, so
\* that expiry times have to be positive.
ASSUME TimesAssumption == Times \subseteq Nat \ {0}

VARIABLES
  up,      \* m_pTimerArgPool # NULL
  pool,    \* m_pTimerArgPool
  args,    \* its objects: TTimerArg by slot
  heap,    \* m_TimerHeap
  ret      \* the last call: its name, argument and result, and the data delivered

vars == <<up, pool, args, heap, ret>>

Ids == -1 .. MaxInt
Outcome(op, arg, val, buf) == [op |-> op, arg |-> arg, val |-> val, buf |-> buf]

Blank == [timerIdx |-> 0, buf |-> NoBuf]

-----------------------------------------------------------------------------
(* The heap and the positions recorded in the pool: m = [heap, args] *)

SetTimerIdxById(p, a, id, idx) ==
  IF objpool_get(p, id) = Nil THEN a
  ELSE [a EXCEPT ![objpool_get(p, id)].timerIdx = idx]

GetTimerIdxByID(p, a, id) ==
  IF objpool_get(p, id) = Nil THEN -2 ELSE a[objpool_get(p, id)].timerIdx

\* Mutation: the smallest element is the one that expires last.
LessForward(x, y) == x.expire < y.expire

\* LiteTimer::operator <: the largest element expires first.
Less(x, y) == x.expire > y.expire

\* LiteTimer::operator =, on the element at position i.
Assign(p, m, i, e) ==
  [ heap |-> [m.heap EXCEPT ![i + 1] = e],
    args |-> SetTimerIdxById(p, m.args, e.id, i) ]

\* The hole moves up from position i until x fits (libstdc++ __push_heap).
RECURSIVE SiftUp(_, _, _, _)
SiftUp(p, m, i, x) ==
  LET parent == (i - 1) \div 2
  IN  IF i > 0 /\ Less(m.heap[parent + 1], x)
      THEN SiftUp(p, Assign(p, m, i, m.heap[parent + 1]), parent, x)
      ELSE Assign(p, m, i, x)

\* The hole moves down to a leaf of the first len positions along the larger
\* children, and x up from there (libstdc++ __adjust_heap).
RECURSIVE SiftDown(_, _, _, _, _)
SiftDown(p, m, i, len, x) ==
  LET right == 2 * i + 2
      child == IF right < len /\ ~Less(m.heap[right + 1], m.heap[right])
               THEN right ELSE right - 1
  IN  IF child < len
      THEN SiftDown(p, Assign(p, m, i, m.heap[child + 1]), child, len, x)
      ELSE SiftUp(p, m, i, x)

push_heap(p, m, len) == SiftUp(p, m, len - 1, m.heap[len])

pop_heap(p, m) ==
  LET n == Len(m.heap)
  IN  IF n < 2 THEN m
      ELSE SiftDown(p, Assign(p, m, n - 1, m.heap[1]), 0, n - 1, m.heap[n])

pop_back(m) == [m EXCEPT !.heap = SubSeq(m.heap, 1, Len(m.heap) - 1)]

-----------------------------------------------------------------------------
(* IAmTimerMgr *)

Base_StartTimer(p, m, id, t) ==
  LET n == Len(m.heap)
  IN  push_heap(p, [ heap |-> Append(m.heap, [id |-> id, expire |-> t]),
                     args |-> SetTimerIdxById(p, m.args, id, n) ], n + 1)

\* Mutation: the element is not lifted to the root first.
ToEndUnlifted(p, m, i) == pop_heap(p, [m EXCEPT !.heap[i + 1].expire = 0])

\* The element at position i becomes the largest, is lifted to the root of the
\* heap made of the first i + 1 elements, and exchanged to the end.
ToEnd(p, m, i) ==
  pop_heap(p, push_heap(p, [m EXCEPT !.heap[i + 1].expire = 0], i + 1))

Base_UpdateTimer(p, m, i, t) ==
  LET n == Len(m.heap)
  IN  push_heap(p, [ToEnd(p, m, i) EXCEPT !.heap[n].expire = t], n)

Base_StopTimer(p, m, i) == pop_back(ToEnd(p, m, i))

Base_TickOneExpireTimer(p, m) == pop_back(pop_heap(p, m))
-----------------------------------------------------------------------------
(* LiteTimerMgr *)

Here == [heap |-> heap, args |-> args]

\* The call changes the heap and its positions to m and the pool to p.
Becomes(p, m) == pool' = p /\ heap' = m.heap /\ args' = m.args /\ UNCHANGED up

Fails(op, arg, val) ==
  ret' = Outcome(op, arg, val, NoBuf) /\ UNCHANGED <<up, pool, args, heap>>

Init ==
  /\ up = FALSE
  /\ pool = objpool_init
  /\ args = [s \in Slots |-> Blank]
  /\ heap = <<>>
  /\ ret = Outcome("destroy", 0, 0, NoBuf)

\* The new pool's objects are uninitialised; nothing reads one before it is set.
InitTimerMgr ==
  \/ up /\ Fails("init", 0, -1)
  \/ /\ ~up
     /\ up' = TRUE
     /\ pool' = objpool_init
     /\ args' = [s \in Slots |-> Blank]
     /\ heap' = <<>>
     /\ ret' = Outcome("init", 0, 0, NoBuf)

\* Without a pool the fields pool and args mean nothing: they are as in Init.
Destory ==
  /\ up' = FALSE
  /\ pool' = objpool_init
  /\ args' = [s \in Slots |-> Blank]
  /\ heap' = <<>>
  /\ ret' = Outcome("destroy", 0, 0, NoBuf)

StartTimer(t, b) ==
  LET r == objpool_alloc(pool)
      s == objpool_get(r.pool, r.ret)
      m == [heap |-> heap, args |-> [args EXCEPT ![s].buf = b]]
  IN  \/ (~up \/ t = 0) /\ Fails("start", t, -1)
      \/ up /\ t # 0 /\ r.ret < 0 /\ Fails("start", t, -2)
      \/ /\ up /\ t # 0 /\ r.ret >= 0
         /\ IF s = Nil
            THEN Becomes(r.pool, Here) /\ ret' = Outcome("start", t, -3, NoBuf)
            ELSE /\ Becomes(r.pool, Base_StartTimer(r.pool, m, r.ret, t))
                 /\ ret' = Outcome("start", t, 0, NoBuf)

UpdateTimer(id, t) ==
  LET i == GetTimerIdxByID(pool, args, id)
  IN  \/ (~up \/ t = 0) /\ Fails("update", id, -1)
      \/ up /\ t # 0 /\ (i < 0 \/ heap = <<>>) /\ Fails("update", id, -2)
      \/ /\ up /\ t # 0 /\ i >= 0 /\ heap # <<>>
         /\ Becomes(pool, Base_UpdateTimer(pool, Here, i, t))
         /\ ret' = Outcome("update", id, 0, NoBuf)

StopTimer(id) ==
  LET i == GetTimerIdxByID(pool, args, id)
  IN  \/ ~up /\ Fails("stop", id, -1)
      \/ up /\ (i < 0 \/ heap = <<>>) /\ Fails("stop", id, -2)
      \/ /\ up /\ i >= 0 /\ heap # <<>>
         /\ Becomes(objpool_free(pool, id).pool, Base_StopTimer(pool, Here, i))
         /\ ret' = Outcome("stop", id, 0, NoBuf)

IsDue(h, now) == h # <<>> /\ h[1].expire <= now

TickOneExpireTimer(now) ==
  LET id == heap[1].id
      s  == objpool_get(pool, id)
  IN  \/ (~up \/ ~IsDue(heap, now)) /\ Fails("tick", now, -1)
      \/ /\ up /\ IsDue(heap, now)
         /\ IF s = Nil
            THEN /\ Becomes(pool, Base_TickOneExpireTimer(pool, Here))
                 /\ ret' = Outcome("tick", now, -1, NoBuf)
            ELSE /\ Becomes(objpool_free(pool, id).pool,
                            Base_TickOneExpireTimer(pool, Here))
                 /\ ret' = Outcome("tick", now, id, args[s].buf)

\* objpool_get_used_items is ERR_OBJPOOL_NULLPTR, here -1, without a pool.
GetActiveCount ==
  LET n == IF up THEN objpool_get_used_items(pool) ELSE -1
  IN  Fails("count", 0, IF n # Len(heap) THEN -1 ELSE n)

Next ==
  \/ InitTimerMgr \/ Destory \/ GetActiveCount
  \/ \E t \in Times \union {0} :
       \/ \E b \in Bufs : StartTimer(t, b)
       \/ \E id \in Ids : UpdateTimer(id, t)
       \/ TickOneExpireTimer(t)
  \/ \E id \in Ids : StopTimer(id)

Spec == Init /\ [][Next]_vars

-----------------------------------------------------------------------------
(* Properties *)

\* The pool and the heap agree after any sequence of starts, updates, stops and
\* ticks: as many timers in one as in the other (GetActiveCount is not -1 while
\* the manager is up), each heap element's id is live and its recorded position
\* is where the element is, and no element expires before its parent.
HeapAndPoolAgree ==
  /\ objpool_get_used_items(pool) = Len(heap)
  /\ \A i \in 1 .. Len(heap) :
       /\ GetTimerIdxByID(pool, args, heap[i].id) = i - 1
       /\ i > 1 => heap[i \div 2].expire <= heap[i].expire

\* The manager implements the set of timers: UpdateTimer and StopTimer touch
\* exactly the timer named by the id, no timer fires early or before an earlier
\* one, a due timer is never missed, and its owner's data comes back with it.
TimersOf(p, a, h) ==
  {[id |-> h[i].id, expire |-> h[i].expire, buf |-> a[CRem(h[i].id)].buf] :
     i \in 1 .. Len(h)}

Abstract == INSTANCE TimerSet WITH timers <- TimersOf(pool, args, heap)

ImplementsTimerSet == Abstract!Spec

=============================================================================
