----------------------------- MODULE ObjPoolOps -----------------------------
(***************************************************************************)
(* The fixed-size object pool of util/container: the index area of a       *)
(* TObjPool as a record, and one operator per objpool_* function.          *)
(*                                                                         *)
(* Unused slots form the free list (allocated from freeHead, returned at   *)
(* freeTail), used slots the used list (pushed at usedHead).  Both lists   *)
(* are threaded through the same next/prev fields.  A slot counts its      *)
(* allocations in acc; the id given to the client is acc * Cap + slot, so  *)
(* that the id of an earlier allocation of the slot is recognised.         *)
(*                                                                         *)
(* The object area (m_pObj, m_iUnitSize) holds the clients' data and takes *)
(* no part in the bookkeeping: a non-NULL object pointer is the slot it    *)
(* points to, NULL is Nil.                                                 *)
(***************************************************************************)
EXTENDS Integers

CONSTANTS
  Cap,      \* iMax of objpool_init: the number of slots
  MaxInt    \* the largest value of a C int (2^31 - 1 in the program)

ASSUME CapAssumption == Cap \in Nat \ {0}

\* Every slot has at least one id that fits an int.
ASSUME MaxIntAssumption == MaxInt \in Nat /\ 2 * Cap - 1 <= MaxInt

Slots == 0 .. (Cap - 1)

\* The end of a list, and the NULL object pointer.
Nil == -1

SUCCESS                == 0
ERR_OBJPOOL_FULL       == -3
ERR_OBJPOOL_LOGICERROR == -5

\* Two's complement wrap of a sum or product that exceeds MaxInt at most once.
Wrap(x) == IF x > MaxInt THEN x - 2 * (MaxInt + 1) ELSE x

\* The C remainder by the capacity: it takes the sign of the dividend.
CRem(id) == IF id >= 0 THEN id % Cap ELSE -((-id) % Cap)

\* The id of slot s in generation a, and in its current one (iBoundCheckIdx).
MkId(a, s) == Cap * a + s
LogicIdx(p, s) == MkId(p.acc[s], s)

objpool_init ==
  [ usedCount |-> 0,
    freeHead  |-> 0,
    freeTail  |-> Cap - 1,
    usedHead  |-> Nil,
    next      |-> [i \in Slots |-> IF i = Cap - 1 THEN Nil ELSE i + 1],
    prev      |-> [i \in Slots |-> i - 1],
    acc       |-> [i \in Slots |-> 0],
    used      |-> [i \in Slots |-> FALSE] ]

-----------------------------------------------------------------------------
(* Lookups: they change nothing. *)

\* Mutations of IsLive: without the generation check, and without the used flag.
IsLiveAnyGeneration(p, id) ==
  CRem(id) >= 0 /\ p.usedCount > 0 /\ p.used[CRem(id)]

IsLiveUnused(p, id) ==
  CRem(id) >= 0 /\ p.usedCount > 0 /\ id = LogicIdx(p, CRem(id))

\* The test shared by objpool_get and objpool_free: id is the current id of a
\* used slot.
IsLive(p, id) ==
  /\ CRem(id) >= 0
  /\ p.usedCount > 0
  /\ p.used[CRem(id)]
  /\ id = LogicIdx(p, CRem(id))

objpool_get(p, id) == IF IsLive(p, id) THEN CRem(id) ELSE Nil

\* Tests the range of the position only, not whether the slot is in use.
objpool_get_bypos(p, pos) ==
  IF pos \in Slots /\ p.usedCount > 0 THEN pos ELSE Nil

objpool_get_used_items(p) == p.usedCount

-----------------------------------------------------------------------------
(* objpool_alloc: the head of the free list becomes the head of the used   *)
(* list.  When the new generation or its id overflows an int the slot      *)
(* starts again at generation 1.                                           *)

NextAcc(p, s) ==
  LET a == Wrap(p.acc[s] + 1)
  IN  IF a < 0 \/ Wrap(a * Cap + s) < 0 THEN 1 ELSE a

TakeFreeHead(p) ==
  LET s  == p.freeHead
      fn == p.next[s]
      up == p.usedHead
  IN  [ usedCount |-> p.usedCount + 1,
        freeHead  |-> fn,
        freeTail  |-> IF fn < 0 THEN Nil ELSE p.freeTail,
        usedHead  |-> s,
        next      |-> [p.next EXCEPT ![s] = up],
        prev      |-> [i \in Slots |-> IF i = s THEN Nil
                                       ELSE IF i = up THEN s
                                       ELSE IF i = fn THEN Nil
                                       ELSE p.prev[i]],
        acc       |-> [p.acc EXCEPT ![s] = NextAcc(p, s)],
        used      |-> [p.used EXCEPT ![s] = TRUE] ]

\* Mutation: one slot is never given out.
objpool_alloc_KeepOne(p) ==
  IF p.usedCount >= Cap - 1
  THEN [pool |-> p, ret |-> ERR_OBJPOOL_FULL]
  ELSE LET q == TakeFreeHead(p)
       IN  [pool |-> q, ret |-> LogicIdx(q, q.usedHead)]

\* The pool after the call, and what the call returns.
objpool_alloc(p) ==
  IF p.usedCount >= Cap
  THEN [pool |-> p, ret |-> ERR_OBJPOOL_FULL]
  ELSE LET q == TakeFreeHead(p)
       IN  [pool |-> q, ret |-> LogicIdx(q, q.usedHead)]

-----------------------------------------------------------------------------
(* objpool_free: the slot leaves the used list and becomes the tail of the *)
(* free list; it keeps its generation.                                     *)

ReturnSlot(p, s) ==
  LET ft == p.freeTail
      un == p.next[s]
      up == p.prev[s]
  IN  [ usedCount |-> p.usedCount - 1,
        freeHead  |-> IF ft < 0 THEN s ELSE p.freeHead,
        freeTail  |-> s,
        usedHead  |-> IF p.usedHead = s THEN un ELSE p.usedHead,
        next      |-> [i \in Slots |-> IF i = s THEN Nil
                                       ELSE IF i = ft THEN s
                                       ELSE IF i = up THEN un
                                       ELSE p.next[i]],
        prev      |-> [i \in Slots |-> IF i = s THEN ft
                                       ELSE IF i = un THEN up
                                       ELSE p.prev[i]],
        acc       |-> p.acc,
        used      |-> [p.used EXCEPT ![s] = FALSE] ]

objpool_free(p, id) ==
  IF IsLive(p, id)
  THEN [pool |-> ReturnSlot(p, CRem(id)), ret |-> SUCCESS]
  ELSE [pool |-> p, ret |-> ERR_OBJPOOL_LOGICERROR]

objpool_free_bypos(p, pos) ==
  IF pos \in Slots /\ p.usedCount > 0
  THEN objpool_free(p, LogicIdx(p, pos))
  ELSE [pool |-> p, ret |-> ERR_OBJPOOL_LOGICERROR]

-----------------------------------------------------------------------------
(* When the index area is consistent *)

UsedSlots(p) == {s \in Slots : p.used[s]}
FreeSlots(p) == {s \in Slots : ~p.used[s]}

\* The ids of the objects in use.
LiveIds(p) == {LogicIdx(p, s) : s \in UsedSlots(p)}

\* Every field is in range; in particular the current id of every slot fits an
\* int, and that of a used slot is at least Cap: it is never 0 or an error code.
PoolType(p) ==
  /\ p \in [ usedCount : 0 .. Cap,
            freeHead  : Slots \union {Nil},
            freeTail  : Slots \union {Nil},
            usedHead  : Slots \union {Nil},
            next      : [Slots -> Slots \union {Nil}],
            prev      : [Slots -> Slots \union {Nil}],
            acc       : [Slots -> Nat],
            used      : [Slots -> BOOLEAN] ]
  /\ \A s \in Slots : LogicIdx(p, s) <= MaxInt /\ (p.used[s] => p.acc[s] > 0)

\* q lists the n slots of S, each of them once, in the order of the next
\* fields, and the prev fields run the other way.
Threads(p, q, n, S) ==
  /\ \A i \in 1 .. n : q[i] \in S
  /\ \A s \in S : \E i \in 1 .. n : q[i] = s
  /\ \A i, j \in 1 .. n : q[i] = q[j] => i = j
  /\ \A i \in 1 .. n : /\ p.next[q[i]] = IF i = n THEN Nil ELSE q[i + 1]
                       /\ p.prev[q[i]] = IF i = 1 THEN Nil ELSE q[i - 1]

IsFreeList(p, q) ==
  LET n == Cap - p.usedCount
  IN  /\ Threads(p, q, n, FreeSlots(p))
      /\ p.freeHead = IF n = 0 THEN Nil ELSE q[1]
      /\ p.freeTail = IF n = 0 THEN Nil ELSE q[n]

IsUsedList(p, q) ==
  LET n == p.usedCount
  IN  /\ Threads(p, q, n, UsedSlots(p))
      /\ p.usedHead = IF n = 0 THEN Nil ELSE q[1]

\* The next/prev fields thread exactly these two lists.
WellLinked(p) ==
  /\ \E q \in [1 .. (Cap - p.usedCount) -> Slots] : IsFreeList(p, q)
  /\ \E q \in [1 .. p.usedCount -> Slots] : IsUsedList(p, q)
=============================================================================
