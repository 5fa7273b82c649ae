------------------------------ MODULE ObjPool -------------------------------
(***************************************************************************)
(* An object pool in use: clients call the objpool_* functions in any      *)
(* order and with any id, and traverse the used list with                  *)
(* objpool_travel_used, whose callback may call the pool again.            *)
(*                                                                         *)
(* The library is used by one thread, so a call is one step.  A traversal  *)
(* is several: while cur is a slot, the callback of that slot is running,  *)
(* every operation of the pool is one that the callback performs, and a    *)
(* Travel* step is the return of the callback.                             *)
(***************************************************************************)
EXTENDS ObjPoolOps, FiniteSets

CONSTANT
  SelfFree   \* may a callback free the object it was called for other than
             \* by returning REMOVE_ME?

ASSUME SelfFreeAssumption == SelfFree \in BOOLEAN

VARIABLES
  pool,      \* the TObjPool
  ret,       \* the last operation: its name, its argument and its result
  cur,       \* i of objpool_travel_used; NotTravelling outside a traversal
  spent,     \* history: ids freed since their slot last wrapped to generation 1
  todo       \* history: ids live since the traversal began and not yet visited

vars == <<pool, ret, cur, spent, todo>>

NotTravelling == -2

\* The ids a client may pass: one below 0 stands for the error codes.
Ids == -1 .. MaxInt

OpNames == {"init", "alloc", "free", "free_bypos", "get"}
Outcome(op, arg, val) == [op |-> op, arg |-> arg, val |-> val]

Init ==
  /\ pool = objpool_init
  /\ ret = Outcome("init", Nil, SUCCESS)
  /\ cur = NotTravelling
  /\ spent = {}
  /\ todo = {}

-----------------------------------------------------------------------------
(* Operations *)

\* The history of freeing every id that is live in p and no longer in q.
Freed(p, q) ==
  /\ spent' = spent \union (LiveIds(p) \ LiveIds(q))
  /\ todo' = todo \ (LiveIds(p) \ LiveIds(q))

Alloc ==
  LET r == objpool_alloc(pool)
      s == CRem(r.ret)
      wrapped == r.ret > 0 /\ r.pool.acc[s] <= pool.acc[s]
  IN  /\ pool' = r.pool
      /\ ret' = Outcome("alloc", Nil, r.ret)
      /\ spent' = IF wrapped THEN {id \in spent : CRem(id) # s} ELSE spent
      /\ UNCHANGED <<cur, todo>>

\* What a callback may free.
MayFree(s) == SelfFree \/ s # cur

Free(id) ==
  LET r == objpool_free(pool, id)
  IN  /\ MayFree(CRem(id))
      /\ pool' = r.pool
      /\ ret' = Outcome("free", id, r.ret)
      /\ Freed(pool, r.pool)
      /\ UNCHANGED cur

FreeByPos(pos) ==
  LET r == objpool_free_bypos(pool, pos)
  IN  /\ MayFree(pos)
      /\ pool' = r.pool
      /\ ret' = Outcome("free_bypos", pos, r.ret)
      /\ Freed(pool, r.pool)
      /\ UNCHANGED cur

Get(id) ==
  /\ ret' = Outcome("get", id, objpool_get(pool, id))
  /\ UNCHANGED <<pool, cur, spent, todo>>

-----------------------------------------------------------------------------
(* objpool_travel_used *)

\* The end of the loop: i has become -1, or the callback returned BREAK_TRAVEL.
AtSlotOrDone(i) == IF i = Nil THEN NotTravelling ELSE i

TravelStart ==
  /\ cur = NotTravelling
  /\ cur' = AtSlotOrDone(pool.usedHead)
  /\ todo' = LiveIds(pool)
  /\ UNCHANGED <<pool, ret, spent>>

\* Mutation: after a callback the traversal starts again at the head.
TravelNextRestart ==
  /\ cur \in Slots
  /\ cur' = AtSlotOrDone(pool.usedHead)
  /\ todo' = todo \ {LogicIdx(pool, cur)}
  /\ UNCHANGED <<pool, ret, spent>>

\* The callback of slot cur returns DO_THING.
TravelNext ==
  /\ cur \in Slots
  /\ cur' = AtSlotOrDone(pool.next[cur])
  /\ todo' = todo \ {LogicIdx(pool, cur)}
  /\ UNCHANGED <<pool, ret, spent>>

\* Mutation: the next slot is read after the removal.
TravelRemoveLate ==
  LET q == objpool_free_bypos(pool, cur).pool
  IN  /\ cur \in Slots
      /\ cur' = AtSlotOrDone(q.next[cur])
      /\ pool' = q
      /\ spent' = spent \union (LiveIds(pool) \ LiveIds(q))
      /\ todo' = todo \ {LogicIdx(pool, cur)}
      /\ UNCHANGED ret

\* The callback returns REMOVE_ME: the next slot is read before the removal.
TravelRemove ==
  LET q == objpool_free_bypos(pool, cur).pool
  IN  /\ cur \in Slots
      /\ cur' = AtSlotOrDone(pool.next[cur])
      /\ pool' = q
      /\ spent' = spent \union (LiveIds(pool) \ LiveIds(q))
      /\ todo' = todo \ {LogicIdx(pool, cur)}
      /\ UNCHANGED ret

\* The callback returns BREAK_TRAVEL: nothing is left to visit.
TravelBreak ==
  /\ cur \in Slots
  /\ cur' = NotTravelling
  /\ todo' = {}
  /\ UNCHANGED <<pool, ret, spent>>

Travel == TravelStart \/ TravelNext \/ TravelRemove \/ TravelBreak

Next ==
  \/ Alloc
  \/ \E id \in Ids : Free(id) \/ Get(id)
  \/ \E pos \in -1 .. Cap : FreeByPos(pos)
  \/ Travel

Spec == Init /\ [][Next]_vars

\* A callback returns: objpool_travel_used is a loop with nothing to wait for.
FairSpec == Spec /\ WF_vars(TravelNext \/ TravelRemove \/ TravelBreak)
-----------------------------------------------------------------------------
(* Properties *)

\* Type invariant of the pool and of the traversal's cursor.
TypeOK ==
  /\ PoolType(pool)
  /\ ret \in [op : OpNames, arg : Int, val : Int]
  /\ cur \in Slots \union {NotTravelling}
  /\ spent \subseteq 1 .. MaxInt
  /\ todo \subseteq 1 .. MaxInt

\* After any sequence of calls the next/prev fields thread two lists: one from
\* freeHead to freeTail through exactly the unused slots, one from usedHead
\* through exactly the used ones, and usedCount is the length of the latter.
\* This is what makes objpool_alloc find a free slot whenever its test of
\* m_iUsedCount says there is one.
ListsOK == WellLinked(pool)

\* An id that was freed is refused by objpool_get and objpool_free however
\* often its slot is allocated again, until the generation of the slot has
\* wrapped around the int range.
SpentIdsRejected == \A id \in spent : ~IsLive(pool, id)

\* A traversal stands on an object that was live when it began and that it has
\* not visited before, although callbacks allocate and free other objects; and
\* when the loop of objpool_travel_used ends, none is left unvisited.
TravelVisitsOnce ==
  /\ cur \in Slots => /\ pool.used[cur]
                      /\ LogicIdx(pool, cur) \in todo
  /\ cur = NotTravelling => todo = {}

\* Every traversal ends: what callbacks allocate is put before the cursor.
TravelEnds == cur \in Slots ~> cur = NotTravelling

\* The pool implements the abstract set of ids, return codes included.
Abstract ==
  INSTANCE IdPool WITH live <- LiveIds(pool)

ImplementsIdPool == Abstract!Spec
=============================================================================
