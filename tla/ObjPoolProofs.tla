--------------------------- MODULE ObjPoolProofs ----------------------------
(***************************************************************************)
(* Proofs about the object pool in use, for every capacity and int range.  *)
(***************************************************************************)
EXTENDS ObjPool, ObjPoolOpsProofs, FiniteSetTheorems

-----------------------------------------------------------------------------
(* Invariants of the pool in use *)

\* Every step is an allocation, returns one used slot, or leaves the pool alone;
\* the ids that stop being live become spent.
LEMMA PoolSteps ==
  ASSUME PoolOK(pool), [Next]_vars
  PROVE  \/ pool' = pool /\ spent' = spent
         \/ Alloc
         \/ /\ \E s \in UsedSlots(pool) : pool' = ReturnSlot(pool, s)
            /\ spent' = spent \union (LiveIds(pool) \ LiveIds(pool'))
<1> DEFINE Returned == /\ \/ pool' = pool
                          \/ \E s \in UsedSlots(pool) : pool' = ReturnSlot(pool, s)
                       /\ spent' = spent \union (LiveIds(pool) \ LiveIds(pool'))
<1>1. ASSUME NEW id \in Ids, Free(id) PROVE Returned
  <2>1. id \in Int
    BY MaxIntAssumption DEF Ids
  <2> QED BY <1>1, <2>1, FreeCases DEF Free, Freed
<1>2. ASSUME NEW id \in Ids, Get(id) PROVE pool' = pool /\ spent' = spent
  BY <1>2, ZenonT(30) DEF Get
<1>3. ASSUME NEW pos \in -1 .. Cap, FreeByPos(pos) PROVE Returned
  <2>1. pos \in Int
    BY CapAssumption
  <2> QED BY <1>3, <2>1, FreeByPosCases DEF FreeByPos, Freed
<1>4. ASSUME TravelRemove PROVE Returned
  <2>1. cur \in Int
    BY <1>4, CapAssumption DEF TravelRemove, Slots
  <2> QED BY <1>4, <2>1, FreeByPosCases, ZenonT(30) DEF TravelRemove
<1>5. CASE TravelStart \/ TravelNext \/ TravelBreak
  BY <1>5 DEF TravelStart, TravelNext, TravelBreak
<1>6. CASE UNCHANGED vars
  BY <1>6, ZenonT(30) DEF vars
<1>7. Alloc \/ Returned \/ (pool' = pool /\ spent' = spent)
  BY <1>1, <1>2, <1>3, <1>4, <1>5, <1>6 DEF Next, Travel
<1>8. pool' = pool => LiveIds(pool) \ LiveIds(pool') = {}
  OBVIOUS
<1> QED BY <1>7, <1>8, ZenonT(30)

\* The inductive invariant: fields in range and lists intact in every state.
LEMMA PoolAlwaysOK == Spec => []PoolOK(pool)
<1>1. Init => PoolOK(pool)
  BY InitPoolOK DEF Init
<1>2. PoolOK(pool) /\ [Next]_vars => PoolOK(pool)'
  <2> SUFFICES ASSUME PoolOK(pool), [Next]_vars PROVE PoolOK(pool')
    BY ZenonT(30) DEF PoolOK, PoolType, WellLinked
  <2>1. CASE pool' = pool
    BY <2>1
  <2>2. CASE Alloc
    BY <2>2, AllocPoolOK DEF Alloc
  <2>3. ASSUME NEW s \in UsedSlots(pool), pool' = ReturnSlot(pool, s)
        PROVE  PoolOK(pool')
    BY <2>3, ReturnSlotOK DEF PoolOK
  <2> QED BY <2>1, <2>2, <2>3, PoolSteps, ZenonT(30)
<1> QED BY <1>1, <1>2, PTL DEF Spec

\* For every capacity and int range, and whatever callbacks do (SelfFree
\* included), the free list and the used list of the pool stay intact.
THEOREM ListsAlwaysOK == Spec => []ListsOK
<1>1. PoolOK(pool) => ListsOK
  BY DEF PoolOK, ListsOK
<1> QED BY <1>1, PoolAlwaysOK, PTL

-----------------------------------------------------------------------------
(* Ids of freed objects *)

\* A spent id belongs to an earlier generation of its slot, or to the current
\* one of a slot that is not in use.
OutdatedAs(p, id, s, a) ==
  /\ id = MkId(a, s)
  /\ a <= p.acc[s]
  /\ p.used[s] => a < p.acc[s]

Outdated(p, id) == \E s \in Slots : \E a \in Nat : OutdatedAs(p, id, s, a)

SpentInv == \A id \in spent : Outdated(pool, id)

\* An id of an earlier generation, or of a freed slot, is refused.
LEMMA OutdatedNotLive ==
  ASSUME NEW p, PoolType(p), NEW id, Outdated(p, id)
  PROVE  ~IsLive(p, id)
<1>0. PICK s \in Slots : \E a \in Nat : OutdatedAs(p, id, s, a)
  BY DEF Outdated
<1>1. PICK a \in Nat : OutdatedAs(p, id, s, a)
  BY <1>0
<1> USE DEF OutdatedAs
<1>2. CRem(id) = s
  BY <1>1, CRemOfId
<1>3. SUFFICES ASSUME IsLive(p, id) PROVE FALSE
  BY ZenonT(30)
<1>4. p.used[s] /\ id = MkId(p.acc[s], s) /\ p.acc[s] \in Nat
  BY <1>2, <1>3, ZenonT(30) DEF IsLive, LogicIdx, PoolType
<1>5. a = p.acc[s]
  <2>1. MkId(a, s) = MkId(p.acc[s], s)
    BY <1>1, <1>4
  <2> QED BY <1>4, <2>1, IdUnique, ZenonT(30)
<1> QED BY <1>1, <1>4, <1>5

\* Freeing a slot makes its id outdated, and keeps the others so.
LEMMA ReturnOutdates ==
  ASSUME NEW p, PoolType(p), NEW s \in UsedSlots(p),
         NEW id, Outdated(p, id) \/ id \in LiveIds(p) \ LiveIds(ReturnSlot(p, s))
  PROVE  Outdated(ReturnSlot(p, s), id)
<1> DEFINE q == ReturnSlot(p, s)
<1>1. q.acc = p.acc /\ q.used = [p.used EXCEPT ![s] = FALSE]
  BY ZenonT(30) DEF ReturnSlot
<1> HIDE DEF q
<1>2. CASE Outdated(p, id)
  BY <1>1, <1>2, ZenonT(30) DEF Outdated, OutdatedAs, PoolType, q
<1>3. CASE id \in LiveIds(p) \ LiveIds(q)
  <2>1. PICK t \in Slots : p.used[t] /\ id = LogicIdx(p, t)
    BY <1>3 DEF LiveIds, UsedSlots
  <2>2. LogicIdx(q, t) = LogicIdx(p, t)
    BY <1>1 DEF LogicIdx
  <2>3. ~q.used[t]
    BY <1>3, <2>1, <2>2, ZenonT(30) DEF LiveIds, UsedSlots
  <2>4. p.acc[t] \in Nat /\ q.acc[t] = p.acc[t]
    BY <1>1, <2>1, ZenonT(30) DEF PoolType
  <2> QED BY <2>1, <2>3, <2>4 DEF Outdated, OutdatedAs, LogicIdx, q
<1> QED BY <1>2, <1>3, ZenonT(30) DEF q

\* An allocation starts a later generation of its slot, so that what was
\* outdated stays so, except the ids of that slot when the counter wraps.
LEMMA TakeKeepsOutdated ==
  ASSUME NEW p, PoolOK(p), p.usedCount < Cap, NEW id, Outdated(p, id),
         \/ CRem(id) # p.freeHead
         \/ p.acc[p.freeHead] < TakeFreeHead(p).acc[p.freeHead]
  PROVE  Outdated(TakeFreeHead(p), id)
<1> DEFINE q == TakeFreeHead(p)
           h == p.freeHead
<1>0. PICK s \in Slots : \E a \in Nat : OutdatedAs(p, id, s, a)
  BY ZenonT(30) DEF Outdated
<1>1. PICK a \in Nat : OutdatedAs(p, id, s, a)
  BY <1>0, ZenonT(30)
<1> USE DEF OutdatedAs
<1>2. CRem(id) = s
  BY <1>1, CRemOfId, ZenonT(30)
<1>3. h \in Slots
  BY TakeFreeHeadOK, ZenonT(30) DEF PoolOK, FreeSlots
<1>4. q.acc = [p.acc EXCEPT ![h] = NextAcc(p, h)] /\ q.used = [p.used EXCEPT ![h] = TRUE]
  BY ZenonT(30) DEF TakeFreeHead
<1>5. NextAcc(p, h) \in Nat
  BY <1>3, NextAccOK, ZenonT(30) DEF PoolOK
<1> HIDE DEF q
<1>6. CASE s # h
  <2>1. q.acc[s] = p.acc[s] /\ q.used[s] = p.used[s]
    BY <1>4, <1>6, ZenonT(30) DEF PoolOK, PoolType
  <2> QED BY <1>1, <2>1, ZenonT(30) DEF Outdated, q
<1>7. CASE s = h
  <2>1. p.acc[s] < q.acc[s] /\ p.acc[s] \in Nat /\ q.acc[s] \in Nat
    BY <1>2, <1>3, <1>4, <1>5, <1>7, ZenonT(30) DEF PoolOK, PoolType, q
  <2>2. a < q.acc[s] /\ a <= q.acc[s]
    BY <1>1, <2>1
  <2> QED BY <1>1, <2>2, ZenonT(30) DEF Outdated, q
<1> QED BY <1>6, <1>7, ZenonT(30)

\* objpool_alloc makes no spent id valid again: on a wrap they are forgotten.
LEMMA AllocKeepsSpent ==
  ASSUME PoolOK(pool), SpentInv, Alloc
  PROVE  SpentInv'
<1> DEFINE h == pool.freeHead
           q == TakeFreeHead(pool)
<1>1. CASE pool.usedCount >= Cap
  <2>1. pool' = pool /\ spent' = spent
    BY <1>1 DEF Alloc, objpool_alloc, ERR_OBJPOOL_FULL
  <2> QED BY <2>1, ZenonT(30) DEF SpentInv, Outdated, OutdatedAs
<1>2. CASE ~(pool.usedCount >= Cap)
  <2>1. pool.usedCount < Cap
    BY <1>2, CapAssumption, SMTT(30) DEF PoolOK, PoolType
  <2>2. h \in Slots /\ PoolOK(q) /\ q.usedHead = h
    BY <2>1, TakeFreeHeadOK, ZenonT(30) DEF PoolOK, FreeSlots, TakeFreeHead
  <2>3. /\ objpool_alloc(pool).pool = q
        /\ objpool_alloc(pool).ret = MkId(q.acc[h], h)
    BY <1>2, <2>2, ZenonT(30) DEF objpool_alloc, LogicIdx
  <2>4. q.acc[h] \in Nat /\ q.acc[h] > 0
    <3>1. q.used[h] /\ q.acc[h] \in Nat
      BY <2>2, ZenonT(30) DEF TakeFreeHead, PoolOK, PoolType
    <3> QED BY <2>2, <3>1, ZenonT(30) DEF PoolOK, PoolType
  <2>5. CRem(MkId(q.acc[h], h)) = h
    BY <2>2, <2>4, CRemOfId, ZenonT(30)
  <2>6. MkId(q.acc[h], h) > 0
    BY <2>2, <2>4, CapAssumption, SMT DEF Slots, MkId
  <2> HIDE DEF q, h
  <2>7. pool' = q /\ spent' = IF q.acc[h] <= pool.acc[h]
                              THEN {id \in spent : CRem(id) # h} ELSE spent
    BY <2>3, <2>5, <2>6, ZenonT(30) DEF Alloc
  <2>8. ASSUME NEW id \in spent' PROVE Outdated(q, id)
    <3>1. id \in spent /\ Outdated(pool, id)
      BY <2>7, <2>8, ZenonT(30) DEF SpentInv
    <3>2. pool.acc[h] \in Nat
      BY <2>2, ZenonT(30) DEF PoolOK, PoolType
    <3>3. CRem(id) # h \/ pool.acc[h] < q.acc[h]
      BY <2>4, <2>7, <2>8, <3>2
    <3> QED BY <2>1, <3>1, <3>3, TakeKeepsOutdated, ZenonT(30) DEF q, h
  <2> QED BY <2>7, <2>8, ZenonT(30) DEF SpentInv, Outdated, OutdatedAs
<1> QED BY <1>1, <1>2, ZenonT(30)

\* However slots are reused, objpool_get and objpool_free refuse every id that
\* was freed since the generation of its slot last wrapped.
THEOREM SpentAlwaysRejected == Spec => []SpentIdsRejected
<1>1. Init => SpentInv
  BY ZenonT(30) DEF Init, SpentInv
<1>2. PoolOK(pool) /\ SpentInv /\ [Next]_vars => SpentInv'
  <2> SUFFICES ASSUME PoolOK(pool), SpentInv, [Next]_vars PROVE SpentInv'
    BY ZenonT(30)
  <2>1. CASE pool' = pool /\ spent' = spent
    BY <2>1 DEF SpentInv, Outdated, OutdatedAs
  <2>2. CASE Alloc
    BY <2>2, AllocKeepsSpent, ZenonT(30)
  <2>3. ASSUME NEW s \in UsedSlots(pool), pool' = ReturnSlot(pool, s),
               spent' = spent \union (LiveIds(pool) \ LiveIds(pool'))
        PROVE  SpentInv'
    <3>1. ASSUME NEW id \in spent' PROVE Outdated(pool', id)
      BY <2>3, <3>1, ReturnOutdates, ZenonT(30) DEF SpentInv, PoolOK
    <3> QED BY <3>1, ZenonT(30) DEF SpentInv, Outdated, OutdatedAs
  <2> QED BY <2>1, <2>2, <2>3, PoolSteps, ZenonT(30)
<1>3. PoolOK(pool) /\ SpentInv => SpentIdsRejected
  BY OutdatedNotLive, ZenonT(30) DEF PoolOK, SpentInv, SpentIdsRejected
<1> QED BY <1>1, <1>2, <1>3, PoolAlwaysOK, PTL DEF Spec

-----------------------------------------------------------------------------
(* Type correctness *)

\* The return codes of the operations are ints.
LEMMA ReturnTypes ==
  ASSUME NEW p, PoolOK(p)
  PROVE  /\ objpool_alloc(p).ret \in Int
         /\ \A id \in Int : objpool_free(p, id).ret \in Int
         /\ \A pos \in Int : objpool_free_bypos(p, pos).ret \in Int
         /\ \A id \in Int : objpool_get(p, id) \in Int
<1> USE DEF ERR_OBJPOOL_FULL, ERR_OBJPOOL_LOGICERROR, SUCCESS, Nil
<1>1. objpool_alloc(p).ret \in Int
  <2>1. CASE p.usedCount >= Cap
    BY <2>1 DEF objpool_alloc
  <2>2. CASE ~(p.usedCount >= Cap)
    <3> DEFINE q == TakeFreeHead(p)
    <3>1. p.usedCount < Cap
      BY <2>2, CapAssumption, SMTT(30) DEF PoolOK, PoolType
    <3>2. PoolType(q) /\ q.usedHead \in Slots
      BY <3>1, TakeFreeHeadOK, ZenonT(30) DEF PoolOK, FreeSlots, TakeFreeHead
    <3>3. q.acc[q.usedHead] \in Nat
      BY <3>2, ZenonT(30) DEF PoolType
    <3>4. objpool_alloc(p).ret = MkId(q.acc[q.usedHead], q.usedHead)
      BY <2>2, ZenonT(30) DEF objpool_alloc, LogicIdx
    <3> HIDE DEF q
    <3> QED BY <3>2, <3>3, <3>4, CapAssumption DEF MkId, Slots
  <2> QED BY <2>1, <2>2, ZenonT(30)
<1>2. \A id \in Int : objpool_free(p, id).ret \in Int
  BY SMTT(30) DEF objpool_free
<1>3. \A pos \in Int : objpool_free_bypos(p, pos).ret \in Int
  BY DEF objpool_free_bypos, objpool_free
<1>4. \A id \in Int : objpool_get(p, id) \in Int
  BY LiveSlot, CapAssumption DEF objpool_get, PoolOK, UsedSlots, Slots
<1> QED BY <1>1, <1>2, <1>3, <1>4, ZenonT(30)

\* Every variable keeps its type; the part about the pool rests on its lists.
THEOREM TypeAlwaysOK == Spec => []TypeOK
<1> DEFINE Rest == /\ ret \in [op : OpNames, arg : Int, val : Int]
                   /\ cur \in Slots \union {NotTravelling}
                   /\ spent \subseteq 1 .. MaxInt
                   /\ todo \subseteq 1 .. MaxInt
<1>1. Init => Rest
  BY DEF Init, Outcome, OpNames, SUCCESS, Nil
<1>2. PoolOK(pool) /\ Rest /\ [Next]_vars => Rest'
  <2> SUFFICES ASSUME PoolOK(pool), Rest, [Next]_vars PROVE Rest'
    BY ZenonT(30)
  <2>1. LiveIds(pool) \subseteq 1 .. MaxInt
    BY LiveIdsType, ZenonT(30) DEF PoolOK
  <2>2. CASE Alloc
    <3>1. spent' \subseteq spent
      BY <2>2, ZenonT(30) DEF Alloc
    <3>2. cur' = cur /\ todo' = todo /\ ret' = Outcome("alloc", Nil, objpool_alloc(pool).ret)
      BY <2>2, ZenonT(30) DEF Alloc
    <3>3. objpool_alloc(pool).ret \in Int
      BY ReturnTypes, ZenonT(30)
    <3>4. ret' \in [op : OpNames, arg : Int, val : Int]
      BY <3>2, <3>3, SMTT(30) DEF Outcome, OpNames, Nil
    <3> QED BY <3>1, <3>2, <3>4, ZenonT(30)
  <2>3. ASSUME NEW id \in Ids, Free(id) PROVE Rest'
    <3>1. id \in Int
      BY MaxIntAssumption DEF Ids
    <3> QED BY <2>1, <2>3, <3>1, ReturnTypes, ZenonT(30) DEF Free, Freed, Outcome, OpNames
  <2>4. ASSUME NEW id \in Ids, Get(id) PROVE Rest'
    <3>1. id \in Int
      BY MaxIntAssumption DEF Ids
    <3> QED BY <2>4, <3>1, ReturnTypes DEF Get, Outcome, OpNames
  <2>5. ASSUME NEW pos \in -1 .. Cap, FreeByPos(pos) PROVE Rest'
    <3>1. pos \in Int
      BY CapAssumption
    <3> QED BY <2>1, <2>5, <3>1, ReturnTypes, ZenonT(30) DEF FreeByPos, Freed, Outcome, OpNames
  <2>6. ASSUME Travel PROVE Rest'
    <3>1. /\ pool.usedHead \in Slots \union {Nil}
          /\ cur \in Slots => pool.next[cur] \in Slots \union {Nil}
      BY ZenonT(30) DEF PoolOK, PoolType
    <3> QED BY <2>1, <2>6, <3>1, ZenonT(30)
        DEF Travel, TravelStart, TravelNext, TravelRemove, TravelBreak, AtSlotOrDone
  <2>7. CASE UNCHANGED vars
    BY <2>7, ZenonT(30) DEF vars
  <2> QED BY <2>2, <2>3, <2>4, <2>5, <2>6, <2>7, ZenonT(30) DEF Next
<1>3. PoolOK(pool) /\ Rest => TypeOK
  BY DEF PoolOK, TypeOK
<1> QED BY <1>1, <1>2, <1>3, PoolAlwaysOK, PTL DEF Spec

-----------------------------------------------------------------------------
(* The pool implements IdPool *)

\* m_iUsedCount is the number of live ids.
LEMMA LiveCount ==
  ASSUME NEW p, PoolOK(p)
  PROVE  Cardinality(LiveIds(p)) = p.usedCount
<1> DEFINE m == p.usedCount
<1>1. PICK u \in [1 .. m -> Slots] : Threads(p, u, m, UsedSlots(p))
  BY ZenonT(30) DEF PoolOK, WellLinked, IsUsedList
<1>2. m \in Nat
  BY CapAssumption DEF PoolOK, PoolType
<1> DEFINE g == [i \in 1 .. m |-> LogicIdx(p, u[i])]
<1>3. \A i \in 1 .. m : g[i] = LogicIdx(p, u[i]) /\ u[i] \in UsedSlots(p) /\ u[i] \in Slots
  BY <1>1, ZenonT(30) DEF Threads
<1>4. g \in [1 .. m -> LiveIds(p)]
  BY <1>3, ZenonT(30) DEF LiveIds
<1>5. \A i, j \in 1 .. m : g[i] = g[j] => i = j
  <2> SUFFICES ASSUME NEW i \in 1 .. m, NEW j \in 1 .. m, g[i] = g[j] PROVE i = j
    OBVIOUS
  <2>1. u[i] = u[j]
    BY <1>3, IdsDiffer DEF PoolOK
  <2> QED BY <1>1, <2>1 DEF Threads
<1>6. \A id \in LiveIds(p) : \E i \in 1 .. m : g[i] = id
  <2> SUFFICES ASSUME NEW s \in UsedSlots(p) PROVE \E i \in 1 .. m : g[i] = LogicIdx(p, s)
    BY ZenonT(30) DEF LiveIds
  <2>1. PICK i \in 1 .. m : u[i] = s
    BY <1>1 DEF Threads
  <2> QED BY <2>1, <1>3, ZenonT(30)
<1> HIDE DEF g, m
<1>7. g \in Bijection(1 .. m, LiveIds(p))
  BY <1>4, <1>5, <1>6, Zenon DEF Bijection, Injection, IsInjective, Surjection
<1>8. ExistsBijection(1 .. m, LiveIds(p))
  BY <1>7, ZenonT(30) DEF ExistsBijection
<1> QED BY <1>2, <1>8, FS_CountingElements, ZenonT(30) DEF m

\* objpool_free is IdPool's Free.
LEMMA FreeDoes ==
  ASSUME NEW p, PoolOK(p), NEW id \in Int
  PROVE  /\ LiveIds(objpool_free(p, id).pool) = LiveIds(p) \ {id}
         /\ objpool_free(p, id).ret = IF id \in LiveIds(p) THEN SUCCESS
                                     ELSE ERR_OBJPOOL_LOGICERROR
<1>1. CASE IsLive(p, id)
  <2>1. CRem(id) \in UsedSlots(p) /\ id = LogicIdx(p, CRem(id)) /\ id \in LiveIds(p)
    BY <1>1, LiveSlot, IsLiveIff, ZenonT(30) DEF PoolOK
  <2>2. LiveIds(ReturnSlot(p, CRem(id))) = LiveIds(p) \ {id}
    <3>1. LiveIds(ReturnSlot(p, CRem(id))) = LiveIds(p) \ {LogicIdx(p, CRem(id))}
      BY <2>1, ReturnDoes, ZenonT(30)
    <3> QED BY <2>1, <3>1, ZenonT(30)
  <2> QED BY <1>1, <2>1, <2>2, ZenonT(30) DEF objpool_free
<1>2. CASE ~IsLive(p, id)
  <2>1. id \notin LiveIds(p)
    BY <1>2, IsLiveIff, ZenonT(30)
  <2> QED BY <1>2, <2>1, ZenonT(30) DEF objpool_free
<1> QED BY <1>1, <1>2, ZenonT(30)

\* objpool_free_bypos is IdPool's FreeByPos.
LEMMA FreeByPosDoes ==
  ASSUME NEW p, PoolOK(p), NEW pos \in Int
  PROVE  LET there == {id \in LiveIds(p) : id % Cap = pos}
         IN  /\ LiveIds(objpool_free_bypos(p, pos).pool) = LiveIds(p) \ there
             /\ objpool_free_bypos(p, pos).ret = IF there # {} THEN SUCCESS
                                                ELSE ERR_OBJPOOL_LOGICERROR
<1> DEFINE there == {id \in LiveIds(p) : id % Cap = pos}
           id == LogicIdx(p, pos)
<1>1. \A s \in UsedSlots(p) : LogicIdx(p, s) \in LiveIds(p) /\ LogicIdx(p, s) % Cap = s
  BY IdOfUsed, ZenonT(30) DEF PoolOK
<1>2. CASE pos \in UsedSlots(p)
  <2>1. there = {id}
    BY <1>1, <1>2, ZenonT(30) DEF LiveIds
  <2>2. id \in LiveIds(p) /\ id \in Int
    BY <1>1, <1>2, LiveIdsType, MaxIntAssumption DEF PoolOK
  <2>3. IsLive(p, id)
    BY <2>2, IsLiveIff, ZenonT(30)
  <2>4. pos \in Slots /\ p.usedCount > 0
    BY <1>2, <2>3, ZenonT(30) DEF IsLive, UsedSlots
  <2>5. objpool_free_bypos(p, pos) = objpool_free(p, id)
    BY <2>4, ZenonT(30) DEF objpool_free_bypos
  <2> HIDE DEF id, there
  <2> QED BY <2>1, <2>2, <2>5, FreeDoes, ZenonT(30) DEF there
<1>3. CASE pos \notin UsedSlots(p)
  <2>1. there = {}
    BY <1>1, <1>3, ZenonT(30) DEF LiveIds
  <2>2. CASE pos \in Slots /\ p.usedCount > 0
    <3>1. objpool_free_bypos(p, pos) = objpool_free(p, id)
      BY <2>2, ZenonT(30) DEF objpool_free_bypos
    <3>2. id \in Int
      BY <2>2, CapAssumption, SMT DEF PoolOK, PoolType, LogicIdx, MkId, Slots
    <3>3. id \notin LiveIds(p)
      <4>1. \A s \in UsedSlots(p) : LogicIdx(p, s) # id
        BY <1>3, <2>2, IdsDiffer, ZenonT(30) DEF PoolOK, UsedSlots
      <4> QED BY <4>1, ZenonT(30) DEF LiveIds
    <3> HIDE DEF id, there
    <3> QED BY <2>1, <3>1, <3>2, <3>3, FreeDoes DEF there
  <2>3. CASE ~(pos \in Slots /\ p.usedCount > 0)
    BY <2>1, <2>3 DEF objpool_free_bypos
  <2> QED BY <2>2, <2>3, ZenonT(30)
<1> QED BY <1>2, <1>3, ZenonT(30)

\* Every step of the pool is one of IdPool, or leaves its variables alone.
LEMMA StepOfIdPool ==
  ASSUME PoolOK(pool), [Next]_vars
  PROVE  [Abstract!Next]_<<LiveIds(pool), ret>>
<1>1. ASSUME Alloc PROVE Abstract!Alloc
  <2>1. /\ pool' = objpool_alloc(pool).pool
        /\ ret' = Outcome("alloc", Nil, objpool_alloc(pool).ret)
    BY <1>1, ZenonT(30) DEF Alloc
  <2>2. pool.usedCount \in 0 .. Cap /\ Abstract!Cardinality(LiveIds(pool)) = pool.usedCount
    <3>1. Abstract!Cardinality(LiveIds(pool)) = Cardinality(LiveIds(pool))
      BY Zenon DEF Cardinality, Abstract!Cardinality
    <3> QED BY <3>1, LiveCount DEF PoolOK, PoolType
  <2>3. CASE pool.usedCount < Cap
    <3> DEFINE id == objpool_alloc(pool).ret
    <3>0. /\ id \in 1 .. MaxInt /\ \A l \in LiveIds(pool) : l % Cap # id % Cap
          /\ LiveIds(pool') = LiveIds(pool) \union {id}
      BY <2>1, <2>3, TakeAddsId, ZenonT(30)
    <3>1. id \in Ids /\ id > 0
      BY <3>0, MaxIntAssumption DEF Ids
    <3>2. ret' = Outcome("alloc", Nil, id)
      BY <2>1, ZenonT(30)
    <3> HIDE DEF id
    <3> QED BY <2>2, <2>3, <3>0, <3>1, <3>2, ZenonT(30) DEF Abstract!Alloc, Abstract!Fresh, Abstract!Outcome, Outcome
  <2>4. CASE ~(pool.usedCount < Cap)
    <3>1. pool.usedCount = Cap
      BY <2>2, <2>4, CapAssumption
    <3>2. objpool_alloc(pool).pool = pool /\ objpool_alloc(pool).ret = ERR_OBJPOOL_FULL
      BY <3>1, CapAssumption DEF objpool_alloc
    <3> QED BY <2>1, <2>2, <3>1, <3>2, ZenonT(30) DEF Abstract!Alloc, Abstract!Outcome, Outcome
  <2> QED BY <2>3, <2>4, ZenonT(30)
<1>2. ASSUME NEW id \in Ids, Free(id) PROVE Abstract!Free(id)
  <2>1. id \in Int
    BY MaxIntAssumption DEF Ids
  <2> QED BY <1>2, <2>1, FreeDoes, ZenonT(30) DEF Free, Abstract!Free, Abstract!Outcome, Outcome
<1>3. ASSUME NEW id \in Ids, Get(id) PROVE Abstract!Get(id)
  <2>1. id \in Int
    BY MaxIntAssumption DEF Ids
  <2>2. IsLive(pool, id) <=> id \in LiveIds(pool)
    BY <2>1, IsLiveIff, ZenonT(30)
  <2>3. id \in LiveIds(pool) => CRem(id) = id % Cap
    BY LiveIdsType, MaxIntAssumption DEF PoolOK, CRem
  <2> QED BY <1>3, <2>2, <2>3, ZenonT(30) DEF Get, objpool_get, Abstract!Get, Abstract!Outcome, Outcome
<1>4. ASSUME NEW pos \in -1 .. Cap, FreeByPos(pos) PROVE Abstract!FreeByPos(pos)
  <2>1. pos \in Int
    BY CapAssumption
  <2> QED BY <1>4, <2>1, FreeByPosDoes, ZenonT(30) DEF FreeByPos, Abstract!FreeByPos, Abstract!Outcome, Outcome
<1>5. ASSUME TravelRemove
      PROVE  Abstract!Remove \/ UNCHANGED <<LiveIds(pool), ret>>
  <2>1. cur \in Int /\ pool' = objpool_free_bypos(pool, cur).pool /\ ret' = ret
    BY <1>5, CapAssumption DEF TravelRemove, Slots
  <2>2. ASSUME NEW s \in UsedSlots(pool), pool' = ReturnSlot(pool, s) PROVE Abstract!Remove
    <3>1. LogicIdx(pool, s) \in LiveIds(pool)
      BY ZenonT(30) DEF LiveIds
    <3>2. LiveIds(ReturnSlot(pool, s)) = LiveIds(pool) \ {LogicIdx(pool, s)}
      BY ReturnDoes, ZenonT(30)
    <3>3. LiveIds(pool)' = LiveIds(pool) \ {LogicIdx(pool, s)}
      BY <2>2, <3>2, ZenonT(30)
    <3> QED BY <2>1, <3>1, <3>3, ZenonT(30) DEF Abstract!Remove
  <2>3. pool' = pool \/ \E s \in UsedSlots(pool) : pool' = ReturnSlot(pool, s)
    BY <2>1, FreeByPosCases, ZenonT(30)
  <2> QED BY <2>1, <2>2, <2>3, ZenonT(30)
<1>6. CASE TravelStart \/ TravelNext \/ TravelBreak \/ UNCHANGED vars
  BY <1>6 DEF TravelStart, TravelNext, TravelBreak, vars
<1> QED BY <1>1, <1>2, <1>3, <1>4, <1>5, <1>6 DEF Next, Travel, Abstract!Next

\* Whatever its lists look like, the pool is a set of ids to its clients: the
\* functions return what IdPool says, and no two live ids name a slot.
THEOREM PoolIsIdPool == Spec => ImplementsIdPool
<1>1. Init => Abstract!Init
  <2>1. UsedSlots(objpool_init) = {}
    BY ZenonT(30) DEF objpool_init, UsedSlots
  <2> QED BY <2>1, ZenonT(30) DEF Init, Abstract!Init, Abstract!Outcome, Outcome, LiveIds
<1>2. PoolOK(pool) /\ [Next]_vars => [Abstract!Next]_<<LiveIds(pool), ret>>
  BY StepOfIdPool
<1> QED BY <1>1, <1>2, PoolAlwaysOK, PTL DEF Spec, ImplementsIdPool, Abstract!Spec, Abstract!vars

-----------------------------------------------------------------------------
(* Traversals *)

\* The ids a traversal has still to visit are those from the cursor on.
TravelInv ==
  /\ cur \in Slots \union {NotTravelling}
  /\ cur = NotTravelling => todo = {}
  /\ cur \in Slots => Ahead(pool, cur, todo)

\* objpool_free_bypos returns the slot at that position, or nothing.
LEMMA FreeByPosSlot ==
  ASSUME NEW p, PoolOK(p), NEW pos \in Int
  PROVE  LET q == objpool_free_bypos(p, pos).pool
         IN  /\ q = p \/ (pos \in UsedSlots(p) /\ q = ReturnSlot(p, pos))
             /\ pos \in UsedSlots(p) => q = ReturnSlot(p, pos)
<1> DEFINE id == LogicIdx(p, pos)
<1>1. CASE pos \in Slots /\ p.usedCount > 0
  <2>1. CRem(id) = pos /\ p.acc[pos] \in Nat
    BY <1>1, CRemOfId, ZenonT(30) DEF PoolOK, PoolType, LogicIdx
  <2>2. IsLive(p, id) <=> pos \in UsedSlots(p)
    BY <1>1, <2>1, CapAssumption DEF IsLive, UsedSlots, Slots
  <2> HIDE DEF id
  <2> QED BY <1>1, <2>1, <2>2, ZenonT(30) DEF objpool_free_bypos, objpool_free, id
<1>2. CASE ~(pos \in Slots /\ p.usedCount > 0)
  <2>1. pos \notin UsedSlots(p)
    <3> SUFFICES ASSUME pos \in UsedSlots(p) PROVE FALSE
      BY ZenonT(30)
    <3>1. PICK u \in [1 .. p.usedCount -> Slots] : IsUsedList(p, u)
      BY ZenonT(30) DEF PoolOK, WellLinked
    <3>2. p.usedCount \in Nat /\ \E i \in 1 .. p.usedCount : u[i] = pos
      BY <3>1, UsedList
    <3> QED BY <1>2, <3>2 DEF UsedSlots
  <2> QED BY <1>2, <2>1, ZenonT(30) DEF objpool_free_bypos
<1> QED BY <1>1, <1>2, ZenonT(30)

\* A call that frees nothing, or an object other than the cursor's, as the
\* callback may, keeps the invariant.
LEMMA FreedKeepsTravel ==
  ASSUME PoolOK(pool), TravelInv, NEW q, Freed(pool, q), pool' = q, cur' = cur,
         q = pool \/ \E s \in UsedSlots(pool) : s # cur /\ q = ReturnSlot(pool, s)
  PROVE  TravelInv'
<1>1. todo' = todo \ (LiveIds(pool) \ LiveIds(q))
  BY ZenonT(30) DEF Freed
<1>2. ASSUME cur \in Slots PROVE Ahead(q, cur, todo')
  <2>1. CASE q = pool
    <3>1. todo' = todo
      BY <1>1, <2>1, ZenonT(30)
    <3> QED BY <1>2, <2>1, <3>1, ZenonT(30) DEF TravelInv
  <2>2. ASSUME NEW s \in UsedSlots(pool), s # cur, q = ReturnSlot(pool, s)
        PROVE  Ahead(q, cur, todo')
    <3>1. LiveIds(q) = LiveIds(pool) \ {LogicIdx(pool, s)} /\ LogicIdx(pool, s) \in LiveIds(pool)
      BY <2>2, ReturnDoes DEF LiveIds
    <3>2. todo' = todo \ {LogicIdx(pool, s)}
      BY <1>1, <3>1, ZenonT(30)
    <3> QED BY <1>2, <2>2, <3>2, AheadReturn, ZenonT(30) DEF TravelInv
  <2> QED BY <2>1, <2>2, ZenonT(30)
<1>3. /\ cur' \in Slots \union {NotTravelling}
      /\ cur' = NotTravelling => todo' = {}
      /\ cur' \in Slots => Ahead(pool', cur', todo')
  BY <1>1, <1>2, ZenonT(30) DEF TravelInv
<1> QED BY <1>3, ZenonT(30) DEF TravelInv, Ahead, IsUsedList, Threads, UsedSlots, LogicIdx, MkId

\* A callback that frees its object only by returning REMOVE_ME keeps the
\* traversal on the used list, with what is still to be visited ahead of it.
LEMMA TravelStep ==
  ASSUME PoolOK(pool), TravelInv, ~SelfFree, [Next]_vars
  PROVE  TravelInv'
<1> DEFINE Goal == /\ cur' \in Slots \union {NotTravelling}
                   /\ cur' = NotTravelling => todo' = {}
                   /\ cur' \in Slots => Ahead(pool', cur', todo')
<1>0. Goal => TravelInv'
  BY ZenonT(30) DEF TravelInv, Ahead, IsUsedList, Threads, UsedSlots, LogicIdx, MkId
<1>n. NotTravelling \notin Slots /\ Nil \notin Slots
  BY DEF NotTravelling, Nil, Slots
<1>i. /\ cur \in Slots \union {NotTravelling}
      /\ cur = NotTravelling => todo = {}
      /\ cur \in Slots => Ahead(pool, cur, todo)
  BY ZenonT(30) DEF TravelInv
<1>1. CASE Alloc
  <2>1. pool' = objpool_alloc(pool).pool /\ cur' = cur /\ todo' = todo
    BY <1>1, ZenonT(30) DEF Alloc
  <2>2. pool' = pool \/ (pool.usedCount < Cap /\ pool' = TakeFreeHead(pool))
    BY <2>1, CapAssumption DEF objpool_alloc, PoolOK, PoolType
  <2>3. cur \in Slots => Ahead(pool', cur, todo)
    BY <1>i, <2>2, AheadTake, ZenonT(30)
  <2> QED BY <1>0, <1>i, <2>1, <2>3, ZenonT(30)
<1>2. ASSUME NEW id \in Ids, Free(id) PROVE TravelInv'
  <2>1. /\ id \in Int /\ pool' = objpool_free(pool, id).pool
        /\ cur' = cur /\ Freed(pool, pool') /\ CRem(id) # cur
    BY <1>2, MaxIntAssumption DEF Free, Ids, MayFree
  <2>2. pool' = pool \/ \E s \in UsedSlots(pool) : s # cur /\ pool' = ReturnSlot(pool, s)
    BY <2>1, LiveSlot, ZenonT(30) DEF objpool_free, PoolOK
  <2> QED BY <2>1, <2>2, FreedKeepsTravel, ZenonT(30)
<1>3. ASSUME NEW id \in Ids, Get(id) PROVE TravelInv'
  <2>1. pool' = pool /\ cur' = cur /\ todo' = todo
    BY <1>3, ZenonT(30) DEF Get
  <2> QED BY <1>0, <1>i, <2>1, ZenonT(30)
<1>4. ASSUME NEW pos \in -1 .. Cap, FreeByPos(pos) PROVE TravelInv'
  <2>1. /\ pos \in Int /\ pool' = objpool_free_bypos(pool, pos).pool
        /\ cur' = cur /\ Freed(pool, pool') /\ pos # cur
    BY <1>4, CapAssumption DEF FreeByPos, MayFree
  <2>2. pool' = pool \/ \E s \in UsedSlots(pool) : s # cur /\ pool' = ReturnSlot(pool, s)
    BY <2>1, FreeByPosSlot, ZenonT(30)
  <2> QED BY <2>1, <2>2, FreedKeepsTravel, ZenonT(30)
<1>5. CASE TravelStart
  <2>1. cur' = AtSlotOrDone(pool.usedHead) /\ todo' = LiveIds(pool) /\ pool' = pool
    BY <1>5, ZenonT(30) DEF TravelStart
  <2> QED BY <1>0, <1>n, <2>1, AheadAtHead, ZenonT(30) DEF AtSlotOrDone
<1>6. CASE TravelNext
  <2>1. /\ cur \in Slots /\ cur' = AtSlotOrDone(pool.next[cur]) /\ pool' = pool
        /\ todo' = todo \ {LogicIdx(pool, cur)}
    BY <1>6, ZenonT(30) DEF TravelNext
  <2>2. /\ pool.next[cur] = Nil => todo' = {}
        /\ pool.next[cur] # Nil => /\ pool.next[cur] \in Slots
                                   /\ Ahead(pool, pool.next[cur], todo')
    BY <1>i, <2>1, AheadNext, ZenonT(30)
  <2> QED BY <1>0, <1>n, <2>1, <2>2, ZenonT(30) DEF AtSlotOrDone
<1>7. CASE TravelRemove
  <2>1. /\ cur \in Slots /\ cur' = AtSlotOrDone(pool.next[cur])
        /\ pool' = objpool_free_bypos(pool, cur).pool
        /\ todo' = todo \ {LogicIdx(pool, cur)}
    BY <1>7, ZenonT(30) DEF TravelRemove
  <2>2. /\ cur \in UsedSlots(pool)
        /\ pool.next[cur] = Nil => todo' = {}
        /\ pool.next[cur] # Nil => /\ pool.next[cur] \in Slots /\ pool.next[cur] # cur
                                   /\ Ahead(pool, pool.next[cur], todo')
    BY <1>i, <2>1, AheadNext, ZenonT(30)
  <2>3. cur \in Int
    BY <2>1, CapAssumption DEF Slots
  <2>4. pool' = ReturnSlot(pool, cur)
    BY <2>1, <2>2, <2>3, FreeByPosSlot, ZenonT(30)
  <2>5. todo' \ {LogicIdx(pool, cur)} = todo'
    BY <2>1, ZenonT(30)
  <2>6. pool.next[cur] # Nil => Ahead(pool', pool.next[cur], todo')
    BY <2>2, <2>4, <2>5, AheadReturn
  <2> QED BY <1>0, <1>n, <2>1, <2>2, <2>6 DEF AtSlotOrDone
<1>8. CASE TravelBreak
  <2>1. cur' = NotTravelling /\ todo' = {}
    BY <1>8, ZenonT(30) DEF TravelBreak
  <2> QED BY <1>0, <1>n, <2>1, ZenonT(30)
<1>9. CASE UNCHANGED vars
  <2>1. pool' = pool /\ cur' = cur /\ todo' = todo
    BY <1>9 DEF vars
  <2> QED BY <1>0, <1>i, <2>1, ZenonT(30)
<1> QED BY <1>1, <1>2, <1>3, <1>4, <1>5, <1>6, <1>7, <1>8, <1>9, ZenonT(30) DEF Next, Travel

\* A traversal visits every object that stays once and misses none, for every
\* pool and whatever callbacks allocate and free, their own object apart.
THEOREM TraversalVisitsOnce ==
  ASSUME ~SelfFree
  PROVE  Spec => []TravelVisitsOnce
<1>1. Init => TravelInv
  BY DEF Init, TravelInv, NotTravelling, Slots
<1>2. PoolOK(pool) /\ TravelInv /\ [Next]_vars => TravelInv'
  BY TravelStep, ZenonT(30)
<1>3. PoolOK(pool) /\ TravelInv => TravelVisitsOnce
  BY AheadNext, ZenonT(30) DEF TravelInv, TravelVisitsOnce, UsedSlots
<1> QED BY <1>1, <1>2, <1>3, PoolAlwaysOK, PTL DEF Spec
=============================================================================
