-------------------------- MODULE ObjPoolOpsProofs --------------------------
(***************************************************************************)
(* Lemmas about the operations of the object pool, for every capacity and  *)
(* int range: what each of them does to the two lists and to the live ids. *)
(* The proofs about the pool and about its users rest on them.             *)
(***************************************************************************)
EXTENDS ObjPoolOps, TLAPS

\* The generation given to a slot by objpool_alloc: never 0, and its id fits.
LEMMA NextAccOK ==
  ASSUME NEW p, PoolType(p), NEW s \in Slots
  PROVE  /\ NextAcc(p, s) \in Nat \ {0}
         /\ Cap * NextAcc(p, s) + s <= MaxInt
<1> USE CapAssumption, MaxIntAssumption DEF Slots
<1> DEFINE a0 == p.acc[s]
<1>1. a0 \in Nat /\ Cap * a0 + s <= MaxInt
  BY DEF PoolType, LogicIdx, MkId
<1>2. a0 <= Cap * a0
  BY <1>1, SMT
<1>3. a0 + 1 \in Nat /\ a0 + 1 <= MaxInt + 1 /\ Cap * (a0 + 1) + s <= MaxInt + Cap
  <2>1. Cap * (a0 + 1) = Cap * a0 + Cap
    BY <1>1, SMT
  <2> QED BY <1>1, <1>2, <2>1, SMT
<1> HIDE DEF a0
<1>4. CASE a0 + 1 > MaxInt
  <2>1. Wrap(a0 + 1) < 0
    BY <1>3, <1>4 DEF Wrap
  <2>2. NextAcc(p, s) = 1
    BY <2>1 DEF NextAcc, a0
  <2> QED BY <2>2
<1>5. CASE ~(a0 + 1 > MaxInt) /\ Cap * (a0 + 1) + s > MaxInt
  <2>1. Wrap(a0 + 1) = a0 + 1
    BY <1>5 DEF Wrap
  <2>2. Wrap((a0 + 1) * Cap + s) < 0
    <3>1. (a0 + 1) * Cap = Cap * (a0 + 1) /\ Cap * (a0 + 1) \in Int
      BY <1>1, SMT
    <3> QED BY <1>5, <1>3, <3>1 DEF Wrap
  <2>3. NextAcc(p, s) = 1
    BY <2>1, <2>2 DEF NextAcc, a0
  <2> QED BY <2>3
<1>6. CASE ~(a0 + 1 > MaxInt) /\ ~(Cap * (a0 + 1) + s > MaxInt)
  <2>1. Wrap(a0 + 1) = a0 + 1
    BY <1>6 DEF Wrap
  <2>2. (a0 + 1) * Cap = Cap * (a0 + 1) /\ Cap * (a0 + 1) \in Nat
    BY <1>1, SMT
  <2>3. Wrap((a0 + 1) * Cap + s) = (a0 + 1) * Cap + s
    BY <1>6, <2>2 DEF Wrap
  <2>4. NextAcc(p, s) = a0 + 1
    BY <1>1, <2>1, <2>2, <2>3 DEF NextAcc, a0
  <2> QED BY <1>1, <1>6, <2>2, <2>4
<1> QED BY <1>4, <1>5, <1>6

-----------------------------------------------------------------------------
(* objpool_alloc keeps the two lists: the free list loses its first slot,  *)
(* the used list gains it at the front.                                    *)

\* The list u of m slots with s at the front, and without the k-th of them.
Pushed(u, m, s) == [i \in 1 .. (m + 1) |-> IF i = 1 THEN s ELSE u[i - 1]]
Without(u, m, k) == [i \in 1 .. (m - 1) |-> IF i < k THEN u[i] ELSE u[i + 1]]

LEMMA TakeFreeHeadLists ==
  ASSUME NEW p, PoolType(p), WellLinked(p), p.usedCount < Cap,
         NEW u \in [1 .. p.usedCount -> Slots], IsUsedList(p, u)
  PROVE  /\ PoolType(TakeFreeHead(p))
         /\ WellLinked(TakeFreeHead(p))
         /\ p.freeHead \in FreeSlots(p)
         /\ Pushed(u, p.usedCount, p.freeHead) \in [1 .. (p.usedCount + 1) -> Slots]
         /\ IsUsedList(TakeFreeHead(p), Pushed(u, p.usedCount, p.freeHead))
<1> USE CapAssumption DEF Nil
<1> DEFINE n == Cap - p.usedCount
           m == p.usedCount
           s == p.freeHead
           q == TakeFreeHead(p)
<1>0. n \in 1 .. Cap /\ m \in 0 .. (Cap - 1)
  BY DEF PoolType
<1>1. PICK f \in [1 .. n -> Slots] : IsFreeList(p, f)
  BY DEF WellLinked
<1>2. u \in [1 .. m -> Slots] /\ IsUsedList(p, u)
  OBVIOUS
<1>a. /\ Threads(p, f, n, FreeSlots(p)) /\ Threads(p, u, m, UsedSlots(p))
      /\ p.freeHead = f[1] /\ p.freeTail = f[n]
  BY <1>0, <1>1, <1>2 DEF IsFreeList, IsUsedList
<1>b. Cap - m = n
  BY <1>0
<1> HIDE DEF n
<1>3. s = f[1] /\ s \in Slots /\ s \in FreeSlots(p)
  BY <1>0, <1>a DEF Threads
<1>4. p.next[s] = IF n = 1 THEN Nil ELSE f[2]
  BY <1>0, <1>3, <1>a DEF Threads
<1>5. p.usedHead = IF m = 0 THEN Nil ELSE u[1]
  BY <1>0, <1>2 DEF IsUsedList
<1>6. /\ q.usedCount = m + 1
      /\ q.freeHead = p.next[s]
      /\ q.freeTail = IF p.next[s] < 0 THEN Nil ELSE p.freeTail
      /\ q.usedHead = s
      /\ q.next = [p.next EXCEPT ![s] = p.usedHead]
      /\ q.prev = [i \in Slots |-> IF i = s THEN Nil
                                    ELSE IF i = p.usedHead THEN s
                                    ELSE IF i = p.next[s] THEN Nil
                                    ELSE p.prev[i]]
      /\ q.acc = [p.acc EXCEPT ![s] = NextAcc(p, s)]
      /\ q.used = [p.used EXCEPT ![s] = TRUE]
  BY DEF TakeFreeHead
<1>7. PoolType(q)
  <2>1. NextAcc(p, s) \in Nat \ {0} /\ Cap * NextAcc(p, s) + s <= MaxInt
    BY <1>3, NextAccOK
  <2>2. /\ q.acc \in [Slots -> Nat]
        /\ \A t \in Slots : LogicIdx(q, t) <= MaxInt /\ (q.used[t] => q.acc[t] > 0)
    BY <1>3, <1>6, <2>1 DEF PoolType, LogicIdx, MkId
  <2>3. p.next[s] \in Slots \union {Nil}
    BY <1>3 DEF PoolType
  <2>4. q \in [usedCount : 0 .. Cap, freeHead : Slots \union {Nil},
               freeTail : Slots \union {Nil}, usedHead : Slots \union {Nil},
               next : [Slots -> Slots \union {Nil}],
               prev : [Slots -> Slots \union {Nil}],
               acc : [Slots -> Nat], used : [Slots -> BOOLEAN]]
    BY <1>0, <1>3, <2>1, <2>3 DEF PoolType, TakeFreeHead
  <2> QED BY <2>2, <2>4, ZenonT(30) DEF PoolType
<1> DEFINE f2 == [i \in 1 .. (n - 1) |-> f[i + 1]]
           u2 == [i \in 1 .. (m + 1) |-> IF i = 1 THEN s ELSE u[i - 1]]
<1>11. u2 = Pushed(u, p.usedCount, p.freeHead)
  BY DEF Pushed
<1>8. /\ FreeSlots(q) = FreeSlots(p) \ {s}
      /\ UsedSlots(q) = UsedSlots(p) \union {s}
      /\ FreeSlots(p) \intersect UsedSlots(p) = {}
  BY <1>3, <1>6 DEF FreeSlots, UsedSlots, PoolType
<1>9. p.usedHead \notin FreeSlots(p) /\ p.usedHead # s
  BY <1>0, <1>a, <1>3, <1>5, <1>8 DEF Threads, FreeSlots, Slots
<1>10. p.next[s] \notin UsedSlots(p) /\ p.next[s] # s
  BY <1>0, <1>a, <1>3, <1>4, <1>8 DEF Threads, UsedSlots, Slots
<1> HIDE DEF q, m, s
<1>12. IsFreeList(q, f2) /\ f2 \in [1 .. (n - 1) -> Slots]
  <2>1. \A i \in 1 .. (n - 1) : f2[i] = f[i + 1] /\ i + 1 \in 1 .. n /\ f[i + 1] # s
    BY <1>0, <1>3, <1>a DEF Threads
  <2>2. \A i \in 1 .. (n - 1) : f2[i] \in FreeSlots(q)
    BY <1>8, <1>a, <2>1 DEF Threads
  <2>3. \A t \in FreeSlots(q) : \E i \in 1 .. (n - 1) : f2[i] = t
    <3> SUFFICES ASSUME NEW t \in FreeSlots(q) PROVE \E i \in 1 .. (n - 1) : f2[i] = t
      OBVIOUS
    <3>1. PICK j \in 1 .. n : f[j] = t
      BY <1>8, <1>a DEF Threads
    <3>2. j # 1
      BY <1>3, <1>8, <3>1
    <3>3. j - 1 \in 1 .. (n - 1) /\ f2[j - 1] = t
      BY <1>0, <3>1, <3>2
    <3> QED BY <3>3
  <2>4. \A i, j \in 1 .. (n - 1) : f2[i] = f2[j] => i = j
    <3> SUFFICES ASSUME NEW i \in 1 .. (n - 1), NEW j \in 1 .. (n - 1), f2[i] = f2[j]
                 PROVE  i = j
      OBVIOUS
    <3>1. f[i + 1] = f[j + 1] /\ i + 1 \in 1 .. n /\ j + 1 \in 1 .. n
      BY <1>0, <2>1
    <3>2. i + 1 = j + 1
      BY <1>a, <3>1 DEF Threads
    <3> QED BY <1>0, <3>2
  <2>5. ASSUME NEW i \in 1 .. (n - 1)
        PROVE  /\ q.next[f2[i]] = IF i = n - 1 THEN Nil ELSE f2[i + 1]
               /\ q.prev[f2[i]] = IF i = 1 THEN Nil ELSE f2[i - 1]
    <3>1. /\ p.next[f[i + 1]] = IF i + 1 = n THEN Nil ELSE f[i + 2]
          /\ p.prev[f[i + 1]] = f[i]
      <4>1. i + 1 \in 1 .. n /\ (i + 1) + 1 = i + 2 /\ (i + 1) - 1 = i /\ i + 1 # 1
        BY <1>0
      <4> QED BY <1>a, <4>1 DEF Threads
    <3>2. f2[i] \in Slots /\ f2[i] # s /\ f2[i] # p.usedHead
      BY <1>9, <2>1, <1>a DEF Threads, FreeSlots
    <3>3. p.next[s] = f[2]
      BY <1>0, <1>4
    <3>4. f[i + 1] = f[2] <=> i = 1
      BY <1>0, <1>a, SMTT(30) DEF Threads
    <3>5. q.next[f2[i]] = p.next[f[i + 1]]
      BY <1>6, <2>1, <3>2 DEF PoolType
    <3>6. q.prev[f2[i]] = IF i = 1 THEN Nil ELSE p.prev[f[i + 1]]
      <4>1. f2[i] = p.next[s] <=> i = 1
        BY <2>1, <3>3, <3>4
      <4>2. f2[i] = f[i + 1]
        BY <2>1
      <4> HIDE DEF f2
      <4> QED BY <1>6, <3>2, <4>1, <4>2
    <3>7. i # n - 1 => f2[i + 1] = f[i + 2]
      BY <1>0
    <3>8. i # 1 => f2[i - 1] = f[i]
      BY <1>0
    <3> QED BY <1>0, <3>1, <3>5, <3>6, <3>7, <3>8
  <2>6. Threads(q, f2, n - 1, FreeSlots(q))
    BY <2>2, <2>3, <2>4, <2>5, SMTT(30) DEF Threads
  <2>7. Cap - q.usedCount = n - 1
    BY <1>0, <1>b, <1>6
  <2>8. q.freeHead = IF n - 1 = 0 THEN Nil ELSE f2[1]
    BY <1>0, <1>4, <1>6
  <2>9. q.freeTail = IF n - 1 = 0 THEN Nil ELSE f2[n - 1]
    <3>1. p.freeTail = f[n]
      BY <1>a
    <3>2. n # 1 => f[2] \in Slots /\ f2[n - 1] = f[n]
      BY <1>0
    <3> QED BY <1>0, <1>4, <1>6, <3>1, <3>2 DEF Slots
  <2>10. f2 \in [1 .. (n - 1) -> Slots]
    BY <1>0
  <2> QED BY <2>6, <2>7, <2>8, <2>9, <2>10, ZenonT(30) DEF IsFreeList
<1>13. IsUsedList(q, u2) /\ u2 \in [1 .. (m + 1) -> Slots]
  <2>1. /\ u2[1] = s
        /\ \A i \in 2 .. (m + 1) : u2[i] = u[i - 1] /\ i - 1 \in 1 .. m
    BY <1>0
  <2>2. \A i \in 1 .. m : u[i] \in UsedSlots(p) /\ u[i] # s
    BY <1>3, <1>8, <1>a DEF Threads
  <2>3. \A i \in 1 .. (m + 1) : u2[i] \in UsedSlots(q)
    BY <1>0, <1>8, <2>1, <2>2
  <2>4. \A t \in UsedSlots(q) : \E i \in 1 .. (m + 1) : u2[i] = t
    <3> SUFFICES ASSUME NEW t \in UsedSlots(q) PROVE \E i \in 1 .. (m + 1) : u2[i] = t
      OBVIOUS
    <3>1. CASE t = s
      BY <1>0, <2>1, <3>1
    <3>2. CASE t # s
      <4>1. PICK j \in 1 .. m : u[j] = t
        BY <1>8, <1>a, <3>2 DEF Threads
      <4>2. j + 1 \in 1 .. (m + 1) /\ u2[j + 1] = t
        BY <1>0, <4>1
      <4> QED BY <4>2
    <3> QED BY <3>1, <3>2
  <2>5. \A i, j \in 1 .. (m + 1) : u2[i] = u2[j] => i = j
    <3> SUFFICES ASSUME NEW i \in 1 .. (m + 1), NEW j \in 1 .. (m + 1), u2[i] = u2[j]
                 PROVE  i = j
      OBVIOUS
    <3>1. CASE i = 1 \/ j = 1
      BY <1>0, <2>1, <2>2, <3>1
    <3>2. CASE i # 1 /\ j # 1
      <4>1. u[i - 1] = u[j - 1] /\ i - 1 \in 1 .. m /\ j - 1 \in 1 .. m
        BY <1>0, <2>1, <3>2
      <4> QED BY <1>a, <4>1 DEF Threads
    <3> QED BY <3>1, <3>2
  <2>6. ASSUME NEW i \in 1 .. (m + 1)
        PROVE  /\ q.next[u2[i]] = IF i = m + 1 THEN Nil ELSE u2[i + 1]
               /\ q.prev[u2[i]] = IF i = 1 THEN Nil ELSE u2[i - 1]
    <3>1. CASE i = 1
      <4>1. q.next[s] = p.usedHead /\ q.prev[s] = Nil
        BY <1>3, <1>6 DEF PoolType
      <4>2. m # 0 => u2[2] = u[1]
        BY <1>0
      <4> QED BY <1>0, <1>5, <2>1, <3>1, <4>1, <4>2
    <3>2. CASE i # 1
      <4>1. i - 1 \in 1 .. m /\ u2[i] = u[i - 1]
        BY <1>0, <2>1, <3>2
      <4>2. /\ p.next[u[i - 1]] = IF i - 1 = m THEN Nil ELSE u[i]
            /\ p.prev[u[i - 1]] = IF i - 1 = 1 THEN Nil ELSE u[i - 2]
        BY <1>0, <1>a, <4>1 DEF Threads
      <4>3. u[i - 1] \in Slots /\ u[i - 1] # s /\ u[i - 1] # p.next[s]
        BY <1>10, <2>2, <4>1, ZenonT(30) DEF UsedSlots
      <4>4. u[i - 1] = p.usedHead <=> i = 2
        BY <1>0, <1>5, <1>a, <4>1 DEF Threads
      <4>5. q.next[u2[i]] = p.next[u[i - 1]]
        BY <1>6, <4>1, <4>3, ZenonT(30) DEF PoolType
      <4>6. q.prev[u2[i]] = IF i = 2 THEN s ELSE p.prev[u[i - 1]]
        BY <1>6, <4>1, <4>3, <4>4
      <4>7. i # m + 1 => u2[i + 1] = u[i]
        BY <1>0, <4>1
      <4>8. u2[i - 1] = IF i = 2 THEN s ELSE u[i - 2]
        BY <1>0, <3>2
      <4> QED BY <1>0, <3>2, <4>2, <4>5, <4>6, <4>7, <4>8
    <3> QED BY <3>1, <3>2, ZenonT(30)
  <2>7. Threads(q, u2, m + 1, UsedSlots(q))
    BY <2>3, <2>4, <2>5, <2>6 DEF Threads
  <2>8. u2 \in [1 .. (m + 1) -> Slots]
    <3>1. \A i \in 1 .. m : u[i] \in Slots
      BY <1>2, ZenonT(30)
    <3> QED BY <1>0, <1>3, <2>1, <3>1
  <2> QED BY <1>0, <1>6, <2>1, <2>7, <2>8 DEF IsUsedList
<1>14. Cap - q.usedCount = n - 1 /\ q.usedCount = m + 1
  BY <1>0, <1>b, <1>6
<1>15. WellLinked(q)
  BY <1>12, <1>13, <1>14 DEF WellLinked
<1> HIDE DEF u2
<1> QED BY <1>3, <1>7, <1>11, <1>13, <1>15 DEF q, s, m

\* The same without naming the lists.
LEMMA TakeFreeHeadOK ==
  ASSUME NEW p, PoolType(p), WellLinked(p), p.usedCount < Cap
  PROVE  /\ PoolType(TakeFreeHead(p))
         /\ WellLinked(TakeFreeHead(p))
         /\ p.freeHead \in FreeSlots(p)
<1>1. PICK u \in [1 .. p.usedCount -> Slots] : IsUsedList(p, u)
  BY DEF WellLinked
<1> QED BY <1>1, TakeFreeHeadLists, ZenonT(30)

-----------------------------------------------------------------------------
(* objpool_free keeps the two lists: the slot is unlinked from wherever it *)
(* is in the used list and becomes the last of the free list.              *)

LEMMA ReturnSlotLists ==
  ASSUME NEW p, PoolType(p), WellLinked(p), NEW s \in UsedSlots(p),
         NEW u \in [1 .. p.usedCount -> Slots], IsUsedList(p, u),
         NEW k \in 1 .. p.usedCount, u[k] = s
  PROVE  /\ PoolType(ReturnSlot(p, s)) /\ WellLinked(ReturnSlot(p, s))
         /\ Without(u, p.usedCount, k) \in [1 .. (p.usedCount - 1) -> Slots]
         /\ IsUsedList(ReturnSlot(p, s), Without(u, p.usedCount, k))
<1> USE CapAssumption DEF Nil
<1> DEFINE n == Cap - p.usedCount
           m == p.usedCount
           q == ReturnSlot(p, s)
           ft == p.freeTail
           un == p.next[s]
           up == p.prev[s]
<1>0. n \in 0 .. Cap /\ m \in 0 .. Cap /\ Cap - m = n
  BY DEF PoolType
<1>1. PICK f \in [1 .. n -> Slots] : IsFreeList(p, f)
  BY DEF WellLinked
<1>2. u \in [1 .. m -> Slots] /\ IsUsedList(p, u)
  OBVIOUS
<1>3. /\ Threads(p, f, n, FreeSlots(p)) /\ Threads(p, u, m, UsedSlots(p))
      /\ p.freeHead = (IF n = 0 THEN Nil ELSE f[1])
      /\ ft = (IF n = 0 THEN Nil ELSE f[n])
      /\ p.usedHead = (IF m = 0 THEN Nil ELSE u[1])
  BY <1>0, <1>1, <1>2 DEF IsFreeList, IsUsedList
<1>4. k \in 1 .. m /\ u[k] = s
  OBVIOUS
<1>5. /\ q.usedCount = m - 1
      /\ q.freeHead = IF ft < 0 THEN s ELSE p.freeHead
      /\ q.freeTail = s
      /\ q.usedHead = IF p.usedHead = s THEN un ELSE p.usedHead
      /\ q.next = [i \in Slots |-> IF i = s THEN Nil
                                    ELSE IF i = ft THEN s
                                    ELSE IF i = up THEN un
                                    ELSE p.next[i]]
      /\ q.prev = [i \in Slots |-> IF i = s THEN ft
                                    ELSE IF i = un THEN up
                                    ELSE p.prev[i]]
      /\ q.acc = p.acc
      /\ q.used = [p.used EXCEPT ![s] = FALSE]
  BY DEF ReturnSlot
<1>6. s \in Slots /\ m >= 1 /\ un \in Slots \union {Nil} /\ up \in Slots \union {Nil}
  BY <1>0, <1>4 DEF UsedSlots, PoolType
<1>7. PoolType(q)
  <2>1. \A t \in Slots : LogicIdx(q, t) <= MaxInt /\ (q.used[t] => q.acc[t] > 0)
    BY <1>5, <1>6, ZenonT(30) DEF PoolType, LogicIdx, MkId
  <2>2. q \in [usedCount : 0 .. Cap, freeHead : Slots \union {Nil},
               freeTail : Slots \union {Nil}, usedHead : Slots \union {Nil},
               next : [Slots -> Slots \union {Nil}],
               prev : [Slots -> Slots \union {Nil}],
               acc : [Slots -> Nat], used : [Slots -> BOOLEAN]]
    BY <1>0, <1>6 DEF PoolType, ReturnSlot
  <2> QED BY <2>1, <2>2, ZenonT(30) DEF PoolType
<1>8. /\ FreeSlots(q) = FreeSlots(p) \union {s}
      /\ UsedSlots(q) = UsedSlots(p) \ {s}
      /\ FreeSlots(p) \intersect UsedSlots(p) = {}
  BY <1>5, <1>6 DEF FreeSlots, UsedSlots, PoolType
<1> HIDE DEF n, m, q
<1>9. un = (IF k = m THEN Nil ELSE u[k + 1]) /\ up = (IF k = 1 THEN Nil ELSE u[k - 1])
  BY <1>0, <1>3, <1>4, SMTT(30) DEF Threads
<1>10. ft \notin UsedSlots(p)
  BY <1>0, <1>3, <1>8 DEF Threads, UsedSlots, Slots
<1>11. un \notin FreeSlots(p) /\ up \notin FreeSlots(p)
  <2>1. Nil \notin FreeSlots(p)
    BY DEF FreeSlots, Slots
  <2>2. k # m => k + 1 \in 1 .. m
    BY <1>0, <1>4
  <2>3. k # 1 => k - 1 \in 1 .. m
    BY <1>0, <1>4
  <2> QED BY <1>3, <1>8, <1>9, <2>1, <2>2, <2>3 DEF Threads
<1> HIDE DEF un, up, ft
<1> DEFINE f2 == [i \in 1 .. (n + 1) |-> IF i = n + 1 THEN s ELSE f[i]]
           u2 == [i \in 1 .. (m - 1) |-> IF i < k THEN u[i] ELSE u[i + 1]]
<1>16. u2 = Without(u, p.usedCount, k)
  BY ZenonT(30) DEF Without, m
<1>12. IsFreeList(q, f2) /\ f2 \in [1 .. (n + 1) -> Slots]
  <2>1. f2[n + 1] = s /\ \A i \in 1 .. n : f2[i] = f[i] /\ f[i] \in FreeSlots(p) /\ f[i] # s
    BY <1>0, <1>3, <1>8 DEF Threads
  <2>2. \A i \in 1 .. (n + 1) : i = n + 1 \/ i \in 1 .. n
    BY <1>0
  <2>3. \A i \in 1 .. (n + 1) : f2[i] \in FreeSlots(q)
    BY <1>8, <2>1, <2>2
  <2>4. \A t \in FreeSlots(q) : \E i \in 1 .. (n + 1) : f2[i] = t
    <3> SUFFICES ASSUME NEW t \in FreeSlots(q) PROVE \E i \in 1 .. (n + 1) : f2[i] = t
      OBVIOUS
    <3>1. CASE t = s
      <4>1. n + 1 \in 1 .. (n + 1)
        BY <1>0
      <4> QED BY <2>1, <3>1, <4>1
    <3>2. CASE t # s
      <4>1. PICK j \in 1 .. n : f[j] = t
        BY <1>3, <1>8, <3>2 DEF Threads
      <4>2. j \in 1 .. (n + 1) /\ f2[j] = t
        BY <1>0, <2>1, <4>1
      <4> QED BY <4>2
    <3> QED BY <3>1, <3>2
  <2>5. \A i, j \in 1 .. (n + 1) : f2[i] = f2[j] => i = j
    <3> SUFFICES ASSUME NEW i \in 1 .. (n + 1), NEW j \in 1 .. (n + 1), f2[i] = f2[j]
                 PROVE  i = j
      BY ZenonT(30)
    <3> HIDE DEF f2
    <3> QED BY <1>3, <2>1, <2>2 DEF Threads
  <2>6. ASSUME NEW i \in 1 .. (n + 1)
        PROVE  /\ q.next[f2[i]] = IF i = n + 1 THEN Nil ELSE f2[i + 1]
               /\ q.prev[f2[i]] = IF i = 1 THEN Nil ELSE f2[i - 1]
    <3>1. CASE i = n + 1
      <4>1. q.next[s] = Nil /\ q.prev[s] = ft
        BY <1>5, <1>6
      <4>2. n # 0 => n \in 1 .. n /\ f2[n] = f[n] /\ i - 1 = n
        BY <1>0, <3>1
      <4>3. n = 0 <=> i = 1
        BY <1>0, <3>1
      <4> QED BY <1>3, <2>1, <3>1, <4>1, <4>2, <4>3, ZenonT(30)
    <3>2. CASE i # n + 1
      <4>1. i \in 1 .. n /\ f2[i] = f[i] /\ f[i] \in FreeSlots(p) /\ f[i] # s /\ f[i] \in Slots
        BY <2>1, <2>2, <3>2, ZenonT(30) DEF FreeSlots
      <4>2. /\ p.next[f[i]] = IF i = n THEN Nil ELSE f[i + 1]
            /\ p.prev[f[i]] = IF i = 1 THEN Nil ELSE f[i - 1]
        BY <1>3, <4>1, ZenonT(30) DEF Threads
      <4>3. f[i] # un /\ f[i] # up
        BY <1>11, <4>1
      <4>4. f[i] = ft <=> i = n
        <5>1. n # 0 /\ n \in 1 .. n
          BY <1>0, <4>1
        <5> QED BY <1>3, <4>1, <5>1 DEF Threads
      <4>5. q.next[f2[i]] = IF i = n THEN s ELSE p.next[f[i]]
        BY <1>5, <4>1, <4>3, <4>4, ZenonT(30)
      <4>6. q.prev[f2[i]] = p.prev[f[i]]
        BY <1>5, <4>1, <4>3
      <4>7. f2[i + 1] = IF i = n THEN s ELSE f[i + 1]
        BY <1>0, <4>1
      <4>8. i # 1 => f2[i - 1] = f[i - 1]
        BY <1>0, <4>1
      <4> QED BY <3>2, <4>2, <4>5, <4>6, <4>7, <4>8, ZenonT(30)
    <3> QED BY <3>1, <3>2, ZenonT(30)
  <2>7. Threads(q, f2, n + 1, FreeSlots(q))
    BY <2>3, <2>4, <2>5, <2>6, ZenonT(30) DEF Threads
  <2>8. Cap - q.usedCount = n + 1 /\ n + 1 # 0
    BY <1>0, <1>5
  <2>9. q.freeHead = f2[1]
    <3>1. CASE n = 0
      BY <1>3, <1>5, <2>1, <3>1
    <3>2. CASE n # 0
      <4>1. f2[1] = f[1] /\ n \in 1 .. n /\ f[n] \in Slots
        BY <1>0, <3>2
      <4>2. ~(ft < 0)
        BY <1>3, <3>2, <4>1 DEF Slots
      <4> QED BY <1>3, <1>5, <3>2, <4>1, <4>2
    <3> QED BY <3>1, <3>2, ZenonT(30)
  <2>10. f2 \in [1 .. (n + 1) -> Slots]
    BY <1>0, <1>6
  <2> QED BY <1>5, <2>1, <2>7, <2>8, <2>9, <2>10, ZenonT(30) DEF IsFreeList
<1>13. IsUsedList(q, u2) /\ u2 \in [1 .. (m - 1) -> Slots]
  <2> DEFINE o(i) == IF i < k THEN i ELSE i + 1
  <2>1. \A i \in 1 .. (m - 1) : /\ u2[i] = u[o(i)] /\ o(i) \in 1 .. m /\ o(i) # k
                               /\ u[o(i)] \in UsedSlots(p) /\ u[o(i)] # s
    <3> SUFFICES ASSUME NEW i \in 1 .. (m - 1)
                 PROVE  /\ u2[i] = u[o(i)] /\ o(i) \in 1 .. m /\ o(i) # k
                        /\ u[o(i)] \in UsedSlots(p) /\ u[o(i)] # s
      OBVIOUS
    <3>1. o(i) \in 1 .. m /\ o(i) # k
      BY <1>0, <1>6
    <3>2. u2[i] = u[o(i)]
      OBVIOUS
    <3> HIDE DEF o, u2
    <3> QED BY <1>3, <1>4, <3>1, <3>2, ZenonT(30) DEF Threads
  <2>2. \A i \in 1 .. (m - 1) : u2[i] \in UsedSlots(q)
    BY <1>8, <2>1
  <2>3. \A t \in UsedSlots(q) : \E i \in 1 .. (m - 1) : u2[i] = t
    <3> SUFFICES ASSUME NEW t \in UsedSlots(q) PROVE \E i \in 1 .. (m - 1) : u2[i] = t
      BY ZenonT(30)
    <3>1. PICK j \in 1 .. m : u[j] = t /\ j # k
      BY <1>3, <1>4, <1>8 DEF Threads
    <3>2. CASE j < k
      <4>1. j \in 1 .. (m - 1) /\ u2[j] = t
        BY <1>0, <1>4, <1>6, <3>1, <3>2
      <4> QED BY <4>1
    <3>3. CASE j > k
      <4>1. j - 1 \in 1 .. (m - 1) /\ ~(j - 1 < k) /\ (j - 1) + 1 = j
        BY <1>0, <1>6, <3>1, <3>3
      <4>2. u2[j - 1] = t
        BY <3>1, <4>1, ZenonT(30)
      <4> QED BY <4>1, <4>2
    <3> QED BY <1>0, <3>1, <3>2, <3>3
  <2>4. \A i, j \in 1 .. (m - 1) : u2[i] = u2[j] => i = j
    <3> SUFFICES ASSUME NEW i \in 1 .. (m - 1), NEW j \in 1 .. (m - 1), u2[i] = u2[j]
                 PROVE  i = j
      OBVIOUS
    <3>1. u[o(i)] = u[o(j)] /\ o(i) \in 1 .. m /\ o(j) \in 1 .. m
      BY <2>1, ZenonT(30)
    <3>2. o(i) = o(j)
      BY <1>3, <3>1, ZenonT(30) DEF Threads
    <3> QED BY <1>0, <3>2
  <2>5. ASSUME NEW i \in 1 .. (m - 1)
        PROVE  /\ q.next[u2[i]] = IF i = m - 1 THEN Nil ELSE u2[i + 1]
               /\ q.prev[u2[i]] = IF i = 1 THEN Nil ELSE u2[i - 1]
    <3> DEFINE a == u[o(i)]
    <3>1. u2[i] = a /\ a \in Slots /\ a # s /\ a # ft /\ o(i) \in 1 .. m /\ o(i) # k
      BY <1>10, <2>1, ZenonT(30) DEF UsedSlots
    <3>2. /\ p.next[a] = IF o(i) = m THEN Nil ELSE u[o(i) + 1]
          /\ p.prev[a] = IF o(i) = 1 THEN Nil ELSE u[o(i) - 1]
      BY <1>3, <3>1, ZenonT(30) DEF Threads
    <3>3. a = up <=> o(i) = k - 1
      <4>1. CASE k = 1
        BY <1>0, <1>9, <3>1, <4>1 DEF Slots
      <4>2. CASE k # 1
        <5>1. k - 1 \in 1 .. m /\ up = u[k - 1]
          BY <1>0, <1>4, <1>9, <4>2
        <5> QED BY <1>3, <3>1, <5>1, ZenonT(30) DEF Threads
      <4> QED BY <4>1, <4>2
    <3>4. a = un <=> o(i) = k + 1
      <4>1. CASE k = m
        BY <1>0, <1>9, <3>1, <4>1 DEF Slots
      <4>2. CASE k # m
        <5>1. k + 1 \in 1 .. m /\ un = u[k + 1]
          BY <1>0, <1>4, <1>9, <4>2
        <5> QED BY <1>3, <3>1, <5>1 DEF Threads
      <4> QED BY <4>1, <4>2, ZenonT(30)
    <3>5. q.next[a] = IF o(i) = k - 1 THEN un ELSE p.next[a]
      BY <1>5, <3>1, <3>3, ZenonT(30)
    <3>6. q.prev[a] = IF o(i) = k + 1 THEN up ELSE p.prev[a]
      BY <1>5, <3>1, <3>4, ZenonT(30)
    <3>7. i # m - 1 => u2[i + 1] = IF i + 1 < k THEN u[i + 1] ELSE u[i + 2]
      BY <1>0, <1>6
    <3>8. i # 1 => u2[i - 1] = IF i - 1 < k THEN u[i - 1] ELSE u[i]
      BY <1>0, <1>6
    <3>9. q.next[a] = IF i = m - 1 THEN Nil ELSE u2[i + 1]
      <4>1. CASE i < k - 1
        <5>1. o(i) = i /\ o(i) # k - 1 /\ o(i) # m /\ i # m - 1
          BY <1>0, <1>4, <4>1
        <5>2. u2[i + 1] = u[i + 1]
          BY <1>0, <3>7, <4>1, <5>1
        <5> QED BY <3>2, <3>5, <5>1, <5>2, ZenonT(30)
      <4>2. CASE i = k - 1
        <5>1. o(i) = k - 1 /\ (i = m - 1 <=> k = m)
          BY <1>0, <1>4, <4>2
        <5>2. i # m - 1 => u2[i + 1] = u[k + 1]
          BY <1>0, <1>4, <3>7, <4>2
        <5> QED BY <1>9, <3>5, <5>1, <5>2, ZenonT(30)
      <4>3. CASE i >= k
        <5>1. o(i) = i + 1 /\ o(i) # k - 1 /\ o(i) + 1 = i + 2 /\ (i = m - 1 <=> o(i) = m)
          BY <1>0, <1>4, <4>3
        <5>2. i # m - 1 => u2[i + 1] = u[i + 2]
          BY <1>0, <1>4, <3>7, <4>3
        <5> QED BY <3>2, <3>5, <5>1, <5>2, ZenonT(30)
      <4> QED BY <1>0, <1>4, <4>1, <4>2, <4>3
    <3>10. q.prev[a] = IF i = 1 THEN Nil ELSE u2[i - 1]
      <4>1. CASE i < k
        BY <1>0, <3>2, <3>6, <3>8, <4>1
      <4>2. CASE i = k
        <5>1. o(i) = k + 1
          BY <1>0, <4>2
        <5>2. i # 1 => u2[i - 1] = u[k - 1]
          BY <1>0, <3>8, <4>2
        <5> QED BY <1>9, <3>6, <4>2, <5>1, <5>2, ZenonT(30)
      <4>3. CASE i > k
        <5>1. o(i) = i + 1 /\ o(i) # k + 1 /\ o(i) # 1 /\ o(i) - 1 = i
          BY <1>0, <4>3
        <5>2. i # 1 /\ u2[i - 1] = u[i]
          BY <1>0, <3>8, <4>3
        <5> QED BY <3>2, <3>6, <5>1, <5>2, ZenonT(30)
      <4> QED BY <1>0, <4>1, <4>2, <4>3
    <3> QED BY <3>1, <3>9, <3>10, ZenonT(30)
  <2>6. Threads(q, u2, m - 1, UsedSlots(q))
    BY <2>2, <2>3, <2>4, <2>5, ZenonT(30) DEF Threads
  <2>7. q.usedHead = IF m - 1 = 0 THEN Nil ELSE u2[1]
    <3>1. p.usedHead = u[1] /\ 1 \in 1 .. m
      BY <1>0, <1>3, <1>6
    <3>2. p.usedHead = s <=> k = 1
      BY <1>3, <1>4, <3>1 DEF Threads
    <3>3. m - 1 # 0 => u2[1] = IF k = 1 THEN u[2] ELSE u[1]
      BY <1>0, <1>6
    <3> QED BY <1>0, <1>4, <1>5, <1>9, <3>1, <3>2, <3>3
  <2>8. u2 \in [1 .. (m - 1) -> Slots]
    BY <2>1, <1>0, ZenonT(30) DEF UsedSlots
  <2> QED BY <1>5, <2>6, <2>7, <2>8, ZenonT(30) DEF IsUsedList
<1>14. Cap - q.usedCount = n + 1 /\ q.usedCount = m - 1
  BY <1>0, <1>5
<1>15. WellLinked(q)
  BY <1>12, <1>13, <1>14 DEF WellLinked
<1> HIDE DEF u2
<1> QED BY <1>7, <1>13, <1>15, <1>16 DEF q, m

\* The same without naming the lists.
LEMMA ReturnSlotOK ==
  ASSUME NEW p, PoolType(p), WellLinked(p), NEW s \in UsedSlots(p)
  PROVE  PoolType(ReturnSlot(p, s)) /\ WellLinked(ReturnSlot(p, s))
<1>1. PICK u \in [1 .. p.usedCount -> Slots] : IsUsedList(p, u)
  BY ZenonT(30) DEF WellLinked
<1>2. PICK k \in 1 .. p.usedCount : u[k] = s
  BY <1>1 DEF IsUsedList, Threads
<1> QED BY <1>1, <1>2, ReturnSlotLists, ZenonT(30)

-----------------------------------------------------------------------------
(* Arithmetic of ids *)

\* A generation and a slot determine the id, and the id determines them.
LEMMA IdUnique ==
  ASSUME NEW a \in Nat, NEW b \in Nat, NEW s \in Slots, NEW t \in Slots,
         MkId(a, s) = MkId(b, t)
  PROVE  a = b /\ s = t
<1> USE CapAssumption DEF Slots, MkId
<1>1. ASSUME NEW x \in Nat, NEW y \in Nat, NEW v \in Slots, NEW w \in Slots, x < y
      PROVE  Cap * x + v < Cap * y + w
  <2>1. Cap * (x + 1) <= Cap * y
    <3>1. PICK d \in Nat : y = (x + 1) + d
      <4>1. y - (x + 1) \in Nat /\ y = (x + 1) + (y - (x + 1))
        BY <1>1
      <4> QED BY <4>1
    <3>2. Cap * y = Cap * (x + 1) + Cap * d /\ Cap * d \in Nat /\ Cap * (x + 1) \in Nat
      BY <3>1, SMT
    <3> QED BY <3>2
  <2>2. Cap * (x + 1) = Cap * x + Cap /\ Cap * x \in Nat /\ Cap * y \in Nat
    BY SMT
  <2> QED BY <2>1, <2>2
<1>2. ~(a < b) /\ ~(b < a)
  <2>1. Cap * a \in Nat /\ Cap * b \in Nat
    BY SMT
  <2>2. ~(a < b)
    <3> SUFFICES ASSUME a < b PROVE FALSE
      OBVIOUS
    <3>1. Cap * a + s < Cap * b + t
      BY <1>1
    <3> QED BY <2>1, <3>1
  <2>3. ~(b < a)
    <3> SUFFICES ASSUME b < a PROVE FALSE
      OBVIOUS
    <3>1. Cap * b + t < Cap * a + s
      BY <1>1
    <3> QED BY <2>1, <3>1
  <2> QED BY <2>2, <2>3
<1>3. a = b
  BY <1>2
<1>4. Cap * a \in Nat
  BY SMT
<1> QED BY <1>3, <1>4

\* Euclidean division.
LEMMA DivMod ==
  ASSUME NEW x \in Nat, NEW c \in Nat, c > 0
  PROVE  \E d \in Nat : x = c * d + (x % c)
BY Z3

\* The remainder finds the slot back.
LEMMA CRemOfId ==
  ASSUME NEW a \in Nat, NEW s \in Slots
  PROVE  CRem(MkId(a, s)) = s
<1> DEFINE x == MkId(a, s)
<1>1. x \in Nat /\ Cap \in Nat /\ Cap > 0
  BY CapAssumption, SMT DEF Slots, MkId
<1>2. ASSUME NEW y \in Nat, y = MkId(a, s)
      PROVE  y % Cap = s
  <2>1. PICK d \in Nat : y = Cap * d + (y % Cap)
    BY <1>1, DivMod, Zenon
  <2>2. y % Cap \in Slots
    BY <1>1 DEF Slots
  <2>3. MkId(a, s) = MkId(d, y % Cap)
    BY <1>2, <2>1, Zenon DEF MkId
  <2> QED BY <2>2, <2>3, IdUnique, Zenon
<1>3. x % Cap = s
  BY <1>1, <1>2, Zenon
<1> QED BY <1>1, <1>3 DEF CRem

\* An id that passes the test of objpool_get and objpool_free names a used slot.
LEMMA LiveSlot ==
  ASSUME NEW p, PoolType(p), NEW id \in Int, IsLive(p, id)
  PROVE  CRem(id) \in UsedSlots(p) /\ id = LogicIdx(p, CRem(id))
<1> USE CapAssumption DEF Slots
<1>1. CRem(id) \in Slots
  <2>1. CASE id >= 0
    BY <2>1 DEF CRem
  <2>2. CASE id < 0
    <3>1. -id \in Nat /\ (-id) % Cap \in Slots
      BY <2>2
    <3>2. CRem(id) = -((-id) % Cap) /\ CRem(id) >= 0
      BY <2>2 DEF CRem, IsLive
    <3>3. CRem(id) = 0
      BY <3>1, <3>2
    <3> QED BY <3>3
  <2> QED BY <2>1, <2>2
<1> QED BY <1>1 DEF IsLive, UsedSlots

-----------------------------------------------------------------------------
(* The operations keep the pool consistent *)

PoolOK(p) == PoolType(p) /\ WellLinked(p)

\* objpool_init threads every slot on the free list.
LEMMA InitPoolOK == PoolOK(objpool_init)
<1> USE CapAssumption, MaxIntAssumption DEF Nil, objpool_init
<1> DEFINE p == objpool_init
           f == [i \in 1 .. Cap |-> i - 1]
<1>1. \A s \in Slots : LogicIdx(p, s) = s /\ ~p.used[s] /\ s <= MaxInt
  BY DEF LogicIdx, MkId, Slots
<1>2. PoolType(p)
  <2>1. p \in [usedCount : 0 .. Cap, freeHead : Slots \union {Nil},
               freeTail : Slots \union {Nil}, usedHead : Slots \union {Nil},
               next : [Slots -> Slots \union {Nil}],
               prev : [Slots -> Slots \union {Nil}],
               acc : [Slots -> Nat], used : [Slots -> BOOLEAN]]
    BY DEF Slots
  <2> QED BY <1>1, <2>1 DEF PoolType
<1>3. FreeSlots(p) = Slots /\ UsedSlots(p) = {}
  BY DEF FreeSlots, UsedSlots
<1>4. p.usedCount = 0 /\ p.freeHead = 0 /\ p.freeTail = Cap - 1 /\ p.usedHead = Nil
  BY ZenonT(30)
<1>5. Threads(p, f, Cap, Slots)
  <2>1. \A i \in 1 .. Cap : f[i] \in Slots
    BY DEF Slots
  <2>2. \A s \in Slots : s + 1 \in 1 .. Cap /\ f[s + 1] = s
    BY DEF Slots
  <2>3. \A i, j \in 1 .. Cap : f[i] = f[j] => i = j
    OBVIOUS
  <2>4. \A i \in 1 .. Cap : /\ p.next[f[i]] = IF i = Cap THEN Nil ELSE f[i + 1]
                           /\ p.prev[f[i]] = IF i = 1 THEN Nil ELSE f[i - 1]
    BY DEF Slots
  <2> QED BY <2>1, <2>2, <2>3, <2>4 DEF Threads
<1> HIDE DEF p
<1>6. IsFreeList(p, f) /\ f \in [1 .. (Cap - p.usedCount) -> Slots]
  <2>1. Cap - p.usedCount = Cap /\ f[1] = 0 /\ f[Cap] = Cap - 1
    BY <1>4
  <2>2. f \in [1 .. Cap -> Slots]
    BY DEF Slots
  <2> HIDE DEF f
  <2> QED BY <1>3, <1>4, <1>5, <2>1, <2>2 DEF IsFreeList
<1> DEFINE u == [i \in 1 .. 0 |-> 0]
<1>7. IsUsedList(p, u) /\ u \in [1 .. p.usedCount -> Slots]
  <2>1. Threads(p, u, 0, {})
    BY DEF Threads
  <2> QED BY <1>3, <1>4, <2>1 DEF IsUsedList
<1>8. WellLinked(p)
  BY <1>6, <1>7, ZenonT(30) DEF WellLinked
<1> QED BY <1>2, <1>8, ZenonT(30) DEF PoolOK, p

\* objpool_alloc keeps the lists, full pool or not.
LEMMA AllocPoolOK ==
  ASSUME NEW p, PoolOK(p)
  PROVE  PoolOK(objpool_alloc(p).pool)
<1>1. CASE p.usedCount >= Cap
  BY <1>1 DEF objpool_alloc
<1>2. CASE ~(p.usedCount >= Cap)
  <2>1. p.usedCount < Cap
    BY <1>2, CapAssumption DEF PoolOK, PoolType
  <2>2. objpool_alloc(p).pool = TakeFreeHead(p)
    BY <1>2, ZenonT(30) DEF objpool_alloc
  <2> QED BY <2>1, <2>2, TakeFreeHeadOK DEF PoolOK
<1> QED BY <1>1, <1>2

\* objpool_free changes the pool only by returning the slot of a live id.
LEMMA FreeCases ==
  ASSUME NEW p, PoolOK(p), NEW id \in Int
  PROVE  LET q == objpool_free(p, id).pool
         IN  \/ q = p
             \/ \E s \in UsedSlots(p) : q = ReturnSlot(p, s)
BY LiveSlot, ZenonT(30) DEF objpool_free, PoolOK

\* objpool_free_bypos either returns a used slot or changes nothing.
LEMMA FreeByPosCases ==
  ASSUME NEW p, PoolOK(p), NEW pos \in Int
  PROVE  LET q == objpool_free_bypos(p, pos).pool
         IN  \/ q = p
             \/ \E s \in UsedSlots(p) : q = ReturnSlot(p, s)
<1>1. CASE pos \in Slots /\ p.usedCount > 0
  <2>1. LogicIdx(p, pos) \in Int
    BY <1>1, CapAssumption, SMT DEF PoolOK, PoolType, LogicIdx, MkId, Slots
  <2> QED BY <1>1, <2>1, FreeCases, ZenonT(30) DEF objpool_free_bypos
<1>2. CASE ~(pos \in Slots /\ p.usedCount > 0)
  BY <1>2 DEF objpool_free_bypos
<1> QED BY <1>1, <1>2, ZenonT(30)

-----------------------------------------------------------------------------
(* Live ids *)

\* The ids of used slots are positive ints.
LEMMA LiveIdsType ==
  ASSUME NEW p, PoolType(p)
  PROVE  LiveIds(p) \subseteq 1 .. MaxInt
<1> SUFFICES ASSUME NEW s \in Slots, p.used[s] PROVE LogicIdx(p, s) \in 1 .. MaxInt
  BY ZenonT(30) DEF LiveIds, UsedSlots
<1>1. p.acc[s] \in Nat /\ p.acc[s] > 0 /\ LogicIdx(p, s) <= MaxInt
  BY ZenonT(30) DEF PoolType
<1>2. MkId(p.acc[s], s) \in Nat /\ MkId(p.acc[s], s) > 0
  BY <1>1, CapAssumption, SMT DEF MkId, Slots
<1> QED BY <1>1, <1>2, MaxIntAssumption DEF LogicIdx

\* The id of a used slot is a positive int that leads back to the slot.
LEMMA IdOfUsed ==
  ASSUME NEW p, PoolType(p), NEW s \in UsedSlots(p)
  PROVE  /\ LogicIdx(p, s) \in LiveIds(p) /\ LogicIdx(p, s) \in 1 .. MaxInt
         /\ LogicIdx(p, s) % Cap = s /\ CRem(LogicIdx(p, s)) = s
<1>1. s \in Slots /\ p.used[s] /\ p.acc[s] \in Nat
  BY DEF UsedSlots, PoolType
<1>2. LogicIdx(p, s) \in LiveIds(p)
  BY <1>1, ZenonT(30) DEF LiveIds, UsedSlots
<1>3. LogicIdx(p, s) \in 1 .. MaxInt
  BY <1>2, LiveIdsType, ZenonT(30)
<1>4. CRem(LogicIdx(p, s)) = s
  BY <1>1, CRemOfId, ZenonT(30) DEF LogicIdx
<1>5. LogicIdx(p, s) >= 0
  BY <1>3, MaxIntAssumption
<1> QED BY <1>2, <1>3, <1>4, <1>5, ZenonT(30) DEF CRem

\* Distinct slots have distinct ids.
LEMMA IdsDiffer ==
  ASSUME NEW p, PoolType(p), NEW s \in Slots, NEW t \in Slots, LogicIdx(p, s) = LogicIdx(p, t)
  PROVE  s = t
BY IdUnique DEF LogicIdx, PoolType

\* The test of objpool_get and objpool_free accepts the live ids.
LEMMA IsLiveIff ==
  ASSUME NEW p, PoolOK(p), NEW id \in Int
  PROVE  IsLive(p, id) <=> id \in LiveIds(p)
<1>1. ASSUME IsLive(p, id) PROVE id \in LiveIds(p)
  BY <1>1, LiveSlot, ZenonT(30) DEF PoolOK, LiveIds
<1>2. ASSUME NEW s \in UsedSlots(p), id = LogicIdx(p, s) PROVE IsLive(p, id)
  <2>1. s \in Slots /\ p.used[s]
    BY ZenonT(30) DEF UsedSlots
  <2>2. CRem(id) = s
    BY <1>2, IdOfUsed, ZenonT(30) DEF PoolOK
  <2>3. PICK u : Threads(p, u, p.usedCount, UsedSlots(p))
    BY ZenonT(30) DEF PoolOK, WellLinked, IsUsedList
  <2>4. PICK i \in 1 .. p.usedCount : u[i] = s
    BY <2>3, ZenonT(30) DEF Threads
  <2>5. p.usedCount > 0 /\ s >= 0
    BY <2>1, <2>4, CapAssumption DEF PoolOK, PoolType, Slots
  <2> QED BY <1>2, <2>1, <2>2, <2>5, ZenonT(30) DEF IsLive
<1> QED BY <1>1, <1>2, ZenonT(30) DEF LiveIds

\* What objpool_alloc does when the pool is not full: the head of the free list is
\* in use, under a new id; nothing changes for the other slots.
LEMMA TakeDoes ==
  ASSUME NEW p, PoolOK(p), p.usedCount < Cap
  PROVE  LET q == TakeFreeHead(p)
             h == p.freeHead
             id == LogicIdx(q, h)
         IN  /\ objpool_alloc(p) = [pool |-> q, ret |-> id]
             /\ PoolOK(q) /\ h \in FreeSlots(p)
             /\ UsedSlots(q) = UsedSlots(p) \union {h} /\ FreeSlots(q) = FreeSlots(p) \ {h}
             /\ id \in 1 .. MaxInt /\ id % Cap = h /\ CRem(id) = h
             /\ \A s \in UsedSlots(p) : s # h /\ LogicIdx(q, s) = LogicIdx(p, s)
<1> DEFINE q == TakeFreeHead(p)
           h == p.freeHead
           id == LogicIdx(q, h)
<1>1. PoolOK(q) /\ PoolType(q) /\ h \in FreeSlots(p)
  BY TakeFreeHeadOK, ZenonT(30) DEF PoolOK
<1>2. /\ q.acc = [p.acc EXCEPT ![h] = NextAcc(p, h)]
      /\ q.used = [p.used EXCEPT ![h] = TRUE] /\ q.usedHead = h
  BY ZenonT(30) DEF TakeFreeHead
<1>3. objpool_alloc(p) = [pool |-> q, ret |-> id]
  <2>1. ~(p.usedCount >= Cap)
    BY CapAssumption DEF PoolOK, PoolType
  <2> QED BY <1>2, <2>1, ZenonT(30) DEF objpool_alloc
<1>4. /\ h \in Slots /\ ~p.used[h]
      /\ UsedSlots(q) = UsedSlots(p) \union {h} /\ FreeSlots(q) = FreeSlots(p) \ {h}
  BY <1>1, <1>2 DEF FreeSlots, UsedSlots, PoolOK, PoolType
<1> HIDE DEF q, h
<1>5. \A s \in UsedSlots(p) : s # h /\ LogicIdx(q, s) = LogicIdx(p, s)
  BY <1>2, <1>4, ZenonT(30) DEF UsedSlots, LogicIdx, PoolOK, PoolType
<1>6. id \in 1 .. MaxInt /\ id % Cap = h /\ CRem(id) = h
  BY <1>1, <1>4, IdOfUsed, ZenonT(30)
<1> QED BY <1>1, <1>3, <1>4, <1>5, <1>6, ZenonT(30) DEF q, h

\* What objpool_alloc adds: the id of a slot that no live id names.
LEMMA TakeAddsId ==
  ASSUME NEW p, PoolOK(p), p.usedCount < Cap
  PROVE  LET id == objpool_alloc(p).ret
         IN  /\ id \in 1 .. MaxInt
             /\ \A l \in LiveIds(p) : l % Cap # id % Cap
             /\ LiveIds(objpool_alloc(p).pool) = LiveIds(p) \union {id}
<1> DEFINE q == TakeFreeHead(p)
           h == p.freeHead
           id == LogicIdx(q, h)
<1>1. /\ objpool_alloc(p) = [pool |-> q, ret |-> id]
      /\ UsedSlots(q) = UsedSlots(p) \union {h} /\ id \in 1 .. MaxInt /\ id % Cap = h
      /\ \A s \in UsedSlots(p) : s # h /\ LogicIdx(q, s) = LogicIdx(p, s)
  BY TakeDoes, ZenonT(30)
<1> HIDE DEF q, h
<1>2. \A l \in LiveIds(p) : l % Cap # h
  <2> SUFFICES ASSUME NEW s \in UsedSlots(p) PROVE LogicIdx(p, s) % Cap # h
    BY ZenonT(30) DEF LiveIds
  <2> QED BY <1>1, IdOfUsed, ZenonT(30) DEF PoolOK
<1>3. LiveIds(q) = LiveIds(p) \union {id}
  <2>1. LiveIds(q) = {LogicIdx(q, s) : s \in UsedSlots(p) \union {h}}
    BY <1>1, ZenonT(30) DEF LiveIds
  <2>2. LiveIds(p) = {LogicIdx(q, s) : s \in UsedSlots(p)}
    BY <1>1, ZenonT(30) DEF LiveIds
  <2> QED BY <2>1, <2>2, ZenonT(30)
<1>4. objpool_alloc(p).ret = id /\ objpool_alloc(p).pool = q
  BY <1>1
<1> HIDE DEF id
<1> QED BY <1>1, <1>2, <1>3, <1>4, ZenonT(30)

\* What freeing a slot does, and what it removes: the id of the slot.
LEMMA ReturnDoes ==
  ASSUME NEW p, PoolOK(p), NEW s \in UsedSlots(p)
  PROVE  LET q == ReturnSlot(p, s)
         IN  /\ PoolOK(q)
             /\ UsedSlots(q) = UsedSlots(p) \ {s} /\ FreeSlots(q) = FreeSlots(p) \union {s}
             /\ \A t : LogicIdx(q, t) = LogicIdx(p, t)
             /\ LiveIds(q) = LiveIds(p) \ {LogicIdx(p, s)}
<1> DEFINE q == ReturnSlot(p, s)
<1>0. PoolOK(q)
  BY ReturnSlotOK, ZenonT(30) DEF PoolOK
<1>1. q.acc = p.acc /\ q.used = [p.used EXCEPT ![s] = FALSE]
  BY ZenonT(30) DEF ReturnSlot
<1> HIDE DEF q
<1>2. UsedSlots(q) = UsedSlots(p) \ {s} /\ FreeSlots(q) = FreeSlots(p) \union {s}
  BY <1>1, ZenonT(30) DEF UsedSlots, FreeSlots, PoolOK, PoolType
<1>3. \A t : LogicIdx(q, t) = LogicIdx(p, t)
  BY <1>1, ZenonT(30) DEF LogicIdx
<1>4. \A t \in UsedSlots(p) : LogicIdx(p, t) = LogicIdx(p, s) => t = s
  BY IdsDiffer, ZenonT(30) DEF UsedSlots, PoolOK
<1>5. LiveIds(q) = {LogicIdx(p, t) : t \in UsedSlots(p) \ {s}}
  BY <1>2, <1>3, ZenonT(30) DEF LiveIds
<1>6. LiveIds(q) = LiveIds(p) \ {LogicIdx(p, s)}
  BY <1>4, <1>5, ZenonT(30) DEF LiveIds
<1> QED BY <1>0, <1>2, <1>3, <1>6, ZenonT(30) DEF q

-----------------------------------------------------------------------------
(* Traversals *)

\* T has the ids of the slots from c to the end of the used list.
Ahead(p, c, T) ==
  \E u \in [1 .. p.usedCount -> Slots] : \E k \in 1 .. p.usedCount :
    /\ IsUsedList(p, u) /\ u[k] = c
    /\ T = {LogicIdx(p, u[i]) : i \in k .. p.usedCount}

\* The used list of a pool.
LEMMA UsedList ==
  ASSUME NEW p, PoolOK(p), NEW u \in [1 .. p.usedCount -> Slots], IsUsedList(p, u)
  PROVE  /\ p.usedCount \in Nat /\ p.usedCount <= Cap
         /\ \A i \in 1 .. p.usedCount : u[i] \in UsedSlots(p) /\ u[i] \in Slots
         /\ \A s \in UsedSlots(p) : \E i \in 1 .. p.usedCount : u[i] = s
         /\ \A i, j \in 1 .. p.usedCount : u[i] = u[j] => i = j
         /\ \A i \in 1 .. p.usedCount :
              p.next[u[i]] = IF i = p.usedCount THEN Nil ELSE u[i + 1]
         /\ p.usedHead = IF p.usedCount = 0 THEN Nil ELSE u[1]
<1>1. p.usedCount \in Nat /\ p.usedCount <= Cap
  BY CapAssumption DEF PoolOK, PoolType
<1>2. Threads(p, u, p.usedCount, UsedSlots(p)) /\ p.usedHead = IF p.usedCount = 0 THEN Nil ELSE u[1]
  BY ZenonT(30) DEF IsUsedList
<1> QED BY <1>1, <1>2, ZenonT(30) DEF Threads

\* objpool_travel_used starts at the head with everything before it.
LEMMA AheadAtHead ==
  ASSUME NEW p, PoolOK(p)
  PROVE  /\ p.usedHead = Nil => LiveIds(p) = {}
         /\ p.usedHead # Nil => p.usedHead \in Slots /\ Ahead(p, p.usedHead, LiveIds(p))
<1> DEFINE m == p.usedCount
<1>1. PICK u \in [1 .. m -> Slots] : IsUsedList(p, u)
  BY ZenonT(30) DEF PoolOK, WellLinked
<1>2. /\ m \in Nat /\ \A i \in 1 .. m : u[i] \in UsedSlots(p) /\ u[i] \in Slots
      /\ \A s \in UsedSlots(p) : \E i \in 1 .. m : u[i] = s
      /\ p.usedHead = IF m = 0 THEN Nil ELSE u[1]
  BY <1>1, UsedList, ZenonT(30)
<1>3. LiveIds(p) = {LogicIdx(p, u[i]) : i \in 1 .. m}
  BY <1>2 DEF LiveIds
<1>4. CASE m = 0
  BY <1>2, <1>3, <1>4
<1>5. CASE m # 0
  <2>1. 1 \in 1 .. m /\ p.usedHead = u[1]
    BY <1>2, <1>5
  <2>2. p.usedHead \in Slots /\ p.usedHead # Nil
    BY <1>2, <2>1 DEF Slots, Nil
  <2>3. Ahead(p, p.usedHead, LiveIds(p))
    BY <1>1, <1>3, <2>1, ZenonT(30) DEF Ahead
  <2> QED BY <2>2, <2>3, ZenonT(30)
<1> QED BY <1>4, <1>5, ZenonT(30)

\* The cursor is on an object still to be visited, and going on to the next slot
\* leaves the rest, or nothing at the end of the list.
LEMMA AheadNext ==
  ASSUME NEW p, PoolOK(p), NEW c, NEW T, Ahead(p, c, T)
  PROVE  /\ c \in UsedSlots(p) /\ LogicIdx(p, c) \in T
         /\ p.next[c] = Nil => T \ {LogicIdx(p, c)} = {}
         /\ p.next[c] # Nil => /\ p.next[c] \in Slots /\ p.next[c] # c
                               /\ Ahead(p, p.next[c], T \ {LogicIdx(p, c)})
<1> DEFINE m == p.usedCount
           id == LogicIdx(p, c)
<1>1. PICK u \in [1 .. m -> Slots], k \in 1 .. m :
        IsUsedList(p, u) /\ u[k] = c /\ T = {LogicIdx(p, u[i]) : i \in k .. m}
  BY ZenonT(30) DEF Ahead
<1>2. /\ m \in Nat /\ \A i \in 1 .. m : u[i] \in UsedSlots(p) /\ u[i] \in Slots
      /\ \A i, j \in 1 .. m : u[i] = u[j] => i = j
      /\ \A i \in 1 .. m : p.next[u[i]] = IF i = m THEN Nil ELSE u[i + 1]
  BY <1>1, UsedList, ZenonT(30)
<1> HIDE DEF m
<1>3. k \in k .. m /\ c \in UsedSlots(p) /\ id \in T
  BY <1>1, <1>2
<1>4. \A i \in k .. m : i # k => LogicIdx(p, u[i]) # id
  <2> SUFFICES ASSUME NEW i \in k .. m, i # k, LogicIdx(p, u[i]) = id PROVE FALSE
    BY ZenonT(30)
  <2>1. i \in 1 .. m
    BY <1>2
  <2>2. u[i] = u[k]
    BY <1>1, <1>2, <2>1, IdsDiffer, ZenonT(30) DEF PoolOK
  <2> QED BY <1>2, <2>1, <2>2
<1>5. T \ {id} = {LogicIdx(p, u[i]) : i \in (k + 1) .. m}
  <2>1. \A i \in k .. m : i = k \/ i \in (k + 1) .. m
    BY <1>2
  <2>2. \A i \in (k + 1) .. m : i \in k .. m /\ i # k
    BY <1>2
  <2> HIDE DEF id
  <2> QED BY <1>1, <1>4, <2>1, <2>2, ZenonT(30) DEF id
<1>6. CASE k = m
  <2>1. p.next[c] = Nil
    BY <1>1, <1>2, <1>6, ZenonT(30)
  <2>2. (k + 1) .. m = {}
    BY <1>2, <1>6
  <2> QED BY <1>3, <1>5, <2>1, <2>2, ZenonT(30)
<1>7. CASE k # m
  <2>1. k + 1 \in 1 .. m /\ k + 1 # k
    BY <1>2, <1>7
  <2>2. p.next[c] = u[k + 1] /\ u[k + 1] \in Slots /\ u[k + 1] # c
    BY <1>1, <1>2, <1>7, <2>1, ZenonT(30)
  <2>3. p.next[c] # Nil
    BY <2>2 DEF Slots, Nil
  <2> HIDE DEF id
  <2>4. Ahead(p, p.next[c], T \ {id})
    BY <1>1, <1>5, <2>1, <2>2, ZenonT(30) DEF Ahead, m
  <2> QED BY <1>3, <2>2, <2>3, <2>4, ZenonT(30) DEF id
<1> QED BY <1>6, <1>7, ZenonT(30)

\* What is allocated during a traversal comes before its cursor.
LEMMA AheadTake ==
  ASSUME NEW p, PoolOK(p), p.usedCount < Cap, NEW c, NEW T, Ahead(p, c, T)
  PROVE  Ahead(TakeFreeHead(p), c, T)
<1> DEFINE m == p.usedCount
           q == TakeFreeHead(p)
           h == p.freeHead
<1>1. PICK u \in [1 .. m -> Slots], k \in 1 .. m :
        IsUsedList(p, u) /\ u[k] = c /\ T = {LogicIdx(p, u[i]) : i \in k .. m}
  BY ZenonT(30) DEF Ahead
<1> DEFINE u2 == Pushed(u, m, h)
<1>2. m \in Nat /\ \A i \in 1 .. m : u[i] \in UsedSlots(p) /\ u[i] \in Slots
  BY <1>1, UsedList, ZenonT(30)
<1>3. h \in FreeSlots(p) /\ u2 \in [1 .. (m + 1) -> Slots] /\ IsUsedList(q, u2)
  BY <1>1, TakeFreeHeadLists DEF PoolOK
<1>4. q.usedCount = m + 1 /\ q.acc = [p.acc EXCEPT ![h] = NextAcc(p, h)]
  BY ZenonT(30) DEF TakeFreeHead
<1>5. \A i \in 1 .. m : u2[i + 1] = u[i] /\ LogicIdx(q, u2[i + 1]) = LogicIdx(p, u[i])
  <2> SUFFICES ASSUME NEW i \in 1 .. m
               PROVE  u2[i + 1] = u[i] /\ LogicIdx(q, u2[i + 1]) = LogicIdx(p, u[i])
    BY ZenonT(30)
  <2>1. u2[i + 1] = u[i]
    BY <1>2 DEF Pushed
  <2>2. u[i] # h /\ u[i] \in Slots
    BY <1>2, <1>3, ZenonT(30) DEF UsedSlots, FreeSlots
  <2>3. q.acc[u[i]] = p.acc[u[i]]
    BY <1>4, <2>2, ZenonT(30) DEF PoolOK, PoolType
  <2> QED BY <2>1, <2>3, ZenonT(30) DEF LogicIdx
<1> HIDE DEF m, q, u2
<1>6. T = {LogicIdx(q, u2[i]) : i \in (k + 1) .. (m + 1)}
  <2>1. \A i \in k .. m : i \in 1 .. m /\ i + 1 \in (k + 1) .. (m + 1)
    BY <1>2
  <2>2. \A j \in (k + 1) .. (m + 1) : j - 1 \in k .. m /\ j - 1 \in 1 .. m /\ (j - 1) + 1 = j
    BY <1>2
  <2>3. \A id \in T : id \in {LogicIdx(q, u2[i]) : i \in (k + 1) .. (m + 1)}
    BY <1>1, <1>5, <2>1, ZenonT(30)
  <2>4. \A j \in (k + 1) .. (m + 1) : LogicIdx(q, u2[j]) \in T
    BY <1>1, <1>5, <2>2, ZenonT(30)
  <2> QED BY <2>3, <2>4, ZenonT(30)
<1>7. k + 1 \in 1 .. (m + 1) /\ u2[k + 1] = c
  BY <1>1, <1>2, <1>5
<1> QED BY <1>3, <1>4, <1>6, <1>7, ZenonT(30) DEF Ahead, q

\* Freeing another object takes it off the list, before or after the cursor.
LEMMA AheadReturn ==
  ASSUME NEW p, PoolOK(p), NEW s \in UsedSlots(p), NEW c, s # c, NEW T, Ahead(p, c, T)
  PROVE  Ahead(ReturnSlot(p, s), c, T \ {LogicIdx(p, s)})
<1> DEFINE m == p.usedCount
           q == ReturnSlot(p, s)
           gone == LogicIdx(p, s)
<1>1. PICK u \in [1 .. m -> Slots], k \in 1 .. m :
        IsUsedList(p, u) /\ u[k] = c /\ T = {LogicIdx(p, u[i]) : i \in k .. m}
  BY ZenonT(30) DEF Ahead
<1>2. /\ m \in Nat /\ \A i \in 1 .. m : u[i] \in UsedSlots(p) /\ u[i] \in Slots
      /\ \A t \in UsedSlots(p) : \E i \in 1 .. m : u[i] = t
      /\ \A i, j \in 1 .. m : u[i] = u[j] => i = j
  BY <1>1, UsedList, ZenonT(30)
<1>3. PICK d \in 1 .. m : u[d] = s
  BY <1>2
<1>a. d # k
  BY <1>1, <1>3
<1> DEFINE u2 == Without(u, m, d)
           k2 == IF k < d THEN k ELSE k - 1
           o(i) == IF i < d THEN i ELSE i + 1
<1>4. u2 \in [1 .. (m - 1) -> Slots] /\ IsUsedList(q, u2)
  BY <1>1, <1>3, ReturnSlotLists, ZenonT(30) DEF PoolOK
<1>5. q.usedCount = m - 1 /\ q.acc = p.acc
  BY ZenonT(30) DEF ReturnSlot
<1>6. \A i \in 1 .. (m - 1) : /\ u2[i] = u[o(i)] /\ o(i) \in 1 .. m /\ o(i) # d
                              /\ i >= k2 <=> o(i) >= k
  <2>1. \A i \in 1 .. (m - 1) : u2[i] = u[o(i)]
    BY ZenonT(30) DEF Without
  <2>2. \A i \in 1 .. (m - 1) : o(i) \in 1 .. m /\ o(i) # d /\ (i >= k2 <=> o(i) >= k)
    BY <1>2, <1>a
  <2> QED BY <2>1, <2>2, ZenonT(30)
<1>7. \A j \in 1 .. m : j # d => \E i \in 1 .. (m - 1) : o(i) = j
  <2> SUFFICES ASSUME NEW j \in 1 .. m, j # d PROVE \E i \in 1 .. (m - 1) : o(i) = j
    BY ZenonT(30)
  <2>1. CASE j < d
    <3>1. j \in 1 .. (m - 1) /\ o(j) = j
      BY <1>2, <2>1
    <3> QED BY <3>1, ZenonT(30)
  <2>2. CASE ~(j < d)
    <3>1. j - 1 \in 1 .. (m - 1) /\ o(j - 1) = j
      BY <1>2, <2>2
    <3> QED BY <3>1, ZenonT(30)
  <2> QED BY <2>1, <2>2, ZenonT(30)
<1>8. k2 \in 1 .. (m - 1) /\ o(k2) = k
  BY <1>2, <1>a
<1>9. \A i \in 1 .. m : LogicIdx(q, u[i]) = LogicIdx(p, u[i]) /\ (LogicIdx(p, u[i]) = gone <=> i = d)
  <2> SUFFICES ASSUME NEW i \in 1 .. m
               PROVE  LogicIdx(q, u[i]) = LogicIdx(p, u[i]) /\ (LogicIdx(p, u[i]) = gone <=> i = d)
    BY ZenonT(30)
  <2>1. LogicIdx(q, u[i]) = LogicIdx(p, u[i])
    BY <1>5, ZenonT(30) DEF LogicIdx
  <2>2. ASSUME LogicIdx(p, u[i]) = gone PROVE i = d
    <3>1. u[i] = s
      BY <1>2, <1>3, <2>2, IdsDiffer, ZenonT(30) DEF PoolOK
    <3> QED BY <1>2, <1>3, <3>1, ZenonT(30)
  <2> QED BY <1>3, <2>1, <2>2, ZenonT(30)
<1> HIDE DEF m, q, u2, k2, o, gone
<1>10. T \ {gone} = {LogicIdx(q, u2[i]) : i \in k2 .. (m - 1)}
  <2>1. \A i : i \in k2 .. (m - 1) <=> i \in 1 .. (m - 1) /\ i >= k2
    BY <1>2, <1>8
  <2>2. \A j : j \in k .. m <=> j \in 1 .. m /\ j >= k
    BY <1>2
  <2>3. \A i \in k2 .. (m - 1) : LogicIdx(q, u2[i]) \in T \ {gone}
    BY <1>1, <1>6, <1>9, <2>1, <2>2, ZenonT(30)
  <2>4. \A id \in T \ {gone} : \E i \in k2 .. (m - 1) : id = LogicIdx(q, u2[i])
    <3> SUFFICES ASSUME NEW j \in k .. m, LogicIdx(p, u[j]) # gone
                 PROVE  \E i \in k2 .. (m - 1) : LogicIdx(p, u[j]) = LogicIdx(q, u2[i])
      BY <1>1, ZenonT(30)
    <3>1. j \in 1 .. m /\ j >= k /\ j # d
      BY <1>9, <2>2, ZenonT(30)
    <3>2. PICK i \in 1 .. (m - 1) : o(i) = j
      BY <1>7, <3>1, ZenonT(30)
    <3>3. i \in k2 .. (m - 1) /\ LogicIdx(p, u[j]) = LogicIdx(q, u2[i])
      BY <1>6, <1>9, <2>1, <3>1, <3>2, ZenonT(30)
    <3> QED BY <3>3, ZenonT(30)
  <2> QED BY <2>3, <2>4, ZenonT(30)
<1>11. u2[k2] = c
  BY <1>1, <1>6, <1>8, ZenonT(30)
<1> QED BY <1>4, <1>5, <1>8, <1>10, <1>11, ZenonT(30) DEF Ahead, q, gone
=============================================================================
