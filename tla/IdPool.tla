------------------------------- MODULE IdPool -------------------------------
(***************************************************************************)
(* What the object pool promises its clients, without lists or counters:   *)
(* a set of live ids, at most Cap of them and at most one per slot.  Every *)
(* operation leaves its outcome in ret.                                    *)
(***************************************************************************)
EXTENDS Integers, FiniteSets

CONSTANTS
  Cap,    \* how many objects can be live at a time
  Ids,    \* the ids a client may pass to an operation
  Nil, SUCCESS, ERR_OBJPOOL_FULL, ERR_OBJPOOL_LOGICERROR

VARIABLES
  live,   \* the ids of the objects in use
  ret     \* the last operation: its name, its argument and its result

vars == <<live, ret>>

Outcome(op, arg, val) == [op |-> op, arg |-> arg, val |-> val]

Init ==
  /\ live = {}
  /\ ret = Outcome("init", Nil, SUCCESS)

\* A new id is positive and names a slot no live id names.
Fresh(id) == id > 0 /\ \A l \in live : l % Cap # id % Cap

Alloc ==
  \/ /\ Cardinality(live) < Cap
     /\ \E id \in Ids :
          /\ Fresh(id)
          /\ live' = live \union {id}
          /\ ret' = Outcome("alloc", Nil, id)
  \/ /\ Cardinality(live) = Cap
     /\ ret' = Outcome("alloc", Nil, ERR_OBJPOOL_FULL)
     /\ UNCHANGED live

Free(id) ==
  /\ live' = live \ {id}
  /\ ret' = Outcome("free", id, IF id \in live THEN SUCCESS
                                ELSE ERR_OBJPOOL_LOGICERROR)

\* Frees whatever object is in slot pos.
FreeByPos(pos) ==
  LET there == {id \in live : id % Cap = pos}
  IN  /\ live' = live \ there
      /\ ret' = Outcome("free_bypos", pos, IF there # {} THEN SUCCESS
                                           ELSE ERR_OBJPOOL_LOGICERROR)

Get(id) ==
  /\ ret' = Outcome("get", id, IF id \in live THEN id % Cap ELSE Nil)
  /\ UNCHANGED live

\* A traversal removes the objects its callback gives up, one at a time.
Remove ==
  /\ \E id \in live : live' = live \ {id}
  /\ UNCHANGED ret

Next ==
  \/ Alloc
  \/ \E id \in Ids : Free(id) \/ Get(id)
  \/ \E pos \in -1 .. Cap : FreeByPos(pos)
  \/ Remove

Spec == Init /\ [][Next]_vars
=============================================================================
