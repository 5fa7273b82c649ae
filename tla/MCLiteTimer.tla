---------------------------- MODULE MCLiteTimer -----------------------------
(***************************************************************************)
(* LiteTimer for TLC: timers are started until there are enough, then at   *)
(* most MaxChanges operations follow, any ones in any order.               *)
(***************************************************************************)
EXTENDS LiteTimer

CONSTANT MaxChanges   \* bound on the operations after the first starts

VARIABLE changes

StartFirst ==
  /\ changes = 0
  /\ InitTimerMgr \/ \E t \in Times, b \in Bufs : StartTimer(t, b)
  /\ UNCHANGED changes

Change ==
  /\ changes < MaxChanges
  /\ changes' = changes + 1
  /\ Next

MCInit == Init /\ changes = 0

MCNext == StartFirst \/ Change

MCSpec == MCInit /\ [][MCNext]_<<vars, changes>>
=============================================================================
