------------------------------ MODULE MCCoMgr -------------------------------
(***************************************************************************)
(* The coroutine manager for TLC.                                          *)
(***************************************************************************)
EXTENDS CoMgr

\* Nested coroutines without checks of the expiry times, so that three levels
\* can be explored.
NestSpec == Init /\ [][InitCoMgr \/ Client]_vars
=============================================================================
