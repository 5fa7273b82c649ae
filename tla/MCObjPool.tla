----------------------------- MODULE MCObjPool ------------------------------
(* The pool with the constants the configurations give it. *)
EXTENDS ObjPool
=============================================================================
