---------------------------- MODULE MCTcpServer -----------------------------
(***************************************************************************)
(* The TCP server for TLC.                                                 *)
(***************************************************************************)
EXTENDS TcpServer
=============================================================================
