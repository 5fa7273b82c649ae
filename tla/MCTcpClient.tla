---------------------------- MODULE MCTcpClient -----------------------------
(***************************************************************************)
(* The TCP client for TLC.                                                 *)
(***************************************************************************)
EXTENDS TcpClient
=============================================================================
