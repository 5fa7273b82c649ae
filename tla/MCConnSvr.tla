----------------------------- MODULE MCConnSvr ------------------------------
(* The instances of ConnSvr that TLC checks. *)
EXTENDS ConnSvr

\* Every id a record can have, and one that is negative as a C int.
MCIds == -1 .. MaxInt
=============================================================================
