------------------------------ MODULE MCBuffer ------------------------------
(***************************************************************************)
(* A small buffer for TLC: bytes that can be told apart and chunks of up   *)
(* to three of them, so that data wraps, moves and outgrows the vector.    *)
(***************************************************************************)
EXTENDS Buffer

MCChunks == {<<1>>, <<2, 1>>, <<1, 2, 2>>}
=============================================================================
