----------------------------- MODULE MCEchoPath -----------------------------
(***************************************************************************)
(* Messages of two and three bytes with lengths of two.                    *)
(***************************************************************************)
EXTENDS EchoPath

MCPayloads == {<<>>, <<4>>}
=============================================================================
