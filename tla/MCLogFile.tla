------------------------------ MODULE MCLogFile ------------------------------
(***************************************************************************)
(* Two files of one or two lines, over a day's end, in the zone the code   *)
(* assumes and in another.                                                 *)
(***************************************************************************)
EXTENDS LogFile

MCCatConfs == <<[m_iMinLevel |-> 1, m_iMaxLevel |-> 1]>>
=============================================================================
