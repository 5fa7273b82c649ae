----------------------------- MODULE MCServerApp -----------------------------
(***************************************************************************)
(* Seconds of four milliseconds, a tick of three; control streams with     *)
(* empty lines, several words in a line and a command after a stop.        *)
(***************************************************************************)
EXTENDS ServerApp

MCScripts == {
  <<CR, LF, "reload", CR, LF, "other", CR, "stop", LF>>,
  <<"stop", CR, LF, "other", LF, CR>>}
=============================================================================
