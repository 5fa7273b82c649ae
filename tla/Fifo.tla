------------------------------- MODULE Fifo ---------------------------------
(***************************************************************************)
(* What a byte buffer promises.  Each step is a call, recorded with its    *)
(* argument and its result: putting data in adds it at the end, taking n   *)
(* bytes removes that many from the front, or all there are, and says how  *)
(* many, and making or giving back room changes nothing.                   *)
(***************************************************************************)
EXTENDS Integers, Sequences

CONSTANTS
  Chunks,   \* the pieces of data put in at a time
  Lens      \* the numbers asked for

VARIABLES
  queue,
  call      \* the last call, with its argument and its result

vars == <<queue, call>>

Init == queue = << >> /\ call = << >>

Put(d) == queue' = queue \o d /\ call' = <<"put", d>>

Take(n) ==
  LET taken == IF n < Len(queue) THEN n ELSE Len(queue)
  IN  /\ queue' = SubSeq(queue, taken + 1, Len(queue))
      /\ call' = <<"take", n, taken>>

Room(n) == queue' = queue /\ call' = <<"room", n>>

Next ==
  \/ \E d \in Chunks : Put(d)
  \/ \E n \in Lens : Take(n) \/ Room(n)

Spec == Init /\ [][Next]_vars
=============================================================================
