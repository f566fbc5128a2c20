--------------------------- MODULE MCStreamSession ---------------------------
(***************************************************************************)
(* StreamSession for TLC: a stream and a call of any method, which        *)
(* overlaps it or comes while its goroutine still sends, and overtakes it  *)
(* or not.                                                                 *)
(***************************************************************************)
EXTENDS StreamSession

CONSTANTS c1, c2

MCCall == {c1, c2}
MCPlans == { plan \in [MCCall -> Method] : plan[c1] = "stream" }
=============================================================================
