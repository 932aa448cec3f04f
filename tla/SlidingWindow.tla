--------------------------- MODULE SlidingWindow ----------------------------
(***************************************************************************)
(* What window.go promises: the outcomes of the last Size calls since the  *)
(* last reset, in order.                                                   *)
(***************************************************************************)
EXTENDS Naturals, Sequences

CONSTANT Size

VARIABLE hist

LastOf(s) == IF Len(s) > Size THEN Tail(s) ELSE s

Record == \E success \in BOOLEAN : hist' = LastOf(Append(hist, success))
Reset  == hist' = <<>>

SlidingSpec == hist = <<>> /\ [][Record \/ Reset]_hist
=============================================================================
