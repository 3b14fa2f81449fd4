--------------------------- MODULE MCToolDispatch ---------------------------
(* Values of the constants of ToolDispatch for TLC. *)
EXTENDS ToolDispatch, TLC

CONSTANTS w1, w2, main

(* Tools on one of two workers suspend and resume all threads. *)
MCSuspend == [w \in Actors |-> IF w = w2 THEN {} ELSE {"suspend"}]
=============================================================================
