---------------------------- MODULE MCScheduler ----------------------------
(* Model values and symmetry of Scheduler for TLC. *)
EXTENDS Scheduler, TLC

CONSTANTS w1, w2, w3, v1, v2, v3

(* Workers are interchangeable, and so are the VM threads that are forked. *)
Symmetry == Permutations(Workers) \cup Permutations(VmThreads \ {Entry})
=============================================================================
