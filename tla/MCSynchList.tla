---------------------------- MODULE MCSynchList ----------------------------
(* SynchList for TLC. *)
EXTENDS SynchList, TLC

(* The threads other than the main one, and the items, are interchangeable. *)
MCSymmetry == Permutations(Thread \ {MainThread}) \cup Permutations(Item)
=============================================================================
