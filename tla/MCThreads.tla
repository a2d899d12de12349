----------------------------- MODULE MCThreads -----------------------------
(* Threads with the most general client, for TLC. *)
EXTENDS Threads, TLC

CONSTANT a  \* the semaphore that starts at 1

MCInitialValue == [s \in Semaphore |-> IF s = a THEN 1 ELSE 0]

(* The threads other than the main one are interchangeable. *)
MCSymmetry == Permutations(Thread \ {MainThread})
=============================================================================
