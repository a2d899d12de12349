-------------------------- MODULE MCSemaphoreTable --------------------------
(* SemaphoreTable for TLC. *)
EXTENDS SemaphoreTable, TLC

(* A program that starts with a semaphore of value -1, and its neighbours. *)
FromMinusOne == {-1, 0, 1}

(* Threads other than the main one, and names, are interchangeable. *)
MCSymmetry == Permutations(Thread \ {MainThread}) \cup Permutations(SemName)
=============================================================================
