----------------------------- MODULE MCMonitor -----------------------------
(* Monitor for TLC. *)
EXTENDS Monitor, TLC

(* The threads other than the main one are interchangeable. *)
MCSymmetry == Permutations(Thread \ {MainThread})
=============================================================================
