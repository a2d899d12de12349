--------------------------- MODULE MCProcessTable ---------------------------
(* ProcessTable for TLC. *)
EXTENDS ProcessTable, TLC

(* Every program takes one page. *)
MCPages == [p \in Program \cup {MainProgram} |-> 1]

(* The thread objects other than the main one are interchangeable. *)
MCSymmetry == Permutations(Thread \ {MainThread})
=============================================================================
