---------------------------- MODULE MCFileTable ----------------------------
(* FileTable for TLC. *)
EXTENDS FileTable, TLC

CONSTANTS f, F, d

(* "f" and "F" are one name to strcasecmp and two to the host. *)
MCFold == (f :> 1) @@ (F :> 1) @@ (d :> 2)

(* Three host descriptors for two slots. *)
MCHostFd == 3 .. 5

(* One position before the start, -1, and the positions up to one after the end. *)
MCPosition == -2 .. 3
=============================================================================
