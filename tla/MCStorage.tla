----------------------------- MODULE MCStorage ------------------------------
(***************************************************************************)
(* Model checking of files: the descriptors over the stub file system, and *)
(* the Nachos file system on its disk, which a build has instead of the    *)
(* stub.  A behaviour uses the one that focus names.                       *)
(***************************************************************************)
EXTENDS FileTable, FileSystem, TLC

CONSTANTS f, F, d, a, b, c, a2

VARIABLE focus

(* "f" and "F" are one name to strcasecmp and two to the host. *)
MCFold == (f :> 1) @@ (F :> 1) @@ (d :> 2)

(* As many host descriptors as slots, so that each is given out again and again. *)
MCHostFd == 3 .. 4

(* A position before the start, -1, the start, the end of a full file and one after it. *)
MCPosition == {-2, -1, 0, 2, 3}

(* a and a2 differ only after the ninth character. *)
MCStored == (a :> a) @@ (b :> b) @@ (c :> c) @@ (a2 :> a)

(* b and c are alike, and so are f and F. *)
MCSymmetry == Permutations({b, c}) \cup Permutations({f, F})

(* A request inside a sector, and one across two. *)
MCData == {<<1>>, <<2, 2>>}
MCSeekTo == {1}

all == <<tvars, fsvars, focus>>

Init ==
  /\ focus \in {"descriptors", "file system"}
  /\ FInit /\ FSInit

Next ==
  \/ focus = "descriptors" /\ FNext /\ UNCHANGED <<fsvars, focus>>
  \/ focus = "file system" /\ FSNext /\ UNCHANGED <<tvars, focus>>

Spec == Init /\ [][Next]_all
=============================================================================
