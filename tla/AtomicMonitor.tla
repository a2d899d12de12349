--------------------------- MODULE AtomicMonitor ---------------------------
(***************************************************************************)
(* What threads/synch.h promises of a lock and a condition variable with   *)
(* Mesa semantics: "releasing the lock and going to sleep are *atomic* in  *)
(* Wait()", Signal wakes the thread that has waited longest, and a woken   *)
(* thread competes for the lock like any other.                            *)
(***************************************************************************)
EXTENDS Sequences

CONSTANTS Thread, NoThread

VARIABLES
  owner,    \* the thread that has the lock
  wanting,  \* the threads that wait for the lock
  waiting   \* the threads that wait for a signal, in order

vars == <<owner, wanting, waiting>>

Init ==
  /\ owner = NoThread
  /\ wanting = {}
  /\ waiting = <<>>

(* Acquire by a thread that has to wait. *)
Want(t) ==
  /\ owner \notin {NoThread, t}
  /\ wanting' = wanting \cup {t}
  /\ UNCHANGED <<owner, waiting>>

(* Acquire, or the end of Wait, when the lock is free. *)
Get(t) ==
  /\ owner = NoThread
  /\ owner' = t
  /\ wanting' = wanting \ {t}
  /\ UNCHANGED waiting

Release ==
  /\ owner # NoThread
  /\ owner' = NoThread
  /\ UNCHANGED <<wanting, waiting>>

Wait ==
  /\ owner # NoThread
  /\ owner' = NoThread
  /\ waiting' = Append(waiting, owner)
  /\ UNCHANGED wanting

Signal ==
  /\ owner # NoThread
  /\ waiting # <<>>
  /\ waiting' = Tail(waiting)
  /\ wanting' = wanting \cup {Head(waiting)}
  /\ UNCHANGED owner

Next ==
  \/ Release
  \/ Wait
  \/ Signal
  \/ \E t \in Thread : Want(t) \/ Get(t)

(* A free lock that some thread waits for is taken by some thread. *)
Fairness == WF_vars(wanting # {} /\ \E t \in Thread : Get(t))

Spec == Init /\ [][Next]_vars /\ Fairness
=============================================================================
