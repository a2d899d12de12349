-------------------------- MODULE AtomicSemaphores --------------------------
(***************************************************************************)
(* What threads/synch.h promises of a semaphore, with no lists and no      *)
(* scheduler: "P() -- waits until value > 0, then decrement", "V() --      *)
(* increment, waking up a thread waiting in P() if necessary", "they are   *)
(* both *atomic*".                                                         *)
(***************************************************************************)
EXTENDS Integers

CONSTANTS Thread, Semaphore, NoSemaphore, InitialValue

VARIABLES
  value,    \* the units of each semaphore
  inside,   \* the semaphore each thread waits for
  stopped   \* the machine was halted

vars == <<value, inside, stopped>>

Init ==
  /\ value = InitialValue
  /\ inside = [t \in Thread |-> NoSemaphore]
  /\ stopped = FALSE

(* P() by a thread that has to wait. *)
Block(t, s) ==
  /\ ~stopped
  /\ inside[t] = NoSemaphore
  /\ value[s] = 0
  /\ inside' = [inside EXCEPT ![t] = s]
  /\ UNCHANGED <<value, stopped>>

(* A waiting thread gets its unit. *)
Unblock(t, s) ==
  /\ ~stopped
  /\ inside[t] = s
  /\ value[s] > 0
  /\ value' = [value EXCEPT ![s] = @ - 1]
  /\ inside' = [inside EXCEPT ![t] = NoSemaphore]
  /\ UNCHANGED stopped

(* P() by a thread that need not wait. *)
Decrement(s) ==
  /\ ~stopped
  /\ value[s] > 0
  /\ value' = [value EXCEPT ![s] = @ - 1]
  /\ UNCHANGED <<inside, stopped>>

(* V() *)
Increment(s) ==
  /\ ~stopped
  /\ value' = [value EXCEPT ![s] = @ + 1]
  /\ UNCHANGED <<inside, stopped>>

Stop ==
  /\ stopped' = TRUE
  /\ UNCHANGED <<value, inside>>

Next ==
  \/ Stop
  \/ \E s \in Semaphore :
       \/ Decrement(s)
       \/ Increment(s)
       \/ \E t \in Thread : Block(t, s) \/ Unblock(t, s)

(* A unit that stays available while a thread waits goes to a waiting thread. *)
Fairness == \A s \in Semaphore : WF_vars(\E t \in Thread : Unblock(t, s))

Spec == Init /\ [][Next]_vars /\ Fairness
=============================================================================
