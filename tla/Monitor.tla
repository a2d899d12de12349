------------------------------ MODULE Monitor ------------------------------
(***************************************************************************)
(* Lock and Condition of threads/synch.cc, built from semaphores: one lock *)
(* and one condition, used by a most general client that obeys the rule of *)
(* synch.h (condition operations and Release only with the lock held).     *)
(*                                                                         *)
(* Wait makes a semaphore for each call; a thread is in one Wait at a time *)
(* so the semaphore is named by the thread.                                *)
(***************************************************************************)
EXTENDS Threads

LockSem == <<"lock", MainThread>>          \* Lock::semaphore
Waiter(t) == <<"condition", t>>            \* "waiter" in Condition::Wait
MonitorSemaphores == {LockSem} \cup ({"condition"} \X Thread)
MonitorInit == [s \in MonitorSemaphores |-> IF s = LockSem THEN 1 ELSE 0]

ASSUME MonitorAssumption ==
  /\ Semaphore = MonitorSemaphores
  /\ InitialValue = MonitorInit
  /\ IntSemaphore = {}

VARIABLES
  lockHolder,  \* Lock::lockHolder
  waitQueue,   \* Condition::waitQueue, as the threads the semaphores belong to
  at           \* where each thread is, see Places

mvars == <<lockHolder, waitQueue, at>>
allvars == <<vars, mvars>>

(***************************************************************************)
(* "acquired": in Acquire, in or after the P; "waiting" and "woken": in    *)
(* Wait, before and in or after the P of the waiter; "reacquired": in the  *)
(* Acquire of Wait, in or after its P; "broadcasting": in Broadcast, after *)
(* a Signal; "inside" and "outside": in code of the client.                *)
(***************************************************************************)
Places == {"outside", "acquired", "inside", "waiting", "woken", "reacquired", "broadcasting"}

MInit ==
  /\ Init
  /\ lockHolder = NoThread
  /\ waitQueue = <<>>
  /\ at = [t \in Thread |-> "outside"]

-----------------------------------------------------------------------------
(* The running thread is at place p. *)
At(p) == mode = "running" /\ at[currentThread] = p

Goto(p) == at' = [at EXCEPT ![currentThread] = p]

(* Lock::Acquire up to the end of P. *)
Acquire(p, q) ==
  /\ At(p)
  /\ P(LockSem)
  /\ Goto(q)
  /\ UNCHANGED <<lockHolder, waitQueue>>

(* The rest of Acquire, and of Wait after it. *)
Acquired ==
  /\ At("acquired") \/ At("reacquired")
  /\ lockHolder' = currentThread
  /\ Goto("inside")
  /\ UNCHANGED <<vars, waitQueue>>

IsHeldByCurrentThread == lockHolder = currentThread

(* Lock::Release; the client holds the lock. *)
Release ==
  /\ At("inside")
  /\ IsHeldByCurrentThread
  /\ lockHolder' = NoThread
  /\ V(LockSem)
  /\ Goto("outside")
  /\ UNCHANGED waitQueue

(* Mutant: Wait does not queue its semaphore. *)
NotEnqueued == UNCHANGED waitQueue

(* Mutant: waitQueue->Prepend(waiter) *)
EnqueuedFirst == waitQueue' = <<currentThread>> \o waitQueue

(* waitQueue->Append(waiter) *)
Enqueue == waitQueue' = Append(waitQueue, currentThread)

(* Condition::Wait up to the end of Release. *)
StartWait ==
  /\ Enqueue
  /\ lockHolder' = NoThread
  /\ V(LockSem)
  /\ Goto("waiting")

(* Condition::Wait; the name Wait is taken by Threads. *)
CWait ==
  /\ At("inside")
  /\ IsHeldByCurrentThread
  /\ StartWait

(* waiter->P() *)
WaitSignal ==
  /\ At("waiting")
  /\ P(Waiter(currentThread))
  /\ Goto("woken")
  /\ UNCHANGED <<lockHolder, waitQueue>>

(* conditionLock->Acquire() in Wait. *)
Reacquire == Acquire("woken", "reacquired")

(* waitQueue->RemoveFront() *)
Dequeued == Tail(waitQueue)

(* Condition::Signal when somebody waits; it changes nothing otherwise. *)
SignalFront ==
  /\ waitQueue # <<>>
  /\ V(Waiter(Head(waitQueue)))
  /\ waitQueue' = Dequeued
  /\ UNCHANGED lockHolder

Signal ==
  /\ At("inside")
  /\ IsHeldByCurrentThread
  /\ SignalFront
  /\ UNCHANGED at

(* Condition::Broadcast: Signal until the queue is empty. *)
Broadcast ==
  /\ At("inside") \/ At("broadcasting")
  /\ IsHeldByCurrentThread
  /\ SignalFront
  /\ Goto("broadcasting")

BroadcastEnd ==
  /\ At("broadcasting")
  /\ waitQueue = <<>>
  /\ Goto("inside")
  /\ UNCHANGED <<vars, lockHolder, waitQueue>>

(* The kernel, and clients that start other threads or end. *)
Environment ==
  /\ \/ KernelNext
     \/ At("outside") /\ (Finish \/ \E t \in Thread : Fork(t))
  /\ UNCHANGED mvars

(* What a thread does unasked once it has called an operation. *)
InMonitor ==
  \/ WaitSignal \/ Reacquire \/ Acquired
  \/ At("broadcasting") /\ Broadcast
  \/ BroadcastEnd

MNext ==
  \/ Environment
  \/ InMonitor
  \/ Acquire("outside", "acquired")
  \/ Release
  \/ CWait
  \/ Signal
  \/ Broadcast

(* As in Threads; and a thread given the CPU executes up to its next tick. *)
MFairness ==
  /\ WF_allvars(Yield /\ UNCHANGED mvars)
  /\ WF_allvars(Run /\ UNCHANGED mvars)
  /\ WF_allvars(CheckToBeDestroyed /\ UNCHANGED mvars)
  /\ WF_allvars(Resume /\ UNCHANGED mvars)
  /\ \A t \in Thread : SF_allvars(currentThread = t /\ InMonitor)

MSpec == MInit /\ [][MNext]_allvars /\ MFairness

-----------------------------------------------------------------------------
(* The threads that have taken the unit of the lock's semaphore. *)
Owns(t) ==
  /\ at[t] \in {"acquired", "reacquired", "inside", "broadcasting"}
  /\ waitingOn[t] = NoSemaphore

(* The thread that has the lock. *)
Owner == IF \E t \in Thread : Owns(t) THEN CHOOSE t \in Thread : Owns(t) ELSE NoThread

(* The threads that wait for the lock, some of them still on their way out of Wait. *)
Wanting == {t \in Thread : /\ at[t] \in {"acquired", "waiting", "woken", "reacquired"}
                           /\ ~Owns(t) /\ ~IsOn(t, waitQueue)}

Abstract == INSTANCE AtomicMonitor WITH
  owner <- Owner, wanting <- Wanting, waiting <- waitQueue

(***************************************************************************)
(* Lock and Condition are the atomic monitor of synch.h: to everybody else *)
(* Wait releases the lock and starts to wait in one step, signals reach    *)
(* the waiters in order, and a free lock is taken when threads want it.    *)
(***************************************************************************)
ImplementsAtomicMonitor == Abstract!Spec
=============================================================================
