--------------------------- MODULE MonitorProofs ---------------------------
(***************************************************************************)
(* Proofs about Monitor and about SynchList, which is built on it: for any *)
(* number of threads, the lock excludes, no waiter misses its signal, and  *)
(* every step of lock, condition and list is a step of the atomic monitor  *)
(* or queue, or invisible there.                                           *)
(***************************************************************************)
EXTENDS SynchList, ThreadsProofs

(* Zenon proves the leaves that name no prover; those with arithmetic or   *)
(* sequences name the SMT solver.                                          *)
USE ZenonT(60)

(* In Condition::Wait, with the P of the waiter still to be passed. *)
Sleeps(t) == at[t] = "waiting" \/ (at[t] = "woken" /\ waitingOn[t] = Waiter(t))

(* Types, and what a thread inside of P waits for at each place. *)
PlacesInv ==
  /\ lockHolder \in Thread \cup {NoThread}
  /\ waitQueue \in Seq(Thread)
  /\ at \in [Thread -> Places]
  /\ \A t \in Thread : waitingOn[t] # NoSemaphore =>
       \/ at[t] \in {"acquired", "reacquired"} /\ waitingOn[t] = LockSem
       \/ at[t] = "woken" /\ waitingOn[t] = Waiter(t)

(***************************************************************************)
(* The lock: its unit is in the semaphore or with exactly one thread, and  *)
(* lockHolder names the thread whose Acquire has returned.                 *)
(***************************************************************************)
LockInv ==
  /\ \/ value[LockSem] = 1 /\ \A t \in Thread : ~Owns(t)
     \/ value[LockSem] = 0 /\ \E o \in Thread : \A t \in Thread : Owns(t) <=> t = o
  /\ \A t \in Thread : at[t] \in {"inside", "broadcasting"} <=> lockHolder = t

(***************************************************************************)
(* The condition: whoever is on the queue has not been signalled, and a    *)
(* waiter that has been taken off it finds its unit when it gets to the P. *)
(***************************************************************************)
WaitInv ==
  /\ NoDuplicates(waitQueue)
  /\ \A t \in Thread :
       /\ IsOn(t, waitQueue) => Sleeps(t)
       /\ value[Waiter(t)] = IF Sleeps(t) /\ ~IsOn(t, waitQueue) THEN 1 ELSE 0

(* The inductive invariant. *)
MInv == IInv /\ PlacesInv /\ LockInv /\ WaitInv

-----------------------------------------------------------------------------
(* The lock and the waiters have semaphores of their own. *)
LEMMA SemaphoresDiffer ==
  /\ LockSem \in Semaphore /\ LockSem # NoSemaphore
  /\ \A t \in Thread : /\ Waiter(t) \in Semaphore /\ Waiter(t) # LockSem
                       /\ Waiter(t) # NoSemaphore
  /\ \A t, u \in Thread : Waiter(t) = Waiter(u) => t = u
  /\ IntSemaphore = {}
  BY MonitorAssumption, SemaphoreAssumption DEF LockSem, Waiter, MonitorSemaphores

LEMMA InitMInv == MInit => MInv
<1> SUFFICES ASSUME MInit PROVE MInv
  OBVIOUS
<1> USE SemaphoresDiffer DEF MInit, Init
<1>1. IInv
  BY InitIInv
<1>2. /\ value[LockSem] = 1 /\ \A t \in Thread : value[Waiter(t)] = 0
  BY MonitorAssumption DEF MonitorInit
<1>3. \A t \in Thread : ~IsOn(t, waitQueue)
  BY SMTT(60) DEF IsOn
<1>4. PlacesInv
  BY SMTT(60) DEF PlacesInv, Places
<1>5. LockInv
  BY <1>2, ThreadAssumption DEF LockInv, Owns
<1>6. WaitInv
  BY SMTT(60), <1>2, <1>3 DEF WaitInv, Sleeps, NoDuplicates
<1> QED
  BY <1>1, <1>4, <1>5, <1>6 DEF MInv

(***************************************************************************)
(* A thread takes the unit of the lock: at once in Acquire, or when it     *)
(* runs again after it slept.                                              *)
(***************************************************************************)
LEMMA LockTaken ==
  ASSUME LockInv, NEW c \in Thread,
         value[LockSem] # 0, value'[LockSem] = value[LockSem] - 1,
         UNCHANGED lockHolder,
         Owns(c)', \A t \in Thread : t # c => (Owns(t)' <=> Owns(t)),
         at[c] \notin {"inside", "broadcasting"}, at'[c] \notin {"inside", "broadcasting"},
         \A t \in Thread : t # c => at'[t] = at[t]
  PROVE  LockInv' /\ \A t \in Thread : ~Owns(t)
  BY SMTT(60) DEF LockInv

(* The running thread is inside of no P. *)
LEMMA RunningThread ==
  ASSUME IInv, mode = "running"
  PROVE  currentThread \in Thread /\ waitingOn[currentThread] = NoSemaphore
  BY DEF IInv, TypeOK, ModeInv

(* Who has the lock, in terms of Owns, before and after a step. *)
LEMMA OwnerIs ==
  ASSUME NEW o \in Thread
  PROVE  /\ (\A t \in Thread : Owns(t) <=> t = o) => Owner = o
         /\ (\A t \in Thread : Owns(t)' <=> t = o) => Owner' = o
         /\ (\A t \in Thread : ~Owns(t)) => Owner = NoThread
         /\ (\A t \in Thread : ~Owns(t)') => Owner' = NoThread
         /\ (\A t \in Thread : (Owns(t)' <=> Owns(t))) => Owner' = Owner
<1>1. ASSUME \A t \in Thread : (Owns(t)' <=> Owns(t)) PROVE Owner' = Owner
  BY <1>1 DEF Owner
<1> QED
  BY <1>1 DEF Owner

(* Lock::Acquire, of the client or at the end of Wait, up to the end of P. *)
LEMMA AcquireMInv ==
  ASSUME MInv, NEW p, NEW q, <<p, q>> \in {<<"outside", "acquired">>, <<"woken", "reacquired">>},
         Acquire(p, q)
  PROVE  MInv' /\ [Abstract!Next]_Abstract!vars
<1> USE DEF MInv
<1>1. PICK c \in Thread : c = currentThread
  BY RunningThread DEF Acquire, At
<1>2. /\ P(LockSem) /\ at' = [at EXCEPT ![c] = q] /\ at[c] = p
      /\ UNCHANGED <<lockHolder, waitQueue>>
  BY <1>1 DEF Acquire, At, Goto
<1>3. IInv'
  BY <1>2, CallIInv, SemaphoresDiffer
<1>4. /\ waitingOn[c] = NoSemaphore
      /\ \/ /\ value[LockSem] = 0
            /\ UNCHANGED value
            /\ waitingOn' = [waitingOn EXCEPT ![c] = LockSem]
         \/ /\ value[LockSem] # 0
            /\ value' = [value EXCEPT ![LockSem] = @ - 1]
            /\ UNCHANGED waitingOn
  BY <1>1, <1>2, PUnits, SemaphoresDiffer
<1>5. /\ waitingOn \in [Thread -> Semaphore \cup {NoSemaphore}]
      /\ value \in [Semaphore -> Int]
      /\ at \in [Thread -> Places]
      /\ p \in {"outside", "woken"} /\ q \in {"acquired", "reacquired"}
  BY DEF PlacesInv, IInv, TypeOK
<1>6. PlacesInv'
  BY <1>2, <1>4, <1>5 DEF PlacesInv, Places
<1>7. LockInv'
  <2>1. \A t \in Thread : t # c => (Owns(t)' <=> Owns(t)) /\ at'[t] = at[t]
    BY <1>2, <1>4, <1>5 DEF Owns
  <2>2. ~Owns(c)
    BY <1>2, <1>5 DEF Owns
  <2>3. CASE value[LockSem] = 0
    <3>1. ~Owns(c)'
      BY <1>2, <1>4, <1>5, <2>3, SemaphoresDiffer DEF Owns
    <3> QED
      BY SMTT(60), <1>2, <1>4, <1>5, <2>1, <2>2, <2>3, <3>1 DEF LockInv
  <2>4. CASE value[LockSem] # 0
    <3>1. Owns(c)'
      BY <1>2, <1>4, <1>5, <2>4 DEF Owns
    <3>2. value'[LockSem] = value[LockSem] - 1
      BY <1>4, <1>5, <2>4, SemaphoresDiffer
    <3> QED
      BY <1>2, <1>5, <2>1, <2>4, <3>1, <3>2, LockTaken
  <2> QED
    BY <2>3, <2>4
<1>8. WaitInv'
  <2>1. \A t \in Thread : value'[Waiter(t)] = value[Waiter(t)]
    BY <1>4, <1>5, SemaphoresDiffer
  <2>2. \A t \in Thread : (Sleeps(t)' <=> Sleeps(t))
    BY <1>2, <1>4, <1>5, SemaphoresDiffer DEF Sleeps
  <2> QED
    BY <1>2, <2>1, <2>2 DEF WaitInv
<1>9. [Abstract!Next]_Abstract!vars
  <2>1. \A t \in Thread : t # c => (Owns(t)' <=> Owns(t)) /\ at'[t] = at[t]
    BY <1>2, <1>4, <1>5 DEF Owns
  <2>2. ~Owns(c) /\ ~IsOn(c, waitQueue)
    BY <1>2, <1>4, <1>5, SemaphoresDiffer DEF Owns, WaitInv, Sleeps
  <2>3. CASE value[LockSem] = 0
    <3>1. ~Owns(c)'
      BY <1>2, <1>4, <1>5, <2>3, SemaphoresDiffer DEF Owns
    <3>2. PICK o \in Thread : \A t \in Thread : Owns(t) <=> t = o
      BY SMTT(60), <2>3 DEF LockInv
    <3>3. Owner = o /\ Owner' = o /\ o # c /\ o # NoThread
      BY <2>1, <2>2, <3>1, <3>2, OwnerIs, ThreadAssumption
    <3>4. Wanting' = Wanting \cup {c}
      BY <1>2, <1>5, <2>1, <2>2, <3>1 DEF Wanting
    <3>5. Abstract!Want(c)
      BY <1>2, <3>3, <3>4 DEF Abstract!Want
    <3> QED
      BY <3>5 DEF Abstract!Next
  <2>4. CASE value[LockSem] # 0
    <3>1. Owns(c)'
      BY <1>2, <1>4, <1>5, <2>4 DEF Owns
    <3>2. \A t \in Thread : ~Owns(t)
      BY <2>4 DEF LockInv
    <3>3. Owner = NoThread /\ Owner' = c
      BY SMTT(60), <2>1, <3>1, <3>2, OwnerIs
    <3>4. Wanting' = Wanting \ {c}
      BY <1>2, <1>5, <2>1, <2>2, <3>1 DEF Wanting
    <3>5. Abstract!Get(c)
      BY <1>2, <3>3, <3>4 DEF Abstract!Get
    <3> QED
      BY <3>5 DEF Abstract!Next
  <2> QED
    BY <2>3, <2>4
<1> QED
  BY <1>3, <1>6, <1>7, <1>8, <1>9

(* Only the place of the running thread changes, and neither what it owns nor whether it sleeps. *)
LEMMA PlaceOnly ==
  ASSUME MInv, NEW c \in Thread, NEW q \in Places,
         UNCHANGED <<vars, waitQueue>>,
         at' = [at EXCEPT ![c] = q],
         waitingOn[c] = NoSemaphore,
         Owns(c), Owns(c)',
         q \in {"inside", "broadcasting"},
         lockHolder' = c
  PROVE  MInv' /\ [Abstract!Next]_Abstract!vars
<1> USE DEF MInv
<1>1. IInv'
  BY DEF IInv, TypeOK, Placement, SafeDestruction, ModeInv, vars
<1>2. at \in [Thread -> Places] /\ UNCHANGED <<value, waitingOn>>
  BY DEF PlacesInv, vars
<1>3. /\ \A t \in Thread : (Owns(t)' <=> Owns(t)) /\ (t # c => at'[t] = at[t])
      /\ at'[c] = q
  BY <1>2 DEF Owns
<1>4. PlacesInv'
  BY <1>2, <1>3, SemaphoresDiffer DEF PlacesInv
<1>5. \A t \in Thread : Owns(t) => t = c
  BY DEF LockInv
<1>6. LockInv'
  <2>1. \A t \in Thread : t # c => at[t] \notin {"inside", "broadcasting"}
    BY <1>5, SemaphoresDiffer DEF PlacesInv, Owns
  <2> QED
    BY <1>2, <1>3, <2>1 DEF LockInv
<1>7. WaitInv'
  <2>1. \A t \in Thread : (Sleeps(t)' <=> Sleeps(t))
    BY <1>2, <1>3 DEF Sleeps, Owns
  <2> QED
    BY <1>2, <2>1 DEF WaitInv
<1>8. UNCHANGED Abstract!vars
  <2>1. UNCHANGED Owner
    BY <1>3, OwnerIs
  <2>2. UNCHANGED Wanting
    BY <1>3 DEF Wanting
  <2> QED
    BY <2>1, <2>2 DEF Abstract!vars
<1> QED
  BY <1>1, <1>4, <1>6, <1>7, <1>8

(* The end of Acquire, which sets lockHolder. *)
LEMMA AcquiredMInv ==
  ASSUME MInv, Acquired
  PROVE  MInv' /\ [Abstract!Next]_Abstract!vars
<1>1. PICK c \in Thread : c = currentThread /\ waitingOn[c] = NoSemaphore
  BY RunningThread DEF Acquired, At, MInv
<1>2. /\ UNCHANGED <<vars, waitQueue>> /\ at' = [at EXCEPT ![c] = "inside"]
      /\ lockHolder' = c /\ at[c] \in {"acquired", "reacquired"}
  BY <1>1 DEF Acquired, At, Goto
<1>3. Owns(c) /\ Owns(c)' /\ "inside" \in Places
  BY <1>1, <1>2 DEF Owns, Places, vars, MInv, PlacesInv
<1> QED
  BY <1>1, <1>2, <1>3, PlaceOnly

(* The end of Broadcast. *)
LEMMA BroadcastEndMInv ==
  ASSUME MInv, BroadcastEnd
  PROVE  MInv' /\ [Abstract!Next]_Abstract!vars
<1>1. PICK c \in Thread : c = currentThread /\ waitingOn[c] = NoSemaphore
  BY RunningThread DEF BroadcastEnd, At, MInv
<1>2. /\ UNCHANGED <<vars, waitQueue>> /\ at' = [at EXCEPT ![c] = "inside"]
      /\ lockHolder' = c /\ at[c] = "broadcasting"
  BY <1>1 DEF BroadcastEnd, At, Goto, MInv, LockInv
<1>3. Owns(c) /\ Owns(c)' /\ "inside" \in Places
  BY <1>1, <1>2 DEF Owns, Places, vars, MInv, PlacesInv
<1> QED
  BY <1>1, <1>2, <1>3, PlaceOnly

(***************************************************************************)
(* The thread that has the lock gives it back and goes to place q: Release *)
(* and the first half of Wait.                                             *)
(***************************************************************************)
LEMMA LockGiven ==
  ASSUME MInv, NEW c \in Thread, NEW q \in {"outside", "waiting"},
         c = currentThread, Owns(c), at[c] = "inside" \/ at[c] \in {"acquired", "reacquired"},
         V(LockSem), lockHolder' = NoThread, at' = [at EXCEPT ![c] = q]
  PROVE  /\ IInv' /\ LockInv'
         /\ \A t \in Thread : t # c => (Owns(t)' <=> Owns(t)) /\ at'[t] = at[t]
         /\ \A t \in Thread : value'[Waiter(t)] = value[Waiter(t)]
         /\ UNCHANGED waitingOn /\ waitingOn[c] = NoSemaphore /\ at'[c] = q
         /\ Owner = c /\ Owner' = NoThread /\ ~Owns(c)'
<1> USE DEF MInv
<1>1. IInv'
  BY CallIInv, SemaphoresDiffer
<1>2. /\ at \in [Thread -> Places] /\ value \in [Semaphore -> Int]
      /\ UNCHANGED waitingOn /\ waitingOn[c] = NoSemaphore
      /\ value' = [value EXCEPT ![LockSem] = @ + 1]
  BY VUnits, SemaphoresDiffer DEF PlacesInv, IInv, TypeOK
<1>3. /\ \A t \in Thread : t # c => (Owns(t)' <=> Owns(t)) /\ at'[t] = at[t]
      /\ at'[c] = q /\ ~Owns(c)'
  BY <1>2 DEF Owns
<1>4. \A t \in Thread : Owns(t) <=> t = c
  BY DEF LockInv
<1>5. value[LockSem] = 0 /\ value'[LockSem] = 1
  BY SMTT(60), <1>2, SemaphoresDiffer DEF LockInv
<1>6. \A t \in Thread : value'[Waiter(t)] = value[Waiter(t)]
  BY <1>2, SemaphoresDiffer
<1>7. LockInv'
  <2>1. \A t \in Thread : at'[t] \notin {"inside", "broadcasting"}
    BY <1>3, <1>4, SemaphoresDiffer DEF PlacesInv, Owns
  <2> QED
    BY <1>3, <1>4, <1>5, <2>1, ThreadAssumption DEF LockInv
<1>8. Owner = c /\ Owner' = NoThread
  BY <1>3, <1>4, OwnerIs
<1> QED
  BY <1>1, <1>2, <1>3, <1>6, <1>7, <1>8

(* Release, by the thread that has the lock. *)
LEMMA ReleaseMInv ==
  ASSUME MInv, Release
  PROVE  MInv' /\ [Abstract!Next]_Abstract!vars
<1> USE DEF MInv
<1>1. PICK c \in Thread : c = currentThread /\ waitingOn[c] = NoSemaphore
  BY RunningThread DEF Release, At
<1>2. /\ V(LockSem) /\ at' = [at EXCEPT ![c] = "outside"] /\ at[c] = "inside"
      /\ lockHolder' = NoThread /\ UNCHANGED waitQueue /\ Owns(c)
  BY <1>1 DEF Release, At, Goto, Owns
<1>3. /\ IInv' /\ LockInv'
      /\ \A t \in Thread : t # c => (Owns(t)' <=> Owns(t)) /\ at'[t] = at[t]
      /\ \A t \in Thread : value'[Waiter(t)] = value[Waiter(t)]
      /\ UNCHANGED waitingOn /\ at'[c] = "outside"
      /\ Owner = c /\ Owner' = NoThread /\ ~Owns(c)'
  BY <1>1, <1>2, LockGiven
<1>4. PlacesInv'
  BY <1>1, <1>2, <1>3 DEF PlacesInv, Places
<1>5. WaitInv'
  <2>1. \A t \in Thread : (Sleeps(t)' <=> Sleeps(t))
    BY <1>2, <1>3 DEF Sleeps
  <2> QED
    BY <1>2, <1>3, <2>1 DEF WaitInv
<1>6. UNCHANGED Wanting
  BY <1>2, <1>3 DEF Wanting
<1>7. Abstract!Release
  BY <1>2, <1>3, <1>6, ThreadAssumption DEF Abstract!Release
<1> QED
  BY <1>3, <1>4, <1>5, <1>7 DEF Abstract!Next

(***************************************************************************)
(* The first half of Wait: the thread is on the queue before it gives the  *)
(* lock back, and no unit of its semaphore is left from an earlier Wait.   *)
(***************************************************************************)
LEMMA StartWaitMInv ==
  ASSUME MInv, mode = "running",
         at[currentThread] = "inside" \/ at[currentThread] \in {"acquired", "reacquired"},
         StartWait
  PROVE  MInv' /\ [Abstract!Next]_Abstract!vars
<1> USE DEF MInv
<1>1. PICK c \in Thread : c = currentThread /\ waitingOn[c] = NoSemaphore
  BY RunningThread
<1>2. /\ V(LockSem) /\ at' = [at EXCEPT ![c] = "waiting"]
      /\ at[c] = "inside" \/ at[c] \in {"acquired", "reacquired"}
      /\ lockHolder' = NoThread /\ waitQueue' = Append(waitQueue, c) /\ Owns(c)
  BY <1>1 DEF StartWait, Goto, Enqueue, Owns
<1>3. /\ IInv' /\ LockInv'
      /\ \A t \in Thread : t # c => (Owns(t)' <=> Owns(t)) /\ at'[t] = at[t]
      /\ \A t \in Thread : value'[Waiter(t)] = value[Waiter(t)]
      /\ UNCHANGED waitingOn /\ at'[c] = "waiting"
      /\ Owner = c /\ Owner' = NoThread /\ ~Owns(c)'
  BY <1>1, <1>2, LockGiven
<1>4. /\ \A y \in Thread : IsOn(y, waitQueue)' <=> IsOn(y, waitQueue) \/ y = c
      /\ ~IsOn(c, waitQueue) /\ ~Sleeps(c)
      /\ NoDuplicates(waitQueue)'
      /\ waitQueue' \in Seq(Thread)
  <2>1. ~Sleeps(c) /\ ~IsOn(c, waitQueue)
    BY <1>1, <1>2, SemaphoresDiffer DEF Sleeps, WaitInv
  <2>2. waitQueue \in Seq(Thread) /\ NoDuplicates(waitQueue)
    BY DEF PlacesInv, WaitInv
  <2>3. /\ \A y \in Thread : IsOn(y, Append(waitQueue, c)) <=> IsOn(y, waitQueue) \/ y = c
        /\ NoDuplicates(Append(waitQueue, c))
    BY <2>1, <2>2, AppendIsOn
  <2> QED
    BY SMTT(60), <1>2, <2>1, <2>2, <2>3 DEF IsOn, NoDuplicates
<1>5. PlacesInv'
  BY <1>1, <1>2, <1>3, <1>4 DEF PlacesInv, Places
<1>6. WaitInv'
  <2>1. \A t \in Thread : t # c => (Sleeps(t)' <=> Sleeps(t))
    BY <1>2, <1>3 DEF Sleeps
  <2>2. Sleeps(c)' /\ value'[Waiter(c)] = 0
    BY <1>3, <1>4 DEF Sleeps, WaitInv
  <2> QED
    BY <1>3, <1>4, <2>1, <2>2 DEF WaitInv
<1>7. UNCHANGED Wanting
  BY <1>2, <1>3, <1>4 DEF Wanting
<1>8. Abstract!Wait
  BY <1>2, <1>3, <1>7, ThreadAssumption DEF Abstract!Wait
<1> QED
  BY <1>3, <1>5, <1>6, <1>8 DEF Abstract!Next

(* The P of the waiter: it finds its unit, or sleeps until it is signalled. *)
LEMMA WaitSignalMInv ==
  ASSUME MInv, WaitSignal
  PROVE  MInv' /\ [Abstract!Next]_Abstract!vars
<1> USE DEF MInv
<1>1. PICK c \in Thread : c = currentThread
  BY RunningThread DEF WaitSignal, At
<1>2. /\ P(Waiter(c)) /\ at' = [at EXCEPT ![c] = "woken"] /\ at[c] = "waiting"
      /\ UNCHANGED <<lockHolder, waitQueue>>
  BY <1>1 DEF WaitSignal, At, Goto
<1>3. IInv'
  BY <1>2, CallIInv, SemaphoresDiffer
<1>4. /\ waitingOn[c] = NoSemaphore
      /\ \/ /\ value[Waiter(c)] = 0
            /\ UNCHANGED value
            /\ waitingOn' = [waitingOn EXCEPT ![c] = Waiter(c)]
         \/ /\ value[Waiter(c)] # 0
            /\ value' = [value EXCEPT ![Waiter(c)] = @ - 1]
            /\ UNCHANGED waitingOn
  BY <1>1, <1>2, PUnits, SemaphoresDiffer
<1>5. /\ waitingOn \in [Thread -> Semaphore \cup {NoSemaphore}]
      /\ value \in [Semaphore -> Int]
      /\ at \in [Thread -> Places]
  BY DEF PlacesInv, IInv, TypeOK
<1>6. PlacesInv'
  BY <1>2, <1>4, <1>5 DEF PlacesInv, Places
<1>7. \A t \in Thread : /\ (Owns(t)' <=> Owns(t))
                        /\ t # c => at'[t] = at[t] /\ waitingOn'[t] = waitingOn[t]
  BY <1>2, <1>4, <1>5 DEF Owns
<1>8. value'[LockSem] = value[LockSem]
  BY <1>4, <1>5, SemaphoresDiffer
<1>9. LockInv'
  BY SMTT(60), <1>2, <1>5, <1>7, <1>8 DEF LockInv
<1>10. WaitInv'
  <2>1. \A t \in Thread : t # c => (Sleeps(t)' <=> Sleeps(t)) /\ value'[Waiter(t)] = value[Waiter(t)]
    BY <1>4, <1>5, <1>7, SemaphoresDiffer DEF Sleeps
  <2>2. Sleeps(c) /\ value[Waiter(c)] = IF IsOn(c, waitQueue) THEN 0 ELSE 1
    BY <1>2 DEF Sleeps, WaitInv
  <2>3. CASE value[Waiter(c)] = 0
    <3>1. Sleeps(c)' /\ UNCHANGED value
      BY <1>2, <1>4, <1>5, <2>3 DEF Sleeps
    <3> QED
      BY <1>2, <2>1, <2>2, <2>3, <3>1 DEF WaitInv
  <2>4. CASE value[Waiter(c)] # 0
    <3>1. ~Sleeps(c)' /\ value'[Waiter(c)] = value[Waiter(c)] - 1
      BY <1>2, <1>4, <1>5, <2>4, SemaphoresDiffer DEF Sleeps
    <3> QED
      BY SMTT(60), <1>2, <2>1, <2>2, <2>4, <3>1 DEF WaitInv
  <2> QED
    BY <2>3, <2>4
<1>11. UNCHANGED Abstract!vars
  <2>1. UNCHANGED Owner
    BY <1>7, OwnerIs
  <2>2. UNCHANGED Wanting
    BY <1>2, <1>5, <1>7 DEF Wanting
  <2> QED
    BY <1>2, <2>1, <2>2 DEF Abstract!vars
<1> QED
  BY <1>3, <1>6, <1>9, <1>10, <1>11

(* Signal, of the client or in Broadcast: the first waiter gets its unit. *)
LEMMA SignalFrontMInv ==
  ASSUME MInv, mode = "running", IsHeldByCurrentThread, SignalFront,
         NEW q \in {"inside", "broadcasting"},
         at' = [at EXCEPT ![currentThread] = q]
  PROVE  MInv' /\ [Abstract!Next]_Abstract!vars
<1> USE DEF MInv
<1>1. PICK c \in Thread : c = currentThread /\ waitingOn[c] = NoSemaphore
  BY RunningThread
<1>2. PICK h \in Thread : /\ h = Head(waitQueue)
                          /\ \A y \in Thread : IsOn(y, Tail(waitQueue)) <=> IsOn(y, waitQueue) /\ y # h
                          /\ NoDuplicates(Tail(waitQueue))
                          /\ IsOn(h, waitQueue)
  BY TailIsOn DEF PlacesInv, WaitInv, SignalFront
<1>3. /\ V(Waiter(h)) /\ waitQueue' = Tail(waitQueue) /\ waitQueue # <<>>
      /\ UNCHANGED lockHolder /\ lockHolder = c
      /\ at[c] \in {"inside", "broadcasting"}
      /\ at' = [at EXCEPT ![c] = q]
  BY <1>1, <1>2 DEF SignalFront, IsHeldByCurrentThread, LockInv, Dequeued
<1>4. IInv'
  BY <1>3, CallIInv, SemaphoresDiffer
<1>5. /\ at \in [Thread -> Places] /\ value \in [Semaphore -> Int]
      /\ UNCHANGED waitingOn
      /\ value' = [value EXCEPT ![Waiter(h)] = @ + 1]
  BY <1>3, VUnits, SemaphoresDiffer DEF PlacesInv, IInv, TypeOK
<1>6. /\ \A t \in Thread : /\ (Owns(t)' <=> Owns(t)) /\ (Sleeps(t)' <=> Sleeps(t))
                           /\ t # c => at'[t] = at[t]
      /\ at'[c] = q
  BY <1>3, <1>5 DEF Owns, Sleeps
<1>7. /\ \A y \in Thread : IsOn(y, waitQueue)' <=> IsOn(y, waitQueue) /\ y # h
      /\ NoDuplicates(waitQueue)'
      /\ waitQueue' \in Seq(Thread)
  BY <1>2, <1>3, FrontRemoved DEF IsOn, NoDuplicates, PlacesInv
<1>8. PlacesInv'
  BY SMTT(60), <1>1, <1>3, <1>5, <1>6, <1>7, SemaphoresDiffer DEF PlacesInv, Places
<1>9. value'[LockSem] = value[LockSem]
  BY <1>5, SemaphoresDiffer
<1>10. LockInv'
  BY <1>3, <1>6, <1>9 DEF LockInv
<1>11. WaitInv'
  <2>1. \A t \in Thread : t # h => value'[Waiter(t)] = value[Waiter(t)]
    BY <1>5, SemaphoresDiffer
  <2>2. Sleeps(h) /\ value'[Waiter(h)] = 1
    BY SMTT(60), <1>2, <1>5, SemaphoresDiffer DEF WaitInv
  <2> QED
    BY <1>6, <1>7, <2>1, <2>2 DEF WaitInv
<1>12. Abstract!Signal
  <2>1. Owns(c)
    BY <1>1, <1>3 DEF Owns
  <2>2. Owner = c /\ UNCHANGED Owner
    BY <1>6, <2>1, OwnerIs DEF LockInv
  <2>3. Sleeps(h)
    BY <1>2 DEF WaitInv
  <2>4. at[h] \in {"waiting", "woken"} /\ ~Owns(h) /\ h # c
    BY <1>3, <2>3 DEF Sleeps, Owns
  <2>5. Wanting' = Wanting \cup {h}
    BY <1>3, <1>6, <1>7, <2>4 DEF Wanting
  <2> QED
    BY <1>2, <1>3, <2>2, <2>5, ThreadAssumption DEF Abstract!Signal
<1> QED
  BY <1>4, <1>8, <1>10, <1>11, <1>12 DEF Abstract!Next

(***************************************************************************)
(* The kernel on its own, and clients that start threads or end: invisible *)
(* unless a woken thread takes the unit of the lock.                       *)
(***************************************************************************)
LEMMA EnvironmentMInv ==
  ASSUME MInv, Environment
  PROVE  MInv' /\ [Abstract!Next]_Abstract!vars
<1> USE DEF MInv
<1>1. UNCHANGED <<lockHolder, waitQueue, at>>
  BY DEF Environment, mvars
<1>2. IInv'
  BY CallIInv, SemaphoreAssumption DEF Environment, KernelNext
<1>3. /\ waitingOn \in [Thread -> Semaphore \cup {NoSemaphore}]
      /\ value \in [Semaphore -> Int]
      /\ at \in [Thread -> Places]
  BY DEF PlacesInv, IInv, TypeOK
<1>4. \/ UNCHANGED <<value, waitingOn>>
      \/ \E t \in Thread, s \in Semaphore :
              /\ waitingOn[t] = s
              /\ value[s] # 0
              /\ value' = [value EXCEPT ![s] = @ - 1]
              /\ waitingOn' = [waitingOn EXCEPT ![t] = NoSemaphore]
  <2>1. CASE KernelNext
    BY <2>1, KernelUnits, SemaphoresDiffer
  <2>2. CASE ~KernelNext
    BY <2>2 DEF Environment, Finish, Fork
  <2> QED
    BY <2>1, <2>2
<1>5. CASE UNCHANGED <<value, waitingOn>>
  <2>1. \A t \in Thread : (Owns(t)' <=> Owns(t)) /\ (Sleeps(t)' <=> Sleeps(t))
    BY <1>1, <1>5 DEF Owns, Sleeps
  <2>2. PlacesInv' /\ LockInv' /\ WaitInv'
    BY <1>1, <1>5, <2>1 DEF PlacesInv, LockInv, WaitInv
  <2>3. UNCHANGED Owner /\ UNCHANGED Wanting
    BY <1>1, <2>1, OwnerIs, ThreadAssumption DEF Wanting
  <2> QED
    BY <1>1, <1>2, <2>2, <2>3 DEF Abstract!vars
<1>6. ASSUME NEW c \in Thread, NEW s \in Semaphore,
             waitingOn[c] = s, value[s] # 0,
             value' = [value EXCEPT ![s] = @ - 1],
             waitingOn' = [waitingOn EXCEPT ![c] = NoSemaphore]
      PROVE  MInv' /\ [Abstract!Next]_Abstract!vars
  <2>1. /\ PlacesInv'
        /\ \A t \in Thread : t # c => (Owns(t)' <=> Owns(t)) /\ (Sleeps(t)' <=> Sleeps(t))
    BY <1>1, <1>3, <1>6 DEF PlacesInv, Owns, Sleeps
  <2>2. \/ at[c] \in {"acquired", "reacquired"} /\ s = LockSem
        \/ at[c] = "woken" /\ s = Waiter(c)
    BY <1>6, SemaphoresDiffer, SemaphoreAssumption DEF PlacesInv
  <2>3. CASE at[c] \in {"acquired", "reacquired"} /\ s = LockSem
    <3>1. ~Owns(c) /\ Owns(c)' /\ ~Sleeps(c) /\ ~Sleeps(c)'
      BY <1>1, <1>3, <1>6, <2>3, SemaphoresDiffer DEF Owns, Sleeps
    <3>2. value'[LockSem] = value[LockSem] - 1
      BY <1>3, <1>6, <2>3, SemaphoresDiffer
    <3>3. LockInv' /\ \A t \in Thread : ~Owns(t)
      BY <1>1, <1>3, <1>6, <2>1, <2>3, <3>1, <3>2, LockTaken
    <3>4. \A t \in Thread : value'[Waiter(t)] = value[Waiter(t)]
      BY <1>3, <1>6, <2>3, SemaphoresDiffer
    <3>5. WaitInv'
      BY <1>1, <2>1, <3>1, <3>4 DEF WaitInv
    <3>6. Owner = NoThread /\ Owner' = c
      BY SMTT(60), <2>1, <3>1, <3>3, OwnerIs
    <3>7. Wanting' = Wanting \ {c}
      BY <1>1, <2>1, <3>1 DEF Wanting
    <3>8. Abstract!Get(c)
      BY <1>1, <3>6, <3>7 DEF Abstract!Get
    <3> QED
      BY <1>2, <2>1, <3>3, <3>5, <3>8 DEF Abstract!Next
  <2>4. CASE at[c] = "woken" /\ s = Waiter(c)
    <3>1. ~Owns(c) /\ ~Owns(c)' /\ Sleeps(c) /\ ~Sleeps(c)'
      BY <1>1, <1>3, <1>6, <2>4, SemaphoresDiffer DEF Owns, Sleeps
    <3>2. /\ value'[LockSem] = value[LockSem]
          /\ \A t \in Thread : t # c => value'[Waiter(t)] = value[Waiter(t)]
          /\ value'[Waiter(c)] = value[Waiter(c)] - 1
      BY <1>3, <1>6, <2>4, SemaphoresDiffer
    <3>3. LockInv'
      BY <1>1, <2>1, <3>1, <3>2 DEF LockInv
    <3>4. ~IsOn(c, waitQueue) /\ value[Waiter(c)] = 1
      BY <1>6, <2>4, <3>1 DEF WaitInv
    <3>5. WaitInv'
      BY SMTT(60), <1>1, <2>1, <3>1, <3>2, <3>4 DEF WaitInv
    <3>6. UNCHANGED Owner
      BY <2>1, <3>1, OwnerIs
    <3>7. UNCHANGED Wanting
      BY <1>1, <2>1, <3>1 DEF Wanting
    <3> QED
      BY <1>1, <1>2, <2>1, <3>3, <3>5, <3>6, <3>7 DEF Abstract!vars
  <2> QED
    BY <2>2, <2>3, <2>4
<1> QED
  BY <1>4, <1>5, <1>6

(* Every step preserves the invariant and is a step of the atomic monitor or none. *)
LEMMA MonitorStep ==
  ASSUME MInv, [MNext]_allvars
  PROVE  MInv' /\ [Abstract!Next]_Abstract!vars
<1>1. CASE Environment
  BY <1>1, EnvironmentMInv
<1>2. CASE WaitSignal
  BY <1>2, WaitSignalMInv
<1>3. CASE Reacquire
  BY SMTT(60), <1>3, AcquireMInv DEF Reacquire
<1>4. CASE Acquired
  BY <1>4, AcquiredMInv
<1>5. CASE BroadcastEnd
  BY <1>5, BroadcastEndMInv
<1>6. CASE Acquire("outside", "acquired")
  BY SMTT(60), <1>6, AcquireMInv
<1>7. CASE Release
  BY <1>7, ReleaseMInv
<1>8. CASE CWait
  BY <1>8, StartWaitMInv DEF CWait, At
<1>9. CASE Signal
  <2>1. at' = [at EXCEPT ![currentThread] = "inside"]
    BY <1>9 DEF Signal, At, MInv, PlacesInv
  <2> QED
    BY <1>9, <2>1, SignalFrontMInv DEF Signal, At
<1>10. CASE Broadcast
  BY <1>10, SignalFrontMInv DEF Broadcast, At, Goto
<1>11. CASE UNCHANGED allvars
  <2>1. UNCHANGED <<status, readyList, currentThread, toBeDestroyed, value, queue, waitingOn,
                    mode, lockHolder, waitQueue, at>>
    BY <1>11 DEF allvars, vars, mvars
  <2>2. MInv'
    BY SMTT(60), <2>1 DEF MInv, IInv, TypeOK, Placement, SafeDestruction, ModeInv, PlacesInv,
                LockInv, WaitInv, Owns, Sleeps
  <2>3. UNCHANGED Abstract!vars
    BY <2>1 DEF Abstract!vars, Owner, Wanting, Owns
  <2> QED
    BY <2>2, <2>3
<1> QED
  BY <1>1, <1>2, <1>3, <1>4, <1>5, <1>6, <1>7, <1>8, <1>9, <1>10, <1>11 DEF MNext, InMonitor

(* The invariant of Lock and Condition. *)
THEOREM MonitorInvariant == MSpec => []MInv
<1>1. MInit => MInv
  BY InitMInv
<1>2. MInv /\ [MNext]_allvars => MInv'
  BY MonitorStep
<1> QED
  BY <1>1, <1>2, PTL DEF MSpec

(***************************************************************************)
(* Lock: of the threads that have passed the P of Acquire and have not     *)
(* called Release or Wait, there is never more than one.                   *)
(***************************************************************************)
THEOREM MutualExclusion ==
  MSpec => [](\A t, u \in Thread : Owns(t) /\ Owns(u) => t = u)
<1>1. MInv => \A t, u \in Thread : Owns(t) /\ Owns(u) => t = u
  BY DEF MInv, LockInv
<1> QED
  BY <1>1, MonitorInvariant, PTL

(***************************************************************************)
(* Condition: a thread that Signal has taken off the queue does not wait   *)
(* any more; its semaphore has a unit from Signal until it passes the P,   *)
(* although it may not have reached that P when it is signalled.           *)
(***************************************************************************)
THEOREM NoMissedSignal ==
  MSpec => [](\A t \in Thread : Sleeps(t) /\ ~IsOn(t, waitQueue) => value[Waiter(t)] = 1)
<1>1. MInv => \A t \in Thread : Sleeps(t) /\ ~IsOn(t, waitQueue) => value[Waiter(t)] = 1
  BY DEF MInv, WaitInv
<1> QED
  BY <1>1, MonitorInvariant, PTL

(***************************************************************************)
(* Lock and Condition implement the atomic monitor, for every number of    *)
(* threads: the safety half of ImplementsAtomicMonitor.                    *)
(***************************************************************************)
THEOREM MonitorImplementsAtomic ==
  MSpec => Abstract!Init /\ [][Abstract!Next]_Abstract!vars
<1>1. MInit => Abstract!Init
  <2> SUFFICES ASSUME MInit PROVE Abstract!Init
    OBVIOUS
  <2>1. \A t \in Thread : ~Owns(t) /\ at[t] = "outside"
    BY DEF MInit, Owns
  <2>2. Owner = NoThread /\ Wanting = {}
    BY <2>1, OwnerIs, ThreadAssumption DEF Wanting
  <2> QED
    BY <2>2 DEF Abstract!Init, MInit
<1>2. MInv /\ [MNext]_allvars => [Abstract!Next]_Abstract!vars
  BY MonitorStep
<1> QED
  BY <1>1, <1>2, MonitorInvariant, PTL DEF MSpec

-----------------------------------------------------------------------------
(* SynchList: types, and that a thread about to append has an item. *)
ListInv ==
  /\ IInv
  /\ DOMAIN at = Thread
  /\ waitQueue \in Seq(Thread)
  /\ list \in Seq(Item)
  /\ item \in [Thread -> Item \cup {NoItem}]
  /\ \A t \in Thread : at[t] = "append" => item[t] \in Item

(***************************************************************************)
(* The steps of SynchList that touch neither list, item nor got and leave  *)
(* every thread inside or outside of RemoveFront.                          *)
(***************************************************************************)
LEMMA ListUnseen ==
  ASSUME ListInv, IInv', NEW c \in Thread, NEW q,
         at' = [at EXCEPT ![c] = q], q # "append",
         q \in {"remove", "waiting", "woken", "reacquired"} <=>
           at[c] \in {"remove", "waiting", "woken", "reacquired"},
         waitQueue' \in Seq(Thread), UNCHANGED <<list, item, got>>
  PROVE  ListInv' /\ [Queue!Next]_Queue!vars
<1>1. UNCHANGED Removing
  BY DEF ListInv, Removing
<1> QED
  BY <1>1 DEF ListInv, Queue!vars

(* Every step keeps the kernel's invariant, and semaphores of threads on the queue. *)
LEMMA ListKernel ==
  ASSUME ListInv, LNext
  PROVE  IInv' /\ waitQueue' \in Seq(Thread)
<1> USE SemaphoresDiffer DEF ListInv
<1>1. CASE Environment
  BY <1>1, CallIInv, SemaphoreAssumption DEF Environment, KernelNext, mvars
<1>2. ASSUME Unlock PROVE IInv' /\ waitQueue' \in Seq(Thread)
  BY <1>2, CallIInv DEF Unlock
<1>3. ASSUME NEW p, NEW q, Acquire(p, q) PROVE IInv' /\ waitQueue' \in Seq(Thread)
  BY <1>3, CallIInv DEF Acquire
<1>4. CASE AppendItem
  <2>1. CASE ~NoWaiter /\ V(Waiter(Head(waitQueue))) /\ waitQueue' = Dequeued
    <3>1. Head(waitQueue) \in Thread /\ Tail(waitQueue) \in Seq(Thread)
      BY <2>1, FrontRemoved DEF NoWaiter
    <3> QED
      BY <2>1, <3>1, CallIInv DEF Dequeued
  <2> QED
    BY <1>2, <1>4, <2>1 DEF AppendItem
<1>5. CASE RemoveTest
  <2>1. ASSUME StartWait, mode = "running" PROVE IInv' /\ waitQueue' \in Seq(Thread)
    <3>1. currentThread \in Thread
      BY DEF IInv, TypeOK
    <3>2. IInv'
      BY <2>1, CallIInv DEF StartWait
    <3> QED
      BY <2>1, <3>1, <3>2, Appended DEF StartWait, Enqueue
  <2> QED
    BY <1>2, <1>5, <2>1 DEF RemoveTest, At
<1>6. CASE InWait
  <2>1. CASE WaitSignal
    <3>1. currentThread \in Thread
      BY DEF IInv, TypeOK
    <3> QED
      BY <2>1, <3>1, CallIInv DEF WaitSignal
  <2> QED
    BY <1>3, <1>6, <2>1 DEF InWait, Reacquire
<1> QED
  BY <1>1, <1>2, <1>3, <1>4, <1>5, <1>6
     DEF LNext, InList, AppendRelease, LRemoveFront, Apply, ApplyAll, LAppend

(* Every step is a step of the atomic queue or none. *)
LEMMA ListStep ==
  ASSUME ListInv, [LNext]_listvars
  PROVE  ListInv' /\ [Queue!Next]_Queue!vars
<1>1. CASE UNCHANGED listvars
  <2>1. UNCHANGED <<status, readyList, currentThread, toBeDestroyed, value, queue, waitingOn,
                    mode, lockHolder, waitQueue, at, list, item, got, fresh, applied>>
    BY <1>1 DEF listvars, allvars, vars, mvars, lvars
  <2> QED
    BY <2>1 DEF ListInv, IInv, TypeOK, Placement, SafeDestruction, ModeInv, Queue!vars, Removing
<1> SUFFICES ASSUME LNext PROVE ListInv' /\ [Queue!Next]_Queue!vars
  BY <1>1
<1>2. IInv' /\ waitQueue' \in Seq(Thread)
  BY ListKernel
<1>3. PICK c \in Thread : c = currentThread
  BY DEF ListInv, IInv, TypeOK
<1>4. CASE Environment /\ UNCHANGED lvars
  BY <1>2, <1>4 DEF Environment, mvars, lvars, ListInv, Queue!vars, Removing
<1>5. CASE \/ AppendRelease
          \/ ApplyAll
          \/ InWait
          \/ Apply
          \/ (RemoveTest /\ list = <<>>)
  <2>1. PICK q : /\ at' = [at EXCEPT ![c] = q] /\ q # "append"
                 /\ q \in {"remove", "waiting", "woken", "reacquired"} <=>
                      at[c] \in {"remove", "waiting", "woken", "reacquired"}
    <3>1. CASE AppendRelease \/ ApplyAll
      BY <1>3, <3>1 DEF AppendRelease, ApplyAll, Unlock, Goto, At
    <3>2. CASE InWait
      BY <1>3, <3>2 DEF InWait, WaitSignal, Reacquire, Acquire, Goto, At
    <3>3. CASE Apply
      <4>1. at' = [at EXCEPT ![c] = "apply"] /\ at[c] = "outside"
        BY <1>3, <3>3 DEF Apply, Acquire, Goto, At
      <4> WITNESS "apply"
      <4> QED
        BY <4>1
    <3>4. CASE RemoveTest /\ list = <<>>
      BY <1>3, <3>4 DEF RemoveTest, StartWait, Goto, At
    <3> QED
      BY <1>5, <3>1, <3>2, <3>3, <3>4
  <2>2. UNCHANGED <<list, item, got>>
    BY <1>5 DEF AppendRelease, ApplyAll, InWait, Apply, RemoveTest, lvars
  <2> QED
    BY <1>2, <2>1, <2>2, ListUnseen
<1>6. ASSUME NEW x \in Item, LAppend(x) PROVE ListInv' /\ [Queue!Next]_Queue!vars
  <2>1. /\ at' = [at EXCEPT ![c] = "append"] /\ at[c] = "outside"
        /\ item' = [item EXCEPT ![c] = x] /\ UNCHANGED <<list, got>>
    BY <1>3, <1>6 DEF LAppend, Acquire, Goto, At
  <2>2. UNCHANGED Removing
    BY <2>1 DEF ListInv, Removing
  <2> QED
    BY <1>2, <2>1, <2>2 DEF ListInv, Queue!vars
<1>7. CASE AppendItem
  <2>1. PICK q \in {"outside", "appended"} : at' = [at EXCEPT ![c] = q]
    BY <1>3, <1>7 DEF AppendItem, Unlock, Goto
  <2>2. /\ at[c] = "append" /\ item[c] \in Item
        /\ list' = Append(list, item[c])
        /\ item' = [item EXCEPT ![c] = NoItem] /\ UNCHANGED got
    BY <1>3, <1>7 DEF AppendItem, At, ListInv
  <2>3. UNCHANGED Removing
    BY <2>1, <2>2 DEF ListInv, Removing
  <2>4. list' \in Seq(Item)
    BY <2>2, Appended DEF ListInv
  <2>5. Queue!Put(item[c])
    BY <2>2, <2>3 DEF Queue!Put
  <2>6. ListInv'
    BY <1>2, <2>1, <2>2, <2>4 DEF ListInv
  <2> QED
    BY <2>2, <2>5, <2>6 DEF Queue!Next
<1>8. CASE LRemoveFront
  <2>1. /\ at' = [at EXCEPT ![c] = "remove"] /\ at[c] = "outside"
        /\ got' = [got EXCEPT ![c] = NoItem] /\ UNCHANGED <<list, item>>
    BY <1>3, <1>8 DEF LRemoveFront, Acquire, Goto, At
  <2>2. Removing' = Removing \cup {c}
    BY <2>1 DEF ListInv, Removing
  <2>3. Queue!Ask(c)
    BY <2>1, <2>2 DEF Queue!Ask
  <2>4. ListInv'
    BY <1>2, <2>1 DEF ListInv
  <2> QED
    BY <2>3, <2>4 DEF Queue!Next
<1>9. CASE RemoveTest /\ list # <<>>
  <2>1. /\ at' = [at EXCEPT ![c] = "outside"] /\ at[c] \in {"remove", "reacquired"}
        /\ got' = [got EXCEPT ![c] = Head(list)] /\ list' = Tail(list) /\ UNCHANGED item
    BY <1>3, <1>9 DEF RemoveTest, Unlock, Goto, At
  <2>2. Removing' = Removing \ {c} /\ c \in Removing
    BY <2>1 DEF ListInv, Removing
  <2>3. Queue!Get(c)
    BY <1>9, <2>1, <2>2 DEF Queue!Get
  <2>4. list' \in Seq(Item)
    BY <1>9, <2>1, FrontRemoved DEF ListInv
  <2>5. ListInv'
    BY <1>2, <2>1, <2>4 DEF ListInv
  <2> QED
    BY <2>3, <2>5 DEF Queue!Next
<1> QED
  BY <1>4, <1>5, <1>6, <1>7, <1>8, <1>9 DEF LNext, InList

(***************************************************************************)
(* SynchList implements the atomic queue, for every number of threads and  *)
(* items: every item is removed once, in the order of Append (the safety   *)
(* half of ImplementsAtomicQueue).                                         *)
(***************************************************************************)
THEOREM SynchListImplementsQueue ==
  LSpec => Queue!Init /\ [][Queue!Next]_Queue!vars
<1>1. LInit => Queue!Init /\ ListInv
  <2> SUFFICES ASSUME LInit PROVE Queue!Init /\ ListInv
    OBVIOUS
  <2>1. IInv
    BY InitIInv DEF LInit, MInit
  <2> QED
    BY SMTT(60), <2>1 DEF LInit, MInit, ListInv, Queue!Init, Removing
<1>2. ListInv /\ [LNext]_listvars => ListInv' /\ [Queue!Next]_Queue!vars
  BY ListStep
<1> QED
  BY <1>1, <1>2, PTL DEF LSpec
=============================================================================
