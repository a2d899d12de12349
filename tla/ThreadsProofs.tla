--------------------------- MODULE ThreadsProofs ---------------------------
(***************************************************************************)
(* Proofs about Threads: type correctness, the placement of threads on the *)
(* lists and safe destruction, for every set of threads and semaphores and *)
(* all initial values, and what a kernel call preserves, which the proofs  *)
(* about the modules built on Threads use.                                 *)
(***************************************************************************)
EXTENDS Threads, TLAPS

(* Zenon proves the leaves that name no prover; those with arithmetic or   *)
(* sequences name the SMT solver.                                          *)
USE ZenonT(60)

(***************************************************************************)
(* Where the CPU is determines what the current thread is inside of.       *)
(***************************************************************************)
ModeInv ==
  /\ mode \in {"running", "halted", "finishing"} => waitingOn[currentThread] = NoSemaphore
  /\ mode = "sleeping" => waitingOn[currentThread] # NoSemaphore
  /\ mode = "finishing" => status[currentThread] = "BLOCKED"

(* The inductive invariant. *)
IInv == TypeOK /\ Placement /\ SafeDestruction /\ ModeInv

-----------------------------------------------------------------------------
(* A list after List::Append. *)
LEMMA Appended ==
  ASSUME NEW S, NEW q \in Seq(S), NEW x \in S
  PROVE  /\ Append(q, x) \in Seq(S)
         /\ Append(q, x) # <<>>
         /\ Len(q) \in Nat
         /\ Len(Append(q, x)) = Len(q) + 1
         /\ \A i \in 1..Len(q) : Append(q, x)[i] = q[i]
         /\ Append(q, x)[Len(q) + 1] = x
<1>1. Append(q, x) \in Seq(S)
  BY SMTT(60)
<1>2. Len(q) \in Nat /\ Len(Append(q, x)) = Len(q) + 1
  BY SMTT(60)
<1>3. ASSUME NEW i \in 1..Len(q) PROVE Append(q, x)[i] = q[i]
  BY SMTT(60)
<1>4. Append(q, x)[Len(q) + 1] = x
  BY SMTT(60)
<1>5. Append(q, x) # <<>>
  BY SMTT(60), <1>2
<1> QED
  BY <1>1, <1>2, <1>3, <1>4, <1>5

(* A list and its first element before List::RemoveFront, and what is left of it. *)
LEMMA FrontRemoved ==
  ASSUME NEW S, NEW q \in Seq(S), q # <<>>
  PROVE  /\ Tail(q) \in Seq(S)
         /\ Len(q) \in Nat \ {0}
         /\ Len(Tail(q)) = Len(q) - 1
         /\ \A i \in 1..Len(Tail(q)) : Tail(q)[i] = q[i + 1]
         /\ Head(q) = q[1]
         /\ Head(q) \in S
<1>1. Tail(q) \in Seq(S) /\ Len(q) \in Nat
  BY SMTT(60)
<1>2. Len(q) # 0
  BY SMTT(60)
<1>3. Len(Tail(q)) = Len(q) - 1
  BY SMTT(60)
<1>4. ASSUME NEW i \in 1..Len(Tail(q)) PROVE Tail(q)[i] = q[i + 1]
  BY SMTT(60), <1>3
<1>5. Head(q) = q[1] /\ Head(q) \in S
  BY SMTT(60), <1>2
<1> QED
  BY <1>1, <1>2, <1>3, <1>4, <1>5

(* What Append does to the elements of a list (List::Append). *)
LEMMA AppendIsOn ==
  ASSUME NEW q \in Seq(Thread), NEW x \in Thread
  PROVE  /\ \A y \in Thread : IsOn(y, Append(q, x)) <=> IsOn(y, q) \/ y = x
         /\ NoDuplicates(q) /\ ~IsOn(x, q) => NoDuplicates(Append(q, x))
<1>1. /\ Append(q, x) \in Seq(Thread)
      /\ Len(q) \in Nat
      /\ Len(Append(q, x)) = Len(q) + 1
      /\ \A i \in 1..Len(q) : Append(q, x)[i] = q[i]
      /\ Append(q, x)[Len(q) + 1] = x
  BY SMTT(60), Appended
<1>2. ASSUME NEW y \in Thread
      PROVE  IsOn(y, Append(q, x)) <=> IsOn(y, q) \/ y = x
  <2>1. ASSUME NEW i \in 1..Len(q) + 1 PROVE i \in 1..Len(q) \/ i = Len(q) + 1
    BY SMTT(60), <1>1
  <2>2. \A i \in 1..Len(q) : i \in 1..Len(q) + 1
    BY SMTT(60), <1>1
  <2>3. Len(q) + 1 \in 1..Len(q) + 1
    BY SMTT(60), <1>1
  <2> QED
    BY <1>1, <2>1, <2>2, <2>3 DEF IsOn
<1>3. ASSUME NoDuplicates(q), ~IsOn(x, q)
      PROVE  NoDuplicates(Append(q, x))
  BY SMTT(60), <1>1, <1>3 DEF NoDuplicates, IsOn
<1> QED
  BY <1>2, <1>3

(* What RemoveFront does to the elements of a list (List::RemoveFront). *)
LEMMA TailIsOn ==
  ASSUME NEW q \in Seq(Thread), q # <<>>, NoDuplicates(q)
  PROVE  /\ \A y \in Thread : IsOn(y, Tail(q)) <=> IsOn(y, q) /\ y # Head(q)
         /\ NoDuplicates(Tail(q))
         /\ IsOn(Head(q), q)
         /\ Head(q) \in Thread
<1>1. /\ Tail(q) \in Seq(Thread)
      /\ Head(q) \in Thread
      /\ Len(q) \in Nat \ {0}
      /\ Len(Tail(q)) = Len(q) - 1
      /\ \A i \in 1..Len(Tail(q)) : Tail(q)[i] = q[i + 1]
      /\ Head(q) = q[1]
  BY FrontRemoved
<1>2. ASSUME NEW y \in Thread
      PROVE  IsOn(y, Tail(q)) <=> IsOn(y, q) /\ y # Head(q)
  <2>1. ASSUME IsOn(y, Tail(q)) PROVE IsOn(y, q) /\ y # Head(q)
    <3>1. PICK i \in 1..Len(Tail(q)) : Tail(q)[i] = y
      BY <2>1 DEF IsOn
    <3>2. i + 1 \in 1..Len(q) /\ 1 \in 1..Len(q) /\ i + 1 # 1 /\ q[i + 1] = y
      BY SMTT(60), <1>1, <3>1
    <3> QED
      BY <1>1, <3>2 DEF IsOn, NoDuplicates
  <2>2. ASSUME IsOn(y, q), y # Head(q) PROVE IsOn(y, Tail(q))
    <3>1. PICK i \in 1..Len(q) : q[i] = y
      BY <2>2 DEF IsOn
    <3>2. i # 1
      BY <1>1, <2>2, <3>1
    <3>3. i - 1 \in 1..Len(Tail(q)) /\ Tail(q)[i - 1] = q[i]
      BY SMTT(60), <1>1, <3>2
    <3> QED
      BY <3>1, <3>3 DEF IsOn
  <2> QED
    BY <2>1, <2>2
<1>3. NoDuplicates(Tail(q))
  <2> SUFFICES ASSUME NEW i \in 1..Len(Tail(q)), NEW j \in 1..Len(Tail(q)),
                      Tail(q)[i] = Tail(q)[j]
               PROVE  i = j
    BY DEF NoDuplicates
  <2>1. i + 1 \in 1..Len(q) /\ j + 1 \in 1..Len(q) /\ q[i + 1] = q[j + 1]
    BY SMTT(60), <1>1
  <2>2. i + 1 = j + 1
    BY <2>1 DEF NoDuplicates
  <2> QED
    BY SMTT(60), <1>1, <2>2
<1>4. IsOn(Head(q), q)
  <2>1. 1 \in 1..Len(q)
    BY SMTT(60), <1>1
  <2> QED
    BY <1>1, <2>1 DEF IsOn
<1> QED
  BY <1>1, <1>2, <1>3, <1>4

-----------------------------------------------------------------------------
(* The initial state satisfies the inductive invariant. *)
LEMMA InitIInv == Init => IInv
<1> SUFFICES ASSUME Init PROVE IInv
  OBVIOUS
<1> USE ThreadAssumption, SemaphoreAssumption DEF Init
<1>1. TypeOK
  BY SMTT(60) DEF TypeOK, Statuses, Modes
<1>2. \A t \in Thread : ~IsOn(t, <<>>)
  BY SMTT(60) DEF IsOn
<1>3. NoDuplicates(<<>>)
  BY SMTT(60) DEF NoDuplicates
<1>4. Placement
  BY <1>2, <1>3 DEF Placement
<1>5. SafeDestruction /\ ModeInv
  BY DEF SafeDestruction, ModeInv
<1> QED
  BY <1>1, <1>4, <1>5 DEF IInv

(* Thread::Fork puts a new thread on the ready list. *)
LEMMA ForkIInv == ASSUME IInv, NEW t \in Thread, Fork(t) PROVE IInv'
<1> USE ThreadAssumption, SemaphoreAssumption DEF IInv
<1>1. TypeOK'
  BY Appended DEF TypeOK, Fork, ReadyToRun, Statuses, Modes
<1>2. ~IsOn(t, readyList)
  BY DEF Placement, Fork
<1>3. /\ \A y \in Thread : IsOn(y, readyList') <=> IsOn(y, readyList) \/ y = t
      /\ NoDuplicates(readyList')
  BY <1>2, AppendIsOn DEF TypeOK, Placement, Fork, ReadyToRun
<1>4. Placement'
  BY <1>3 DEF TypeOK, Placement, Fork, ReadyToRun
<1>5. SafeDestruction' /\ ModeInv'
  BY DEF TypeOK, SafeDestruction, ModeInv, Fork, ReadyToRun
<1> QED
  BY <1>1, <1>4, <1>5

(* Thread::Yield exchanges the current thread with the head of the ready list. *)
LEMMA YieldIInv == ASSUME IInv, Yield PROVE IInv'
<1> USE ThreadAssumption, SemaphoreAssumption DEF IInv
<1> DEFINE h == Head(readyList)
<1>1. /\ readyList \in Seq(Thread) /\ readyList # <<>> /\ NoDuplicates(readyList)
      /\ mode = "running" /\ currentThread \in Thread
      /\ status[currentThread] = "RUNNING"
      /\ ~IsOn(currentThread, readyList)
  BY DEF TypeOK, Placement, Yield, Requeued
<1>2. /\ \A y \in Thread : IsOn(y, Tail(readyList)) <=> IsOn(y, readyList) /\ y # h
      /\ NoDuplicates(Tail(readyList))
      /\ IsOn(h, readyList)
      /\ h \in Thread
      /\ Tail(readyList) \in Seq(Thread)
  BY <1>1, TailIsOn, FrontRemoved
<1>3. /\ \A y \in Thread : IsOn(y, readyList') <=>
                             IsOn(y, Tail(readyList)) \/ y = currentThread
      /\ NoDuplicates(readyList')
      /\ readyList' \in Seq(Thread)
  BY <1>1, <1>2, AppendIsOn, Appended DEF Yield, Requeued
<1>4. status[h] = "READY" /\ h # currentThread
  BY <1>1, <1>2 DEF Placement
<1> HIDE DEF h
<1>5. /\ status' = [status EXCEPT ![currentThread] = "READY", ![h] = "RUNNING"]
      /\ currentThread' = h /\ mode' = "switched"
      /\ UNCHANGED <<toBeDestroyed, value, queue, waitingOn>>
  BY DEF Yield, Requeued, h
<1>6. TypeOK'
  BY <1>2, <1>3, <1>5 DEF TypeOK, Statuses, Modes
<1>7. Placement'
  BY <1>1, <1>2, <1>3, <1>4, <1>5 DEF TypeOK, Placement
<1>8. SafeDestruction' /\ ModeInv'
  BY <1>1, <1>5 DEF SafeDestruction, ModeInv
<1> QED
  BY <1>6, <1>7, <1>8

(***************************************************************************)
(* The loop test of P(), by a RUNNING thread, first or after a wakeup.     *)
(***************************************************************************)
LEMMA TestValueIInv ==
  ASSUME IInv, NEW s \in Semaphore, TestValue(s), toBeDestroyed = NoThread,
         mode \in {"running", "switched"},
         UNCHANGED <<readyList, currentThread, toBeDestroyed>>
  PROVE  IInv'
<1> USE ThreadAssumption, SemaphoreAssumption DEF IInv
<1>1. /\ currentThread \in Thread /\ status[currentThread] = "RUNNING"
      /\ queue[s] \in Seq(Thread) /\ NoDuplicates(queue[s])
      /\ ~IsOn(currentThread, queue[s])
      /\ \A r \in Semaphore : ~IsOn(currentThread, queue[r])
  BY DEF TypeOK, Placement
<1>2. CASE Wait(s)
  <2>1. /\ \A y \in Thread : IsOn(y, queue'[s]) <=> IsOn(y, queue[s]) \/ y = currentThread
        /\ NoDuplicates(queue'[s])
        /\ queue'[s] \in Seq(Thread)
        /\ \A r \in Semaphore : r # s => queue'[r] = queue[r]
    BY SMTT(60), <1>1, <1>2, AppendIsOn, Appended DEF TypeOK, Wait
  <2>2. TypeOK'
    BY <1>2, <2>1 DEF TypeOK, Wait, Statuses, Modes
  <2>3. Placement'
    BY SMTT(60), <1>1, <1>2, <2>1 DEF TypeOK, Placement, Wait
  <2>4. SafeDestruction' /\ ModeInv'
    BY <1>1, <1>2 DEF TypeOK, SafeDestruction, ModeInv, Wait
  <2> QED
    BY <2>2, <2>3, <2>4
<1>3. CASE Take(s)
  <2>1. TypeOK'
    BY SMTT(60), <1>3 DEF TypeOK, Take, Modes
  <2>2. Placement'
    BY SMTT(60), <1>1, <1>3 DEF TypeOK, Placement, Take
  <2>3. SafeDestruction' /\ ModeInv'
    BY <1>1, <1>3 DEF TypeOK, SafeDestruction, ModeInv, Take
  <2> QED
    BY <2>1, <2>2, <2>3
<1> QED
  BY <1>2, <1>3 DEF TestValue

(***************************************************************************)
(* What V() does to the lists keeps the invariant, whoever calls it.       *)
(***************************************************************************)
LEMMA WakeIInv ==
  ASSUME IInv, NEW s \in Semaphore, Wake(s),
         UNCHANGED <<currentThread, toBeDestroyed, waitingOn, mode>>
  PROVE  IInv'
<1> USE ThreadAssumption, SemaphoreAssumption DEF IInv
<1> DEFINE h == Head(queue[s])
<1>1. CASE queue[s] = <<>>
  <2>1. UNCHANGED <<status, readyList, queue>> /\ value' = [value EXCEPT ![s] = @ + 1]
    BY <1>1 DEF Wake, MustWake, RemoveFront
  <2> QED
    BY SMTT(60), <2>1 DEF TypeOK, Placement, SafeDestruction, ModeInv, Modes
<1>2. CASE queue[s] # <<>>
  <2>1. queue[s] \in Seq(Thread) /\ NoDuplicates(queue[s])
    BY DEF TypeOK, Placement
  <2>2. /\ \A y \in Thread : IsOn(y, Tail(queue[s])) <=> IsOn(y, queue[s]) /\ y # h
        /\ NoDuplicates(Tail(queue[s]))
        /\ IsOn(h, queue[s])
        /\ h \in Thread
        /\ Tail(queue[s]) \in Seq(Thread)
    BY <1>2, <2>1, TailIsOn, FrontRemoved
  <2>3. /\ status[h] = "BLOCKED" /\ waitingOn[h] = s
        /\ ~IsOn(h, readyList)
    BY <2>2 DEF Placement
  <2>4. /\ status' = [status EXCEPT ![h] = "READY"]
        /\ readyList' = Append(readyList, h)
        /\ queue' = [queue EXCEPT ![s] = Tail(queue[s])]
        /\ value' = [value EXCEPT ![s] = @ + 1]
    BY <1>2 DEF Wake, MustWake, RemoveFront, ReadyToRun
  <2> HIDE DEF h
  <2>5. /\ \A y \in Thread : IsOn(y, readyList') <=> IsOn(y, readyList) \/ y = h
        /\ NoDuplicates(readyList')
        /\ readyList' \in Seq(Thread)
    BY SMTT(60), <2>2, <2>3, <2>4, AppendIsOn, Appended DEF TypeOK, Placement
  <2>6. /\ queue'[s] = Tail(queue[s])
        /\ \A r \in Semaphore : r # s => queue'[r] = queue[r]
    BY <2>4 DEF TypeOK
  <2>7. TypeOK'
    BY SMTT(60), <2>2, <2>4, <2>5 DEF TypeOK, Statuses, Modes
  <2>8. Placement'
    BY SMTT(60), <2>2, <2>3, <2>4, <2>5, <2>6 DEF TypeOK, Placement
  <2>9. SafeDestruction' /\ ModeInv'
    BY <2>3, <2>4 DEF TypeOK, SafeDestruction, ModeInv
  <2> QED
    BY <2>7, <2>8, <2>9
<1> QED
  BY <1>1, <1>2

(* Thread::Finish takes the current thread out of every list for good. *)
LEMMA FinishIInv == ASSUME IInv, Finish PROVE IInv'
<1> USE ThreadAssumption, SemaphoreAssumption DEF IInv
<1>1. TypeOK'
  BY DEF TypeOK, Finish, Statuses, Modes
<1>2. Placement'
  BY DEF TypeOK, Placement, ModeInv, Finish
<1>3. SafeDestruction' /\ ModeInv'
  BY DEF TypeOK, SafeDestruction, ModeInv, Finish
<1> QED
  BY <1>1, <1>2, <1>3

(* Sleep ends by running the head of the ready list (Scheduler::Run). *)
LEMMA RunIInv == ASSUME IInv, Run PROVE IInv'
<1> USE ThreadAssumption, SemaphoreAssumption DEF IInv
<1> DEFINE h == Head(readyList)
<1>1. /\ readyList \in Seq(Thread) /\ readyList # <<>> /\ NoDuplicates(readyList)
      /\ mode \in {"sleeping", "finishing"} /\ currentThread \in Thread
      /\ toBeDestroyed = NoThread
  BY DEF TypeOK, Placement, SafeDestruction, Run, FinishedThread
<1>2. /\ \A y \in Thread : IsOn(y, Tail(readyList)) <=> IsOn(y, readyList) /\ y # h
      /\ NoDuplicates(Tail(readyList))
      /\ IsOn(h, readyList)
      /\ h \in Thread
      /\ Tail(readyList) \in Seq(Thread)
  BY <1>1, TailIsOn, FrontRemoved
<1>3. status[h] = "READY"
  BY <1>1, <1>2 DEF Placement
<1>4. /\ status' = [status EXCEPT ![h] = "RUNNING"]
      /\ readyList' = Tail(readyList)
      /\ currentThread' = h /\ mode' = "switched"
      /\ toBeDestroyed' = IF mode = "finishing" THEN currentThread ELSE toBeDestroyed
      /\ UNCHANGED <<value, queue, waitingOn>>
  BY DEF Run, FinishedThread
<1> HIDE DEF h
<1>5. TypeOK'
  BY <1>1, <1>2, <1>4 DEF TypeOK, Statuses, Modes
<1>6. Placement'
  BY <1>1, <1>2, <1>3, <1>4 DEF TypeOK, Placement
<1>7. SafeDestruction' /\ ModeInv'
  BY <1>1, <1>2, <1>3, <1>4 DEF TypeOK, SafeDestruction, ModeInv
<1> QED
  BY <1>5, <1>6, <1>7

(* Scheduler::CheckToBeDestroyed deletes a thread that is on no list. *)
LEMMA CheckToBeDestroyedIInv == ASSUME IInv, CheckToBeDestroyed PROVE IInv'
<1> USE ThreadAssumption, SemaphoreAssumption DEF IInv
<1>1. TypeOK'
  BY DEF TypeOK, CheckToBeDestroyed, Statuses
<1>2. Placement'
  BY SMTT(60) DEF TypeOK, Placement, SafeDestruction, CheckToBeDestroyed
<1>3. SafeDestruction' /\ ModeInv'
  BY DEF TypeOK, SafeDestruction, ModeInv, CheckToBeDestroyed
<1> QED
  BY <1>1, <1>2, <1>3

(* The resumed thread tests the semaphore again or goes on. *)
LEMMA ResumeIInv == ASSUME IInv, Resume PROVE IInv'
<1> USE ThreadAssumption, SemaphoreAssumption DEF IInv
<1>1. CASE waitingOn[currentThread] # NoSemaphore
  <2>1. waitingOn[currentThread] \in Semaphore
    BY <1>1 DEF TypeOK
  <2> QED
    BY <1>1, <2>1, TestValueIInv DEF Resume, Retest
<1>2. CASE waitingOn[currentThread] = NoSemaphore
  BY SMTT(60), <1>2 DEF Resume, Retest, TypeOK, Placement, SafeDestruction, ModeInv, Modes
<1> QED
  BY <1>1, <1>2

(***************************************************************************)
(* Every kernel call and every step of the kernel keeps the invariant,     *)
(* whichever client makes the calls.                                       *)
(***************************************************************************)
LEMMA CallIInv ==
  ASSUME IInv,
         \/ Yield \/ Run \/ CheckToBeDestroyed \/ Resume \/ Finish \/ Halt
         \/ \E s \in Semaphore : P(s) \/ V(s) \/ Interrupt(s)
         \/ \E t \in Thread : Fork(t)
  PROVE  IInv'
<1>1. ASSUME NEW s \in Semaphore, P(s) PROVE IInv'
  BY <1>1, TestValueIInv DEF P, IInv, SafeDestruction
<1>2. ASSUME NEW s \in Semaphore, V(s) \/ Interrupt(s) PROVE IInv'
  BY <1>2, WakeIInv DEF V, Interrupt
<1>3. CASE Halt
  BY <1>3 DEF Halt, IInv, TypeOK, Placement, SafeDestruction, ModeInv, Modes
<1> QED
  BY <1>1, <1>2, <1>3, YieldIInv, RunIInv, CheckToBeDestroyedIInv, ResumeIInv,
     FinishIInv, ForkIInv

(***************************************************************************)
(* What Semaphore::P does to the units, up to its first Sleep or its end:  *)
(* the caller is inside of P, or has taken a unit.                         *)
(***************************************************************************)
LEMMA PUnits ==
  ASSUME IInv, NEW s \in Semaphore, P(s)
  PROVE  /\ mode = "running" /\ currentThread \in Thread
         /\ UNCHANGED currentThread
         /\ waitingOn[currentThread] = NoSemaphore
         /\ \/ /\ value[s] = 0
               /\ UNCHANGED value
               /\ waitingOn' = [waitingOn EXCEPT ![currentThread] = s]
            \/ /\ value[s] # 0
               /\ value' = [value EXCEPT ![s] = @ - 1]
               /\ UNCHANGED waitingOn
<1>1. /\ mode = "running" /\ currentThread \in Thread
      /\ UNCHANGED currentThread
      /\ waitingOn[currentThread] = NoSemaphore
      /\ waitingOn \in [Thread -> Semaphore \cup {NoSemaphore}]
  BY DEF P, IInv, TypeOK, ModeInv
<1>2. CASE value[s] = 0
  BY <1>1, <1>2 DEF P, TestValue, Wait
<1>3. CASE value[s] # 0
  <2>1. /\ value' = [value EXCEPT ![s] = @ - 1]
        /\ waitingOn' = [waitingOn EXCEPT ![currentThread] = NoSemaphore]
    BY <1>3 DEF P, TestValue, Take
  <2>2. waitingOn' = waitingOn
    BY <1>1, <2>1
  <2> QED
    BY <1>1, <1>3, <2>1, <2>2
<1> QED
  BY <1>1, <1>2, <1>3

(* What Semaphore::V does to the units. *)
LEMMA VUnits ==
  ASSUME IInv, NEW s \in Semaphore, V(s)
  PROVE  /\ mode = "running" /\ currentThread \in Thread
         /\ UNCHANGED <<currentThread, mode, waitingOn>>
         /\ waitingOn[currentThread] = NoSemaphore
         /\ value' = [value EXCEPT ![s] = @ + 1]
  BY DEF V, Wake, IInv, TypeOK, ModeInv

(***************************************************************************)
(* What the kernel does to the units on its own when no device signals a   *)
(* semaphore: nothing, or a thread that was woken takes one and leaves P.  *)
(***************************************************************************)
LEMMA KernelUnits ==
  ASSUME IInv, IntSemaphore = {}, KernelNext
  PROVE  \/ UNCHANGED <<value, waitingOn>>
         \/ \E t \in Thread, s \in Semaphore :
              /\ waitingOn[t] = s
              /\ value[s] # 0
              /\ value' = [value EXCEPT ![s] = @ - 1]
              /\ waitingOn' = [waitingOn EXCEPT ![t] = NoSemaphore]
<1>1. CASE Yield \/ Run \/ CheckToBeDestroyed
  BY <1>1 DEF Yield, Run, CheckToBeDestroyed
<1>2. CASE Resume /\ waitingOn[currentThread] = NoSemaphore
  BY <1>2 DEF Resume
<1>3. CASE Resume /\ waitingOn[currentThread] # NoSemaphore
  <2> DEFINE s == waitingOn[currentThread]
  <2>1. /\ s \in Semaphore /\ currentThread \in Thread
        /\ waitingOn \in [Thread -> Semaphore \cup {NoSemaphore}]
        /\ TestValue(s)
    BY <1>3 DEF IInv, TypeOK, Resume, Retest
  <2>2. CASE value[s] = 0
    <3>1. UNCHANGED value /\ waitingOn' = [waitingOn EXCEPT ![currentThread] = s]
      BY <2>1, <2>2 DEF TestValue, Wait
    <3>2. waitingOn' = waitingOn
      BY <2>1, <3>1
    <3> QED
      BY <3>1, <3>2
  <2>3. CASE value[s] # 0
    BY <2>1, <2>3 DEF TestValue, Take
  <2> QED
    BY <2>2, <2>3
<1> QED
  BY <1>1, <1>2, <1>3 DEF KernelNext

LEMMA NextIInv == IInv /\ [Next]_vars => IInv'
<1> SUFFICES ASSUME IInv, [Next]_vars PROVE IInv'
  OBVIOUS
<1>1. CASE Next
  BY <1>1, CallIInv, SemaphoreAssumption DEF Next, KernelNext
<1>2. CASE UNCHANGED vars
  BY <1>2 DEF vars, IInv, TypeOK, Placement, SafeDestruction, ModeInv
<1> QED
  BY <1>1, <1>2

(* The inductive invariant holds in every reachable state. *)
THEOREM ThreadsInvariant == Spec => []IInv
  BY InitIInv, NextIInv, PTL DEF Spec

(* Scheduler, threads and semaphores keep their types: currentThread is never NULL. *)
THEOREM ThreadsTypeOK == Spec => []TypeOK
<1>1. IInv => TypeOK
  BY DEF IInv
<1> QED
  BY <1>1, ThreadsInvariant, PTL

(***************************************************************************)
(* A thread is on exactly the list its status says, once, and a sleeping   *)
(* thread is on the queue of the semaphore it sleeps on.                   *)
(***************************************************************************)
THEOREM ThreadsPlacement == Spec => []Placement
<1>1. IInv => Placement
  BY DEF IInv
<1> QED
  BY <1>1, ThreadsInvariant, PTL

(***************************************************************************)
(* The ASSERTs on toBeDestroyed and on deleting the current thread hold.   *)
(***************************************************************************)
THEOREM ThreadsSafeDestruction == Spec => []SafeDestruction
<1>1. IInv => SafeDestruction
  BY DEF IInv
<1> QED
  BY <1>1, ThreadsInvariant, PTL

=============================================================================
