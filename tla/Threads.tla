------------------------------ MODULE Threads ------------------------------
(***************************************************************************)
(* Kernel threads, the ready list and counting semaphores:                 *)
(* threads/thread.cc, threads/scheduler.cc, Semaphore of threads/synch.cc, *)
(* and the part of machine/interrupt.cc that decides when a thread can     *)
(* lose the CPU.                                                           *)
(*                                                                         *)
(* Nachos runs on one simulated CPU whose clock only advances, and whose   *)
(* interrupts are only delivered, in Interrupt::OneTick (interrupts go     *)
(* from off to on, or a user instruction ends) and in Interrupt::Idle.     *)
(* Kernel code between two such points is atomic.  An action is therefore  *)
(* one stretch of code up to and including a kernel call; the tick at the  *)
(* end of the call is the state in which Yield (the timer) or Interrupt (a *)
(* device) may come next.                                                  *)
(***************************************************************************)
EXTENDS Integers, Sequences, FiniteSets

CONSTANTS
  Thread,        \* thread objects; each is created, forked and deleted at most once
  MainThread,    \* the thread Kernel::Initialize gives the name "main"
  NoThread,      \* the NULL of a Thread pointer
  Semaphore,     \* semaphore objects
  NoSemaphore,   \* "not inside Semaphore::P"
  InitialValue,  \* the constructor's initialValue of each semaphore
  IntSemaphore,  \* semaphores that device interrupt handlers V
  MaxValue       \* bound: no V on a semaphore that has reached this value

ASSUME ThreadAssumption ==
  /\ IsFiniteSet(Thread)
  /\ MainThread \in Thread
  /\ NoThread \notin Thread

ASSUME SemaphoreAssumption ==
  /\ NoSemaphore \notin Semaphore
  /\ InitialValue \in [Semaphore -> Int]
  /\ IntSemaphore \subseteq Semaphore
  /\ MaxValue \in Int

VARIABLES
  status,         \* Thread::status, with "DELETED" once the object is freed
  readyList,      \* Scheduler::readyList
  currentThread,  \* Kernel::currentThread
  toBeDestroyed,  \* Scheduler::toBeDestroyed
  value,          \* Semaphore::value
  queue,          \* Semaphore::queue
  waitingOn,      \* the semaphore whose P() a thread is inside of, asleep or woken
  mode            \* where the CPU is, see Modes

vars == <<status, readyList, currentThread, toBeDestroyed, value, queue, waitingOn, mode>>

Statuses == {"JUST_CREATED", "RUNNING", "READY", "BLOCKED", "DELETED"}

(***************************************************************************)
(* "running":   currentThread executes, interrupts on;                     *)
(* "sleeping":  in the loop of Thread::Sleep(FALSE), looking for a thread; *)
(* "finishing": in the loop of Thread::Sleep(TRUE);                        *)
(* "switched":  SWITCH has just brought currentThread back, interrupts off *)
(* "halted":    Interrupt::Halt was called.                                *)
(***************************************************************************)
Modes == {"running", "sleeping", "finishing", "switched", "halted"}

TypeOK ==
  /\ status \in [Thread -> Statuses]
  /\ readyList \in Seq(Thread)
  /\ currentThread \in Thread
  /\ toBeDestroyed \in Thread \cup {NoThread}
  /\ value \in [Semaphore -> Int]
  /\ queue \in [Semaphore -> Seq(Thread)]
  /\ waitingOn \in [Thread -> Semaphore \cup {NoSemaphore}]
  /\ mode \in Modes

Init ==
  /\ status = [t \in Thread |-> IF t = MainThread THEN "RUNNING" ELSE "JUST_CREATED"]
  /\ readyList = <<>>
  /\ currentThread = MainThread
  /\ toBeDestroyed = NoThread
  /\ value = InitialValue
  /\ queue = [s \in Semaphore |-> <<>>]
  /\ waitingOn = [t \in Thread |-> NoSemaphore]
  /\ mode = "running"

-----------------------------------------------------------------------------
(* Scheduler::ReadyToRun *)
ReadyToRun(t) ==
  /\ status' = [status EXCEPT ![t] = "READY"]
  /\ readyList' = Append(readyList, t)

(* Thread::Fork of a thread the caller has just constructed. *)
Fork(t) ==
  /\ mode = "running"
  /\ status[t] = "JUST_CREATED"
  /\ ReadyToRun(t)
  /\ UNCHANGED <<currentThread, toBeDestroyed, value, queue, waitingOn, mode>>

(* FindNextToRun takes the first thread, ReadyToRun appends the current one. *)
Requeued == Append(Tail(readyList), currentThread)

(* Thread::Yield, called by the thread or by OneTick after Alarm::CallBack. *)
Yield ==
  /\ mode = "running"
  /\ readyList # <<>>
  /\ readyList' = Requeued
  /\ status' = [status EXCEPT ![currentThread] = "READY", ![Head(readyList)] = "RUNNING"]
  /\ currentThread' = Head(readyList)
  /\ mode' = "switched"
  /\ UNCHANGED <<toBeDestroyed, value, queue, waitingOn>>

(* The thread appends itself to the semaphore's queue and calls Sleep(FALSE). *)
Wait(s) ==
  /\ queue' = [queue EXCEPT ![s] = Append(@, currentThread)]
  /\ status' = [status EXCEPT ![currentThread] = "BLOCKED"]
  /\ waitingOn' = [waitingOn EXCEPT ![currentThread] = s]
  /\ mode' = "sleeping"
  /\ UNCHANGED value

(* The loop of P() is left: the thread consumes one unit. *)
Take(s) ==
  /\ value' = [value EXCEPT ![s] = @ - 1]
  /\ waitingOn' = [waitingOn EXCEPT ![currentThread] = NoSemaphore]
  /\ mode' = "running"
  /\ UNCHANGED <<queue, status>>

(* One test of the loop condition of P(), "while (value == 0)". *)
TestValue(s) == IF value[s] = 0 THEN Wait(s) ELSE Take(s)

(* Semaphore::P, up to its first Sleep or to its end. *)
P(s) ==
  /\ mode = "running"
  /\ TestValue(s)
  /\ UNCHANGED <<readyList, currentThread, toBeDestroyed>>

(* Mutant: V wakes a waiter only when the value was 0. *)
MustWakeAtZero(s) == queue[s] # <<>> /\ value[s] = 0

(* "if (!queue->IsEmpty())" *)
MustWake(s) == queue[s] # <<>>

RemoveFront(s) == queue' = [queue EXCEPT ![s] = Tail(@)]

(* What Semaphore::V does to the lists and the value. *)
Wake(s) ==
  /\ \/ /\ MustWake(s)
        /\ ReadyToRun(Head(queue[s]))
        /\ RemoveFront(s)
     \/ /\ ~MustWake(s)
        /\ UNCHANGED <<status, readyList, queue>>
  /\ value' = [value EXCEPT ![s] = @ + 1]

(* Semaphore::V called by the running thread. *)
V(s) ==
  /\ mode = "running"
  /\ Wake(s)
  /\ UNCHANGED <<currentThread, toBeDestroyed, waitingOn, mode>>

(* Thread::Finish, up to the loop of Sleep(TRUE). *)
Finish ==
  /\ mode = "running"
  /\ status' = [status EXCEPT ![currentThread] = "BLOCKED"]
  /\ mode' = "finishing"
  /\ UNCHANGED <<readyList, currentThread, toBeDestroyed, value, queue, waitingOn>>

(* Interrupt::Halt, called by the running thread. *)
Halt ==
  /\ mode = "running"
  /\ mode' = "halted"
  /\ UNCHANGED <<status, readyList, currentThread, toBeDestroyed, value, queue, waitingOn>>

(* Mutant: Run ignores its argument finishing. *)
AnySleeper == currentThread

(* Scheduler::Run(nextThread, finishing) remembers the thread that finished. *)
FinishedThread == IF mode = "finishing" THEN currentThread ELSE toBeDestroyed

(* The end of Thread::Sleep: FindNextToRun succeeds, and Scheduler::Run switches. *)
Run ==
  /\ mode \in {"sleeping", "finishing"}
  /\ readyList # <<>>
  /\ readyList' = Tail(readyList)
  /\ toBeDestroyed' = FinishedThread
  /\ status' = [status EXCEPT ![Head(readyList)] = "RUNNING"]
  /\ currentThread' = Head(readyList)
  /\ mode' = "switched"
  /\ UNCHANGED <<value, queue, waitingOn>>

(* Scheduler::CheckToBeDestroyed, the first thing a resumed thread does. *)
CheckToBeDestroyed ==
  /\ mode = "switched"
  /\ toBeDestroyed # NoThread
  /\ status' = [status EXCEPT ![toBeDestroyed] = "DELETED"]
  /\ toBeDestroyed' = NoThread
  /\ UNCHANGED <<readyList, currentThread, value, queue, waitingOn, mode>>

(* Mutant: P tests the value with "if" in place of "while". *)
NoRetest(s) == Take(s)

Retest(s) == TestValue(s)

(* The resumed thread goes on: in the loop of P(), or out of Yield or Begin. *)
Resume ==
  /\ mode = "switched"
  /\ toBeDestroyed = NoThread
  /\ \/ /\ waitingOn[currentThread] # NoSemaphore
        /\ Retest(waitingOn[currentThread])
     \/ /\ waitingOn[currentThread] = NoSemaphore
        /\ mode' = "running"
        /\ UNCHANGED <<status, value, queue, waitingOn>>
  /\ UNCHANGED <<readyList, currentThread, toBeDestroyed>>

(* A device handler Vs s: from OneTick, or from Idle when nothing is ready. *)
Interrupt(s) ==
  /\ \/ mode = "running"
     \/ mode \in {"sleeping", "finishing"} /\ readyList = <<>>
  /\ value[s] < MaxValue
  /\ Wake(s)
  /\ UNCHANGED <<currentThread, toBeDestroyed, waitingOn, mode>>

-----------------------------------------------------------------------------
(* What the kernel does on its own, whatever its threads do. *)
KernelNext ==
  \/ Yield
  \/ Run
  \/ CheckToBeDestroyed
  \/ Resume
  \/ \E s \in IntSemaphore : Interrupt(s)

(* A most general client: the running thread makes any call. *)
Next ==
  \/ KernelNext
  \/ Finish
  \/ Halt
  \/ \E s \in Semaphore : P(s)
  \/ \E s \in Semaphore : value[s] < MaxValue /\ V(s)
  \/ \E t \in Thread : Fork(t)

(***************************************************************************)
(* The timer rearms itself for ever (Timer::CallBack), so a running thread *)
(* is always preempted in the end; Sleep and Run never pause.              *)
(***************************************************************************)
Fairness ==
  /\ WF_vars(Yield)
  /\ WF_vars(Run)
  /\ WF_vars(CheckToBeDestroyed)
  /\ WF_vars(Resume)

Spec == Init /\ [][Next]_vars /\ Fairness

-----------------------------------------------------------------------------
IsOn(t, list) == \E i \in 1..Len(list) : list[i] = t

NoDuplicates(list) == \A i, j \in 1..Len(list) : list[i] = list[j] => i = j

(***************************************************************************)
(* A thread is on the ready list exactly when its status is READY, and on  *)
(* a semaphore's queue exactly when it sleeps in P() on that semaphore; it *)
(* is never twice on a list (the ASSERT of List::Append), and a BLOCKED    *)
(* thread on no queue is one that Finish has put to sleep for good.  The   *)
(* thread that has the CPU is the only RUNNING one.                        *)
(***************************************************************************)
Placement ==
  /\ NoDuplicates(readyList)
  /\ \A s \in Semaphore : NoDuplicates(queue[s])
  /\ \A t \in Thread :
       /\ IsOn(t, readyList) <=> status[t] = "READY"
       /\ \A s \in Semaphore :
            IsOn(t, queue[s]) <=> status[t] = "BLOCKED" /\ waitingOn[t] = s
       /\ status[t] = "BLOCKED" /\ waitingOn[t] = NoSemaphore =>
            \/ t = currentThread /\ mode = "finishing"
            \/ t = toBeDestroyed
       /\ status[t] = "RUNNING" <=>
            t = currentThread /\ mode \in {"running", "switched", "halted"}

(***************************************************************************)
(* The ASSERTs of Scheduler::Run and Thread::~Thread: a thread that        *)
(* finishes finds toBeDestroyed empty, and the thread that is deleted is   *)
(* neither the current one nor anybody's to wake.                          *)
(***************************************************************************)
SafeDestruction ==
  /\ mode # "switched" => toBeDestroyed = NoThread
  /\ toBeDestroyed # NoThread =>
       /\ toBeDestroyed # currentThread
       /\ status[toBeDestroyed] = "BLOCKED"
       /\ waitingOn[toBeDestroyed] = NoSemaphore

(* Threads that V has taken off the queue of s and that have not run yet. *)
Woken(s) == {t \in Thread : waitingOn[t] = s /\ status[t] # "BLOCKED"}

(***************************************************************************)
(* No wakeup is lost although V only makes the waiter ready and another    *)
(* thread may take the unit first: while threads sleep on a semaphore,     *)
(* every unit of its value has a woken thread on its way to take it.       *)
(***************************************************************************)
NoLostWakeup ==
  \A s \in Semaphore : queue[s] # <<>> => value[s] <= Cardinality(Woken(s))

Atomic == INSTANCE AtomicSemaphores WITH inside <- waitingOn, stopped <- (mode = "halted")

(***************************************************************************)
(* P and V as implemented with a queue, Sleep and ReadyToRun are the       *)
(* atomic operations of synch.h, fairness included: a unit that stays      *)
(* available while a thread waits is taken by a waiting thread.            *)
(***************************************************************************)
ImplementsAtomicSemaphores == Atomic!Spec
=============================================================================
