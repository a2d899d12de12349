------------------------- MODULE ProcessTableProofs -------------------------
(***************************************************************************)
(* Proofs about ProcessTable, for any number of threads, pids and programs *)
(* in three layers.  Any use: one Exec at a time, one pid per process.     *)
(* Unique names: a caller is found as itself.  And every child joined      *)
(* before the next Exec: Join returns what its child passed to Exit, and   *)
(* no child goes before it is joined.                                      *)
(***************************************************************************)
EXTENDS ProcessTable, ThreadsProofs, WellFoundedInduction

(* Zenon proves the leaves that name no prover; those with arithmetic or   *)
(* sequences name the SMT solver.                                          *)
USE ZenonT(60)

(***************************************************************************)
(* A set of natural numbers that is not empty has a smallest member: what  *)
(* the tables kept on top of the threads find with Bitmap::FindAndSet.     *)
(***************************************************************************)
LEMMA SmallestExists ==
  ASSUME NEW T, T \subseteq Nat, T # {}
  PROVE  \E m \in T : \A y \in T : m <= y
<1> DEFINE Less == {ss \in Nat \X Nat : ss[1] < ss[2]}
<1>1. IsWellFoundedOn(Less, Nat)
  BY NatLessThanWellFounded DEF OpToRel
<1> HIDE DEF Less
<1>2. PICK m \in T : \A y \in T : ~ (<<y, m>> \in Less)
  BY <1>1, WFMin
<1>3. ASSUME NEW y \in T PROVE m <= y
  <2>1. <<y, m>> \in Nat \X Nat
    OBVIOUS
  <2> QED
    BY SMTT(60), <1>2, <2>1 DEF Less
<1> QED
  BY <1>3


ExecLabels == {"exec", "execFork", "execUnlock", "execDone"}
JoinLabels ==
  {"joinCount", "joinWait", "joinUncount", "joinUncounted", "joinRelease", "joinReturn"}
Over == {"exitWait", "remove", "gone"}

(* Where a thread is in the kernel or in its program, but not in ExecUpdate. *)
PlainLabels == {"load", "allocate", "noMemory", "user", "exitWait", "remove"} \cup JoinLabels
Labels == {"none", "gone"} \cup ExecLabels \cup PlainLabels

Frames == [name : Name \cup {NoName}, id : Int, me : Int, this : Thread \cup {NoThread}]

TypesInv ==
  /\ pcb \in [Pid -> Thread \cup {NoThread}]
  /\ bm \subseteq Pid
  /\ file \in [Thread -> Name \cup {MainProgram, NoName}]
  /\ pc \in [Thread -> Labels]
  /\ frame \in [Thread -> Frames]

(* A thread has a program once it is forked, and is deleted after Remove only. *)
StatusInv ==
  /\ \A t \in Thread : pc[t] = "none" <=> status[t] = "JUST_CREATED"
  /\ \A t \in Thread : file[t] = NoName <=> pc[t] = "none"
  /\ \A t \in Thread : status[t] = "DELETED" => pc[t] = "gone"
  /\ toBeDestroyed # NoThread => pc[toBeDestroyed] = "gone"
  /\ mode = "finishing" => pc[currentThread] = "gone"
  /\ outcome # "none" => mode = "halted"

(* bmsem: its unit is in the semaphore or with exactly one thread. *)
BmsemInv ==
  /\ \/ value[Bmsem] = 1 /\ \A t \in Thread : ~InExec(t)
     \/ value[Bmsem] = 0 /\ \E o \in Thread : \A t \in Thread : InExec(t) <=> t = o
  /\ \A t \in Thread : waitingOn[t] = Bmsem => pc[t] = "exec"

(* The pids that the frame of a system call holds, and the PCB. *)
FrameOk(t) ==
  /\ pc[t] \in JoinLabels =>
       /\ frame[t].id \in Pid /\ pcb[frame[t].id] # NoThread
       /\ frame[t].me \in Pid /\ pcb[frame[t].me] # NoThread
  /\ pc[t] \in {"joinCount", "joinUncounted", "execUnlock"} => frame[t].this \in Thread
  /\ pc[t] \in {"exec", "execFork"} => frame[t].name \in Name
  /\ pc[t] \in {"exitWait", "remove"} =>
       frame[t].me \in Pid \ {0} /\ pcb[frame[t].me] # NoThread /\ t # MainThread

(***************************************************************************)
(* The PCB of a thread that is not forked yet is the one whose maker is    *)
(* inside of PCB::Exec; it has one pid, which is marked.                   *)
(***************************************************************************)
HalfMade ==
  /\ \A i \in Pid : pcb[i] # NoThread /\ pc[pcb[i]] = "none" =>
       \E t \in Thread : pc[t] = "execFork" /\ frame[t].id = i /\ frame[t].this = pcb[i]
  /\ \A t \in Thread : pc[t] = "execFork" =>
       /\ frame[t].this \in Thread /\ pc[frame[t].this] = "none"
       /\ frame[t].id \in Pid \ {0}
       /\ \A j \in Pid : pcb[j] = frame[t].this <=> j = frame[t].id
       /\ outcome # "assertion" => frame[t].id \in bm

(* The first process has pid 0 and never leaves. *)
MainInv ==
  /\ pcb[0] = MainThread /\ 0 \in bm
  /\ pc[MainThread] \notin {"none", "gone"}

PidInv ==
  outcome # "assertion" =>
    \A t \in Thread : Live(t) => \E i \in bm : \A j \in Pid : pcb[j] = t <=> j = i

(* The inductive invariant of any use. *)
AnyInv ==
  /\ IInv /\ TypesInv /\ StatusInv /\ BmsemInv
  /\ \A t \in Thread : FrameOk(t)
  /\ HalfMade /\ MainInv /\ PidInv

-----------------------------------------------------------------------------
(* The semaphores of the table, of the memory and of the PCBs differ. *)
LEMMA SemaphoresDiffer ==
  /\ {Bmsem, AddrLock} \subseteq Semaphore
  /\ \A t \in Thread : {Joinsem(t), Exitsem(t), Mutex(t)} \subseteq Semaphore \ {Bmsem, AddrLock}
  /\ Bmsem # AddrLock
  /\ \A t, u \in Thread : /\ Joinsem(t) # Exitsem(u) /\ Joinsem(t) # Mutex(u)
                          /\ Exitsem(t) # Mutex(u)
                          /\ Joinsem(t) = Joinsem(u) => t = u
                          /\ Exitsem(t) = Exitsem(u) => t = u
  /\ NoSemaphore \notin Semaphore
  /\ IntSemaphore = {}
  BY SMTT(60), ProcessAssumption, SemaphoreAssumption
     DEF Bmsem, AddrLock, Joinsem, Exitsem, Mutex, ProcessSemaphores

(* The kernel's calls: what they do to the statuses of threads that are new or done. *)
StatusKept ==
  /\ \A t \in Thread : status'[t] = "JUST_CREATED" <=> status[t] = "JUST_CREATED"
  /\ \A t \in Thread : status'[t] = "DELETED" =>
       status[t] = "DELETED" \/ (t = toBeDestroyed /\ toBeDestroyed # NoThread)
  /\ \/ toBeDestroyed' \in {toBeDestroyed, NoThread}
     \/ mode = "finishing" /\ toBeDestroyed' = currentThread
  /\ mode' = "finishing" => mode = "finishing" /\ currentThread' = currentThread
  /\ mode = "halted" => mode' = "halted"

LEMMA CallStatus ==
  ASSUME IInv,
         \/ KernelNext \/ Halt
         \/ \E s \in Semaphore : P(s) \/ V(s)
  PROVE  StatusKept
<1> USE DEF StatusKept
<1>1. /\ status \in [Thread -> Statuses] /\ currentThread \in Thread
      /\ readyList \in Seq(Thread) /\ queue \in [Semaphore -> Seq(Thread)]
      /\ \A t \in Thread : IsOn(t, readyList) <=> status[t] = "READY"
      /\ \A t \in Thread, s \in Semaphore :
            IsOn(t, queue[s]) <=> status[t] = "BLOCKED" /\ waitingOn[t] = s
      /\ NoDuplicates(readyList) /\ \A s \in Semaphore : NoDuplicates(queue[s])
      /\ mode \in {"running", "switched", "halted"} => status[currentThread] = "RUNNING"
      /\ toBeDestroyed # NoThread => toBeDestroyed \in Thread /\ status[toBeDestroyed] = "BLOCKED"
  BY DEF IInv, TypeOK, Placement, SafeDestruction
<1>2. readyList # <<>> => Head(readyList) \in Thread /\ status[Head(readyList)] = "READY"
  BY <1>1, TailIsOn
<1>3. ASSUME NEW s \in Semaphore, queue[s] # <<>>
      PROVE  Head(queue[s]) \in Thread /\ status[Head(queue[s])] = "BLOCKED"
  BY <1>1, <1>3, TailIsOn
<1>4. CASE Yield
  BY <1>1, <1>2, <1>4 DEF Yield
<1>5. CASE Run
  BY <1>1, <1>2, <1>5 DEF Run, FinishedThread
<1>6. CASE CheckToBeDestroyed
  BY <1>1, <1>6 DEF CheckToBeDestroyed
<1>7. ASSUME NEW s \in Semaphore, TestValue(s), mode \in {"running", "switched"},
             UNCHANGED <<currentThread, toBeDestroyed>>
      PROVE  StatusKept
  BY <1>1, <1>7 DEF TestValue, Wait, Take
<1>8. CASE Resume
  BY <1>1, <1>7, <1>8 DEF Resume, Retest, IInv, TypeOK
<1>9. CASE Halt
  BY <1>1, <1>9 DEF Halt
<1>10. ASSUME NEW s \in Semaphore, P(s) PROVE StatusKept
  BY <1>7, <1>10 DEF P
<1>11. ASSUME NEW s \in Semaphore, V(s) PROVE StatusKept
  BY <1>1, <1>3, <1>11 DEF V, Wake, MustWake, ReadyToRun
<1> QED
  BY <1>4, <1>5, <1>6, <1>8, <1>9, <1>10, <1>11, SemaphoresDiffer DEF KernelNext

(* A call of P or V of another semaphore than bmsem, or none. *)
LEMMA OtherCall ==
  ASSUME IInv, NEW s \in Semaphore \ {Bmsem}, P(s) \/ V(s) \/ UNCHANGED vars
  PROVE  /\ IInv' /\ StatusKept
         /\ value'[Bmsem] = value[Bmsem]
         /\ \A t \in Thread : waitingOn'[t] = Bmsem <=> waitingOn[t] = Bmsem
<1>1. /\ value \in [Semaphore -> Int]
      /\ waitingOn \in [Thread -> Semaphore \cup {NoSemaphore}]
  BY DEF IInv, TypeOK
<1>2. CASE P(s)
  <2>1. IInv' /\ StatusKept
    BY <1>2, CallIInv, CallStatus
  <2> QED
    BY SMTT(60), <1>1, <1>2, <2>1, PUnits, SemaphoresDiffer
<1>3. CASE V(s)
  <2>1. IInv' /\ StatusKept
    BY <1>3, CallIInv, CallStatus
  <2> QED
    BY <1>1, <1>3, <2>1, VUnits, SemaphoresDiffer
<1>4. CASE UNCHANGED vars
  BY <1>4 DEF vars, IInv, TypeOK, Placement, SafeDestruction, ModeInv, StatusKept
<1> QED
  BY <1>2, <1>3, <1>4

(* The running thread. *)
LEMMA Running ==
  ASSUME AnyInv, mode = "running"
  PROVE  /\ currentThread \in Thread /\ waitingOn[currentThread] = NoSemaphore
         /\ outcome = "none"
  BY DEF AnyInv, IInv, TypeOK, ModeInv, StatusInv

(* The invariant holds when main() has called LoadMainThread. *)
LEMMA InitAnyInv == PInit => AnyInv
<1> SUFFICES ASSUME PInit PROVE AnyInv
  OBVIOUS
<1> USE ProcessAssumption, ThreadAssumption DEF PInit, LoadMainThread
<1>1. IInv
  BY InitIInv
<1>2. value[Bmsem] = 1 /\ \A t \in Thread : waitingOn[t] = NoSemaphore
  BY DEF Init, SemaphoreInit, ProcessSemaphores, Bmsem
<1>3. 0 \in Pid
  BY SMTT(60) DEF Pid
<1>4. TypesInv
  BY SMTT(60), <1>3 DEF TypesInv, MainPidMarked, Labels, PlainLabels, Frames, NoFrame
<1>5. StatusInv
  BY DEF StatusInv, Init
<1>6. BmsemInv
  BY <1>2, SemaphoresDiffer DEF BmsemInv, InExec
<1>7. \A t \in Thread : FrameOk(t)
  BY DEF FrameOk, JoinLabels
<1>8. HalfMade
  BY DEF HalfMade
<1>9. MainInv
  BY <1>3 DEF MainInv, MainPidMarked
<1>10. PidInv
  BY <1>3 DEF PidInv, Live, MainPidMarked
<1> QED
  BY <1>1, <1>4, <1>5, <1>6, <1>7, <1>8, <1>9, <1>10 DEF AnyInv

(* What the kernel does on its own, a woken thread taking bmsem included. *)
LEMMA KernelAnyInv ==
  ASSUME AnyInv, Kernel(KernelNext)
  PROVE  AnyInv'
<1> USE DEF AnyInv
<1>1. IInv' /\ StatusKept
  BY CallIInv, CallStatus, SemaphoresDiffer DEF Kernel, KernelNext
<1>2. UNCHANGED <<pcb, bm, file, pc, frame, outcome>>
  BY DEF Kernel, pvars, table, heap
<1>3. /\ value \in [Semaphore -> Int]
      /\ waitingOn \in [Thread -> Semaphore \cup {NoSemaphore}]
  BY DEF IInv, TypeOK
<1>4. TypesInv' /\ HalfMade' /\ MainInv' /\ PidInv' /\ (\A t \in Thread : FrameOk(t))'
  BY SMTT(60), <1>2 DEF TypesInv, HalfMade, MainInv, PidInv, FrameOk, Live
<1>5. StatusInv'
  BY <1>1, <1>2 DEF StatusInv, StatusKept, IInv, TypeOK
<1>6. BmsemInv'
  <2>1. CASE UNCHANGED <<value, waitingOn>>
    BY <1>2, <2>1 DEF BmsemInv, InExec
  <2>2. ASSUME NEW t \in Thread, NEW s \in Semaphore,
               waitingOn[t] = s, value[s] # 0,
               value' = [value EXCEPT ![s] = @ - 1],
               waitingOn' = [waitingOn EXCEPT ![t] = NoSemaphore]
        PROVE  BmsemInv'
    <3>1. CASE s # Bmsem
      <4>1. /\ value'[Bmsem] = value[Bmsem]
            /\ \A u \in Thread : waitingOn'[u] = Bmsem <=> waitingOn[u] = Bmsem
        BY <1>3, <2>2, <3>1, SemaphoresDiffer
      <4>2. \A u \in Thread : InExec(u)' <=> InExec(u)
        BY <1>2, <4>1 DEF InExec
      <4> QED
        BY <1>2, <4>1, <4>2 DEF BmsemInv
    <3>2. CASE s = Bmsem
      <4>1. value[Bmsem] = 1 /\ \A u \in Thread : ~InExec(u)
        BY <2>2, <3>2 DEF BmsemInv
      <4>2. pc[t] = "exec"
        BY <2>2, <3>2 DEF BmsemInv
      <4>3. /\ value'[Bmsem] = 0 /\ waitingOn'[t] = NoSemaphore
            /\ \A u \in Thread : u # t => waitingOn'[u] = waitingOn[u]
        BY SMTT(60), <1>3, <2>2, <3>2, <4>1
      <4>4. \A u \in Thread : InExec(u)' <=> u = t
        BY <1>2, <4>1, <4>2, <4>3, SemaphoresDiffer DEF InExec
      <4> QED
        BY <1>2, <4>3, <4>4, SemaphoresDiffer DEF BmsemInv
    <3> QED
      BY <3>1, <3>2
  <2> QED
    BY <2>1, <2>2, KernelUnits, SemaphoresDiffer DEF Kernel
<1> QED
  BY <1>1, <1>4, <1>5, <1>6

(* The machine stops. *)
LEMMA StopAnyInv ==
  ASSUME AnyInv, NEW why, Stop(why)
  PROVE  AnyInv'
<1> USE DEF AnyInv
<1>1. IInv' /\ StatusKept
  BY CallIInv, CallStatus DEF Stop
<1>2. /\ UNCHANGED <<pcb, bm, file, pc, frame, value, waitingOn>> /\ mode' = "halted"
      /\ outcome = "none"
  BY Running DEF Stop, Halt, table, heap
<1>3. TypesInv' /\ HalfMade' /\ MainInv' /\ PidInv' /\ (\A t \in Thread : FrameOk(t))' /\ BmsemInv'
  BY SMTT(60), <1>2 DEF TypesInv, HalfMade, MainInv, PidInv, FrameOk, Live, BmsemInv, InExec
<1>4. StatusInv'
  BY <1>1, <1>2 DEF StatusInv, StatusKept, IInv, TypeOK
<1> QED
  BY <1>1, <1>3, <1>4

(***************************************************************************)
(* The steps outside of ExecUpdate that leave the table alone: thread c    *)
(* goes to label l.                                                        *)
(***************************************************************************)
PlainStep(c, l) ==
  /\ c = currentThread /\ mode = "running"
  /\ pc[c] \in PlainLabels /\ l \in PlainLabels
  /\ pc' = [pc EXCEPT ![c] = l]
  /\ frame' \in [Thread -> Frames]
  /\ \A t \in Thread : t # c => frame'[t] = frame[t]
  /\ FrameOk(c)'
  /\ UNCHANGED <<pcb, bm, file, outcome>>
  /\ \E s \in Semaphore \ {Bmsem} : P(s) \/ V(s) \/ UNCHANGED vars

(* What a step of thread c that leaves the table alone preserves. *)
LEMMA MoveInv ==
  ASSUME AnyInv, IInv', StatusKept, NEW c \in Thread, NEW l \in Labels,
         c = currentThread, mode = "running",
         pc[c] \notin {"none", "gone", "execFork"}, l \notin {"none", "gone", "execFork"},
         pc' = [pc EXCEPT ![c] = l],
         frame' \in [Thread -> Frames],
         \A t \in Thread : t # c => frame'[t] = frame[t],
         FrameOk(c)', UNCHANGED <<pcb, bm, file, outcome>>
  PROVE  TypesInv' /\ StatusInv' /\ (\A t \in Thread : FrameOk(t))'
         /\ HalfMade' /\ MainInv' /\ PidInv'
<1> USE DEF AnyInv
<1>1. /\ pc'[c] = l /\ pc' \in [Thread -> Labels]
      /\ \A t \in Thread : t # c => pc'[t] = pc[t]
  BY DEF TypesInv
<1>2. TypesInv'
  BY <1>1 DEF TypesInv
<1>3. StatusInv'
  BY SMTT(60), <1>1 DEF StatusInv, StatusKept, IInv, TypeOK
<1>4. (\A t \in Thread : FrameOk(t))'
  BY SMTT(60), <1>1 DEF FrameOk
<1>5. HalfMade'
  BY SMTT(60), <1>1 DEF HalfMade, TypesInv
<1>6. MainInv'
  BY <1>1, ThreadAssumption DEF MainInv
<1>7. \A t \in Thread : Live(t)' <=> Live(t)
  BY <1>1 DEF Live
<1>8. PidInv'
  BY SMTT(60), <1>7 DEF PidInv
<1> QED
  BY <1>2, <1>3, <1>4, <1>5, <1>6, <1>8

LEMMA PlainAnyInv ==
  ASSUME AnyInv, NEW c \in Thread, NEW l, PlainStep(c, l)
  PROVE  AnyInv'
<1> USE DEF AnyInv
<1>1. PICK s \in Semaphore \ {Bmsem} : P(s) \/ V(s) \/ UNCHANGED vars
  BY DEF PlainStep
<1>2. /\ IInv' /\ StatusKept
      /\ value'[Bmsem] = value[Bmsem]
      /\ \A t \in Thread : waitingOn'[t] = Bmsem <=> waitingOn[t] = Bmsem
  BY <1>1, OtherCall
<1>3. /\ l \in Labels /\ pc' = [pc EXCEPT ![c] = l]
      /\ pc[c] \notin {"none", "gone"} \cup ExecLabels /\ l \notin {"none", "gone"} \cup ExecLabels
      /\ pc'[c] = l /\ \A t \in Thread : t # c => pc'[t] = pc[t]
  BY DEF PlainStep, TypesInv, Labels, PlainLabels, JoinLabels, ExecLabels
<1>4. BmsemInv'
  <2>1. \A t \in Thread : InExec(t)' <=> InExec(t)
    BY <1>2, <1>3 DEF InExec, ExecLabels
  <2> QED
    BY <1>2, <1>3, <2>1 DEF BmsemInv, ExecLabels
<1>5. TypesInv' /\ StatusInv' /\ (\A t \in Thread : FrameOk(t))' /\ HalfMade' /\ MainInv' /\ PidInv'
  <2>1. /\ c = currentThread /\ mode = "running" /\ frame' \in [Thread -> Frames]
        /\ \A t \in Thread : t # c => frame'[t] = frame[t]
        /\ FrameOk(c)' /\ UNCHANGED <<pcb, bm, file, outcome>>
    BY DEF PlainStep
  <2>2. pc[c] \notin {"none", "gone", "execFork"} /\ l \notin {"none", "gone", "execFork"}
    BY <1>3 DEF ExecLabels
  <2> QED
    BY <1>2, <1>3, <2>1, <2>2, MoveInv
<1> QED
  BY <1>2, <1>4, <1>5

(* Load, Join, Exit and the failing calls are such steps. *)
LEMMA PlainSteps ==
  ASSUME AnyInv,
         \/ Load \/ Allocate \/ ExecNoName
         \/ \E i \in Pid \cup {-1} : Join(i) \/ JoinRefused(i)
         \/ JoinCount \/ JoinWait \/ JoinUncount \/ JoinRelease \/ JoinReturn
         \/ \E x \in ExitCode : Exit(x)
         \/ ExitWait
  PROVE  \E c \in Thread, l \in PlainLabels : PlainStep(c, l)
<1>1. mode = "running"
  BY DEF At, Load, Allocate, ExecNoName, Join, JoinRefused, JoinCount, JoinWait, JoinUncount,
         JoinRelease, JoinReturn, Exit, ExitWait
<1>2. PICK c \in Thread : c = currentThread
  BY <1>1, Running
<1> USE SemaphoresDiffer
<1>3. /\ frame \in [Thread -> Frames] /\ pc \in [Thread -> Labels]
      /\ pcb \in [Pid -> Thread \cup {NoThread}]
      /\ FrameOk(c) /\ frame[c] \in Frames
  BY DEF AnyInv, TypesInv
<1>4. NoFrame \in Frames
  BY SMTT(60) DEF NoFrame, Frames
<1>5. ASSUME Load \/ Allocate
      PROVE  \E l \in PlainLabels : PlainStep(c, l)
  <2>1. CASE Load
    <3>1. PlainStep(c, "allocate")
      BY <1>1, <1>2, <1>3, <2>1
         DEF Load, At, Goto, PlainStep, FrameOk, PlainLabels, JoinLabels, table, heap
    <3> QED
      BY <3>1 DEF PlainLabels
  <2>2. CASE Allocate
    <3>1. PICK l \in {"user", "noMemory"} : pc' = [pc EXCEPT ![c] = l]
      BY <1>2, <2>2 DEF Allocate, Goto
    <3>2. PlainStep(c, l)
      BY <1>1, <1>2, <1>3, <2>2, <3>1
         DEF Allocate, At, PlainStep, FrameOk, PlainLabels, JoinLabels, table, heap
    <3> QED
      BY <3>1, <3>2 DEF PlainLabels
  <2> QED
    BY <1>5, <2>1, <2>2
<1>6. ASSUME NEW x, Return(x), UNCHANGED <<vars, pcb, bm, file, outcome>>,
             pc[c] \in {"user", "joinReturn"}
      PROVE  PlainStep(c, "user")
  BY <1>1, <1>2, <1>3, <1>4, <1>6
     DEF Return, Goto, SetFrame, PlainStep, FrameOk, PlainLabels, JoinLabels
<1>7. ASSUME NEW i, Join(i)
      PROVE  PlainStep(c, "joinCount")
  <2>1. /\ i \in Pid /\ Caller \in Pid /\ pcb[i] # NoThread /\ pcb[Caller] # NoThread
        /\ P(Mutex(pcb[Caller]))
        /\ pc[c] = "user" /\ pc' = [pc EXCEPT ![c] = "joinCount"]
        /\ UNCHANGED <<pcb, bm, file, outcome>>
        /\ frame' = [frame EXCEPT ![c] =
                       [name |-> NoName, id |-> i, me |-> Caller, this |-> pcb[Caller]]]
    BY <1>2, <1>7 DEF Join, CallerFaults, IsExist, Enter, Goto, SetFrame, At, table, heap
  <2>2. PICK k \in Pid : k = Caller
    BY <2>1
  <2>3. pcb[k] \in Thread /\ i \in Int /\ k \in Int
    BY SMTT(60), <1>3, <2>1, <2>2 DEF Pid
  <2>4. PICK f \in Frames : f = [name |-> NoName, id |-> i, me |-> k, this |-> pcb[k]]
    BY <2>3 DEF Frames
  <2>5. frame' = [frame EXCEPT ![c] = f] /\ f.id = i /\ f.me = k /\ f.this = pcb[k]
    BY <2>1, <2>2, <2>4
  <2>6. FrameOk(c)'
    BY <1>3, <2>1, <2>2, <2>3, <2>5 DEF FrameOk
  <2>7. Mutex(pcb[k]) \in Semaphore \ {Bmsem} /\ P(Mutex(pcb[k]))
    BY <2>1, <2>2, <2>3
  <2> QED
    BY <1>1, <1>2, <1>3, <2>1, <2>5, <2>6, <2>7 DEF PlainStep, PlainLabels, JoinLabels
<1>8. ASSUME JoinCount \/ JoinWait \/ JoinRelease
      PROVE  \E l \in PlainLabels : PlainStep(c, l)
  <2>1. /\ UNCHANGED <<pcb, bm, file, frame, outcome>>
        /\ pc[c] \in {"joinCount", "joinUncounted", "joinWait", "joinRelease"}
    BY <1>2, <1>8 DEF JoinCount, JoinWait, JoinRelease, At, table, heap
  <2>2. PICK l \in {"joinWait", "joinRelease", "joinUncount", "joinReturn"} :
          pc' = [pc EXCEPT ![c] = l]
    BY <1>2, <1>8 DEF JoinCount, JoinWait, JoinRelease, Goto
  <2>3. pcb[frame[c].id] \in Thread
    BY <1>3, <2>1 DEF FrameOk, JoinLabels
  <2>4. PICK s \in Semaphore \ {Bmsem} : P(s) \/ V(s)
    <3>1. CASE JoinCount
      <4>1. frame[c].this \in Thread /\ V(Mutex(frame[c].this))
        BY <1>2, <1>3, <3>1 DEF JoinCount, At, FrameOk
      <4> QED
        BY <4>1
    <3>2. CASE JoinWait
      BY <1>2, <2>3, <3>2 DEF JoinWait
    <3>3. CASE JoinRelease
      BY <1>2, <2>3, <3>3 DEF JoinRelease
    <3> QED
      BY <1>8, <3>1, <3>2, <3>3
  <2>5. FrameOk(c)'
    BY <1>3, <2>1, <2>2 DEF FrameOk, JoinLabels
  <2>6. PlainStep(c, l)
    BY <1>1, <1>2, <1>3, <2>1, <2>2, <2>4, <2>5 DEF PlainStep, PlainLabels, JoinLabels
  <2> QED
    BY <2>2, <2>6 DEF PlainLabels, JoinLabels
<1>9. ASSUME JoinUncount
      PROVE  PlainStep(c, "joinUncounted")
  <2>1. /\ pc[c] = "joinUncount" /\ P(Mutex(pcb[frame[c].me]))
        /\ pc' = [pc EXCEPT ![c] = "joinUncounted"]
        /\ frame' = [frame EXCEPT ![c] = [frame[c] EXCEPT !.this = pcb[frame[c].me]]]
        /\ UNCHANGED <<pcb, bm, file, outcome>>
    BY <1>2, <1>9 DEF JoinUncount, At, Goto, SetFrame, table, heap
  <2>2. pcb[frame[c].me] \in Thread
    BY <1>3, <2>1 DEF FrameOk, JoinLabels
  <2>3. PICK f \in Frames : /\ f = [frame[c] EXCEPT !.this = pcb[frame[c].me]]
                            /\ f.id = frame[c].id /\ f.me = frame[c].me
                            /\ f.this = pcb[frame[c].me]
    <3>1. PICK x \in Thread : x = pcb[frame[c].me]
      BY <2>2
    <3>2. [frame[c] EXCEPT !.this = x] =
            [name |-> frame[c].name, id |-> frame[c].id, me |-> frame[c].me, this |-> x]
      BY SMTT(60), <1>3 DEF Frames
    <3> QED
      BY <1>3, <3>1, <3>2 DEF Frames
  <2>4. frame' = [frame EXCEPT ![c] = f]
    BY <2>1, <2>3
  <2>5. FrameOk(c)'
    BY <1>3, <2>1, <2>2, <2>3, <2>4 DEF FrameOk, JoinLabels
  <2> QED
    BY SMTT(60), <1>1, <1>2, <1>3, <2>1, <2>2, <2>4, <2>5 DEF PlainStep, PlainLabels, JoinLabels
<1>10. ASSUME NEW x, Exit(x)
       PROVE  PlainStep(c, "exitWait")
  <2>1. /\ Caller \in Pid \ {0} /\ pcb[Caller] # NoThread
        /\ V(Joinsem(pcb[Caller]))
        /\ pc[c] = "user" /\ pc' = [pc EXCEPT ![c] = "exitWait"]
        /\ UNCHANGED <<pcb, bm, file, outcome>>
        /\ frame' = [frame EXCEPT ![c] = [NoFrame EXCEPT !.me = Caller]]
    BY <1>2, <1>10
       DEF Exit, CallerFaults, IsExist, Enter, Goto, SetFrame, At, table, heap, ReleaseParent
  <2>2. PICK k \in Pid \ {0} : k = Caller
    BY <2>1
  <2>3. pcb[k] \in Thread /\ k \in Int
    BY SMTT(60), <1>3, <2>1, <2>2 DEF Pid
  <2>4. PICK f \in Frames : f = [NoFrame EXCEPT !.me = k] /\ f.me = k
    <3>1. [NoFrame EXCEPT !.me = k] = [name |-> NoName, id |-> -1, me |-> k, this |-> NoThread]
      BY SMTT(60) DEF NoFrame
    <3> QED
      BY SMTT(60), <2>3, <3>1 DEF Frames
  <2>5. frame' = [frame EXCEPT ![c] = f]
    BY <2>1, <2>2, <2>4
  <2>6. c # MainThread
    BY <1>2, <2>1 DEF Caller, GetCurrentThreadId, ThreadName
  <2>7. FrameOk(c)'
    BY <1>3, <2>1, <2>2, <2>3, <2>4, <2>5, <2>6 DEF FrameOk, JoinLabels
  <2>8. Joinsem(pcb[k]) \in Semaphore \ {Bmsem} /\ V(Joinsem(pcb[k]))
    BY <2>1, <2>2, <2>3
  <2> QED
    BY <1>1, <1>2, <1>3, <2>1, <2>5, <2>7, <2>8 DEF PlainStep, PlainLabels, JoinLabels
<1>11. ASSUME ExitWait
       PROVE  PlainStep(c, "remove")
  <2>1. /\ pc[c] = "exitWait" /\ P(Exitsem(pcb[frame[c].me]))
        /\ pc' = [pc EXCEPT ![c] = "remove"]
        /\ UNCHANGED <<pcb, bm, file, frame, outcome>>
    BY <1>2, <1>11 DEF ExitWait, At, Goto, table, heap, WaitForParent
  <2>2. pcb[frame[c].me] \in Thread
    BY <1>3, <2>1 DEF FrameOk
  <2>3. FrameOk(c)'
    BY <1>3, <2>1 DEF FrameOk, JoinLabels
  <2> QED
    BY <1>1, <1>2, <1>3, <2>1, <2>2, <2>3 DEF PlainStep, PlainLabels, JoinLabels
<1>12. CASE ExecNoName \/ JoinReturn \/ \E i \in Pid \cup {-1} : JoinRefused(i)
  <2>1. PICK x : Return(x)
    BY <1>12 DEF ExecNoName, JoinReturn, JoinRefused
  <2>2. UNCHANGED <<vars, pcb, bm, file, outcome>> /\ pc[c] \in {"user", "joinReturn"}
    BY <1>2, <1>12 DEF ExecNoName, JoinReturn, JoinRefused, At, table, heap
  <2>3. PlainStep(c, "user")
    BY <1>6, <2>1, <2>2
  <2> QED
    BY <2>3 DEF PlainLabels
<1>13. {"joinCount", "joinUncounted", "exitWait", "remove"} \subseteq PlainLabels
  BY DEF PlainLabels, JoinLabels
<1> QED
  BY <1>5, <1>7, <1>8, <1>9, <1>10, <1>11, <1>12, <1>13

(* Exec, up to the end of the P of bmsem. *)
LEMMA ExecAnyInv ==
  ASSUME AnyInv, NEW p \in Name, Exec(p)
  PROVE  AnyInv'
<1> USE DEF AnyInv
<1>1. PICK c \in Thread : c = currentThread /\ mode = "running" /\ pc[c] = "user"
  BY Running DEF Exec, At
<1>2. /\ P(Bmsem) /\ pc' = [pc EXCEPT ![c] = "exec"] /\ UNCHANGED <<pcb, bm, file, outcome>>
      /\ frame' = [frame EXCEPT ![c] = [NoFrame EXCEPT !.name = p]]
  BY <1>1 DEF Exec, LockTable, Enter, Goto, SetFrame, table, heap
<1>3. PICK f \in Frames : f = [NoFrame EXCEPT !.name = p] /\ f.name = p
  <2>1. [NoFrame EXCEPT !.name = p] = [name |-> p, id |-> -1, me |-> -1, this |-> NoThread]
    BY SMTT(60) DEF NoFrame
  <2> QED
    BY SMTT(60), <2>1 DEF Frames
<1>4. IInv' /\ StatusKept
  BY <1>2, CallIInv, CallStatus, SemaphoresDiffer
<1>5. /\ pc'[c] = "exec" /\ \A t \in Thread : t # c => pc'[t] = pc[t]
      /\ frame' \in [Thread -> Frames] /\ frame'[c] = f
      /\ \A t \in Thread : t # c => frame'[t] = frame[t]
  BY <1>2, <1>3 DEF TypesInv
<1>6. FrameOk(c)'
  BY <1>3, <1>5 DEF FrameOk, JoinLabels
<1>7. "exec" \in Labels
  BY DEF Labels, ExecLabels
<1>8. TypesInv' /\ StatusInv' /\ (\A t \in Thread : FrameOk(t))' /\ HalfMade' /\ MainInv' /\ PidInv'
  BY <1>1, <1>2, <1>4, <1>5, <1>6, <1>7, MoveInv
<1>9. BmsemInv'
  <2>1. /\ value \in [Semaphore -> Int]
        /\ waitingOn \in [Thread -> Semaphore \cup {NoSemaphore}]
    BY DEF IInv, TypeOK
  <2>2. ~InExec(c)
    BY <1>1 DEF InExec
  <2>3. CASE value[Bmsem] = 0
    <3>1. UNCHANGED value /\ waitingOn' = [waitingOn EXCEPT ![c] = Bmsem]
      BY <1>1, <1>2, <2>3, PUnits, SemaphoresDiffer
    <3>2. ~InExec(c)' /\ \A t \in Thread : t # c => (InExec(t)' <=> InExec(t))
      BY <1>5, <2>1, <3>1 DEF InExec
    <3> QED
      BY <1>5, <2>1, <2>2, <2>3, <3>1, <3>2 DEF BmsemInv
  <2>4. CASE value[Bmsem] # 0
    <3>1. /\ value' = [value EXCEPT ![Bmsem] = @ - 1] /\ UNCHANGED waitingOn
          /\ waitingOn[c] = NoSemaphore
      BY <1>1, <1>2, <2>4, PUnits, SemaphoresDiffer
    <3>2. InExec(c)' /\ \A t \in Thread : t # c => (InExec(t)' <=> InExec(t))
      BY <1>5, <3>1, SemaphoresDiffer DEF InExec
    <3>3. value'[Bmsem] = 0 /\ \A t \in Thread : ~InExec(t)
      BY SMTT(60), <2>1, <2>4, <3>1, SemaphoresDiffer DEF BmsemInv
    <3> QED
      BY <1>5, <3>1, <3>2, <3>3 DEF BmsemInv
  <2> QED
    BY <2>3, <2>4
<1> QED
  BY <1>4, <1>8, <1>9

(* The thread that runs inside of ExecUpdate is the only one there. *)
LEMMA OneInExec ==
  ASSUME AnyInv, mode = "running", pc[currentThread] \in ExecLabels
  PROVE  /\ value[Bmsem] = 0
         /\ \A t \in Thread : InExec(t) <=> t = currentThread
         /\ \A t \in Thread : pc[t] = "execFork" => t = currentThread
<1>1. InExec(currentThread)
  BY Running, SemaphoresDiffer DEF InExec, ExecLabels
<1> QED
  BY <1>1, Running DEF AnyInv, BmsemInv, InExec

(* Every way out of ExecUpdate. *)
LEMMA ExecLeave ==
  ASSUME AnyInv, NEW c \in Thread, c = currentThread, mode = "running",
         pc[c] \in {"exec", "execDone"}, V(Bmsem), NEW x, Return(x),
         UNCHANGED <<pcb, bm, file, outcome>>
  PROVE  AnyInv'
<1> USE DEF AnyInv
<1>1. pc' = [pc EXCEPT ![c] = "user"] /\ frame' = [frame EXCEPT ![c] = NoFrame]
  BY DEF Return, Goto, SetFrame
<1>2. IInv' /\ StatusKept
  BY CallIInv, CallStatus, SemaphoresDiffer
<1>3. /\ pc'[c] = "user" /\ \A t \in Thread : t # c => pc'[t] = pc[t]
      /\ frame' \in [Thread -> Frames]
      /\ \A t \in Thread : t # c => frame'[t] = frame[t]
  BY SMTT(60), <1>1 DEF TypesInv, Frames, NoFrame
<1>4. FrameOk(c)'
  BY <1>3 DEF FrameOk, JoinLabels
<1>5. "user" \in Labels
  BY DEF Labels, PlainLabels
<1>6. TypesInv' /\ StatusInv' /\ (\A t \in Thread : FrameOk(t))' /\ HalfMade' /\ MainInv' /\ PidInv'
  BY <1>1, <1>2, <1>3, <1>4, <1>5, MoveInv
<1>7. BmsemInv'
  <2>1. /\ value[Bmsem] = 0 /\ \A t \in Thread : InExec(t) <=> t = c
    BY OneInExec DEF ExecLabels
  <2>2. UNCHANGED waitingOn /\ waitingOn[c] = NoSemaphore /\ value'[Bmsem] = 1
    BY SMTT(60), <2>1, VUnits, SemaphoresDiffer DEF IInv, TypeOK
  <2>3. \A t \in Thread : ~InExec(t)'
    BY <1>3, <2>1, <2>2 DEF InExec
  <2> QED
    BY <1>3, <2>2, <2>3, SemaphoresDiffer DEF BmsemInv
<1> QED
  BY <1>2, <1>6, <1>7

(* PCB::Exec gives its mutex back. *)
LEMMA ExecUnlockAnyInv ==
  ASSUME AnyInv, ExecUnlock
  PROVE  AnyInv'
<1> USE DEF AnyInv
<1>1. PICK c \in Thread : c = currentThread /\ mode = "running" /\ pc[c] = "execUnlock"
  BY Running DEF ExecUnlock, At
<1>2. /\ V(Mutex(frame[c].this)) /\ pc' = [pc EXCEPT ![c] = "execDone"]
      /\ UNCHANGED <<pcb, bm, file, frame, outcome>>
  BY <1>1 DEF ExecUnlock, Goto, table, heap
<1>3. frame[c].this \in Thread
  BY <1>1 DEF FrameOk
<1>4. /\ IInv' /\ StatusKept
      /\ value'[Bmsem] = value[Bmsem]
      /\ \A t \in Thread : waitingOn'[t] = Bmsem <=> waitingOn[t] = Bmsem
  BY <1>2, <1>3, OtherCall, SemaphoresDiffer
<1>5. pc'[c] = "execDone" /\ \A t \in Thread : t # c => pc'[t] = pc[t]
  BY <1>2 DEF TypesInv
<1>6. FrameOk(c)' /\ frame' \in [Thread -> Frames]
  BY <1>2, <1>5 DEF FrameOk, JoinLabels, TypesInv
<1>7. "execDone" \in Labels
  BY DEF Labels, ExecLabels
<1>8. TypesInv' /\ StatusInv' /\ (\A t \in Thread : FrameOk(t))' /\ HalfMade' /\ MainInv' /\ PidInv'
  BY <1>1, <1>2, <1>4, <1>6, <1>7, MoveInv
<1>9. BmsemInv'
  <2>1. \A t \in Thread : InExec(t)' <=> InExec(t)
    BY <1>1, <1>4, <1>5 DEF InExec
  <2> QED
    BY <1>1, <1>4, <1>5, <2>1 DEF BmsemInv
<1> QED
  BY <1>4, <1>8, <1>9

(* The slot GetFreeSlot finds: its bit is clear, and those before it are set. *)
LEMMA FreeSlot ==
  ASSUME bm \subseteq Pid, SlotFound
  PROVE  /\ GetFreeSlot \in Pid \ bm
         /\ \A j \in Pid : j < GetFreeSlot => j \in bm
<1>1. bm # Pid /\ GetFreeSlot = Min(Pid \ bm)
  BY DEF SlotFound, GetFreeSlot
<1>2. Pid \ bm \subseteq Nat /\ Pid \ bm # {}
  <2>1. Pid \subseteq Nat
    BY SMTT(60), ProcessAssumption DEF Pid
  <2> QED
    BY <1>1, <2>1
<1>3. PICK m \in Pid \ bm : \A y \in Pid \ bm : m <= y
  BY <1>2, SmallestExists
<1>4. GetFreeSlot \in Pid \ bm /\ \A y \in Pid \ bm : GetFreeSlot <= y
  BY <1>1, <1>3 DEF Min
<1> QED
  BY SMTT(60), <1>2, <1>4, ProcessAssumption DEF Pid

(* What ExecUpdate does to the table when it makes a PCB for x at pid g. *)
ExecCreates(c, x, g) ==
  /\ c = currentThread /\ mode = "running" /\ pc[c] = "exec"
  /\ P(Mutex(x)) /\ pc[x] = "none"
  /\ g \in Pid \ bm /\ \A j \in Pid : j < g => j \in bm
  /\ g # 0
  /\ \A j \in Pid : pcb[j] # x
  /\ bm' = bm \cup {g}
  /\ pcb' = [pcb EXCEPT ![g] = x]
  /\ frame' = [frame EXCEPT ![c] = [name |-> frame[c].name, id |-> g, me |-> -1, this |-> x]]
  /\ outstanding' = [outstanding EXCEPT ![c] = @ \cup {x}]
  /\ pc' = [pc EXCEPT ![c] = "execFork"]
  /\ UNCHANGED <<file, exitcode, exited, joining, outcome>>

LEMMA ExecCreateEffect ==
  ASSUME AnyInv, NEW x \in Thread, ExecCreate(x)
  PROVE  \E c \in Thread, g \in Pid : ExecCreates(c, x, g)
<1> USE DEF AnyInv
<1>1. PICK c \in Thread : c = currentThread /\ mode = "running" /\ pc[c] = "exec"
  BY Running DEF ExecCreate, At
<1>2. PICK g \in Pid \ bm : g = GetFreeSlot /\ \A j \in Pid : j < g => j \in bm
  BY FreeSlot DEF ExecCreate, TypesInv
<1>3. g # 0
  BY <1>2 DEF MainInv
<1>4. pc[x] = "none"
  BY DEF ExecCreate, StatusInv
<1>5. \A j \in Pid : pcb[j] # x
  <2> SUFFICES ASSUME NEW j \in Pid, pcb[j] = x PROVE FALSE
    OBVIOUS
  <2>1. PICK t \in Thread : pc[t] = "execFork"
    BY <1>4, ThreadAssumption DEF HalfMade
  <2> QED
    BY <1>1, <2>1, OneInExec DEF ExecLabels
<1> QED
  BY <1>1, <1>2, <1>3, <1>4, <1>5
     DEF ExecCreate, ExecCreates, FoundAndSet, SetFrame, Goto

LEMMA ExecCreateAnyInv ==
  ASSUME AnyInv, NEW x \in Thread, NEW c \in Thread, NEW g \in Pid, ExecCreates(c, x, g)
  PROVE  AnyInv'
<1>1. /\ IInv' /\ StatusKept
      /\ value'[Bmsem] = value[Bmsem]
      /\ \A t \in Thread : waitingOn'[t] = Bmsem <=> waitingOn[t] = Bmsem
  BY OtherCall, SemaphoresDiffer DEF AnyInv, ExecCreates
<1>2. PICK f \in Frames : /\ f = [name |-> frame[c].name, id |-> g, me |-> -1, this |-> x]
                          /\ f.name = frame[c].name /\ f.id = g /\ f.this = x
  <2>1. frame[c].name \in Name /\ g \in Int
    BY SMTT(60) DEF FrameOk, Pid, AnyInv, ExecCreates
  <2>2. [name |-> frame[c].name, id |-> g, me |-> -1, this |-> x] \in Frames
    BY SMTT(60), <2>1 DEF Frames
  <2> QED
    BY <2>2
<1>3. /\ pc'[c] = "execFork" /\ \A t \in Thread : t # c => pc'[t] = pc[t]
      /\ frame'[c] = f /\ \A t \in Thread : t # c => frame'[t] = frame[t]
      /\ pcb'[g] = x /\ \A j \in Pid : j # g => pcb'[j] = pcb[j]
      /\ c # x /\ c = currentThread /\ mode = "running"
      /\ frame' \in [Thread -> Frames]
      /\ pcb' \in [Pid -> Thread \cup {NoThread}]
      /\ pc' \in [Thread -> Labels]
      /\ UNCHANGED <<file, outcome>> /\ outcome = "none"
      /\ pc[x] = "none" /\ pc[c] = "exec"
  BY <1>2, Running DEF TypesInv, Labels, ExecLabels, AnyInv, ExecCreates
<1>4. \A t \in Thread : pc[t] # "execFork"
  BY <1>3, OneInExec DEF ExecLabels
<1>5. TypesInv'
  BY <1>3 DEF TypesInv, AnyInv, ExecCreates
<1>6. StatusInv'
  <2>1. StatusInv /\ toBeDestroyed \in Thread \cup {NoThread} /\ currentThread \in Thread
    BY DEF AnyInv, IInv, TypeOK
  <2> QED
    BY SMTT(60), <1>1, <1>3, <2>1 DEF StatusInv, StatusKept
<1>7. BmsemInv'
  <2>1. \A t \in Thread : InExec(t)' <=> InExec(t)
    BY <1>1, <1>3, OneInExec, Running DEF InExec, ExecLabels
  <2> QED
    BY SMTT(60), <1>1, <1>3, <2>1, Running, SemaphoresDiffer DEF BmsemInv, AnyInv
<1>8. (\A t \in Thread : FrameOk(t))'
  <2>1. FrameOk(c)'
    BY <1>2, <1>3 DEF FrameOk, JoinLabels, AnyInv
  <2>2. \A t \in Thread : t # c => FrameOk(t)'
    BY SMTT(60), <1>3, ThreadAssumption DEF FrameOk, AnyInv
  <2> QED
    BY <2>1, <2>2
<1>9. HalfMade'
  <2>1. \A i \in Pid : pcb[i] # NoThread => pc[pcb[i]] # "none"
    BY <1>4 DEF HalfMade, AnyInv
  <2>2. \A j \in Pid : pcb'[j] = x <=> j = g
    BY <1>3 DEF ExecCreates
  <2>3. g \in bm' /\ g \in Pid \ {0}
    BY DEF ExecCreates
  <2> QED
    BY SMTT(60), <1>2, <1>3, <1>4, <2>1, <2>2, <2>3 DEF HalfMade, AnyInv, TypesInv
<1>10. MainInv'
  BY SMTT(60), <1>3, ThreadAssumption DEF MainInv, AnyInv, ExecCreates
<1>11. PidInv'
  <2> SUFFICES ASSUME NEW t \in Thread, Live(t)'
               PROVE  \E i \in bm' : \A j \in Pid : pcb'[j] = t <=> j = i
    BY DEF PidInv
  <2>1. Live(t) /\ t # x
    BY <1>3 DEF Live
  <2>2. PICK i \in bm : \A j \in Pid : pcb[j] = t <=> j = i
    BY <1>3, <2>1 DEF PidInv, AnyInv
  <2>3. i # g /\ i \in bm'
    BY DEF ExecCreates
  <2> QED
    BY <1>3, <2>1, <2>2, <2>3
<1> QED
  BY <1>1, <1>5, <1>6, <1>7, <1>8, <1>9, <1>10, <1>11 DEF AnyInv

(* What PCB::Exec does when it forks thread x. *)
ExecForks(c, x) ==
  /\ c = currentThread /\ mode = "running" /\ pc[c] = "execFork"
  /\ x = frame[c].this /\ pc[x] = "none"
  /\ Fork(x)
  /\ file' = [file EXCEPT ![x] = frame[c].name]
  /\ pc' = [pc EXCEPT ![c] = "execUnlock", ![x] = "load"]
  /\ UNCHANGED <<pcb, bm, frame, exitcode, exited, joining, outstanding, outcome>>

LEMMA ExecForkEffect ==
  ASSUME AnyInv, ExecFork
  PROVE  \E c, x \in Thread : ExecForks(c, x)
<1>1. PICK c \in Thread : c = currentThread /\ mode = "running" /\ pc[c] = "execFork"
  BY Running DEF ExecFork, At
<1>2. PICK x \in Thread : x = frame[c].this /\ pc[x] = "none"
  BY <1>1 DEF AnyInv, HalfMade
<1> QED
  BY <1>1, <1>2 DEF ExecFork, ExecForks, table, history

LEMMA ExecForkAnyInv ==
  ASSUME AnyInv, NEW c \in Thread, NEW x \in Thread, ExecForks(c, x)
  PROVE  AnyInv'
<1>1. IInv'
  BY CallIInv DEF AnyInv, ExecForks
<1>2. /\ pc'[c] = "execUnlock" /\ pc'[x] = "load" /\ c # x
      /\ \A t \in Thread : t \notin {c, x} => pc'[t] = pc[t]
      /\ file'[x] \in Name /\ \A t \in Thread : t # x => file'[t] = file[t]
      /\ UNCHANGED <<pcb, bm, frame, outcome, value, waitingOn, mode, currentThread, toBeDestroyed>>
      /\ pc[x] = "none" /\ pc[c] = "execFork" /\ x = frame[c].this
      /\ outcome = "none"
    BY Running DEF AnyInv, TypesInv, FrameOk, ExecForks, Fork
<1>3. \A t \in Thread : pc[t] = "execFork" => t = c
  BY <1>2, OneInExec DEF ExecLabels, ExecForks
<1>4. TypesInv'
  BY <1>2 DEF AnyInv, TypesInv, ExecForks, Labels, ExecLabels, PlainLabels
<1>5. StatusInv'
  <2>1. /\ status'[x] = "READY" /\ \A t \in Thread : t # x => status'[t] = status[t]
        /\ toBeDestroyed \in Thread \cup {NoThread} /\ currentThread \in Thread /\ mode = "running"
    BY DEF ExecForks, Fork, ReadyToRun, AnyInv, IInv, TypeOK
  <2>2. NoName \notin Name
    BY ProcessAssumption
  <2> QED
    BY SMTT(60), <1>2, <2>1, <2>2 DEF AnyInv, StatusInv
<1>6. BmsemInv'
  <2>1. \A t \in Thread : InExec(t)' <=> InExec(t)
    BY <1>2 DEF InExec
  <2>2. BmsemInv /\ value' = value /\ waitingOn' = waitingOn
    BY <1>2 DEF AnyInv
  <2>3. ASSUME NEW t \in Thread, waitingOn'[t] = Bmsem PROVE pc'[t] = "exec"
    <3>1. pc[t] = "exec"
      BY <2>2, <2>3 DEF BmsemInv
    <3>2. t \notin {c, x}
      BY <1>2, <3>1
    <3> QED
      BY <1>2, <3>1, <3>2
  <2>4. CASE value[Bmsem] = 1 /\ \A t \in Thread : ~InExec(t)
    BY <2>1, <2>2, <2>3, <2>4 DEF BmsemInv
  <2>5. CASE value[Bmsem] = 0 /\ \E o \in Thread : \A t \in Thread : InExec(t) <=> t = o
    <3>1. PICK o \in Thread : \A t \in Thread : InExec(t) <=> t = o
      BY <2>5
    <3>2. \A t \in Thread : InExec(t)' <=> t = o
      BY <2>1, <3>1
    <3> QED
      BY <2>2, <2>3, <2>5, <3>2 DEF BmsemInv
  <2> QED
    BY <2>2, <2>4, <2>5 DEF BmsemInv
<1>7. (\A t \in Thread : FrameOk(t))'
  BY <1>2 DEF AnyInv, FrameOk, JoinLabels
<1>8. HalfMade'
  BY SMTT(60), <1>2, <1>3 DEF AnyInv, HalfMade, TypesInv
<1>9. MainInv'
  BY <1>2, ThreadAssumption DEF AnyInv, MainInv
<1>10. PidInv'
  BY SMTT(60), <1>2 DEF AnyInv, PidInv, HalfMade, Live
<1> QED
  BY <1>1, <1>4, <1>5, <1>6, <1>7, <1>8, <1>9, <1>10 DEF AnyInv

(***************************************************************************)
(* Remove: the thread goes with its own pid or with one whose process is   *)
(* gone, or the machine stops at the ASSERT of Finish.                     *)
(***************************************************************************)
LEMMA RemoveAnyInv ==
  ASSUME AnyInv, Remove
  PROVE  AnyInv'
<1>1. PICK c \in Thread : c = currentThread /\ mode = "running" /\ pc[c] = "remove"
  BY Running DEF Remove, At
<1>2. PICK m \in Pid \ {0} : m = frame[c].me /\ pcb[m] \in Thread /\ c # MainThread
  BY <1>1 DEF AnyInv, TypesInv, FrameOk
<1>3. bm' = bm \ {m} /\ UNCHANGED <<pcb, file>> /\ outcome = "none"
  BY <1>1, <1>2, Running DEF Remove, heap
<1>4. CASE Halt /\ outcome' = "assertion" /\ UNCHANGED <<pc, frame>>
  <2>1. IInv' /\ StatusKept
    BY <1>4, CallIInv, CallStatus DEF AnyInv
  <2>2. UNCHANGED <<value, waitingOn>> /\ mode' = "halted"
    BY <1>4 DEF Halt
  <2>3. TypesInv' /\ HalfMade' /\ MainInv' /\ PidInv' /\ (\A t \in Thread : FrameOk(t))' /\ BmsemInv'
    BY SMTT(60), <1>2, <1>3, <1>4, <2>2
       DEF AnyInv, TypesInv, HalfMade, MainInv, PidInv, FrameOk, BmsemInv, InExec
  <2>4. StatusInv'
    BY <1>3, <1>4, <2>1, <2>2 DEF AnyInv, StatusInv, StatusKept, IInv, TypeOK
  <2> QED
    BY <2>1, <2>3, <2>4 DEF AnyInv
<1>5. CASE /\ pcb[m] = c \/ status[pcb[m]] = "DELETED"
           /\ Finish /\ pc' = [pc EXCEPT ![c] = "gone"]
           /\ frame' = [frame EXCEPT ![c] = NoFrame] /\ UNCHANGED outcome
  <2>1. IInv'
    BY <1>5, CallIInv DEF AnyInv
  <2>2. /\ pc'[c] = "gone" /\ \A t \in Thread : t # c => pc'[t] = pc[t]
        /\ frame' \in [Thread -> Frames] /\ \A t \in Thread : t # c => frame'[t] = frame[t]
        /\ pc' \in [Thread -> Labels]
        /\ UNCHANGED <<value, waitingOn, currentThread, toBeDestroyed, outcome>>
    BY SMTT(60), <1>5 DEF AnyInv, TypesInv, Frames, NoFrame, Labels, Finish
  <2>3. TypesInv'
    BY <1>3, <2>2 DEF AnyInv, TypesInv
  <2>4. StatusInv'
    <3>1. /\ status'[c] = "BLOCKED" /\ \A t \in Thread : t # c => status'[t] = status[t]
          /\ toBeDestroyed = NoThread /\ status[c] = "RUNNING"
      BY <1>1, <1>5 DEF Finish, AnyInv, IInv, TypeOK, SafeDestruction, Placement
    <3> QED
      BY <1>1, <1>3, <2>2, <3>1 DEF AnyInv, StatusInv
  <2>5. BmsemInv'
    <3>1. \A t \in Thread : InExec(t)' <=> InExec(t)
      BY <1>1, <2>2 DEF InExec
    <3> QED
      BY <1>1, <2>2, <3>1 DEF AnyInv, BmsemInv
  <2>6. (\A t \in Thread : FrameOk(t))'
    BY <1>3, <2>2 DEF AnyInv, FrameOk, JoinLabels
  <2>7. pc'[pcb[m]] = "gone" /\ pc[pcb[m]] \in {"remove", "gone"}
    BY <1>1, <1>2, <1>5, <2>2 DEF AnyInv, StatusInv
  <2>8. HalfMade'
    BY SMTT(60), <1>1, <1>3, <2>2, <2>7 DEF AnyInv, HalfMade, TypesInv
  <2>9. MainInv'
    BY <1>2, <1>3, <2>2, ThreadAssumption DEF AnyInv, MainInv
  <2>10. PidInv'
    <3> SUFFICES ASSUME NEW t \in Thread, Live(t)'
                 PROVE  \E i \in bm' : \A j \in Pid : pcb'[j] = t <=> j = i
      BY DEF PidInv
    <3>1. Live(t) /\ t # pcb[m]
      BY <1>1, <2>2, <2>7 DEF Live
    <3>2. PICK i \in bm : \A j \in Pid : pcb[j] = t <=> j = i
      BY <1>3, <3>1 DEF PidInv, AnyInv
    <3> QED
      BY SMTT(60), <1>3, <3>1, <3>2
  <2> QED
    BY <2>1, <2>3, <2>4, <2>5, <2>6, <2>8, <2>9, <2>10 DEF AnyInv
<1> QED
  BY <1>1, <1>2, <1>4, <1>5 DEF Remove, Goto, SetFrame

(* Every step preserves the invariant, however programs use the calls. *)
LEMMA AnyStep ==
  ASSUME AnyInv, [PNext]_allvars
  PROVE  AnyInv'
<1>1. CASE \/ Load \/ Allocate \/ ExecNoName
           \/ \E i \in Pid \cup {-1} : Join(i) \/ JoinRefused(i)
           \/ JoinCount \/ JoinWait \/ JoinUncount \/ JoinRelease \/ JoinReturn
           \/ \E x \in ExitCode : Exit(x)
           \/ ExitWait
  BY <1>1, PlainSteps, PlainAnyInv
<1>2. CASE LoadFailed \/ ExitMain \/ CallFaults \/ UserException
  BY <1>2, StopAnyInv DEF LoadFailed, ExitMain, CallFaults, UserException
<1>3. CASE \E p \in Name : Exec(p)
  BY <1>3, ExecAnyInv
<1>4. CASE ExecRefused \/ ExecDone
  <2>1. PICK c \in Thread : c = currentThread /\ mode = "running" /\ pc[c] \in {"exec", "execDone"}
    BY <1>4, Running DEF ExecRefused, ExecDone, At
  <2>2. PICK x : Return(x)
    BY <1>4 DEF ExecRefused, ExecDone
  <2>3. V(Bmsem) /\ UNCHANGED <<pcb, bm, file, outcome>>
    BY <1>4 DEF ExecRefused, ExecDone, table, heap
  <2> QED
    BY <2>1, <2>2, <2>3, ExecLeave
<1>5. CASE \E x \in Thread : ExecCreate(x)
  BY <1>5, ExecCreateEffect, ExecCreateAnyInv
<1>6. CASE ExecFork
  BY <1>6, ExecForkEffect, ExecForkAnyInv
<1>7. CASE ExecUnlock
  BY <1>7, ExecUnlockAnyInv
<1>8. CASE Remove
  BY <1>8, RemoveAnyInv
<1>9. CASE Kernel(KernelNext)
  BY <1>9, KernelAnyInv
<1>10. CASE UNCHANGED allvars
  <2>1. UNCHANGED <<status, readyList, currentThread, toBeDestroyed, value, queue, waitingOn,
                    mode, pcb, bm, file, pc, frame, outcome>>
    BY <1>10 DEF allvars, vars, pvars, table, heap
  <2>2. IInv'
    BY SMTT(60), <2>1 DEF AnyInv, IInv, TypeOK, Placement, SafeDestruction, ModeInv
  <2>3. TypesInv' /\ StatusInv' /\ MainInv'
    BY <2>1 DEF AnyInv, TypesInv, StatusInv, MainInv
  <2>4. BmsemInv'
    BY <2>1 DEF AnyInv, BmsemInv, InExec
  <2>5. (\A t \in Thread : FrameOk(t))'
    BY <2>1 DEF AnyInv, FrameOk
  <2>6. HalfMade'
    BY <2>1 DEF AnyInv, HalfMade
  <2>7. PidInv'
    <3>1. \A t \in Thread : Live(t)' <=> Live(t)
      BY <2>1 DEF Live
    <3>2. PidInv /\ outcome' = outcome /\ bm' = bm /\ pcb' = pcb
      BY <2>1 DEF AnyInv
    <3> QED
      BY <3>1, <3>2 DEF PidInv
  <2> QED
    BY <2>2, <2>3, <2>4, <2>5, <2>6, <2>7 DEF AnyInv
<1> QED
  BY <1>1, <1>2, <1>3, <1>4, <1>5, <1>6, <1>7, <1>8, <1>9, <1>10
     DEF PNext, SystemCall, InKernel

(* The invariant of the process table, however programs use the calls. *)
THEOREM ProcessTableInvariant == PSpec => []AnyInv
<1>1. PInit => AnyInv
  BY InitAnyInv
<1>2. AnyInv /\ [PNext]_allvars => AnyInv'
  BY AnyStep
<1> QED
  BY <1>1, <1>2, PTL DEF PSpec

(***************************************************************************)
(* SpaceId: every process that runs has exactly one pid, which is marked   *)
(* in bm, until the machine stops at an ASSERT.                            *)
(***************************************************************************)
THEOREM SpaceIdsAlwaysUnique == PSpec => []UniqueSpaceIds
<1>1. AnyInv => UniqueSpaceIds
  <2> SUFFICES ASSUME AnyInv, outcome # "assertion", NEW t \in Thread, Live(t)
               PROVE  \E i \in bm : {j \in Pid : pcb[j] = t} = {i}
    BY DEF UniqueSpaceIds
  <2>1. PICK i \in bm : \A j \in Pid : pcb[j] = t <=> j = i
    BY DEF AnyInv, PidInv
  <2>2. i \in Pid
    BY DEF AnyInv, TypesInv
  <2>3. {j \in Pid : pcb[j] = t} = {i}
    BY <2>1, <2>2
  <2> QED
    BY <2>1, <2>3
<1> QED
  BY <1>1, ProcessTableInvariant, PTL

(***************************************************************************)
(* bmsem: at most one thread is inside ExecUpdate, every path out of it    *)
(* gives the unit back, and the search for the caller made there meets no  *)
(* PCB that is half made.                                                  *)
(***************************************************************************)
THEOREM ExecAlwaysExclusive == PSpec => []ExecExclusive
<1>1. AnyInv => ExecExclusive
  <2> SUFFICES ASSUME AnyInv PROVE ExecExclusive
    OBVIOUS
  <2>1. \/ value[Bmsem] = 1 /\ {t \in Thread : InExec(t)} = {}
        \/ value[Bmsem] = 0 /\ \E o \in Thread : {t \in Thread : InExec(t)} = {o}
    <3>1. CASE value[Bmsem] = 1 /\ \A t \in Thread : ~InExec(t)
      BY <3>1
    <3>2. CASE value[Bmsem] = 0 /\ \E o \in Thread : \A t \in Thread : InExec(t) <=> t = o
      BY <3>2
    <3> QED
      BY <3>1, <3>2 DEF AnyInv, BmsemInv
  <2>2. ASSUME At("exec") PROVE ~CallerFaults
    <3>1. PICK c \in Thread : c = currentThread /\ pc[c] = "exec" /\ mode = "running"
      BY <2>2, Running DEF At
    <3>2. \A i \in Pid : pcb[i] # NoThread => pcb[i] \in Thread /\ file[pcb[i]] # NoName
      <4>1. \A t \in Thread : pc[t] # "execFork"
        BY <3>1, OneInExec DEF ExecLabels
      <4>2. \A i \in Pid : pcb[i] # NoThread => pcb[i] \in Thread /\ pc[pcb[i]] # "none"
        BY <4>1 DEF AnyInv, HalfMade, TypesInv
      <4> QED
        BY <4>2 DEF AnyInv, StatusInv
    <3>3. ~ScanFaults(c)
      BY <3>2 DEF ScanFaults, IsExist
    <3>4. IsExist(GetCurrentThreadId(c))
      <4>1. 0 \in Pid /\ pcb[0] = MainThread /\ Pid \subseteq Nat
        BY SMTT(60), ProcessAssumption DEF AnyInv, MainInv, Pid
      <4>2. CASE ThreadName(c) = MainName
        BY <4>1, <4>2, ThreadAssumption DEF IsExist, GetCurrentThreadId
      <4>3. CASE ThreadName(c) # MainName
        <5>1. outcome = "none" /\ Live(c)
          BY <3>1, Running DEF Live
        <5>2. PICK i \in Pid : pcb[i] = c
          BY <5>1 DEF AnyInv, PidInv, TypesInv
        <5>3. c # MainThread
          BY <4>3 DEF ThreadName
        <5>4. i \in Matches(c)
          BY <4>1, <5>2, <5>3, ThreadAssumption DEF Matches, ThreadName, IsExist
        <5>5. Matches(c) \subseteq Nat
          BY <4>1 DEF Matches
        <5>6. Min(Matches(c)) \in Matches(c)
          BY <5>4, <5>5, SmallestExists DEF Min
        <5>7. GetCurrentThreadId(c) = Min(Matches(c))
          BY <4>3, <5>4 DEF GetCurrentThreadId
        <5> QED
          BY <5>6, <5>7 DEF Matches
      <4> QED
        BY <4>2, <4>3
    <3> QED
      BY <3>1, <3>3, <3>4 DEF CallerFaults, Caller
  <2> QED
    BY <2>1, <2>2 DEF ExecExclusive
<1> QED
  BY <1>1, ProcessTableInvariant, PTL

=============================================================================
