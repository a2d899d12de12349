---------------------------- MODULE ProcessTable ----------------------------
(***************************************************************************)
(* Processes on top of the kernel threads: threads/ptable.cc,              *)
(* threads/pcb.cc, the physical pages of userprog/addrspace.cc and the     *)
(* Exec, Join, Exit and Halt system calls of userprog/ksyscall.h.          *)
(*                                                                         *)
(* A PCB is named by the thread it is made for.  Every action is a stretch *)
(* of kernel code that ends in a call of module Threads; the thread goes   *)
(* on from pc[t] when it runs again after the tick of that call.           *)
(***************************************************************************)
EXTENDS Threads, FiniteSetsExt

CONSTANTS
  Name,          \* the strings a program passes to Exec
  Program,       \* those of them that are files FileSystem::Open can open
  MainProgram,   \* the program of the command line option -x
  MainName,      \* the string "main", the name of the first thread
  NoName,        \* the NULL of a char pointer
  MAX_PROCESS,
  NumPhysPages,
  Pages,         \* the pages AddrSpace::Load needs for each program
  ExitCode,      \* the values programs pass to Exit
  UniqueNames,   \* usage: no program is started while a namesake has not finished
  Usages         \* the values of nested to consider

(* PTable::bmsem, Kernel::addrLock, and the three semaphores of each PCB. *)
Bmsem == <<"bmsem", MainThread>>
AddrLock == <<"addrLock", MainThread>>
Joinsem(t) == <<"joinsem", t>>
Exitsem(t) == <<"exitsem", t>>
Mutex(t) == <<"mutex", t>>
ProcessSemaphores ==
  {Bmsem, AddrLock} \cup ({"joinsem", "exitsem", "mutex"} \X Thread)
SemaphoreInit ==
  [s \in ProcessSemaphores |-> IF s[1] \in {"joinsem", "exitsem"} THEN 0 ELSE 1]

Pid == 0 .. MAX_PROCESS - 1

ASSUME ProcessAssumption ==
  /\ Semaphore = ProcessSemaphores
  /\ InitialValue = SemaphoreInit
  /\ IntSemaphore = {}  \* device handlers signal semaphores of the kernel only
  /\ MAX_PROCESS \in Nat \ {0}
  /\ NoName \notin Name \cup {MainProgram, MainName}
  /\ Program \subseteq Name
  /\ NumPhysPages \in Nat
  /\ Pages \in [Program \cup {MainProgram} -> Nat]
  /\ ExitCode \subseteq Int
  /\ UniqueNames \in BOOLEAN
  /\ Usages \subseteq BOOLEAN

VARIABLES
  pcb,          \* PTable::pcb
  bm,           \* PTable::bm, the pids marked as used
  psize,        \* PTable::psize
  parentID,     \* PCB::parentID
  file,         \* PCB::_file
  exitcode,     \* PCB::exitcode
  clear,        \* the number of clear bits of Kernel::gPhysPageBitMap
  pc,           \* where each thread is: the label of its next step
  frame,        \* the locals of the system call each thread is in
  result,       \* register 2: what the last system call returned
  exited,       \* history: the status each process has passed to Exit
  joining,      \* history: the process whose exit a thread waits for in Join
  outstanding,  \* history: the children each thread has not joined yet
  outcome,      \* how the machine stopped
  nested        \* usage: a child is joined before the next Exec and before Exit

table == <<pcb, bm, psize>>
heap == <<parentID, file, exitcode>>
history == <<exited, joining, outstanding>>
pvars == <<table, heap, clear, pc, frame, result, history, outcome, nested>>
allvars == <<vars, pvars>>

Outcomes == {"none", "halt", "assertion", "null pointer"}

NoFrame == [name |-> NoName, id |-> -1, me |-> -1, this |-> NoThread]

(* Mutant: LoadMainThread forgets bm->Mark(0). *)
NoPidMarked == {}

(* The pid LoadMainThread marks. *)
MainPidMarked == {0}

(* Kernel::Initialize, then LoadMainThread in main(), before AddrSpace::Load. *)
LoadMainThread ==
  /\ pcb = [i \in Pid |-> IF i = 0 THEN MainThread ELSE NoThread]
  /\ bm = MainPidMarked
  /\ psize = 1
  /\ file = [t \in Thread |-> IF t = MainThread THEN MainProgram ELSE NoName]
  /\ pc = [t \in Thread |-> IF t = MainThread THEN "load" ELSE "none"]

PInit ==
  /\ Init
  /\ LoadMainThread
  /\ parentID = [t \in Thread |-> -1]
  /\ exitcode = [t \in Thread |-> 0]
  /\ clear = NumPhysPages
  /\ frame = [t \in Thread |-> NoFrame]
  /\ result = [t \in Thread |-> 0]
  /\ exited = [t \in Thread |-> NoName]
  /\ joining = [t \in Thread |-> NoThread]
  /\ outstanding = [t \in Thread |-> {}]
  /\ outcome = "none"
  /\ nested \in Usages

-----------------------------------------------------------------------------
IsExist(i) == i \in Pid /\ pcb[i] # NoThread

(* Thread::getName: the thread of a PCB shares the string _file. *)
ThreadName(t) == IF t = MainThread THEN MainName ELSE file[t]

(* The pids at which the scan of GetCurrentThreadId can stop. *)
Matches(t) == {i \in Pid \ {0} : IsExist(i) /\ file[pcb[i]] = ThreadName(t)}

(* PTable::GetCurrentThreadId, called by t. *)
GetCurrentThreadId(t) ==
  IF ThreadName(t) = MainName THEN 0
  ELSE IF Matches(t) = {} THEN -1 ELSE Min(Matches(t))

(* The scan reaches a PCB whose _file is still NULL, and strcmp reads it. *)
ScanFaults(t) ==
  /\ ThreadName(t) # MainName
  /\ \E i \in Pid \ {0} :
       /\ IsExist(i) /\ file[pcb[i]] = NoName
       /\ \A j \in Matches(t) : i < j

(* The running thread is at label l. *)
At(l) == mode = "running" /\ pc[currentThread] = l

Goto(l) == pc' = [pc EXCEPT ![currentThread] = l]

SetFrame(f) == frame' = [frame EXCEPT ![currentThread] = f]

(* A system call starts: register 2 holds its number, here 0. *)
Enter(l, f) ==
  /\ Goto(l)
  /\ SetFrame(f)
  /\ result' = [result EXCEPT ![currentThread] = 0]

(* Back to user mode with x in register 2. *)
Return(x) ==
  /\ Goto("user")
  /\ result' = [result EXCEPT ![currentThread] = x]
  /\ SetFrame(NoFrame)

(* The machine stops: Interrupt::Halt, a failed ASSERT, or a bad pointer. *)
Stop(why) ==
  /\ Halt
  /\ outcome' = why
  /\ UNCHANGED <<table, heap, clear, pc, frame, result, history>>

-----------------------------------------------------------------------------
(* AddrSpace::Load, up to the P of addrLock; RunProcess or main() called it. *)
Load ==
  /\ At("load")
  /\ P(AddrLock)
  /\ Goto("allocate")
  /\ UNCHANGED <<table, heap, clear, frame, result, history, outcome>>

(* The test of NumClear() in Load. *)
Enough(needed) == clear >= needed

(* The rest of Load: the page table is filled if enough pages are clear. *)
Allocate ==
  LET needed == Pages[file[currentThread]] IN
  /\ At("allocate")
  /\ V(AddrLock)
  /\ \/ ~Enough(needed) /\ Goto("noMemory") /\ UNCHANGED clear
     \/ Enough(needed) /\ Goto("user") /\ clear' = clear - needed
  /\ UNCHANGED <<table, heap, frame, result, history, outcome>>

(* Load returned FALSE: main() halts, RunProcess runs into ASSERTNOTREACHED. *)
LoadFailed ==
  /\ At("noMemory")
  /\ Stop(IF currentThread = MainThread THEN "halt" ELSE "assertion")

(* A program that started and whose thread has not been finished. *)
Live(t) == pc[t] \notin {"none", "gone"}

(* A thread or a pending Exec has this name. *)
InUse(p) ==
  \/ p = MainName
  \/ \E t \in Thread : Live(t) /\ (file[t] = p \/ frame[t].name = p)

(* Bound: an Exec is only started while a thread object is left for it. *)
ThreadLeft ==
  Cardinality({t \in Thread : pc[t] \in {"exec", "execFork"}})
    < Cardinality({t \in Thread : status[t] = "JUST_CREATED"})

(* Mutant: ExecUpdate does not lock the table. *)
TableUnlocked == mode = "running" /\ UNCHANGED vars

LockTable == P(Bmsem)

(* SysExec, and ExecUpdate up to the P of bmsem. *)
Exec(p) ==
  /\ At("user")
  /\ ThreadLeft
  /\ UniqueNames => ~InUse(p)
  /\ nested => outstanding[currentThread] = {}
  /\ LockTable
  /\ Enter("exec", [NoFrame EXCEPT !.name = p])
  /\ UNCHANGED <<table, heap, clear, history, outcome>>

(* SysExec of the empty string. *)
ExecNoName ==
  /\ At("user")
  /\ Return(-1)
  /\ UNCHANGED <<vars, table, heap, clear, history, outcome>>

(* The process that calls ExecUpdate, as the table sees it. *)
Caller == GetCurrentThreadId(currentThread)

(* The scan of GetCurrentThreadId, or pcb[Caller]->..., goes wrong. *)
CallerFaults == ScanFaults(currentThread) \/ ~IsExist(Caller)

(* PTable::GetFreeSlot: Bitmap::FindAndSet takes the first clear bit. *)
GetFreeSlot == IF bm = Pid THEN -1 ELSE Min(Pid \ bm)

(* Mutant: the bit that was found is not set. *)
FoundNotSet == bm

(* What FindAndSet leaves in the bitmap. *)
FoundAndSet == bm \cup {GetFreeSlot}

SlotFound == GetFreeSlot # -1

(* ExecUpdate refuses: no such file, the caller's own program, or no free slot. *)
ExecRefused ==
  LET name == frame[currentThread].name IN
  /\ At("exec")
  /\ \/ name \notin Program
     \/ /\ ~CallerFaults
        /\ file[pcb[Caller]] = name \/ ~SlotFound
  /\ V(Bmsem)
  /\ Return(-1)
  /\ UNCHANGED <<table, heap, clear, history, outcome>>

(* ExecUpdate creates and publishes the PCB; PCB::Exec takes its mutex. *)
ExecCreate(c) ==
  LET name == frame[currentThread].name IN
  /\ At("exec")
  /\ name \in Program
  /\ ~CallerFaults
  /\ file[pcb[Caller]] # name
  /\ SlotFound
  /\ status[c] = "JUST_CREATED"
  /\ P(Mutex(c))
  /\ bm' = FoundAndSet
  /\ pcb' = [pcb EXCEPT ![GetFreeSlot] = c]
  /\ parentID' = [parentID EXCEPT ![c] = Caller]
  /\ SetFrame([name |-> name, id |-> GetFreeSlot, me |-> -1, this |-> c])
  /\ outstanding' = [outstanding EXCEPT ![currentThread] = @ \cup {c}]
  /\ Goto("execFork")
  /\ UNCHANGED <<psize, file, exitcode, clear, result, exited, joining, outcome>>

(* PCB::Exec names the PCB and forks its thread, which starts in RunProcess. *)
ExecFork ==
  LET c == frame[currentThread].this IN
  /\ At("execFork")
  /\ Fork(c)
  /\ file' = [file EXCEPT ![c] = frame[currentThread].name]
  /\ pc' = [pc EXCEPT ![currentThread] = "execUnlock", ![c] = "load"]
  /\ UNCHANGED <<table, parentID, exitcode, clear, frame, result, history, outcome>>

ExecUnlock ==
  /\ At("execUnlock")
  /\ V(Mutex(frame[currentThread].this))
  /\ Goto("execDone")
  /\ UNCHANGED <<table, heap, clear, frame, result, history, outcome>>

ExecDone ==
  /\ At("execDone")
  /\ V(Bmsem)
  /\ psize' = psize + 1
  /\ Return(frame[currentThread].id)
  /\ UNCHANGED <<pcb, bm, heap, clear, history, outcome>>

-----------------------------------------------------------------------------
(* JoinUpdate refuses: no such process, the caller itself, or not its child. *)
JoinRefused(i) ==
  /\ At("user")
  /\ ~ScanFaults(currentThread)
  /\ IsExist(i) => i = Caller \/ parentID[pcb[i]] # Caller
  /\ Return(-1)
  /\ UNCHANGED <<vars, table, heap, clear, history, outcome>>

(* JoinUpdate passes its checks and takes the mutex of the caller's PCB. *)
Join(i) ==
  /\ At("user")
  /\ ~CallerFaults
  /\ IsExist(i)
  /\ i # Caller
  /\ parentID[pcb[i]] = Caller
  /\ nested => pcb[i] \in outstanding[currentThread]
  /\ P(Mutex(pcb[Caller]))
  /\ Enter("joinCount", [name |-> NoName, id |-> i, me |-> Caller, this |-> pcb[Caller]])
  /\ joining' = [joining EXCEPT ![currentThread] = pcb[i]]
  /\ UNCHANGED <<table, heap, clear, exited, outstanding, outcome>>

(* ++numwait or --numwait, which nothing reads, and the V of the mutex. *)
JoinCount ==
  /\ \/ At("joinCount") /\ Goto("joinWait")
     \/ At("joinUncounted") /\ Goto("joinRelease")
  /\ V(Mutex(frame[currentThread].this))
  /\ UNCHANGED <<table, heap, clear, frame, result, history, outcome>>

(* PCB::JoinWait of the child. *)
JoinWait ==
  /\ At("joinWait")
  /\ P(Joinsem(pcb[frame[currentThread].id]))
  /\ Goto("joinUncount")
  /\ UNCHANGED <<table, heap, clear, frame, result, history, outcome>>

JoinUncount ==
  LET mine == pcb[frame[currentThread].me] IN
  /\ At("joinUncount")
  /\ P(Mutex(mine))
  /\ SetFrame([frame[currentThread] EXCEPT !.this = mine])
  /\ Goto("joinUncounted")
  /\ UNCHANGED <<table, heap, clear, result, history, outcome>>

(* PCB::ExitRelease: the child may go. *)
JoinRelease ==
  /\ At("joinRelease")
  /\ V(Exitsem(pcb[frame[currentThread].id]))
  /\ Goto("joinReturn")
  /\ outstanding' = [outstanding EXCEPT ![currentThread] = @ \ {joining[currentThread]}]
  /\ UNCHANGED <<table, heap, clear, frame, result, exited, joining, outcome>>

(* The exit code is read from the table after the tick of ExitRelease. *)
JoinReturn ==
  /\ At("joinReturn")
  /\ Return(exitcode[pcb[frame[currentThread].id]])
  /\ joining' = [joining EXCEPT ![currentThread] = NoThread]
  /\ UNCHANGED <<vars, table, heap, clear, exited, outstanding, outcome>>

-----------------------------------------------------------------------------
(* SysExit, and SC_Halt as SysExit(0), when the caller resolves to pid 0. *)
ExitMain ==
  /\ At("user")
  /\ nested => outstanding[currentThread] = {}
  /\ ~ScanFaults(currentThread)
  /\ Caller = 0
  /\ Stop("halt")

(* Mutant: Exit does not record its argument. *)
CodeNotSet(p, x) == UNCHANGED exitcode

SetExitCode(p, x) == exitcode' = [exitcode EXCEPT ![p] = x]

(* Mutant: Exit does not release the parent. *)
NotReleased(p) == mode = "running" /\ UNCHANGED vars

(* PCB::JoinRelease *)
ReleaseParent(p) == V(Joinsem(p))

(* SysExit of another process: the exit code, and PCB::JoinRelease. *)
Exit(x) ==
  /\ At("user")
  /\ nested => outstanding[currentThread] = {}
  /\ ~CallerFaults
  /\ Caller # 0
  /\ SetExitCode(pcb[Caller], x)
  /\ ReleaseParent(pcb[Caller])
  /\ exited' = [exited EXCEPT ![currentThread] = x]
  /\ Enter("exitWait", [NoFrame EXCEPT !.me = Caller])
  /\ UNCHANGED <<table, parentID, file, clear, joining, outstanding, outcome>>

(* JoinUpdate or ExitUpdate follows a NULL pointer. *)
CallFaults ==
  /\ At("user")
  /\ CallerFaults
  /\ Stop("null pointer")

(* Mutant: a process that exits does not wait for its parent. *)
NoWait(p) == mode = "running" /\ UNCHANGED vars

(* PCB::ExitWait *)
WaitForParent(p) == P(Exitsem(p))

ExitWait ==
  /\ At("exitWait")
  /\ WaitForParent(pcb[frame[currentThread].me])
  /\ Goto("remove")
  /\ UNCHANGED <<table, heap, clear, frame, result, history, outcome>>

(***************************************************************************)
(* PTable::Remove clears the bit and deletes the PCB, whose destructor     *)
(* calls Thread::Finish.  Finish does not return: pcb[pid] = NULL and      *)
(* psize-- are never reached.  Finish compares the thread of the PCB with  *)
(* the caller by address; the address of a deleted thread may have been    *)
(* given to the caller's, and then they are equal.                         *)
(***************************************************************************)
Remove ==
  LET me == frame[currentThread].me IN
  /\ At("remove")
  /\ bm' = bm \ {me}
  /\ \/ /\ pcb[me] = currentThread \/ status[pcb[me]] = "DELETED"
        /\ Finish
        /\ Goto("gone")
        /\ SetFrame(NoFrame)
        /\ UNCHANGED outcome
     \/ /\ pcb[me] # currentThread  \* ASSERT(this == kernel->currentThread)
        /\ Halt
        /\ outcome' = "assertion"
        /\ UNCHANGED <<pc, frame>>
  /\ UNCHANGED <<pcb, psize, heap, clear, result, history>>

(* ExceptionHandler on a page fault, an illegal instruction...: SysHalt. *)
UserException ==
  /\ At("user")
  /\ Stop("halt")

-----------------------------------------------------------------------------
(* The rest of a system call, or of RunProcess: what a thread does unasked. *)
InKernel ==
  \/ Load \/ Allocate \/ LoadFailed
  \/ ExecRefused \/ ExecFork \/ ExecUnlock \/ ExecDone
  \/ \E c \in Thread : ExecCreate(c)
  \/ JoinCount \/ JoinWait \/ JoinUncount \/ JoinRelease \/ JoinReturn
  \/ ExitWait \/ Remove

(* What a program chooses to do. *)
SystemCall ==
  \/ \E p \in Name : Exec(p)
  \/ ExecNoName
  \/ \E i \in Pid \cup {-1} : Join(i) \/ JoinRefused(i)
  \/ \E x \in ExitCode : Exit(x)
  \/ ExitMain
  \/ CallFaults
  \/ UserException

Kernel(action) == action /\ UNCHANGED pvars

PNext ==
  \/ SystemCall /\ UNCHANGED nested
  \/ InKernel /\ UNCHANGED nested
  \/ Kernel(KernelNext)

(***************************************************************************)
(* The kernel's own fairness, and: a thread that is given the CPU executes *)
(* up to its next tick before the timer can take the CPU away, so a thread *)
(* that is scheduled again and again gets through its system call.         *)
(***************************************************************************)
PFairness ==
  /\ WF_allvars(Kernel(Yield))
  /\ WF_allvars(Kernel(Run))
  /\ WF_allvars(Kernel(CheckToBeDestroyed))
  /\ WF_allvars(Kernel(Resume))
  /\ \A t \in Thread : SF_allvars(currentThread = t /\ InKernel /\ UNCHANGED nested)

PSpec == PInit /\ [][PNext]_allvars /\ PFairness

-----------------------------------------------------------------------------
(* The thread that holds bmsem in ExecUpdate. *)
InExec(t) ==
  \/ pc[t] \in {"execFork", "execUnlock", "execDone"}
  \/ pc[t] = "exec" /\ waitingOn[t] # Bmsem

(***************************************************************************)
(* ptable.h on bmsem: "used to prevent the case of loading 2 processes at  *)
(* the same time".  At most one thread is inside ExecUpdate, and bmsem is  *)
(* free exactly when none is, on every path out of it; so the search for   *)
(* the caller in ExecUpdate never meets a PCB that is half made.           *)
(***************************************************************************)
ExecExclusive ==
  /\ \/ value[Bmsem] = 1 /\ {t \in Thread : InExec(t)} = {}
     \/ value[Bmsem] = 0 /\ \E o \in Thread : {t \in Thread : InExec(t)} = {o}
  /\ At("exec") => ~CallerFaults

(***************************************************************************)
(* SpaceId is "a unique identifier for an executing user program": every   *)
(* process that runs has exactly one pid, and that pid is marked in bm.  A *)
(* process that clears the pid of another one that runs stops the machine  *)
(* at the ASSERT of Thread::Finish.                                        *)
(***************************************************************************)
UniqueSpaceIds ==
  outcome # "assertion" =>
    \A t \in Thread :
      Live(t) => \E i \in bm : {j \in Pid : pcb[j] = t} = {i}

(***************************************************************************)
(* GetCurrentThreadId "Return the current thread ID": although it searches *)
(* the table by name, finished processes included, a program that makes a  *)
(* system call is identified as itself, or the search runs into a PCB that *)
(* another thread is making (Join and Exit do not lock the table).         *)
(***************************************************************************)
CallerIsSelf ==
  At("user") /\ ~ScanFaults(currentThread) => ~CallerFaults /\ pcb[Caller] = currentThread

(***************************************************************************)
(* Join: "Only return once the user program "id" has finished.  Return the *)
(* exit status."  The value it returns is the one that process passed to   *)
(* Exit, although it is read after the process was allowed to go.          *)
(***************************************************************************)
JoinReturnsExitStatus ==
  [][\A t \in Thread :
       pc[t] = "joinReturn" /\ pc'[t] = "user" => result'[t] = exited[joining[t]]]_allvars

(***************************************************************************)
(* The child waits in ExitWait until "the parent process accept to exit    *)
(* the child process": no process is removed before its parent joined it,  *)
(* when every child is joined before the next Exec (else the pid of a      *)
(* finished parent may go to another process, which can join the child).   *)
(***************************************************************************)
RemovedOnlyWhenJoined ==
  nested => \A t, p \in Thread : pc[t] = "gone" => t \notin outstanding[p]

(* A Join whose process has called Exit returns, unless the machine stops, when every      *)
(* child is joined before the next Exec (JoinWait, ExitRelease).                           *)
JoinReturns ==
  \A t \in Thread :
    nested /\ joining[t] # NoThread /\ exited[joining[t]] # NoName
      ~> (joining[t] = NoThread \/ mode = "halted")
=============================================================================
