# Nachos 4.0 (Project02): specifications and proofs

Nachos is a teaching operating system: a kernel in C++ on top of a simulated
MIPS machine. This repository adds multiprogramming, processes (Exec, Join,
Exit), user semaphores, files and sockets. This directory holds TLA+
specifications of the code in `src/Nachos4.0/code`, model-checked with TLC, and
proofs checked by TLAPS. Paths below are relative to `src/Nachos4.0/code`.

## 1. The system

| part | code | state | operations |
|---|---|---|---|
| threads and scheduler | threads/thread.cc, scheduler.cc | status, ready list, current thread, thread to be destroyed | Fork, Yield, Sleep, Finish, Run, CheckToBeDestroyed |
| semaphores | threads/synch.cc | value, queue | P, V |
| interrupts, timer, alarm | machine/interrupt.cc, timer.cc, threads/alarm.cc | level, status, pending list, clock | SetLevel, OneTick, Idle, Schedule, CheckIfDue, YieldOnReturn |
| process table | threads/ptable.cc, pcb.cc | pcb array, bitmap of pids, psize, per process: parent, name, exit code, three semaphores | ExecUpdate, JoinUpdate, ExitUpdate, Remove |
| address spaces | userprog/addrspace.cc, coff2noff/ | bitmap of physical pages, page table | Load, Execute, Translate, SaveState, RestoreState |
| system calls | userprog/exception.cc, ksyscall.h | registers | one handler per call |
| semaphore table | threads/stable.cc, sem.h | named semaphores | Create, Wait, Signal |
| file table | userprog/FileDescriptors.h | 20 descriptors | Open, Close, Read, Write, Seek, sockets |
| locks, conditions, synchronized lists | threads/synch.cc, synchlist.cc | holder, wait queue | Acquire, Release, Wait, Signal, Broadcast, Append, RemoveFront |
| console | machine/console.cc, userprog/synchconsole.cc | incoming character, busy flag, locks, semaphores | polls, GetChar, PutChar |
| disk | machine/disk.cc, filesys/synchdisk.cc | head, track buffer, busy flag | ReadSector, WriteSector |
| network, post office | machine/network.cc, network/post.cc | device, mailboxes, postal worker | Send, Receive |
| file system | filesys/ | bitmap, headers, directory, open files | Create, Open, Remove, ReadAt, WriteAt (not in the stub build) |
| data structures | lib/ | bitmap, list, sorted list, hash table | |
| CPU | machine/mipssim.cc, machine.cc, translate.cc | registers, memory, page table | one instruction, RaiseException, Translate |
| start and end | threads/kernel.cc, main.cc | which objects exist | Initialize, self tests, Halt, ctl-C |
| user programs | test/main.c, producer.c, consumer.c | items.txt, three semaphores | the system calls they make |

The modules are layered as the code is. A client of the kernel that depends on
how threads interleave inside P and V EXTENDS `Threads`: each of its actions is a
stretch of client code together with the kernel call that ends it. What
`AtomicSemaphores`, `AtomicMonitor` and `AtomicQueue` say of semaphores, locks and
lists is shown to be implemented once; the devices, the post office and the user
programs use those atomic forms. `Threads` in turn takes from `Interrupts` that a
running thread may be preempted whenever interrupts are turned on, and in the
end is.

**What makes it hard.** The kernel is preemptive, but only at ticks: a context
switch can happen where interrupts go from off to on (the end of P, V, Fork,
Yield and Begin), after a user instruction, and while idle. Kernel code between
two ticks is atomic. The difficult behaviours are therefore in code that reads
shared state, calls P or V, and goes on with what it read. The hazards are
listed, at their lines, in `PROJECT.json`.

## 2. Modules

| module | models |
|---|---|
| `Threads` | threads, the ready list, semaphores, deferred destruction, preemption |
| `AtomicSemaphores` | what synch.h promises of a semaphore |
| `ProcessTable` | processes on top of `Threads`: Exec, Join, Exit, Halt, pages |
| `SemaphoreTable` | the named semaphores of user programs, on top of `Threads` |
| `Monitor` | Lock and Condition on top of `Threads`; `AtomicMonitor` is what synch.h promises of them |
| `SynchList` | the synchronized list on top of `Monitor`; `AtomicQueue` is what it promises |
| `SelfTests` | Kernel::ThreadSelfTest: two threads, and the deletion of what they share |
| `FileTable` | descriptors, file and socket system calls, the stub file system |
| `FileSystem`, `OpenFile` | the file system of filesys/ on its disk, and reading and writing through a header |
| `Interrupts` | pending interrupts, clock, timer, alarm, idling, the mode of the machine |
| `Console` | keyboard and display, SynchConsole, SysRead and SysWrite of the console, ConsoleTest |
| `SynchDisk` | the disk, its latencies and its track buffer, SynchDisk |
| `PostOffice` | network, post office, NetworkTest on two machines |
| `Kernel` | Initialize, the options, Halt and ~Kernel, ctl-C |
| `Mips` | instructions, translation, exceptions of the processor (operators on a processor state) |
| `Noff` | from COFF sections to NOFF segments to page frames |
| `UserPrograms` | programs on `Mips`, interrupted and switched by the scheduler, and their system calls, with the copies of user memory |
| `ItemPrograms` | test/main.c, producer.c and consumer.c |
| `Lists`, `HashTable`, `Bitmap`, `Stacks` | the containers of lib/ and c++example/ |
| `ThreadsProofs`, `SemaphoreProofs` | TLAPS proofs about `Threads`: threads and their lists; semaphores, the refinement of `AtomicSemaphores`, and `SemaphoreTable` |
| `MonitorProofs` | proofs about `Monitor` and `SynchList` and their refinements |
| `ProcessTableProofs`, `NestedUseProofs` | proofs about `ProcessTable`: under any use; with unique names and nested joins |
| `IOProofs` | proofs about `Console`, `SynchDisk` and `FileTable` |
| `FileSystemProofs` | proofs about `FileSystem` and `OpenFile` |
| `PostOfficeProofs` | proofs about `PostOffice` |
| `MCThreads`, `MCProcessTable`, `MCSemaphoreTable`, `MCMonitor`, `MCSynchList`, `MCFileTable` | instances for TLC |
| `MCStorage`, `MCDevices`, `MCAlgorithms` | instances for TLC of several modules without common state: the variable `focus` says which one a behaviour runs, the others stay in an initial state |

### Threads

`status`, `readyList`, `currentThread`, `toBeDestroyed`, `value` and `queue` are
the fields of the same names. `waitingOn` is the program counter of a thread
inside `Semaphore::P`. `mode` says what the CPU does: run a thread, loop in
`Thread::Sleep` (`sleeping`, or `finishing` when called by Finish), or execute
the first instructions of a thread just switched to (`switched`).

`Fork`, `Yield`, `P`, `V`, `Finish`, `Halt`, `Run`, `CheckToBeDestroyed` are the
functions with these names. A `P` that sleeps is finished by `Resume`, which
tests the value again as the `while` loop does. `Yield` is both a call of
`Thread::Yield` and the timer's preemption. `Interrupt(s)` is a device handler
that calls V. Timer and idle loop are otherwise abstract: they may act at any
tick. Stacks, registers and debug output are left out.

### ProcessTable

Each thread has a program counter `pc` whose labels are the ticks inside the
system calls. The history variables `exited`, `joining` and `outstanding` only
serve the properties. A PCB is named by its thread. The following things in the
code decide what the model does:

* `GetCurrentThreadId` finds the caller by comparing the *name* of the thread
  with the file names in the table; the entries of finished processes stay in
  the table, because `delete pcb[pid]` in `Remove` calls `Thread::Finish`
  (through `~PCB`), which never returns.
* A PCB is in the table from `ExecUpdate`, but has a name only from `PCB::Exec`.
* `JoinUpdate` reads the exit code after `ExitRelease`.
* No code deletes an address space, so pages are only ever taken.

`numwait` is left out (nothing reads it), as are the bytes of programs. `Halt`
from user code is `SysExit(0)`. A stop of the machine (Interrupt::Halt, a failed
ASSERT, a NULL pointer) is a step to mode `halted` with the reason in `outcome`.

Most of what Exec, Join and Exit promise needs a usage discipline, so it is a
parameter: `UniqueNames` (a program is not started while a process of that name
is in the system) and `nested`, chosen in the initial state from `Usages` (a
child is joined before the next Exec and before Exit, as test/shell.c does).
Two properties say what they need. `CallerIsSelf` excepts the moment where the
search, which JoinUpdate and ExitUpdate make without bmsem, meets a PCB that
another thread is still making (its name is NULL). `RemovedOnlyWhenJoined` is
about nested use: `parentID` is a pid, and where a parent leaves before its child
a process that gets the parent's pid can join, and so release, the orphan.

### SemaphoreTable

`bm` and `semTab` are the fields of STable, one semaphore of `Threads` per slot.
A Wait is two actions: up to the end of P, and the return. `granted` and `taken`
are histories that count units per name. `SysCreateSemaphore` returns -1 in all
cases, because of the assignment in its `if`.

### Monitor and SynchList

One lock (`LockSem`) and one condition. Each Wait makes a semaphore; a thread is
in one Wait at a time, so it is `Waiter(t)`. `at` says between which two ticks a
thread is. `Owner` and `Wanting` are the refinement mapping: the thread that has
passed the P of the lock, which `lockHolder` names only one statement later, and
the threads that want the lock, in Acquire or on their way out of Wait. In `Monitor` the client may call anything the ASSERTs of synch.cc
allow; in `SynchList` the callers are Append, RemoveFront and Apply, and since
only ticks separate actions, the end of an Acquire and what follows it up to the
next V is one action there.

### FileTable

`desc` is the table (slots from 2 on, as in the code), with the OpenFile's
offset; `length` and `hostOpen` are the host's files and open descriptors. A call
without console input or output has no tick in it, so each is one action and
which program makes it does not matter. Files are abstracted to their lengths,
messages to nothing. strcasecmp is `Fold`. The host may hand out any number that
is not open, refuse a socket, and fails to create the names outside `Creatable`.
The test `!table.IsOpening(id)` is never true, so it does not occur in the guards.
The history `careful` records whether programs have made only calls that the code
can answer (see `Use`); `OffsetWithinFile` and `NoCrash` speak of such programs.
Sizes may be negative (`ByteCount`): below -1 the `new char[limit + 1]` of
User2System throws, which nothing catches, so -2 stands for all of these; of -1
bytes the host's read() and write() are taken to return -1, which passes the ASSERT
of WriteFile and moves the position back. A host on which a 32-bit program's size
of -1 means 4294967295 bytes would overrun the buffer instead; that is not modelled,
and in both cases the program is no longer `careful`.

### FileSystem and OpenFile

`disk` maps sectors to what they hold: a header, the free map, a half of the
directory, or bytes. An operation computes in memory and leaves in `pending` the
`WriteSector` calls it has still to make, in the order of the code; `WriteSector`
makes one, and the machine may stop and start between any two. One entry of the
directory lies across two sectors, as it does in the code with ten entries of 20
bytes. `open` holds the OpenFile objects, each with its own copy of the header.
`intact` is a history: it becomes false when the machine stops after the
directory has been written and before the map has, where the code leaves the two
in disagreement. The code expects one client at a time, so an operation starts
when none is in progress. Names keep nine characters (`Stored`). `FirstClear`
says in one formula what the loop over FindAndSet in FileHeader::Allocate takes:
the i-th sector is the clear one that has i - 1 clear ones below it.

### Interrupts

`queue` is the sorted list of pending interrupts with times relative to now. A
step is a tick of user or kernel code, of an idle machine, or a device request;
the handlers it calls and the switch the alarm asks for are part of it, because
interrupts are off from the first to the last of them. A thread inside OneTick's
Yield is in `yielding`; `machine` is the status, which the thread restores from a
local variable when it runs again.

### Console and SynchDisk

The device and the synchronized access to it: lock, request, interrupt,
semaphore. A step of a thread ends where interrupts are turned on. `typed` is
what will be typed, `taken` what GetChar returned. A byte is converted to a char,
so 255 is EOF, as in the code. In `SynchDisk` angles are ticks from the start of
sector 0; `request` remembers what the latency was computed from.

### PostOffice

Two machines with a socket each (`wire`), which loses packets (`lost`). A machine
may start late, in which case SendToSocket fails and is tried again `MaxTries`
times while the whole machine sleeps, and may halt. `NumBoxes` is at least two,
since NetworkTest uses the mailboxes 0 and 1 (the kernel makes ten). `carried`, `delivered` and
`got` are histories of what reached the socket, the mailboxes and the threads.

### Kernel and SelfTests

`Kernel` is about the order of things: `script` is the list of steps still to be
done (`new` an object, `delete` one, use some), computed from the options as
Initialize, main and ~Kernel do; `alive` is what exists. Interrupts that are
`armed` may come at any step and use the objects their handlers use. ctl-C puts
~Kernel in front of whatever is being done. In `SelfTests` a call is the list of
its steps, one per stretch of code between two ticks, with the objects it
touches; main deletes the semaphores and lists as the code does.

### Mips, Noff and UserPrograms

`Execute` maps a processor state (registers, memory, page table) to the next one,
for every opcode of mipssim.cc, delayed loads and branches included. Words are
scaled to four bytes of `ByteBits` bits, so that products, carries and sign bits
are all in reach of TLC; addresses and opcodes are not scaled. `Noff` builds the
file and the frames. In `UserPrograms` two threads run programs, are interrupted
and switched between any two instructions and switched inside system calls
(`SaveUserState`, `RestoreUserState`, `RestoreState`); `alone` is a history: each
program executed on a machine of its own, without interrupts. `due` is a history of
the addresses the architecture says come next.

Between two instructions a program loses the processor only in OneTick, through
CheckIfDue, which first finishes the load that is pending (interrupt.cc:310). So no
load is ever pending in the registers that are saved, and a load may be done one
instruction earlier than on a machine without interrupts. `AsIfAlone` therefore
compares registers with the pending load done (`Settled`), and speaks of programs
that keep the rule of the architecture that the instruction after a load does not
use the register being loaded, nor set it otherwise (history `slotsKept`); a program that breaks it
computes one thing or the other as the interrupts fall. One of the short programs
does, and TLC finds `AsIfAlone` violated by it if that condition is left out. The
mutant drops the load in CheckIfDue.

A system call is a step of its own, by its number: calls that copy nothing
(`NumberCall`), that read a name (`NameCall`) and that copy a buffer (`CopyCall`)
return; Exit and Halt never do (`ExitCall`: the machine halts, or the thread ends and
its frames stay taken); an unknown number reaches the default case, which sets
neither r2 nor the PC, so that the program makes the call again (`UnknownCall`).
What Connect, Send and Receive do is in `FileTable`; here no program makes them,
because their buffer is in r5, which the model does not keep. A call's result is 0
or -1 where nothing depends on it. A name has at most `MaxFileLength` bytes, which
is scaled like the page: half a page.

The page tables are those of AddrSpace, always valid and writable, so that PageFault
and ReadOnly are not raised. `ArithmeticRight` judges ADD, ADDI, SUB, MULT, MULTU,
DIV, DIVU, SLT, SLTI, SLTU, SLTIU and SRA, except for a division that stops the
simulator (below). It does not judge logic, ADDU, ADDIU, SUBU, LUI and the other
shifts, whose definition in the model would be compared with itself, nor SRL and
SRLV, which are wrong (below).

### ItemPrograms

A system call is a step. `Halt` in a user program is `SysExit(0)` (exception.cc),
so it ends the program; the machine stops when main has joined both, or at any
moment by ctl-C. The file keeps its contents, and the next boot makes the
semaphores anew. A program that would use what no call has given it goes
`astray` and makes no further step, so that `ItemProgramsHalt` would fail.

### Lists, HashTable, Bitmap, Stacks

The cells, buckets, words and arrays, with a history of the sequence or set they
should stand for.

## 3. Runs

| run | instance | checks | result |
|---|---|---|---|
| `threads` | 4 threads, 2 semaphores, any client | `SafeDestruction`, `NoLostWakeup`, `ImplementsAtomicSemaphores` | hold |
| `processes` | main and 3 processes, unique names, nested joins | `CallerIsSelf`, `RemovedOnlyWhenJoined`, `JoinReturnsExitStatus`, `JoinReturns` | hold |
| `processes_any_use` | main and 3 processes, no discipline | `ExecExclusive`, `UniqueSpaceIds` | hold |
| `semaphore_table` | 3 threads, 3 names, 2 slots, initial values from -1 on | `UnitsConserved` | holds |
| `monitor` | 4 threads, any client | `ImplementsAtomicMonitor` | holds |
| `synch_list` | 3 threads, 2 items | `ImplementsAtomicQueue` | holds |
| `storage` | 2 descriptors, 3 names, 2 host numbers, any of them and -1 as argument, sizes from -2 on, positions from -2 on; a disk of 9 sectors, 2 directory entries, 4 names, stops anywhere | `TableMatchesHost`, `OffsetWithinFile`; `MetadataConsistent`, `ReadsWhatWasWritten` | hold |
| `devices` | 3 threads under the timer, a poll and a device; a reader, a writer and an echo loop; 2 clients of a disk of 6 sectors; every set of 5 options; self tests of 10 rounds | `InterruptsOnTime`, `ThreadsRun`; `ConsoleDiscipline`, `TypedOnceInOrder`, `ConsoleServes`; `DiskDiscipline`, `LatencyIsMechanical`; `UsedWhileAlive`; `DeletedAfterLastUse` | hold |
| `post_office` | 2 machines, 3 correspondents, loss, late start, halt | `NothingLostOnReceipt`, `InOrderAtMostOnce`, `AckMeansReceived`, `NetworkTestEnds` | hold |
| `algorithms` | each arithmetic instruction on 12 boundary values, short programs interrupted and switched against another one; producer and consumer, 3 boots; 4 list items, 5 keys, 7 bits, stacks up to 4 | `ArithmeticRight`, `PreciseExceptions`, `AsIfAlone`, `ProgramOrder`, `UnalignedPairs`; `NothingLost`, `ItemProgramsHalt`; `ListIsSequence`, `FindsWhatWasInserted`, `BitmapIsSet`, `LastInFirstOut` | hold |
| `exit_status_race` | main and 3 processes, unique names | `JoinReturnsExitStatus` | violated |
| `unopened_id` | the descriptors of `storage`, 3 host numbers | `UnopenedIdRefused` | violated |

The refinements say more than one thing each. `ImplementsAtomicMonitor` has in it
that one thread at a time is in the monitor and that a thread that waits is not
passed over by a signal sent between its Release and its P;
`ImplementsAtomicQueue` that no item is left on the list while all who ask for one
sleep; `ImplementsAtomicSemaphores` that a woken thread comes to run.

The violated ones are disagreements between the code and its comments; each is
a finding in `PROJECT.json` with the line it quotes. The models also have, without
a run of their own, these disagreements:

* a process that calls Join or Exit while another one is inside PCB::Exec meets
  the NULL name of the PCB being made (ptable.cc:75; `CallerIsSelf` excepts it); a
  program started again before its first process has left the table finds the PCB
  of its namesake, and its parent's second Join may not return (ptable.cc:76;
  `UniqueNames` excludes it);
* an orphan can be joined by a process that got its parent's pid (ptable.cc:168;
  `nested` excludes it);
* two running processes of one program are taken for each other, and
  `Thread::Finish` then fails its ASSERT (threads/ptable.cc:76, thread.cc:175);
* a finished process still exists for `PTable::IsExist` (ptable.cc:52 is not
  reached), and pages of finished programs are never freed, so that in the end
  `Load` fails and RunProcess reaches its ASSERTNOTREACHED (pcb.cc:94);
* `CreateSemaphore` returns -1 on success (ksyscall.h:468), and a semaphore
  created with a negative value does not make P wait (synch.cc:84);
* Remove while a socket is open passes NULL to strcasecmp (FileDescriptors.h:306);
  Seek accepts a position below -1 and the next Read or Write fails an ASSERT
  (FileDescriptors.h:81); Read or Write of -1 bytes moves the position back by one,
  before the start too (openfile.h:48), and a size below -1 ends Nachos in Read,
  Write, Send and Receive (ksyscall.h:30); Create of a file the host refuses fails an ASSERT
  (lib/sysdep.cc:312); Create and Close return 0, not 1, on success;
* Halt after a user program has run deletes a PCB, whose destructor finishes a
  thread when the interrupts and the scheduler are gone (`UsedWhileAlive` excepts
  it; interrupt.cc:231 says "Shut down Nachos cleanly"); ctl-C while the machine
  halts deletes the kernel a second time;
* a typed byte 255 reads as EOF and ends the input (console.cc:106); at the end
  of the input GetChar keeps the lock and never returns;
* SRL and SRLV shift in the sign bit; a delayed load overwrites the result of an
  instruction in its delay slot that writes the same register; dividing the
  smallest number by -1 stops the simulator;
* a system call with an unknown number is made again for ever (exception.cc:368);
  NetworkOutput::Send asserts that sendBusy is FALSE and never sets it
  (network.cc:165), so that only sendLock keeps two sends apart;
* User2System and System2User stop at a zero byte, so binary data is cut, and
  SysWrite copies its buffer back to the program;
* coff2noff's check of .bss exits when the segments *are* contiguous, although
  its comment says "make sure they are contiguous", and it tests fdIn where it
  means fdOut;
* the functions at the end of filesys.cc (from line 252) do not compile without
  FILESYS_STUB; FileHeader::Allocate does not test that a file fits its header;
  a machine stopped between the directory and the map leaves sectors lost or
  marked free while in use;
* producer.c says in a comment that it makes at most 10 items and makes 20; the
  file keeps 10 of them at each boot, so that the arrays of 100 bytes overflow in
  the tenth.

**Bounds.** Thread objects are used once, so the number of threads bounds the
number of Forks or Execs in a behaviour. Four threads give a runner, a sleeper, a
woken thread and a barging one at the same time. `MaxValue` bounds the V calls of
the free client, and is 2 so that a unit can be left for each of two waiters.
Three processes besides main are the fewest for a pid to be reused while its first
owner's parent still reads it, and for a program to be started again. `processes`
has nested use only; what holds without it is proved (`CallerIsSelf`) or checked
in `processes_any_use`. `MAX_PROCESS` is small enough to be reached in
`processes_any_use`, and `NumPhysPages` is exactly enough in `processes` and too
small in `processes_any_use`. `MaxCalls` bounds the Signals and Waits per name,
and `MAX_SEMAPHORE` is one less than the number of names, so that the table fills
up. In `SynchList` an item is appended once and `MaxApply` bounds Apply. Two
descriptors with three names and two host numbers (three in `unopened_id`) let the
table fill up, one file be open twice, and a number be given out again while
another stays in use; `MaxLength` 2 has a position before, at and after the end.
The disk of `storage` fills up before the directory does and the other way round,
two of the names are one to the directory, and files have one sector or two.
`TimerTicks`, `PollTime` and `Latency` are chosen so that several interrupts fall
on one tick. The inputs of the console have an empty one, one with a byte 255 and
one longer than a line. `MaxTicks` of the disk is three turns. Two machines and
two senders on one of them let packets meet in one device; `MaxTries` 2 has a
retry that succeeds and one that gives up. Bytes of 2 bits give words of 8, with
every carry between the four parts that Mult handles. `MAX_ITEMS`,
`MAX_ITEM_CONSUME` and `MAX_ITEMS_PRODUCE` are 2, 2 and 4, in the proportion of
the code's 10, 10 and 20; three digits make the items wrap around. Threads other
than main are symmetric in `processes_any_use`, `exit_status_race` and
`semaphore_table` (there semaphore names, too), and names of files that are alike
in `storage`; the runs with liveness properties use no symmetry.

**Deadlock** is not checked: all threads may legitimately sleep (Nachos then
halts, or waits for input for ever), a halted machine stops, and bounded clients
end.

**Fairness.** Weak fairness of `Run`, `CheckToBeDestroyed` and `Resume`: they
are the straight-line code of `Thread::Sleep` and `Scheduler::Run`. Weak
fairness of `Yield`: the timer is started with the kernel and rearms itself in
every callback (machine/timer.cc), so a running thread meets an expired time
slice in the end; `ThreadsRun` shows that on the level of `Interrupts`, from
nothing but that the simulator goes on. Strong fairness of each thread's kernel code in
`ProcessTable`: a thread that is switched to executes up to its next tick
before the timer can preempt it. Nothing is assumed of user programs: a program
may compute for ever, and `JoinReturns` only speaks of a child that called Exit. `Monitor` and `SynchList` assume the
same of the kernel and of threads inside an operation, and nothing of clients.
That items of a SynchList are handed out needs Apply to be called finitely often
(hence `MaxApply`): `Semaphore::P` does not queue, so threads that keep taking
the lock can starve one that was woken. In `Console` and `PostOffice` interrupts
come (weak fairness: they are on the pending list), and a lock that is free again
and again is obtained (strong fairness: no client there takes it without end,
or the list of waiters is first in, first out). The network owes nobody a packet:
`NetworkTestEnds` excepts runs that lose one. `ItemPrograms` assumes weak fairness
of each program and of main, and none of ctl-C.

## 4. Proofs

All theorems hold for every value of the constants that the named assumptions
allow. A leaf that names no prover is for Zenon; leaves with arithmetic or
sequences name the SMT solver.

`ThreadsProofs` and `SemaphoreProofs`: any finite set of threads, any set of semaphores, any initial
values and any set of interrupt semaphores.

* `ThreadsInvariant`: `IInv` is an invariant, where `IInv` is `TypeOK`,
  `Placement`, `SafeDestruction` and `ModeInv`. `Placement` is not inductive
  alone: that `P` appends a thread not yet on the queue needs the running thread
  to wait nowhere, and that `Finish` leaves a thread on no list needs it too.
  `ModeInv` says what each mode means for the current thread.
* `ThreadsTypeOK`, `ThreadsPlacement`, `ThreadsSafeDestruction` follow.
* `ThreadsNoLostWakeup` is proved by induction with `IInv`: `V` adds the woken
  thread to `Woken(s)` when it adds a unit, a woken thread leaves `Woken(s)`
  only with a unit or by finding the value 0, and a barging `P` only takes
  units away. It needs the cardinality facts of finite sets.
* `ThreadsRefineAtomicSemaphores`: if no initial value is negative, every step is
  a step of `AtomicSemaphores` or leaves its variables alone. The values stay
  non-negative because `P` tests before it takes and tests again after it slept.

The lemma `CallIInv` says that every kernel call preserves `IInv`; the proofs
about the modules built on `Threads` reuse it, so that they only have to deal
with their own variables and with the values of their own semaphores.

`ProcessTableProofs` (the first invariant) and `NestedUseProofs` (the others): any
number of threads, pids, names and pages. Three inductive invariants, one on top
of the other, each for less use than the one before:

* `AnyInv`, for any use. `ExecExclusive` is not inductive: that the unit of bmsem
  is with exactly one thread (`BmsemInv`) needs that only a thread at the start of
  ExecUpdate waits for it. `UniqueSpaceIds` needs what `HalfMade` says of the PCB
  that is in the table before its thread is forked: it has one pid, which is
  marked, and only its maker has it. `FrameOk` says what the pids stored in the
  frames of Join and Exit refer to. `ExecAlwaysExclusive` and
  `SpaceIdsAlwaysUnique` follow.
* `UniqueInv`, with `UniqueNames`. `CallerIsSelf` holds because of an order
  (`EarlierInv`): FindAndSet takes the lowest free pid, so when a process is made
  all lower pids are marked, hence belong to processes still in the system, whose
  names are different; and an entry of a finished process below it can only be
  replaced, never get its name back while it lives. `CallerAlwaysSelf` follows,
  nested or not.
* `NestedInv`, with `UniqueNames` and, where `nested` holds, three facts.
  `ChainInv`: the processes that are not joined form a chain from main, and only
  the last one can call Exec or Exit or be at the end of a Join, so no pid is
  given away between the exit of a child and the reading of its exit code.
  `UnitsInv`: who sleeps on joinsem and exitsem, and when they have a unit.
  `JoinOk`: the pid that Join holds is still its child's. `AlwaysRemovedWhenJoined`
  and the action property `JoinAlwaysReturnsStatus` follow. The run
  `exit_status_race` shows that the latter needs the chain.

`SemaphoreProofs`, of the table: any number of programs, names and slots and any initial
values. `UnitsConserved` counts threads that have passed the P and have not
returned; the induction also needs that a name is in at most one slot, and that
a sleeping thread sleeps in the slot of the name it passed (`TableInv`).
`UnitsAlwaysConserved` follows.

`MonitorProofs`: any number of threads. `MInv` says where the unit of the lock is
(`LockInv`) and that a waiter's own semaphore has a unit exactly from Signal to
its P (`WaitInv`). `MutualExclusion` and `NoMissedSignal` follow, and, step by step,
`MonitorImplementsAtomic`: every step is one of `AtomicMonitor` under the mapping
above or leaves it alone. `SynchListImplementsQueue` shows the same of `SynchList`
and `AtomicQueue`, for any set of items. These are the safety halves of
`ImplementsAtomicMonitor` and `ImplementsAtomicQueue`.

`PostOfficeProofs`: any number of attempts and mailboxes, any set of machines that
have a second sender and that may stop. `NothingLostOnReceipt` alone is not
inductive: that the postal worker finds a packet, and that the device never has
two, is the handshake between the buffer, messageAvailable and the worker
(`Handshake`). `InOrderAtMostOnce` needs in addition that packets are numbered in
the order they get onto the socket (`Numbered`), which holds because the whole
machine waits in SendToSocket while one is tried. `AckMeansReceived` needs that
every acknowledgement, wherever it is, was sent by a thread past its first
Receive (`AckedAt`), and what the threads have received at each step of
NetworkTest (`GotAt`). `NothingEverLostOnReceipt`, `AlwaysInOrder` and
`AckAlwaysMeansReceived` follow.

`IOProofs`, of the file table: tables of any size, any names, host numbers, positions and
`MaxLength`, and sizes from -2 (all below -1) to `MaxLength`. `TableInv` joins the four properties with `TypeInv` and
`FieldsMatch` (an unused entry has no name and no number, an open one has a
mode). They have to be proved together: that Close frees the right host number
needs that no number is in two entries, which needs that the host gives out only
numbers that are not open, that is `TableMatchesHost` itself; that a position
stays inside its file needs that the file is not removed under it.
`TableAlwaysMatchesHost`, `OpenFileNeverRemoved`, `OffsetAlwaysWithinFile` and
`CarefulNeverCrashes` follow; `OpenFileNotRemoved` and `NoCrash`, like `TypeOK` and
`Placement` of `Threads`, are shown by proof and are in no run. FindFreeSlot's least free slot comes from the
well-foundedness of the natural numbers.

`IOProofs`, of the disk: any set of clients and any geometry. `DiskInv` says who holds
the lock at each place of ReadSector and WriteSector, and that the semaphore and
the busy flag exclude each other; `DiskAlwaysDisciplined` follows.

`IOProofs`, of the console: any sets of readers, writers and echo loops and any input.
`ConsoleInv` divides the states of the keyboard into three: a poll is pending and
every byte read has been taken; an interrupt has been counted, or its user woken,
and there is a byte or no more input; or EOF has been returned and nobody polls.
`TypedOnceInOrder` alone is not inductive, because it says nothing of the byte
that has been read and not taken. `ConsoleAlwaysDisciplined` and
`AlwaysTypedOnceInOrder` follow.

`FileSystemProofs`: a disk of any size that has room for the two headers, the map
and the directory, any number of directory entries, any sector size, any names,
sizes, positions and bytes, any number of open files. Both theorems rest on one
idea: the state that matters is not the disk but the disk with the writes on
their way, `After(disk, pending)`.

* `FilesConsistent`: `MetadataConsistent` says nothing of an operation that is
  half done, so it is not inductive. `FSInv` adds that `After(disk, pending)` is
  consistent, that every OpenFile whose file was not removed since has the header
  the directory leads to there, and (`Progress`) which sectors the operation has still to write: Create starts with a
  header in a sector that was free, Write touches data sectors of one file only,
  and what is left of Create and Remove once the window is reached is the
  directory or the map. One lemma per operation computes what its writes, taken
  together, make of the disk (`CreateWrites`, `RemoveWrites`, `WriteWrites`,
  `Formatted`); `AfterStep` says that making the first of them changes
  `After(disk, pending)` in nothing. That the sectors Allocate takes are free and
  different is `FirstClearClear`, by counting the clear sectors below each.
* `FilesRead`: `ReadsInv` says that the disk holds the history `written` between
  operations, the file being written excepted, and that `After(disk, pending)`
  holds the history as it will be. `BufferByte` is the heart of WriteAt: each byte
  of the buffer inside the request is the caller's, and each byte outside it is
  the file's, because the first and the last sector are read first exactly when
  the request covers them partly. `ReadAtFacts` says what ReadAt returns.
  The rest is that files own different sectors, which is `FilesConsistent`.

TLC confirms `FSInv` and `ReadsInv` on all 605,353 states of the file system of
`storage` (`storage` itself checks only what they imply).

The prover has no induction rule that can be applied to a formula of ours, but the
least member of a set of numbers serves instead where a count is involved
(`SmallestExists`, from the well-foundedness of the natural numbers).

Model-checked only, and why:

* Liveness under fairness (`JoinReturns`, `ThreadsRun`, `ConsoleServes`,
  `NetworkTestEnds`, `ItemProgramsHalt`, the fairness part of the three refinements)
  and everything that needs ENABLED is out of the prover's reach.
* `ListIsSequence`, `FindsWhatWasInserted`, `NothingLost` and the properties of
  `Mips` and `UserPrograms` are about what a recursive definition computes for
  every input, or about bits of words: induction over data. `InterruptsOnTime` is
  about the recursive `FireDue`, and `BitmapIsSet` about powers of two.
* `LatencyIsMechanical` compares products, quotients and remainders of variables,
  for which the solver has no complete procedure.
* `UsedWhileAlive` and `DeletedAfterLastUse` are about a fixed, finite program: the
  options of the kernel and the self tests have no parameter that matters, so
  the run covers all there is (the rounds of the self tests as in the code).
* `LastInFirstOut` is checked for stacks up to the bound; the code of the two
  stacks is a handful of lines.

## 5. What could be added

* A proof of `LatencyIsMechanical`, and of `LastInFirstOut`.
* The file system with a repair of the window between directory and map, to show
  that `MetadataConsistent` then needs no exception.

## 6. Not modelled

* The TLB of the processor (USE_TLB is not defined), the debugger of the machine,
  and page faults, which the page tables of AddrSpace never cause;
  AddrSpace::Translate, which nothing calls.
* The headers of COFF files and the messages of coff2noff.
* Of the host interface (lib/sysdep.cc): memory, time, random numbers, signals.
  Files are in `FileTable`, sockets in `PostOffice`.
* Debugging output, statistics, the printing and copying that main does for the
  command line, lib/libtest.cc.
* Machine-dependent switching of stacks (switch.S) and the allocation of stacks.
* The destructors of the semaphore table and of AddrSpace (nothing calls the
  latter), and the length of the walk in ~PTable.
* The tick counter as a 32-bit number.
* The other programs in test/, which compute, or make calls that `ProcessTable`
  and `FileTable` already allow in any order.

Addresses of objects are abstract, except where `Thread::Finish` compares the
address of a thread that may have been deleted.
