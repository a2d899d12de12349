------------------------------- MODULE Kernel --------------------------------
(***************************************************************************)
(* The life of a Nachos machine: main, Kernel::Initialize, what the        *)
(* options ask for, Interrupt::Halt and ~Kernel, and Cleanup when the user *)
(* hits ctl-C.  The parts of the kernel find each other through the global *)
(* kernel, so each needs others that exist: a device schedules its first   *)
(* interrupt while it is constructed, the post office forks a thread, the  *)
(* file system waits for the disk.  The state is what exists and what is   *)
(* still to be done; a constructor and a destructor are sequences of       *)
(* steps, with the objects they make, delete and use.                      *)
(***************************************************************************)
EXTENDS Naturals, Sequences

CONSTANT Options    \* the options main knows that may be given

VARIABLES
  stub,      \* the build has the stub file system (FILESYS_STUB)
  options,   \* the command line
  script,    \* what is still to be done, in order
  alive,     \* the objects that exist
  armed,     \* the devices with a pending interrupt
  catching,  \* CallOnUserAbort(Cleanup) is in force
  worker,    \* the postal worker: "none", "ready" or "waiting" for messageAvailable
  halting,   \* ~Kernel has begun
  again      \* history: ~Kernel began a second time

kvars == <<stub, options, script, alive, armed, catching, worker, halting, again>>

Step(op, objects) == <<[op |-> op, on |-> objects]>>
Make(x) == Step("make", {x})
Drop(x) == Step("drop", {x})
Use(objects) == Step("use", objects)

(* Interrupt::Schedule reads stats->totalTicks. *)
Arm(device) == Step("arm", {device})

(* Code that lets time pass, because it turns interrupts on or sleeps: the interrupts that *)
(* are due are handled and other threads run.                                              *)
Work(objects) == Step("work", objects)

-----------------------------------------------------------------------------
(* The constructors and destructors, each with the parts it allocates. *)

MainThread == [make |-> Make("main"), drop |-> <<>>]
Statistics == [make |-> Make("stats"), drop |-> Drop("stats")]
Interrupt == [make |-> Make("interrupt"), drop |-> Drop("interrupt")]
Scheduler == [make |-> Make("scheduler"), drop |-> Drop("scheduler")]

(* The devices: those that wait for input poll for it from the start. *)
Timer == [make |-> Arm("timer") \o Make("timer"), drop |-> Drop("timer")]
ConsoleInput == [make |-> Arm("consoleInput") \o Make("consoleInput"), drop |-> Drop("consoleInput")]
ConsoleOutput == [make |-> Make("consoleOutput"), drop |-> Drop("consoleOutput")]
Disk == [make |-> Make("disk"), drop |-> Drop("disk")]
NetworkInput == [make |-> Arm("networkInput") \o Make("networkInput"), drop |-> Drop("networkInput")]
NetworkOutput == [make |-> Make("networkOutput"), drop |-> Drop("networkOutput")]

MailBoxes == [make |-> Make("boxes"), drop |-> Drop("boxes")]

Alarm == [make |-> Timer.make \o Make("alarm"), drop |-> Timer.drop \o Drop("alarm")]

Machine == [make |-> Make("machine"), drop |-> Drop("machine")]

SynchConsoleInput ==
  [make |-> ConsoleInput.make \o Make("lockIn") \o Make("waitForIn") \o
            Make("synchConsoleIn"),
   drop |-> ConsoleInput.drop \o Drop("lockIn") \o Drop("waitForIn") \o Drop("synchConsoleIn")]

SynchConsoleOutput ==
  [make |-> ConsoleOutput.make \o Make("lockOut") \o Make("waitForOut") \o
            Make("synchConsoleOut"),
   drop |-> ConsoleOutput.drop \o Drop("lockOut") \o Drop("waitForOut") \o
            Drop("synchConsoleOut")]

SynchDisk ==
  [make |-> Make("diskSemaphore") \o Make("diskLock") \o Disk.make \o Make("synchDisk"),
   drop |-> Disk.drop \o Drop("diskLock") \o Drop("diskSemaphore") \o Drop("synchDisk")]

PhysPages == [make |-> Make("gPhysPageBitMap"), drop |-> Drop("gPhysPageBitMap")]
AddrLock == [make |-> Make("addrLock"), drop |-> Drop("addrLock")]

(* ~PTable deletes the PCBs that are left; ~PCB finishes their threads. *)
PTable ==
  [make |-> Make("pids") \o Make("bmsem") \o Make("pTab"),
   drop |-> Drop("pids") \o Drop("bmsem") \o Step("dropProcesses", {}) \o Drop("pTab")]

STable == [make |-> Make("semIds") \o Make("semTab"), drop |-> Drop("semIds") \o Drop("semTab")]

(* The file system reads or formats the disk and waits for its interrupts; the stub does    *)
(* neither.                                                                                *)
DiskWork == Arm("disk") \o Work({"synchDisk", "diskLock", "disk", "diskSemaphore", "scheduler"})

FileSystem ==
  [make |-> (IF stub THEN <<>>
             ELSE DiskWork \o Make("freeMapFile") \o Make("directoryFile")) \o Make("fileSystem"),
   drop |-> Drop("fileSystem")]

PostOfficeInput ==
  [make |-> Make("messageAvailable") \o MailBoxes.make \o NetworkInput.make \o
            Step("forkWorker", {"scheduler", "interrupt"}) \o Make("postOfficeIn"),
   drop |-> NetworkInput.drop \o MailBoxes.drop \o Drop("postOfficeIn")]

PostOfficeOutput ==
  [make |-> Make("messageSent") \o Make("sendLock") \o NetworkOutput.make \o
            Make("postOfficeOut"),
   drop |-> NetworkOutput.drop \o Drop("messageSent") \o Drop("sendLock") \o
            Drop("postOfficeOut")]

-----------------------------------------------------------------------------
(* Kernel::Initialize.  Interrupts are off until Enable, the last thing it does. *)
AlarmFirst ==
  MainThread.make \o Statistics.make \o Alarm.make \o Interrupt.make \o Scheduler.make \o
  Machine.make \o SynchConsoleInput.make \o SynchConsoleOutput.make \o SynchDisk.make \o
  PhysPages.make \o AddrLock.make \o PTable.make \o STable.make \o FileSystem.make \o
  PostOfficeInput.make \o PostOfficeOutput.make \o Work({"interrupt"})

Initialize ==
  MainThread.make \o Statistics.make \o Interrupt.make \o Scheduler.make \o Alarm.make \o
  Machine.make \o SynchConsoleInput.make \o SynchConsoleOutput.make \o SynchDisk.make \o
  PhysPages.make \o AddrLock.make \o PTable.make \o STable.make \o FileSystem.make \o
  PostOfficeInput.make \o PostOfficeOutput.make \o Work({"interrupt"})

DeleteKernel ==
  Statistics.drop \o Interrupt.drop \o Scheduler.drop \o Alarm.drop \o Machine.drop \o
  SynchConsoleInput.drop \o SynchConsoleOutput.drop \o SynchDisk.drop \o FileSystem.drop \o
  PostOfficeInput.drop \o PostOfficeOutput.drop \o PhysPages.drop \o AddrLock.drop \o
  PTable.drop \o STable.drop

(* Interrupt::Halt. *)
Halt == Use({"stats"}) \o Step("halt", {})

ConsoleTest == Work({"synchConsoleIn", "lockIn", "waitForIn", "consoleInput",
                     "synchConsoleOut", "lockOut", "waitForOut", "consoleOutput"})
NetworkTest == Work({"postOfficeIn", "boxes", "messageAvailable", "networkInput",
                     "postOfficeOut", "sendLock", "messageSent", "networkOutput"})

(* Running a program: its PCB, its address space, and system calls until one halts or Load *)
(* fails.                                                                                  *)
RunProgram ==
  Use({"pTab"}) \o Make("pcb") \o
  Work({"addrLock", "gPhysPageBitMap", "fileSystem", "machine", "scheduler", "pTab", "semTab"})

(* main: what an option asks for, in the order of the code, whatever their order on the    *)
(* command line, and Halt.                                                                 *)
Asked(option, todo) == IF option \in options THEN todo ELSE <<>>
AskedOfDisk(option) == IF stub THEN <<>> ELSE Asked(option, DiskWork)
main ==
  Initialize \o Step("catch", {}) \o
  Asked("-K", Work({"scheduler"})) \o Asked("-C", ConsoleTest) \o Asked("-N", NetworkTest) \o
  AskedOfDisk("-r") \o AskedOfDisk("-cp") \o AskedOfDisk("-D") \o AskedOfDisk("-l") \o
  AskedOfDisk("-p") \o Asked("-x", RunProgram) \o Halt

-----------------------------------------------------------------------------
KInit ==
  /\ stub \in BOOLEAN /\ options \in SUBSET Options
  /\ script = main
  /\ alive = {} /\ armed = {} /\ worker = "none"
  /\ catching = FALSE /\ halting = FALSE /\ again = FALSE

(* The callbacks: what the handler of a device's interrupt uses. *)
Handler(device) ==
  CASE device = "timer" -> {"timer", "alarm"}
    [] device = "consoleInput" -> {"consoleInput", "waitForIn"}
    [] device = "networkInput" -> {"networkInput", "messageAvailable"}
    [] device = "disk" -> {"disk", "diskSemaphore"}

(* OneTick or Idle with interrupts due, and the postal worker, which runs as soon as main  *)
(* waits or is preempted.                                                                  *)
TimePasses ==
  {"stats", "interrupt", "scheduler"} \cup UNION {Handler(d) : d \in armed}
    \cup IF worker = "none" THEN {} ELSE {"messageAvailable", "boxes", "networkInput"}

(* ~PCB: Finish turns interrupts off and sleeps. *)
Finish == {"interrupt", "scheduler"}

(* What the next step uses. *)
Needs(step) ==
  CASE step.op = "make" -> {}
    [] step.op = "arm" -> {"stats", "interrupt"}
    [] step.op = "work" -> step.on \cup TimePasses
    [] step.op = "dropProcesses" -> IF "pcb" \in alive THEN Finish ELSE {}
    [] OTHER -> step.on

Sound == script # <<>> => Needs(Head(script)) \subseteq alive

(* The next step of the thread that executes main, as long as all it uses exists. *)
KStep ==
  /\ script # <<>> /\ Sound
  /\ LET op == Head(script).op
         on == Head(script).on
     IN  /\ alive' = CASE op = "make" -> alive \cup on
                       [] op = "drop" -> alive \ on
                       [] OTHER -> alive
         /\ armed' = CASE op = "arm" -> armed \cup on
                       [] op = "drop" /\ on = {"interrupt"} -> {}
                       [] op = "work" -> armed \ {"disk"}
                       [] OTHER -> armed
         /\ worker' = CASE op = "forkWorker" -> "ready"
                        [] op = "work" /\ worker = "ready" -> "waiting"
                        [] OTHER -> worker
         /\ catching' = (catching \/ op = "catch")
         /\ halting' = (halting \/ op = "halt")
         /\ script' = IF op = "halt" THEN DeleteKernel ELSE Tail(script)
  /\ UNCHANGED <<stub, options, again>>

(* Cleanup: ctl-C, at any moment after CallOnUserAbort; what it interrupts never goes on,  *)
(* because ~Kernel exits.  The signal is held back while its handler runs.                 *)
Cleanup ==
  /\ catching /\ script # <<>>
  /\ script' = DeleteKernel
  /\ catching' = FALSE
  /\ halting' = TRUE
  /\ again' = halting
  /\ UNCHANGED <<stub, options, alive, armed, worker>>

KNext == KStep \/ Cleanup

KSpec == KInit /\ [][KNext]_kvars

-----------------------------------------------------------------------------
(* Nothing is used before it is constructed or after it is deleted, whichever interrupts   *)
(* come while the kernel is being initialized and whenever the user hits ctl-C, but in two  *)
(* places: ~PTable with a PCB left in the table (~PCB finishes a thread after the          *)
(* scheduler has gone), and ctl-C while the kernel is halting already, which deletes it a  *)
(* second time.                                                                            *)
UsedWhileAlive == Sound \/ again \/ Head(script).op = "dropProcesses"

=============================================================================
