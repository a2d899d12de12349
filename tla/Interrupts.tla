----------------------------- MODULE Interrupts -----------------------------
(***************************************************************************)
(* The interrupt simulation of machine/interrupt.cc with its clock, the    *)
(* timer (machine/timer.cc), the alarm that slices time (threads/alarm.cc) *)
(* and the mode the machine is in, under threads that run user code, make  *)
(* system calls, ask a device for something and sleep, and are preempted   *)
(* in the middle of any of it.  Threads.tla takes from here that a running *)
(* thread may be preempted whenever interrupts are turned on, and sooner   *)
(* or later is.                                                            *)
(*                                                                         *)
(* Time is kept relative: left is PendingInterrupt.when - totalTicks.      *)
(* A tick, the handlers it calls and the switch the alarm asks for are one *)
(* step, because interrupts are off from the first to the last of them.    *)
(***************************************************************************)
EXTENDS Integers, Sequences, FiniteSets, FiniteSetsExt

CONSTANTS
  Thr,        \* threads
  Nobody,     \* no thread
  UserTick, SystemTick, TimerTicks,
  PollTime,   \* ConsoleTime, NetworkTime: between two polls for input
  Latency     \* the delays after which a device answers a request

ASSUME InterruptsAssumption ==
  /\ UserTick \in Nat \ {0} /\ SystemTick \in Nat \ {0} /\ TimerTicks \in Nat \ {0}
  /\ PollTime \in Nat \ {0}
  /\ Latency \subseteq Nat \ {0}    \* Schedule asserts fromNow > 0

VARIABLES
  queue,     \* Interrupt::pending: a sequence of [dev, left]
  machine,   \* Interrupt::status: "idle", "system" or "user"
  randomize, \* Timer: the interval is random
  running,   \* currentThread, or Nobody while Sleep waits in Idle
  ready,     \* the ready list
  code,      \* what the thread executes outside the tick: "user", "system" or "gone"
  yielding,  \* the threads in the Yield that OneTick calls
  waiting    \* the thread whose request the device is serving, or Nobody

ivars == <<queue, machine, randomize, running, ready, code, yielding, waiting>>

TimerDelay == IF randomize THEN 1 .. 2 * TimerTicks ELSE {TimerTicks}

(* Interrupt::Schedule: SortedList keeps equal times in the order they came. *)
Schedule(q, dev, fromNow) ==
  LET n == Cardinality({i \in DOMAIN q : q[i].left <= fromNow})
  IN  SubSeq(q, 1, n) \o <<[dev |-> dev, left |-> fromNow]>> \o SubSeq(q, n + 1, Len(q))

(* Interrupt::Interrupt, Alarm::Alarm and the console's first poll: Kernel::Initialize. *)
IInit ==
  /\ randomize \in BOOLEAN
  /\ \E delay \in TimerDelay :
       queue = Schedule(<<[dev |-> "timer", left |-> delay]>>, "poll", PollTime)
  /\ machine = "system"
  /\ \E t \in Thr :
       /\ running = t
       /\ \E order \in [1 .. Cardinality(Thr) - 1 -> Thr \ {t}] :
            /\ \A i, j \in DOMAIN order : order[i] = order[j] => i = j
            /\ ready = order
  /\ code = [t \in Thr |-> "system"]
  /\ yielding = {}
  /\ waiting = Nobody

-----------------------------------------------------------------------------
(* Mutant: the alarm asks for a switch when the machine is idle, not when it is busy. *)
SlicesIdleTime(dev, s, mode, delay) ==
  CASE dev = "timer" -> [s EXCEPT !.q = Schedule(@, "timer", delay),
                                  !.yieldOnReturn = @ \/ mode = "idle"]
    [] dev = "poll" -> [s EXCEPT !.q = Schedule(@, "poll", PollTime)]
    [] dev = "device" -> [s EXCEPT !.ready = Append(@, s.waiting), !.waiting = Nobody]

(***************************************************************************)
(* What one interrupt handler does to the queue, the ready list, the       *)
(* waiting thread and yieldOnReturn.  The timer calls the alarm and then   *)
(* sets its next interrupt; an input device polls again; another device    *)
(* has served its request and wakes the thread that waits for it.          *)
(***************************************************************************)
Handle(dev, s, mode, delay) ==
  CASE dev = "timer" -> [s EXCEPT !.q = Schedule(@, "timer", delay),
                                  !.yieldOnReturn = @ \/ mode # "idle"]
    [] dev = "poll" -> [s EXCEPT !.q = Schedule(@, "poll", PollTime)]
    [] dev = "device" -> [s EXCEPT !.ready = Append(@, s.waiting), !.waiting = Nobody]

(* Mutant: only the first interrupt that is due is handled. *)
FireFirst(q, mode, delay) ==
  LET s == [q |-> q, ready |-> ready, waiting |-> waiting, yieldOnReturn |-> FALSE]
  IN  IF q = <<>> \/ q[1].left > 0 THEN s
      ELSE Handle(q[1].dev, [s EXCEPT !.q = Tail(@)], mode, delay)

(* The loop of CheckIfDue: while the first of the queue is due, remove and handle it. *)
FireDue(q, mode, delay) ==
  LET due == Cardinality({i \in DOMAIN q : q[i].left <= 0})
      after[n \in 0 .. due] ==
        IF n = 0
        THEN [q |-> q, ready |-> ready, waiting |-> waiting, yieldOnReturn |-> FALSE]
        ELSE LET s == after[n - 1]
             IN  Handle(s.q[1].dev, [s EXCEPT !.q = Tail(@)], mode, delay)
  IN  after[due]

(* The clock moves on: everything pending comes nearer. *)
Elapse(q, ticks) == [i \in DOMAIN q |-> [q[i] EXCEPT !.left = @ - ticks]]

(***************************************************************************)
(* Interrupt::OneTick by thread t while the machine is in a mode.  When    *)
(* the alarm asked for it, t yields in system mode; when not, t goes on    *)
(* and the machine is in the mode of what t goes on with.                  *)
(***************************************************************************)
OneTick(t, mode, goesOn) ==
  \E delay \in TimerDelay :
    LET s == FireDue(Elapse(queue, IF mode = "system" THEN SystemTick ELSE UserTick), mode, delay)
    IN  /\ queue' = s.q
        /\ waiting' = s.waiting
        /\ IF s.yieldOnReturn
           THEN /\ machine' = "system"
                /\ yielding' = yielding \cup {t}
                /\ running' = Head(Append(s.ready, t))
                /\ ready' = Tail(Append(s.ready, t))
           ELSE /\ machine' = goesOn
                /\ yielding' = yielding \ {t}
                /\ running' = t
                /\ ready' = s.ready
  /\ UNCHANGED randomize

RunsCode(t, what) == running = t /\ t \notin yielding /\ code[t] = what

(* Machine::Run: one user instruction and the tick after it. *)
UserInstruction(t) ==
  /\ RunsCode(t, "user")
  /\ OneTick(t, machine, machine)
  /\ UNCHANGED code

(* SetLevel(IntOn) at the end of a kernel routine; Thread::Begin. *)
KernelRoutine(t) ==
  /\ RunsCode(t, "system")
  /\ OneTick(t, machine, machine)
  /\ UNCHANGED code

(* Yield turns interrupts on again, which is a tick of its own; when that does not make *)
(* t yield once more, the OneTick that called Yield puts back the status it had.        *)
YieldReturns(t) ==
  /\ running = t
  /\ t \in yielding
  /\ OneTick(t, machine, code[t])
  /\ UNCHANGED code

(* Machine::RaiseException: a system call enters the kernel. *)
EnterKernel(t) ==
  /\ RunsCode(t, "user")
  /\ code' = [code EXCEPT ![t] = "system"]
  /\ machine' = "system"
  /\ UNCHANGED <<queue, randomize, running, ready, yielding, waiting>>

(* RaiseException after the handler, or Machine::Run: user mode, then the tick. *)
EnterUser(t) ==
  /\ RunsCode(t, "system")
  /\ code' = [code EXCEPT ![t] = "user"]
  /\ OneTick(t, "user", "user")

(* Thread::Sleep: the next thread runs, if there is one. *)
Sleep(t) ==
  /\ running' = IF ready = <<>> THEN Nobody ELSE Head(ready)
  /\ ready' = IF ready = <<>> THEN <<>> ELSE Tail(ready)

(* A thread asks a device for something and sleeps until the interrupt. *)
Request(t) ==
  /\ RunsCode(t, "system")
  /\ waiting = Nobody
  /\ waiting' = t
  /\ \E delay \in Latency : queue' = Schedule(queue, "device", delay)
  /\ Sleep(t)
  /\ UNCHANGED <<machine, randomize, code, yielding>>

(* Thread::Finish *)
FinishThread(t) ==
  /\ RunsCode(t, "system")
  /\ code' = [code EXCEPT ![t] = "gone"]
  /\ Sleep(t)
  /\ UNCHANGED <<queue, machine, randomize, yielding, waiting>>

(* Interrupt::Idle: the clock jumps to the next interrupt; the first thread a handler    *)
(* made ready runs.  With nothing pending the machine would halt.                        *)
IdleTick ==
  /\ running = Nobody
  /\ queue # <<>>
  /\ \E delay \in TimerDelay :
       LET s == FireDue(Elapse(queue, queue[1].left), "idle", delay)
       IN  /\ queue' = s.q
           /\ waiting' = s.waiting
           /\ running' = IF s.ready = <<>> THEN Nobody ELSE Head(s.ready)
           /\ ready' = IF s.ready = <<>> THEN <<>> ELSE Tail(s.ready)
  /\ machine' = "system"
  /\ UNCHANGED <<randomize, code, yielding>>

INext ==
  \/ IdleTick
  \/ \E t \in Thr : \/ UserInstruction(t) \/ KernelRoutine(t) \/ YieldReturns(t)
                    \/ EnterKernel(t) \/ EnterUser(t)
                    \/ Request(t) \/ FinishThread(t)

(* The machine always takes the next step of whatever it runs. *)
ISpec == IInit /\ [][INext]_ivars /\ WF_ivars(INext)

-----------------------------------------------------------------------------
(***************************************************************************)
(* Between steps nothing in the queue is overdue, the queue is in order of *)
(* time, exactly one timer interrupt and one poll are in it, so that Idle  *)
(* never finds it empty and never halts the machine (interrupt.cc:218),    *)
(* and one device interrupt for the request that waits, no other: no       *)
(* interrupt is handled late, lost or doubled.                             *)
(***************************************************************************)
InterruptsOnTime ==
  LET Of(dev) == Cardinality({i \in DOMAIN queue : queue[i].dev = dev})
  IN  /\ \A i \in DOMAIN queue : queue[i].left > 0
      /\ \A i \in 1 .. Len(queue) - 1 : queue[i].left <= queue[i + 1].left
      /\ Of("timer") = 1 /\ Of("poll") = 1
      /\ Of("device") = IF waiting = Nobody THEN 0 ELSE 1

(* Time slicing works, and no wakeup is lost: a thread on the ready list, or waiting for  *)
(* a device, gets the CPU in the end, though the threads before it may never give it up   *)
(* themselves (Alarm::CallBack, YieldOnReturn).                                           *)
EveryThreadRuns ==
  \A t \in Thr : (waiting = t \/ \E i \in DOMAIN ready : ready[i] = t) ~> (running = t)
=============================================================================
