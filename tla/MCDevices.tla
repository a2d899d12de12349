----------------------------- MODULE MCDevices ------------------------------
(***************************************************************************)
(* Model checking of the simulated machine: the interrupts and the timer,  *)
(* the console, the disk, the kernel that is put together from them and    *)
(* taken apart, and the self tests it runs.  The five have no state in     *)
(* common; a behaviour runs the one that focus names, and the others stay  *)
(* in an initial state.                                                    *)
(***************************************************************************)
EXTENDS Interrupts, Console, SynchDisk, Kernel, SelfTests

VARIABLE focus

MCInputs == {<<>>, <<65, 66, 10>>, <<65, 255, 66>>, <<10, 65, 66, 67>>}
MCMessage == [w \in Writer |-> <<72, 73>>]

vars == <<focus, ivars, cvars, dvars, kvars, tvars>>

Init ==
  /\ focus \in {"interrupts", "console", "disk", "kernel", "self tests"}
  /\ IInit /\ CInit /\ DInit /\ KInit /\ TestInit
  /\ focus # "interrupts" =>
       /\ ~randomize
       /\ running = CHOOSE t \in Thr : TRUE
       /\ ready = CHOOSE s \in [DOMAIN ready -> Thr \ {running}] :
                    Cardinality({s[i] : i \in DOMAIN s}) = Len(ready)
  /\ focus # "console" => typed = <<>>
  /\ focus # "kernel" => stub /\ options = {}

Next ==
  \/ focus = "interrupts" /\ INext /\ UNCHANGED <<focus, cvars, dvars, kvars, tvars>>
  \/ focus = "console" /\ CNext /\ UNCHANGED <<focus, ivars, dvars, kvars, tvars>>
  \/ focus = "disk" /\ DNext /\ UNCHANGED <<focus, ivars, cvars, kvars, tvars>>
  \/ focus = "kernel" /\ KNext /\ UNCHANGED <<focus, ivars, cvars, dvars, tvars>>
  \/ focus = "self tests" /\ TestNext /\ UNCHANGED <<focus, ivars, cvars, dvars, kvars>>

(* The fairness of ISpec and CSpec for the component that runs. *)
I(A) == focus = "interrupts" /\ A
C(A) == focus = "console" /\ A

Fairness ==
  /\ WF_ivars(I(INext))
  /\ WF_cvars(C(ReadInterrupt)) /\ WF_cvars(C(WriteInterrupt))
  /\ \A u \in Reader \cup Echo : WF_cvars(C(GetWait(u) \/ GetChar(u))) /\ SF_cvars(C(GetLock(u)))
  /\ \A u \in Writer \cup Echo : WF_cvars(C(PutChar(u) \/ PutWait(u))) /\ SF_cvars(C(PutLock(u)))

Spec == Init /\ [][Next]_vars /\ Fairness

-----------------------------------------------------------------------------
(* EveryThreadRuns of the interrupts: a ready thread, and one that waits for a device,   *)
(* gets the CPU in the end.                                                              *)
ThreadsRun == focus = "interrupts" => EveryThreadRuns

(* ReaderServed and WriterDone of the console: GetChar returns until the input has ended, *)
(* and a message is displayed to its end.                                                 *)
ConsoleServes == focus = "console" => ReaderServed /\ WriterDone

=============================================================================
