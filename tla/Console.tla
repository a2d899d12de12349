------------------------------ MODULE Console -------------------------------
(***************************************************************************)
(* The console: the simulated keyboard and display of machine/console.cc,  *)
(* the synchronized access to them of userprog/synchconsole.cc, and the    *)
(* three uses the kernel makes of it: SysRead and SysWrite of the console, *)
(* one character per call, and the echo loop of Kernel::ConsoleTest.       *)
(* Locks and semaphores are what Monitor.tla and Threads.tla show them to  *)
(* promise.  A step of a thread ends where interrupts are turned on.       *)
(***************************************************************************)
EXTENDS Integers, Sequences

CONSTANTS
  Reader,   \* processes that read lines from the console, over and over
  Writer,   \* processes that write a message to it
  Echo,     \* threads in ConsoleTest
  Inputs,   \* what may be typed: sequences of bytes
  LineSize, \* the size readers pass to SysRead
  Message   \* Message[w]: the characters w writes

User == Reader \cup Writer \cup Echo
NoOne == "no one"

ASSUME ConsoleAssumption ==
  /\ NoOne \notin User
  /\ Inputs \subseteq Seq(0 .. 255)
  /\ LineSize \in Nat \ {0}
  /\ \A w \in Writer : Len(Message[w]) > 0

EOF == -1
NewLine == 10

(* A byte read into a char: 255 is EOF. *)
AsChar(byte) == IF byte > 127 THEN byte - 256 ELSE byte

VARIABLES
  typed,     \* what is typed in this behaviour
  keyboard,  \* what is still to be read of it
  incoming,  \* ConsoleInput::incoming
  polling,   \* a ConsoleReadInt is pending
  putBusy,   \* ConsoleOutput::putBusy; a ConsoleWriteInt is pending
  inLock, inSem,    \* SynchConsoleInput::lock, waitFor
  outLock, outSem,  \* SynchConsoleOutput::lock, waitFor
  at,        \* User -> where the user is
  line,      \* User -> Reader: the characters of this line; Echo: the one to echo
  taken,     \* history: what GetChar returned, in the order it did
  display    \* history: what was displayed, <<user, character>>

cvars == <<typed, keyboard, incoming, polling, putBusy, inLock, inSem, outLock, outSem,
           at, line, taken, display>>

CInit ==
  /\ typed \in Inputs
  /\ keyboard = typed
  /\ incoming = EOF
  /\ polling = TRUE
  /\ putBusy = FALSE
  /\ inLock = NoOne /\ inSem = 0
  /\ outLock = NoOne /\ outSem = 0
  /\ at = [u \in User |-> IF u \in Writer THEN "put" ELSE "get"]
  /\ line = [u \in User |-> <<>>]
  /\ taken = <<>>
  /\ display = <<>>

inputSide == <<typed, keyboard, incoming, polling, inLock, inSem, taken>>
outputSide == <<putBusy, outLock, outSem, display>>

-----------------------------------------------------------------------------
(* ConsoleInput::CallBack when there is something to read: the next character, or the  *)
(* end of the input; either way waitFor->V().                                          *)
ReadInterrupt ==
  /\ polling
  /\ IF keyboard = <<>>
     THEN UNCHANGED <<keyboard, incoming>>
     ELSE /\ incoming' = AsChar(Head(keyboard))
          /\ keyboard' = Tail(keyboard)
  /\ polling' = FALSE
  /\ inSem' = inSem + 1
  /\ UNCHANGED <<typed, inLock, taken, outputSide, at, line>>

(* ConsoleOutput::CallBack, and waitFor->V(). *)
WriteInterrupt ==
  /\ putBusy
  /\ putBusy' = FALSE
  /\ outSem' = outSem + 1
  /\ UNCHANGED <<inputSide, outLock, display, at, line>>

(* SynchConsoleInput::GetChar: lock->Acquire(), waitFor->P(), then the rest. *)
GetLock(u) ==
  /\ at[u] = "get"
  /\ inLock = NoOne
  /\ inLock' = u
  /\ at' = [at EXCEPT ![u] = "wait for char"]
  /\ UNCHANGED <<typed, keyboard, incoming, polling, inSem, taken, outputSide, line>>

GetWait(u) ==
  /\ at[u] = "wait for char"
  /\ inSem > 0
  /\ inSem' = inSem - 1
  /\ at' = [at EXCEPT ![u] = "take char"]
  /\ UNCHANGED <<typed, keyboard, incoming, polling, inLock, taken, outputSide, line>>

(* Where a user goes with a character.  SysRead puts it into its buffer, or ends the    *)
(* line and begins another; ConsoleTest echoes it, or is done.                          *)
Got(u, ch) ==
  IF u \in Reader
  THEN /\ at' = [at EXCEPT ![u] = "get"]
       /\ line' = [line EXCEPT ![u] =
                     IF ch \in {EOF, NewLine} \/ Len(@) + 1 = LineSize THEN <<>> ELSE Append(@, ch)]
  ELSE /\ at' = [at EXCEPT ![u] = IF ch = EOF THEN "done" ELSE "put"]
       /\ line' = [line EXCEPT ![u] = IF ch = EOF THEN <<>> ELSE <<ch>>]

(* Mutant: the next poll is scheduled even at the end of the input. *)
AlwaysPolls(u) ==
  /\ at[u] = "take char"
  /\ polling' = TRUE
  /\ incoming' = EOF
  /\ taken' = Append(taken, incoming)
  /\ inLock' = NoOne
  /\ Got(u, incoming)
  /\ UNCHANGED <<typed, keyboard, inSem, outputSide>>

(* Mutant: incoming is cleared before it is looked at. *)
ClearsFirst(u) ==
  /\ at[u] = "take char"
  /\ incoming' = EOF
  /\ taken' = Append(taken, incoming)
  /\ inLock' = NoOne
  /\ Got(u, incoming)
  /\ UNCHANGED <<typed, keyboard, polling, inSem, outputSide>>

(* ConsoleInput::GetChar, and lock->Release(). *)
GetChar(u) ==
  /\ at[u] = "take char"
  /\ polling' = (polling \/ incoming # EOF)
  /\ incoming' = EOF
  /\ taken' = Append(taken, incoming)
  /\ inLock' = NoOne
  /\ Got(u, incoming)
  /\ UNCHANGED <<typed, keyboard, inSem, outputSide>>

(* The character a user displays next. *)
NextChar(u) == IF u \in Writer THEN Message[u][Len(line[u]) + 1] ELSE line[u][1]

(* SynchConsoleOutput::PutChar: lock->Acquire(), the device, waitFor->P(), lock->Release(). *)
PutLock(u) ==
  /\ at[u] = "put"
  /\ outLock = NoOne
  /\ outLock' = u
  /\ at' = [at EXCEPT ![u] = "display"]
  /\ UNCHANGED <<inputSide, putBusy, outSem, display, line>>

(* ConsoleOutput::PutChar asserts that the device is not busy: see ConsoleDiscipline. *)
PutChar(u) ==
  /\ at[u] = "display"
  /\ display' = Append(display, <<u, NextChar(u)>>)
  /\ putBusy' = TRUE
  /\ at' = [at EXCEPT ![u] = "wait for display"]
  /\ UNCHANGED <<inputSide, outLock, outSem, line>>

(* Where a user goes next: SysWrite to its next character until the message is out, *)
(* ConsoleTest back to the keyboard.                                                *)
Wrote(u) ==
  IF u \in Writer
  THEN LET out == Append(line[u], NextChar(u))
       IN  /\ line' = [line EXCEPT ![u] = out]
           /\ at' = [at EXCEPT ![u] = IF Len(out) = Len(Message[u]) THEN "done" ELSE "put"]
  ELSE line' = [line EXCEPT ![u] = <<>>] /\ at' = [at EXCEPT ![u] = "get"]

(* Mutant: the display is waited for after the lock is released. *)
PutWaitUnlocked(u) ==
  /\ at[u] = "wait for display"
  /\ outSem' = IF outSem > 0 THEN outSem - 1 ELSE outSem
  /\ outLock' = NoOne
  /\ Wrote(u)
  /\ UNCHANGED <<inputSide, putBusy, display>>

PutWait(u) ==
  /\ at[u] = "wait for display"
  /\ outSem > 0
  /\ outSem' = outSem - 1
  /\ outLock' = NoOne
  /\ Wrote(u)
  /\ UNCHANGED <<inputSide, putBusy, display>>

CNext ==
  \/ ReadInterrupt \/ WriteInterrupt
  \/ \E u \in User : \/ GetLock(u) \/ GetWait(u) \/ GetChar(u)
                     \/ PutLock(u) \/ PutChar(u) \/ PutWait(u)

(* Interrupts happen, threads run, and locks are granted first come, first served. *)
CFairness ==
  /\ WF_cvars(ReadInterrupt) /\ WF_cvars(WriteInterrupt)
  /\ \A u \in User :
       /\ WF_cvars(GetWait(u) \/ GetChar(u)) /\ SF_cvars(GetLock(u))
       /\ WF_cvars(PutChar(u) \/ PutWait(u)) /\ SF_cvars(PutLock(u))

CSpec == CInit /\ [][CNext]_cvars /\ CFairness

-----------------------------------------------------------------------------
(* GetChar saw EOF: the end of the input, or a byte that reads as EOF.  No poll follows. *)
Ended == \E i \in DOMAIN taken : taken[i] = EOF

(* The asserts of the devices and the count of the semaphores: a poll finds no character  *)
(* waiting (console.cc:70), PutChar finds the display free (console.cc:169), a user that  *)
(* was woken for a character finds one unless the input has ended, and at most one        *)
(* interrupt is counted on either side.                                                   *)
ConsoleDiscipline ==
  /\ polling => incoming = EOF
  /\ \A u \in User : at[u] = "display" => ~putBusy
  /\ \A u \in User : at[u] = "take char" /\ incoming = EOF =>
       keyboard = <<>> \/ AsChar(typed[Len(taken) + 1]) = EOF
  /\ inSem + (IF polling THEN 1 ELSE 0) <= 1
  /\ outSem + (IF putBusy THEN 1 ELSE 0) <= 1

(* Every byte typed is returned by exactly one GetChar, in the order typed, whichever     *)
(* processes compete for them; after the one EOF that ends the input nothing is returned. *)
TypedOnceInOrder ==
  /\ \A i \in DOMAIN taken :
       taken[i] = IF i <= Len(typed) THEN AsChar(typed[i]) ELSE EOF
  /\ \A i \in 1 .. Len(taken) - 1 : taken[i] # EOF

(* A process that asks for a character gets one, or the input has ended.  After the end  *)
(* GetChar never returns, and keeps the lock.                                            *)
ReaderServed == \A u \in Reader \cup Echo : (at[u] = "get") ~> (at[u] = "take char" \/ Ended)

(* Every message is displayed to its end. *)
WriterDone == \A w \in Writer : <>(at[w] = "done")
=============================================================================
