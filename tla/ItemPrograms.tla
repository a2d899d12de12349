---------------------------- MODULE ItemPrograms ----------------------------
(***************************************************************************)
(* The user programs test/main.c, test/producer.c and test/consumer.c: a   *)
(* producer and a consumer that keep a list of items in the file items.txt *)
(* and take turns with three semaphores.  They meet in the kernel's        *)
(* semaphores (atomic here, which is what Threads implements) and in its   *)
(* file table (FileTable; here one file, and who has it open).  Their Halt *)
(* is an Exit (exception.cc); the machine stops when main has joined both, *)
(* or at any moment by ctl-C.  The file survives, so the next boot starts  *)
(* from what it holds.  A system call is a step, with the computation that *)
(* follows it; the console is left out.                                    *)
(***************************************************************************)
EXTENDS Integers, Sequences, SequencesExt

CONSTANTS
  MAX_ITEMS,           \* main: the first value of "full"
  MAX_ITEMS_PRODUCE,   \* producer: the items it makes before it ends
  MAX_ITEM_CONSUME,    \* consumer: the items it takes before it ends
  Digit,               \* the number of different items, '0' to '9' in the code
  MaxBoots             \* bound: how often the machine is started

ASSUME ItemAssumption ==
  /\ {MAX_ITEMS, MAX_ITEMS_PRODUCE, MAX_ITEM_CONSUME, Digit, MaxBoots} \subseteq Nat \ {0}
  /\ MAX_ITEMS_PRODUCE \in MAX_ITEM_CONSUME .. MAX_ITEM_CONSUME + MAX_ITEMS

User == {"producer", "consumer"}

(* The byte 'e' that ends the list in the file. *)
E == -1

VARIABLES
  pc,        \* the next system call of each program
  sem,       \* the value of each semaphore
  file,      \* items.txt: whether it exists, and its bytes
  opened,    \* the programs that have it open
  at,        \* the position of the producer's descriptor
  held,      \* list_items of the producer, item of the consumer: what they hold of this round
  done,      \* num_item_produced and num_item_consumed
  halted,    \* the machine has stopped
  boots,     \* how often it was started
  left,      \* history: the items in the file when it was started
  produced,  \* history: the items printed by the producer since
  consumed,  \* history: the items printed by the consumer since
  astray     \* history: programs that used what no call had given them

ivars == <<pc, sem, file, opened, at, held, done, halted, boots, left, produced, consumed, astray>>

(* main: the semaphores, made before the other programs are started. *)
CreateSemaphores == [accessItem |-> 1, empty |-> 0, full |-> MAX_ITEMS]

ItemsOf(bytes) == SelectSeq(bytes, LAMBDA c : c # E)

(***************************************************************************)
(* main starts both programs and waits; which of them runs first is open.  *)
(* The file is there, and empty, or it is not.                             *)
(***************************************************************************)
PInit ==
  /\ pc = [p \in User |-> "top"]
  /\ sem = CreateSemaphores
  /\ \E exists \in BOOLEAN : file = [exists |-> exists, bytes |-> <<>>]
  /\ opened = {}
  /\ at = 0
  /\ held = [p \in User |-> <<>>]
  /\ done = [p \in User |-> 0]
  /\ halted = FALSE
  /\ boots = 1
  /\ left = <<>>
  /\ produced = <<>>
  /\ consumed = <<>>
  /\ astray = {}

-----------------------------------------------------------------------------
Doing(p, call, next) ==
  /\ ~halted
  /\ astray = {}
  /\ pc[p] = call
  /\ pc' = [pc EXCEPT ![p] = next]
  /\ UNCHANGED <<halted, boots, left>>

(* The two semaphores that count: a program takes from one and adds to the other. *)
Takes == [producer |-> "full", consumer |-> "empty"]
Adds == [producer |-> "empty", consumer |-> "full"]

Limit == [producer |-> MAX_ITEMS_PRODUCE, consumer |-> MAX_ITEM_CONSUME]

(* The head of the loop of both programs; Halt ends the program. *)
Top(p) ==
  /\ Doing(p, "top", IF done[p] >= Limit[p] THEN "ended" ELSE "wait unit")
  /\ UNCHANGED <<sem, file, opened, at, held, done, produced, consumed, astray>>

(* main has joined both programs and returns, which halts the machine. *)
MainReturns ==
  /\ ~halted
  /\ \A p \in User : pc[p] = "ended"
  /\ halted' = TRUE
  /\ UNCHANGED <<pc, sem, file, opened, at, held, done, boots, left, produced, consumed, astray>>

(* ctl-C: Nachos exits, whatever the programs are doing. *)
Cleanup ==
  /\ ~halted
  /\ halted' = TRUE
  /\ UNCHANGED <<pc, sem, file, opened, at, held, done, boots, left, produced, consumed, astray>>

(* Mutant: accessItem is not waited for. *)
WaitNoLock(p) ==
  /\ Doing(p, "wait access", "open")
  /\ UNCHANGED <<sem, file, opened, at, held, done, produced, consumed, astray>>

Wait(s) ==
  /\ sem[s] > 0
  /\ sem' = [sem EXCEPT ![s] = @ - 1]
  /\ UNCHANGED <<file, opened, at, held, done, produced, consumed, astray>>

Signal(s) ==
  /\ sem' = [sem EXCEPT ![s] = @ + 1]
  /\ UNCHANGED <<file, opened, at, held, done, produced, consumed, astray>>

(* Wait("full") or Wait("empty") *)
WaitUnit(p) == Doing(p, "wait unit", "wait access") /\ Wait(Takes[p])

(* Wait("accessItem") *)
WaitAccess(p) == Doing(p, "wait access", "open") /\ Wait("accessItem")

(* Mutant: the last Signal of a round is missing. *)
SignalNobody(p) ==
  /\ Doing(p, "signal unit", "top")
  /\ UNCHANGED <<sem, file, opened, at, held, done, produced, consumed, astray>>

(* Signal("empty") or Signal("full") *)
SignalUnit(p) == Doing(p, "signal unit", "top") /\ Signal(Adds[p])

(* Signal("accessItem") *)
SignalAccess(p) == Doing(p, "signal access", "signal unit") /\ Signal("accessItem")

-----------------------------------------------------------------------------
(* Open returns -1 for a file that is not there; neither program looks at the result. *)
Opened(p) == opened' = IF file.exists THEN opened \cup {p} ELSE opened \ {p}

(* The first Open, and the Seek of the producer to where Open has left it. *)
OpenItems(p) ==
  /\ Doing(p, "open", "read")
  /\ Opened(p)
  /\ at' = IF p = "producer" THEN 0 ELSE at
  /\ held' = [held EXCEPT ![p] = <<>>]
  /\ UNCHANGED <<sem, file, done, produced, consumed, astray>>

(* The producer's Read of one byte, while there is one; 'e' is passed over. *)
ReadByte ==
  /\ Doing("producer", "read", "read")
  /\ "producer" \in opened
  /\ at < Len(file.bytes)
  /\ at' = at + 1
  /\ held' = [held EXCEPT !["producer"] = @ \o ItemsOf(<<file.bytes[at + 1]>>)]
  /\ UNCHANGED <<sem, file, opened, done, produced, consumed, astray>>

(* The item after the last one in the list, or '0' for an empty list. *)
NewItem(list) == IF list = <<>> THEN 0 ELSE (Last(list) + 1) % Digit

(* The Read that returns 0, or -1 if there is no file; the new item is printed. *)
Produce ==
  /\ Doing("producer", "read", "close")
  /\ "producer" \in opened => at >= Len(file.bytes)
  /\ LET item == NewItem(held["producer"])
     IN  /\ produced' = Append(produced, item)
         /\ held' = [held EXCEPT !["producer"] = @ \o <<item, E>>]
  /\ UNCHANGED <<sem, file, opened, at, done, consumed, astray>>

(* The place of the first 'e', 0 if there is none. *)
Marker(bytes) == SelectInSeq(bytes, LAMBDA c : c = E)

(* used_item = item[0] *)
UsedItem(bytes) == bytes[1]

(* The loop that moves the bytes up to the 'e' one place down. *)
Shifted(bytes) == SubSeq(bytes, 2, Marker(bytes))

(***************************************************************************)
(* The consumer's Read of the whole file.  If that brings no item or no    *)
(* 'e', the program prints and shifts what was in its array before, or     *)
(* runs past the end of it.                                                *)
(***************************************************************************)
Consume ==
  /\ Doing("consumer", "read", "close")
  /\ IF "consumer" \in opened /\ Marker(file.bytes) > 1
     THEN /\ consumed' = Append(consumed, UsedItem(file.bytes))
          /\ held' = [held EXCEPT !["consumer"] = Shifted(file.bytes)]
          /\ UNCHANGED astray
     ELSE /\ astray' = astray \cup {"consumer"}
          /\ UNCHANGED <<consumed, held>>
  /\ UNCHANGED <<sem, file, opened, at, done, produced>>

(* The first Close; of -1 it does nothing. *)
CloseItems(p) ==
  /\ Doing(p, "close", "remove")
  /\ opened' = opened \ {p}
  /\ UNCHANGED <<sem, file, at, held, done, produced, consumed, astray>>

(* Remove: refused while a program has the file open. *)
RemoveItems(p) ==
  /\ Doing(p, "remove", "create")
  /\ file' = IF opened = {} THEN [exists |-> FALSE, bytes |-> <<>>] ELSE file
  /\ UNCHANGED <<sem, opened, at, held, done, produced, consumed, astray>>

(* Create: a file of no bytes, whatever was there. *)
CreateItems(p) ==
  /\ Doing(p, "create", "reopen")
  /\ file' = [exists |-> TRUE, bytes |-> <<>>]
  /\ UNCHANGED <<sem, opened, at, held, done, produced, consumed, astray>>

ReopenItems(p) ==
  /\ Doing(p, "reopen", "write")
  /\ Opened(p)
  /\ UNCHANGED <<sem, file, at, held, done, produced, consumed, astray>>

(* Write at the start of the file; what lies behind the bytes written stays. *)
WriteItems(p) ==
  /\ Doing(p, "write", "reclose")
  /\ IF p \in opened
     THEN /\ file' = [file EXCEPT !.bytes =
                        held[p] \o SubSeq(@, Len(held[p]) + 1, Len(@))]
          /\ UNCHANGED astray
     ELSE astray' = astray \cup {p} /\ UNCHANGED file
  /\ done' = [done EXCEPT ![p] = @ + 1]
  /\ UNCHANGED <<sem, opened, at, held, produced, consumed>>

RecloseItems(p) ==
  /\ Doing(p, "reclose", "signal access")
  /\ opened' = opened \ {p}
  /\ UNCHANGED <<sem, file, at, held, done, produced, consumed, astray>>

(* The machine is started again; the file is what the last run left. *)
Boot ==
  /\ halted
  /\ boots < MaxBoots
  /\ boots' = boots + 1
  /\ pc' = [p \in User |-> "top"]
  /\ sem' = CreateSemaphores
  /\ opened' = {}
  /\ at' = 0
  /\ held' = [p \in User |-> <<>>]
  /\ done' = [p \in User |-> 0]
  /\ halted' = FALSE
  /\ left' = ItemsOf(file.bytes)
  /\ produced' = <<>>
  /\ consumed' = <<>>
  /\ UNCHANGED <<file, astray>>

ProgramStep(p) ==
  \/ Top(p) \/ WaitUnit(p) \/ WaitAccess(p) \/ OpenItems(p)
  \/ p = "producer" /\ (ReadByte \/ Produce)
  \/ p = "consumer" /\ Consume
  \/ CloseItems(p) \/ RemoveItems(p) \/ CreateItems(p) \/ ReopenItems(p) \/ WriteItems(p) \/ RecloseItems(p)
  \/ SignalAccess(p) \/ SignalUnit(p)

PNext == Boot \/ MainReturns \/ Cleanup \/ \E p \in User : ProgramStep(p)

(* The timer preempts programs, and the ready list is first in, first out. *)
PFairness == WF_ivars(MainReturns) /\ \A p \in User : WF_ivars(ProgramStep(p))

PSpec == PInit /\ [][PNext]_ivars /\ PFairness

-----------------------------------------------------------------------------
(* What the file has held or was to hold since the machine was started. *)
Made == left \o produced

(***************************************************************************)
(* Whoever finds accessItem free finds in the file, ended by 'e', exactly  *)
(* the items that were made and not yet taken, and those taken are the     *)
(* oldest, in the order they were made, the ones of an earlier run first:  *)
(* rewriting the list by Remove, Create, Open and Write loses, repeats and *)
(* reorders nothing, whichever program is preempted between any two calls  *)
(* and wherever the last run was stopped.                                  *)
(***************************************************************************)
NothingLost ==
  sem["accessItem"] = 1 /\ produced # <<>> =>
    file.exists /\ consumed \o file.bytes = Made \o <<E>>

(***************************************************************************)
(* The programs do not wait for one another for ever: every run ends.  The *)
(* producer makes as many items as the consumer takes and the file may     *)
(* keep, not one more.                                                     *)
(***************************************************************************)
ProgramsHalt == []<>halted
=============================================================================
