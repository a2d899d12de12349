--------------------------- MODULE SemaphoreTable ---------------------------
(***************************************************************************)
(* The semaphores of user programs: threads/stable.cc, threads/sem.cc and  *)
(* the CreateSemaphore, Wait and Signal system calls of                    *)
(* userprog/ksyscall.h.  A program names a semaphore by a string, and the  *)
(* kernel searches the table for it in every call.  A slot of the table is *)
(* used at most once, so the semaphore object of a slot is the slot.       *)
(***************************************************************************)
EXTENDS Threads, FiniteSetsExt

CONSTANTS
  SemName,        \* the strings programs pass, the empty one not included
  NoName,         \* no semaphore in this slot
  MAX_SEMAPHORE,
  SemVal,         \* the initial values programs pass to CreateSemaphore
  MaxCalls        \* bound: the units a name is given, and one less than those taken

Slot == 0 .. MAX_SEMAPHORE - 1

(* The value of an object that has not been constructed. *)
Unmade == [s \in Slot |-> 0]

ASSUME SlotAssumption ==
  /\ MAX_SEMAPHORE \in Nat
  /\ Semaphore = Slot
  /\ InitialValue = Unmade
  /\ IntSemaphore = {}  \* device handlers signal semaphores of the kernel only
  /\ NoName \notin SemName
  /\ SemVal \subseteq Int
  /\ MaxCalls \in Nat

VARIABLES
  bm,        \* STable::bm
  semTab,    \* the names of STable::semTab
  waits,     \* the name a thread has passed to a Wait that has not returned
  result,    \* register 2: what the last call returned
  granted,   \* history: the initial value of each name plus its Signals
  taken      \* history: the Waits on each name that have returned 0

svars == <<bm, semTab, waits, result, granted, taken>>
allvars == <<vars, svars>>

SInit ==
  /\ Init
  /\ bm = {}
  /\ semTab = [s \in Slot |-> NoName]
  /\ waits = [t \in Thread |-> NoName]
  /\ result = [t \in Thread |-> 0]
  /\ granted = [n \in SemName |-> 0]
  /\ taken = [n \in SemName |-> 0]

-----------------------------------------------------------------------------
(* A program is about to make a system call. *)
User == mode = "running" /\ waits[currentThread] = NoName

Return(x) == result' = [result EXCEPT ![currentThread] = x]

(* The slots whose semaphore has this name. *)
Named(n) == {s \in bm : semTab[s] = n}

(* The search of Wait and Signal stops at the first slot with the name. *)
Find(n) == Min(Named(n))

(* Mutant: Create does not look for the name. *)
AnyName(n) == TRUE

(* Create finds no semaphore with this name. *)
NewName(n) == Named(n) = {}

(* Bitmap::FindAndSet, when some bit is clear. *)
FreeSlot == Min(Slot \ bm)

(***************************************************************************)
(* SysCreateSemaphore, when STable::Create makes the semaphore.  The       *)
(* condition "if (result=-1)" assigns: the call returns -1 here too.       *)
(***************************************************************************)
Create(n, x) ==
  /\ User
  /\ NewName(n)
  /\ bm # Slot
  /\ bm' = bm \cup {FreeSlot}
  /\ semTab' = [semTab EXCEPT ![FreeSlot] = n]
  /\ value' = [value EXCEPT ![FreeSlot] = x]
  /\ granted' = [granted EXCEPT ![n] = @ + x]
  /\ Return(-1)
  /\ UNCHANGED <<status, readyList, currentThread, toBeDestroyed, queue, waitingOn, mode,
                 waits, taken>>

(* The calls that only return -1: an empty or unknown name, a used one, a full table. *)
Refused ==
  /\ User
  /\ Return(-1)
  /\ UNCHANGED <<vars, bm, semTab, waits, granted, taken>>

(* SysWait, up to the P of the semaphore. *)
SysWait(n) ==
  /\ User
  /\ Named(n) # {}
  /\ taken[n] <= MaxCalls
  /\ P(Find(n))
  /\ waits' = [waits EXCEPT ![currentThread] = n]
  /\ UNCHANGED <<bm, semTab, result, granted, taken>>

(* The rest of SysWait, when the thread has its unit. *)
WaitReturn ==
  /\ mode = "running"
  /\ waits[currentThread] # NoName
  /\ waits' = [waits EXCEPT ![currentThread] = NoName]
  /\ taken' = [taken EXCEPT ![waits[currentThread]] = @ + 1]
  /\ Return(0)
  /\ UNCHANGED <<vars, bm, semTab, granted>>

(* SysSignal *)
SysSignal(n) ==
  /\ User
  /\ Named(n) # {}
  /\ granted[n] < MaxCalls
  /\ V(Find(n))
  /\ granted' = [granted EXCEPT ![n] = @ + 1]
  /\ Return(0)
  /\ UNCHANGED <<bm, semTab, waits, taken>>

(* What happens besides: the kernel, programs that start and programs that end. *)
Environment ==
  /\ \/ KernelNext
     \/ User /\ (Finish \/ \E t \in Thread : Fork(t))
  /\ UNCHANGED svars

SNext ==
  \/ Environment
  \/ Refused
  \/ WaitReturn
  \/ \E n \in SemName :
       \/ SysWait(n)
       \/ SysSignal(n)
       \/ \E x \in SemVal : Create(n, x)

SSpec == SInit /\ [][SNext]_allvars

-----------------------------------------------------------------------------
(* The threads that have a unit of s and have not returned from Wait yet. *)
Holding(s) == {t \in Thread : waits[t] = semTab[s] /\ waitingOn[t] = NoSemaphore}

(***************************************************************************)
(* Programs that agree on a name share one counting semaphore, whatever    *)
(* the order of their calls: every unit a name was given, at its creation  *)
(* or by Signal, is in the semaphore that Wait finds, on its way to a      *)
(* program, or with the program whose Wait returned.                       *)
(***************************************************************************)
UnitsConserved ==
  \A n \in SemName : Named(n) # {} =>
    value[Find(n)] + Cardinality(Holding(Find(n))) + taken[n] = granted[n]

=============================================================================
