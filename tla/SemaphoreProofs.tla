-------------------------- MODULE SemaphoreProofs --------------------------
(***************************************************************************)
(* Proofs about semaphores.  Those of Threads, for every set of threads    *)
(* and semaphores and all initial values: no wakeup is lost, and P and V   *)
(* are atomic.  Those of SemaphoreTable, for any number of programs, names *)
(* and slots: no unit of a named semaphore is lost or made up.             *)
(***************************************************************************)
EXTENDS SemaphoreTable, ThreadsProofs, FiniteSetTheorems

(* Zenon proves the leaves that name no prover; those with arithmetic or   *)
(* sequences name the SMT solver.                                          *)
USE ZenonT(60)

(* Woken(s) is finite, so its cardinality is a number. *)
LEMMA WokenFinite ==
  ASSUME NEW s \in Semaphore
  PROVE  IsFiniteSet(Woken(s)) /\ Cardinality(Woken(s)) \in Nat
<1>1. Woken(s) \in SUBSET Thread
  BY DEF Woken
<1> QED
  BY <1>1, ThreadAssumption, FS_Subset, FS_CardinalityType

(* A step that leaves values, queues and the woken threads alone loses nothing. *)
LEMMA SameWoken ==
  ASSUME NoLostWakeup, UNCHANGED <<value, queue>>,
         \A s \in Semaphore : Woken(s)' = Woken(s)
  PROVE  NoLostWakeup'
  BY DEF NoLostWakeup

(* The loop test: a thread that finds value 0 sleeps, another takes a unit. *)
LEMMA TestValueWakeup ==
  ASSUME IInv, NoLostWakeup, NEW s \in Semaphore, TestValue(s),
         mode = "switched" => waitingOn[currentThread] = s,
         mode \in {"running", "switched"}
  PROVE  NoLostWakeup'
<1> USE DEF IInv
<1>1. /\ currentThread \in Thread /\ status[currentThread] = "RUNNING"
      /\ waitingOn[currentThread] \in {s, NoSemaphore}
      /\ value[s] \in Int /\ NoSemaphore \notin Semaphore
  BY SemaphoreAssumption DEF TypeOK, Placement, ModeInv
<1>2. \A r \in Semaphore : r # s => Woken(r)' = Woken(r) /\ value'[r] = value[r]
                                    /\ queue'[r] = queue[r]
  BY SMTT(60), <1>1 DEF TestValue, Wait, Take, Woken, TypeOK
<1>3. CASE Wait(s) /\ value[s] = 0
  <2>1. value'[s] = 0
    BY <1>3 DEF Wait
  <2>2. Cardinality(Woken(s))' \in Nat
    BY WokenFinite, ThreadAssumption, FS_Subset, FS_CardinalityType DEF Woken
  <2> QED
    BY SMTT(60), <1>2, <2>1, <2>2 DEF NoLostWakeup
<1>4. CASE Take(s)
  <2>1. value'[s] = value[s] - 1 /\ queue' = queue
    BY <1>4 DEF Take, TypeOK
  <2>2. Woken(s)' = Woken(s) \ {currentThread}
    BY <1>1, <1>4 DEF Take, Woken, TypeOK
  <2>3. Cardinality(Woken(s)') >= Cardinality(Woken(s)) - 1
    BY SMTT(60), <2>2, WokenFinite, FS_RemoveElement
  <2>4. Cardinality(Woken(s)') \in Nat
    BY <2>2, WokenFinite, FS_RemoveElement, FS_CardinalityType
  <2>5. queue'[s] # <<>> => value'[s] <= Cardinality(Woken(s)')
    BY SMTT(60), <1>1, <2>1, <2>3, <2>4, WokenFinite DEF NoLostWakeup
  <2> QED
    BY <1>2, <2>5 DEF NoLostWakeup
<1> QED
  BY <1>3, <1>4 DEF TestValue

(* V() adds a unit and, when somebody sleeps, a thread to take it. *)
LEMMA WakeWakeup ==
  ASSUME IInv, NoLostWakeup, NEW s \in Semaphore, Wake(s), UNCHANGED waitingOn
  PROVE  NoLostWakeup'
<1> USE DEF IInv
<1> DEFINE h == Head(queue[s])
<1>1. value'[s] = value[s] + 1 /\ value[s] \in Int
      /\ \A r \in Semaphore : r # s => value'[r] = value[r]
  BY DEF Wake, MustWake, RemoveFront, TypeOK
<1>2. CASE queue[s] = <<>>
  <2>1. UNCHANGED <<status, queue>>
    BY <1>2 DEF Wake, MustWake, RemoveFront
  <2>2. \A r \in Semaphore : Woken(r)' = Woken(r)
    BY <2>1 DEF Woken
  <2> QED
    BY <1>1, <1>2, <2>1, <2>2 DEF NoLostWakeup
<1>3. CASE queue[s] # <<>>
  <2>1. /\ status' = [status EXCEPT ![h] = "READY"]
        /\ \A r \in Semaphore : r # s => queue'[r] = queue[r]
    BY <1>3 DEF Wake, MustWake, RemoveFront, ReadyToRun, TypeOK
  <2>2. h \in Thread /\ status[h] = "BLOCKED" /\ waitingOn[h] = s
    BY SMTT(60), <1>3, TailIsOn DEF TypeOK, Placement
  <2> HIDE DEF h
  <2>3. \A r \in Semaphore : r # s => Woken(r)' = Woken(r)
    BY <2>1, <2>2 DEF Woken, TypeOK
  <2>4. Woken(s)' = Woken(s) \cup {h} /\ h \notin Woken(s)
    BY <2>1, <2>2 DEF Woken, TypeOK
  <2>5. Cardinality(Woken(s)') = Cardinality(Woken(s)) + 1
    BY <2>4, WokenFinite, FS_AddElement
  <2>6. value'[s] <= Cardinality(Woken(s)')
    BY SMTT(60), <1>1, <1>3, <2>5, WokenFinite DEF NoLostWakeup
  <2> QED
    BY <1>1, <2>1, <2>3, <2>6 DEF NoLostWakeup
<1> QED
  BY <1>2, <1>3

LEMMA CallWakeup ==
  ASSUME IInv, NoLostWakeup,
         \/ Yield \/ Run \/ CheckToBeDestroyed \/ Resume \/ Finish \/ Halt
         \/ \E s \in Semaphore : P(s) \/ V(s) \/ Interrupt(s)
         \/ \E t \in Thread : Fork(t)
  PROVE  NoLostWakeup'
<1> USE DEF IInv
<1>1. ASSUME NEW s \in Semaphore, P(s) PROVE NoLostWakeup'
  BY <1>1, TestValueWakeup DEF P
<1>2. ASSUME NEW s \in Semaphore, V(s) \/ Interrupt(s) PROVE NoLostWakeup'
  BY <1>2, WakeWakeup DEF V, Interrupt
<1>3. CASE Resume
  <2>1. CASE waitingOn[currentThread] # NoSemaphore
    BY <1>3, <2>1, TestValueWakeup DEF Resume, Retest, TypeOK
  <2>2. CASE waitingOn[currentThread] = NoSemaphore
    BY <1>3, <2>2, SameWoken DEF Resume, Retest, Woken
  <2> QED
    BY <2>1, <2>2
<1>4. CASE Yield
  <2>1. /\ Head(readyList) \in Thread /\ status[Head(readyList)] = "READY"
        /\ currentThread \in Thread /\ status[currentThread] = "RUNNING"
    BY <1>4, TailIsOn DEF Yield, Requeued, TypeOK, Placement
  <2> QED
    BY <1>4, <2>1, SameWoken DEF Yield, Requeued, Woken, TypeOK
<1>5. CASE Run
  <2>1. Head(readyList) \in Thread /\ status[Head(readyList)] = "READY"
    BY <1>5, TailIsOn DEF Run, FinishedThread, TypeOK, Placement
  <2> QED
    BY <1>5, <2>1, SameWoken DEF Run, FinishedThread, Woken, TypeOK
<1>6. CASE CheckToBeDestroyed
  <2>1. toBeDestroyed \in Thread /\ waitingOn[toBeDestroyed] = NoSemaphore
    BY <1>6 DEF CheckToBeDestroyed, SafeDestruction, TypeOK
  <2> QED
    BY <1>6, <2>1, SameWoken, SemaphoreAssumption DEF CheckToBeDestroyed, Woken, TypeOK
<1>7. CASE Finish
  BY <1>7, SameWoken, SemaphoreAssumption DEF Finish, Woken, TypeOK, ModeInv
<1>8. CASE Halt
  BY <1>8, SameWoken DEF Halt, Woken
<1>9. ASSUME NEW t \in Thread, Fork(t) PROVE NoLostWakeup'
  BY <1>9, SameWoken DEF Fork, ReadyToRun, Woken, TypeOK
<1> QED
  BY <1>1, <1>2, <1>3, <1>4, <1>5, <1>6, <1>7, <1>8, <1>9

(***************************************************************************)
(* While threads sleep on a semaphore, each unit of its value has a woken  *)
(* thread that will take it: V loses no wakeup.                            *)
(***************************************************************************)
THEOREM ThreadsNoLostWakeup == Spec => []NoLostWakeup
<1>1. Init => NoLostWakeup
  BY DEF Init, NoLostWakeup
<1>2. IInv /\ NoLostWakeup /\ [Next]_vars => NoLostWakeup'
  <2> SUFFICES ASSUME IInv, NoLostWakeup, [Next]_vars PROVE NoLostWakeup'
    OBVIOUS
  <2>1. CASE Next
    BY <2>1, CallWakeup, SemaphoreAssumption DEF Next, KernelNext
  <2>2. CASE UNCHANGED vars
    BY <2>2, SameWoken DEF vars, Woken
  <2> QED
    BY <2>1, <2>2
<1> QED
  BY <1>1, <1>2, ThreadsInvariant, PTL DEF Spec

-----------------------------------------------------------------------------
(* The constructor's precondition: synch.h says that a value is "always >= 0". *)
NonNegative == \A s \in Semaphore : value[s] >= 0

LEMMA NextNonNegative == IInv /\ NonNegative /\ [Next]_vars => NonNegative'
<1> SUFFICES ASSUME IInv, NonNegative, [Next]_vars PROVE NonNegative'
  OBVIOUS
<1>1. value \in [Semaphore -> Int]
  BY DEF IInv, TypeOK
<1>2. ASSUME NEW s \in Semaphore, TestValue(s) PROVE NonNegative'
  BY SMTT(60), <1>1, <1>2 DEF TestValue, Wait, Take, NonNegative
<1>3. ASSUME NEW s \in Semaphore, Wake(s) PROVE NonNegative'
  BY SMTT(60), <1>1, <1>3 DEF Wake, NonNegative
<1>4. CASE value' = value
  BY <1>4 DEF NonNegative
<1>5. CASE Resume
  BY <1>2, <1>4, <1>5 DEF Resume, Retest, IInv, TypeOK
<1> QED
  BY <1>2, <1>3, <1>4, <1>5, SemaphoreAssumption
  DEF Next, KernelNext, vars, Yield, Run, CheckToBeDestroyed, Interrupt, Finish, Halt, P, V, Fork

(* The loop test of P() by a thread that is not yet inside of it, and by one that is. *)
LEMMA TestIsAtomic ==
  ASSUME IInv, NonNegative, NEW s \in Semaphore, TestValue(s),
         mode = "running" \/ mode = "switched",
         IF mode = "running" THEN waitingOn[currentThread] = NoSemaphore
         ELSE waitingOn[currentThread] = s
  PROVE  [Atomic!Next]_(Atomic!vars)
<1> USE DEF Atomic!Next, Atomic!vars
<1>1. /\ currentThread \in Thread /\ value \in [Semaphore -> Int] /\ value[s] >= 0
      /\ waitingOn \in [Thread -> Semaphore \cup {NoSemaphore}]
      /\ NoSemaphore \notin Semaphore
  BY SemaphoreAssumption DEF IInv, TypeOK, NonNegative
<1>2. (mode = "halted") = FALSE /\ (mode' = "halted") = FALSE
  BY DEF TestValue, Wait, Take
<1>3. CASE value[s] = 0 /\ waitingOn[currentThread] = NoSemaphore
  <2>1. Atomic!Block(currentThread, s)
    BY <1>2, <1>3 DEF TestValue, Wait, Atomic!Block
  <2> QED
    BY <1>1, <2>1
<1>4. CASE value[s] = 0 /\ waitingOn[currentThread] = s
  BY <1>1, <1>2, <1>4 DEF TestValue, Wait
<1>5. CASE value[s] # 0 /\ waitingOn[currentThread] = NoSemaphore
  <2>1. value[s] > 0 /\ value' = [value EXCEPT ![s] = @ - 1]
    BY SMTT(60), <1>1, <1>5 DEF TestValue, Take
  <2>2. waitingOn' = [waitingOn EXCEPT ![currentThread] = NoSemaphore]
    BY <1>5 DEF TestValue, Take
  <2>3. waitingOn' = waitingOn
    BY <1>1, <1>5, <2>2
  <2>4. Atomic!Decrement(s)
    BY <1>2, <2>1, <2>3 DEF Atomic!Decrement
  <2> QED
    BY <2>4
<1>6. CASE value[s] # 0 /\ waitingOn[currentThread] = s
  <2>1. Atomic!Unblock(currentThread, s)
    BY SMTT(60), <1>1, <1>2, <1>6 DEF TestValue, Take, Atomic!Unblock
  <2> QED
    BY <1>1, <2>1
<1> QED
  BY <1>3, <1>4, <1>5, <1>6

(* Every step of the kernel and of its threads is a step of the atomic semaphores or none. *)
LEMMA NextIsAtomic ==
  IInv /\ NonNegative /\ [Next]_vars => [Atomic!Next]_(Atomic!vars)
<1> SUFFICES ASSUME IInv, NonNegative, [Next]_vars PROVE [Atomic!Next]_(Atomic!vars)
  OBVIOUS
<1>1. CASE /\ UNCHANGED <<value, waitingOn>>
           /\ (mode # "halted" /\ mode' # "halted") \/ UNCHANGED mode
  BY <1>1 DEF Atomic!vars
<1>2. CASE Halt
  BY <1>2 DEF Halt, Atomic!Next, Atomic!Stop
<1>3. ASSUME NEW s \in Semaphore, P(s) PROVE [Atomic!Next]_(Atomic!vars)
  BY <1>3, TestIsAtomic DEF P, IInv, ModeInv
<1>4. ASSUME NEW s \in Semaphore, Wake(s), mode # "halted", UNCHANGED <<waitingOn, mode>>
      PROVE  [Atomic!Next]_(Atomic!vars)
  <2>1. Atomic!Increment(s)
    BY <1>4 DEF Wake, Atomic!Increment
  <2> QED
    BY <2>1 DEF Atomic!Next
<1>5. CASE Resume
  <2>1. CASE waitingOn[currentThread] = NoSemaphore
    BY <1>1, <1>5, <2>1 DEF Resume
  <2>2. CASE waitingOn[currentThread] # NoSemaphore
    BY <1>5, <2>2, TestIsAtomic DEF Resume, Retest, IInv, TypeOK
  <2> QED
    BY <2>1, <2>2
<1>6. CASE Yield \/ Run \/ CheckToBeDestroyed \/ Finish \/ \E t \in Thread : Fork(t)
  BY <1>1, <1>6 DEF Yield, Run, CheckToBeDestroyed, Finish, Fork
<1>7. ASSUME NEW s \in Semaphore, V(s) \/ Interrupt(s) PROVE [Atomic!Next]_(Atomic!vars)
  BY <1>4, <1>7 DEF V, Interrupt
<1>8. CASE UNCHANGED vars
  BY <1>1, <1>8 DEF vars
<1> QED
  BY <1>2, <1>3, <1>5, <1>6, <1>7, <1>8, SemaphoreAssumption DEF Next, KernelNext

(***************************************************************************)
(* synch.h: P and V "are both *atomic*".  With semaphores made with values *)
(* that are not negative, the kernel implements the atomic semaphores: it  *)
(* starts as they do, and each of its steps is one of theirs or invisible. *)
(* (That a unit is taken in the end is ImplementsAtomicSemaphores.)        *)
(***************************************************************************)
THEOREM ThreadsRefineAtomicSemaphores ==
  ASSUME \A s \in Semaphore : InitialValue[s] >= 0
  PROVE  Spec => Atomic!Init /\ [][Atomic!Next]_(Atomic!vars)
<1>1. Init => NonNegative
  BY DEF Init, NonNegative
<1>2. Init => Atomic!Init
  BY DEF Init, Atomic!Init
<1> QED
  BY <1>1, <1>2, NextNonNegative, NextIsAtomic, ThreadsInvariant, PTL DEF Spec

-----------------------------------------------------------------------------
(***************************************************************************)
(* A set of natural numbers that is not empty has a smallest member: what  *)
(* Bitmap::FindAndSet and the search for a name find.                      *)
(***************************************************************************)
LEMMA SmallestExists ==
  ASSUME NEW T, T \subseteq Nat, T # {}
  PROVE  \E m \in T : \A y \in T : m <= y
<1> DEFINE Less == {ss \in Nat \X Nat : ss[1] < ss[2]}
<1>1. IsWellFoundedOn(Less, Nat)
  BY NatLessThanWellFounded DEF OpToRel
<1> HIDE DEF Less
<1>2. PICK m \in T : \A y \in T : ~ (<<y, m>> \in Less)
  BY <1>1, WFMin
<1>3. ASSUME NEW y \in T PROVE m <= y
  <2>1. <<y, m>> \in Nat \X Nat
    OBVIOUS
  <2> QED
    BY SMTT(60), <1>2, <2>1 DEF Less
<1> QED
  BY <1>3

(***************************************************************************)
(* The table: a name is in one slot at most, nothing was done with a name  *)
(* that is in none, and a thread that waits does so in the slot whose name *)
(* it has passed to Wait.                                                  *)
(***************************************************************************)
TableInv ==
  /\ bm \subseteq Slot
  /\ semTab \in [Slot -> SemName \cup {NoName}]
  /\ waits \in [Thread -> SemName \cup {NoName}]
  /\ granted \in [SemName -> Int]
  /\ taken \in [SemName -> Int]
  /\ \A s \in bm : semTab[s] \in SemName
  /\ \A r, s \in bm : semTab[r] = semTab[s] => r = s
  /\ \A n \in SemName : (\A s \in bm : semTab[s] # n) => granted[n] = 0 /\ taken[n] = 0
  /\ \A t \in Thread :
       /\ waits[t] # NoName => \E s \in bm : semTab[s] = waits[t]
       /\ waitingOn[t] # NoSemaphore =>
            waitingOn[t] \in bm /\ semTab[waitingOn[t]] = waits[t]

(* UnitsConserved, slot by slot. *)
SlotUnits ==
  \A s \in bm : value[s] + Cardinality(Holding(s)) + taken[semTab[s]] = granted[semTab[s]]

(* The inductive invariant. *)
SInv == IInv /\ TableInv /\ SlotUnits

-----------------------------------------------------------------------------
(* Bitmap::FindAndSet finds a bit that is clear. *)
LEMMA MinOfSlots ==
  ASSUME NEW T \in SUBSET Slot, T # {}
  PROVE  Min(T) \in T
<1>1. T \subseteq Nat
  BY SMTT(60), SlotAssumption DEF Slot
<1>2. PICK m \in T : \A y \in T : m <= y
  BY <1>1, SmallestExists
<1> QED
  BY <1>2 DEF Min

(* The least member of a set with one member. *)
LEMMA MinOfOne == ASSUME NEW s \in Nat PROVE Min({s}) = s
  BY SMTT(60) DEF Min

(* The threads that hold units are finitely many. *)
LEMMA HoldingFinite ==
  ASSUME NEW s
  PROVE  IsFiniteSet(Holding(s)) /\ Cardinality(Holding(s)) \in Nat
<1>1. Holding(s) \in SUBSET Thread
  BY DEF Holding
<1> QED
  BY <1>1, ThreadAssumption, FS_Subset, FS_CardinalityType

(* The search of Wait and Signal finds the one slot that has the name. *)
LEMMA FindIsTheSlot ==
  ASSUME TableInv, NEW n \in SemName, Named(n) # {}
  PROVE  /\ Find(n) \in bm
         /\ semTab[Find(n)] = n
         /\ \A s \in bm : semTab[s] = n => s = Find(n)
<1>1. PICK s \in bm : semTab[s] = n
  BY DEF Named
<1>2. Named(n) = {s}
  BY <1>1 DEF Named, TableInv
<1>3. s \in Nat
  BY SMTT(60), SlotAssumption DEF TableInv, Slot
<1>4. Find(n) = s
  BY <1>2, <1>3, MinOfOne DEF Find
<1> QED
  BY <1>1, <1>2, <1>4 DEF Named

LEMMA InitSInv == SInit => SInv
<1> SUFFICES ASSUME SInit PROVE SInv
  OBVIOUS
<1>1. IInv
  BY InitIInv DEF SInit
<1>2. TableInv
  BY SMTT(60), SlotAssumption DEF SInit, Init, TableInv
<1>3. SlotUnits
  BY DEF SInit, SlotUnits
<1> QED
  BY <1>1, <1>2, <1>3 DEF SInv

(***************************************************************************)
(* A step that moves units between a semaphore and a thread: P takes one   *)
(* at once, or a woken thread takes one later.                             *)
(***************************************************************************)
LEMMA UnitTaken ==
  ASSUME SInv, NEW s \in bm, NEW t \in Thread,
         UNCHANGED <<bm, semTab, granted, taken>>,
         value' = [value EXCEPT ![s] = @ - 1],
         t \notin Holding(s),
         Holding(s)' = Holding(s) \cup {t},
         \A r \in bm : r # s => Holding(r)' = Holding(r)
  PROVE  SlotUnits'
<1>1. /\ value \in [Slot -> Int] /\ s \in Slot /\ bm \subseteq Slot
      /\ taken[semTab[s]] \in Int /\ granted[semTab[s]] \in Int
  BY SlotAssumption DEF SInv, IInv, TypeOK, TableInv
<1>2. Cardinality(Holding(s)') = Cardinality(Holding(s)) + 1
  <2>1. IsFiniteSet(Holding(s))
    BY HoldingFinite
  <2> QED
    BY <2>1, FS_AddElement
<1>3. value'[s] = value[s] - 1 /\ \A r \in bm : r # s => value'[r] = value[r]
  BY <1>1
<1>4. value'[s] + Cardinality(Holding(s)') + taken[semTab[s]] = granted[semTab[s]]
  BY SMTT(60), <1>1, <1>2, <1>3, HoldingFinite DEF SInv, SlotUnits
<1> QED
  BY <1>3, <1>4 DEF SInv, SlotUnits

(* A step that changes neither units nor who holds them. *)
LEMMA UnitsKept ==
  ASSUME SlotUnits, UNCHANGED <<bm, semTab, granted, taken, value>>,
         \A r \in bm : Holding(r)' = Holding(r)
  PROVE  SlotUnits'
  BY DEF SlotUnits

(* SysWait: the caller takes a unit or sleeps in the slot it named. *)
LEMMA SysWaitSInv == ASSUME SInv, NEW n \in SemName, SysWait(n) PROVE SInv'
<1> USE DEF SInv
<1> DEFINE c == currentThread
<1>1. PICK s \in bm : /\ s = Find(n) /\ semTab[s] = n /\ s \in Semaphore
                      /\ \A r \in bm : semTab[r] = n => r = s
  BY FindIsTheSlot, SlotAssumption DEF SysWait, TableInv
<1>2. /\ P(s) /\ waits' = [waits EXCEPT ![c] = n] /\ waits[c] = NoName
      /\ UNCHANGED <<bm, semTab, granted, taken>>
  BY <1>1 DEF SysWait, User
<1>3. IInv'
  BY <1>1, <1>2, CallIInv
<1>4. /\ c \in Thread /\ UNCHANGED currentThread
      /\ waitingOn[c] = NoSemaphore
      /\ \/ /\ value[s] = 0
            /\ UNCHANGED value
            /\ waitingOn' = [waitingOn EXCEPT ![c] = s]
         \/ /\ value[s] # 0
            /\ value' = [value EXCEPT ![s] = @ - 1]
            /\ UNCHANGED waitingOn
  BY <1>1, <1>2, PUnits
<1>5. /\ waits \in [Thread -> SemName \cup {NoName}] /\ NoName \notin SemName
      /\ waitingOn \in [Thread -> Semaphore \cup {NoSemaphore}]
      /\ s # NoSemaphore
      /\ \A r \in bm : semTab[r] \in SemName
  BY <1>1, SlotAssumption, SemaphoreAssumption DEF TableInv, IInv, TypeOK
<1> HIDE DEF c
<1>6. TableInv'
  BY SMTT(60), <1>1, <1>2, <1>4, <1>5 DEF TableInv
<1>7. \A r \in bm : r # s => Holding(r)' = Holding(r)
  BY <1>1, <1>2, <1>4, <1>5 DEF Holding
<1>8. CASE value[s] = 0
  <2>1. Holding(s)' = Holding(s)
    BY <1>1, <1>2, <1>4, <1>5, <1>8 DEF Holding
  <2>2. UNCHANGED value
    BY <1>4, <1>8
  <2>3. SlotUnits'
    BY <1>2, <1>7, <2>1, <2>2, UnitsKept
  <2> QED
    BY <1>3, <1>6, <2>3
<1>9. CASE value[s] # 0
  <2>1. Holding(s)' = Holding(s) \cup {c} /\ c \notin Holding(s)
    BY <1>1, <1>2, <1>4, <1>5, <1>9 DEF Holding
  <2>2. SlotUnits'
    BY <1>1, <1>2, <1>4, <1>7, <1>9, <2>1, UnitTaken
  <2> QED
    BY <1>3, <1>6, <2>2
<1> QED
  BY <1>8, <1>9

(* The end of SysWait: the unit is the program's. *)
LEMMA WaitReturnSInv == ASSUME SInv, WaitReturn PROVE SInv'
<1> USE DEF SInv
<1> DEFINE c == currentThread
           n == waits[c]
<1>1. /\ c \in Thread /\ n \in SemName
      /\ waitingOn[c] = NoSemaphore
      /\ taken \in [SemName -> Int] /\ granted \in [SemName -> Int]
      /\ waits \in [Thread -> SemName \cup {NoName}]
      /\ NoName \notin SemName
  BY SlotAssumption DEF WaitReturn, TableInv, IInv, TypeOK, ModeInv
<1>2. PICK s \in bm : semTab[s] = n
  BY <1>1, SlotAssumption DEF TableInv
<1>3. /\ waits' = [waits EXCEPT ![c] = NoName]
      /\ taken' = [taken EXCEPT ![n] = @ + 1]
      /\ UNCHANGED <<vars, bm, semTab, granted>>
  BY DEF WaitReturn
<1>4. IInv'
  BY <1>3 DEF vars, IInv, TypeOK, Placement, SafeDestruction, ModeInv
<1> HIDE DEF c, n
<1>5. TableInv'
  BY SMTT(60), <1>1, <1>2, <1>3 DEF TableInv, vars
<1>6. \A r \in bm : r # s => Holding(r)' = Holding(r) /\ semTab[r] # n
  BY SMTT(60), <1>1, <1>2, <1>3 DEF Holding, vars, TableInv, n
<1>7. Holding(s)' = Holding(s) \ {c} /\ c \in Holding(s)
  BY <1>1, <1>2, <1>3 DEF Holding, vars, TableInv, n
<1>8. Cardinality(Holding(s)') = Cardinality(Holding(s)) - 1
  BY <1>7, HoldingFinite, FS_RemoveElement
<1>9. /\ value[s] \in Int /\ taken'[n] = taken[n] + 1 /\ taken[n] \in Int /\ granted[n] \in Int
      /\ \A m \in SemName : m # n => taken'[m] = taken[m]
  BY <1>1, <1>3, SlotAssumption DEF IInv, TypeOK, TableInv
<1>10. value[s] + Cardinality(Holding(s)') + taken'[semTab[s]] = granted[semTab[s]]
  BY SMTT(60), <1>2, <1>8, <1>9, HoldingFinite DEF SlotUnits
<1>11. SlotUnits'
  BY SMTT(60), <1>3, <1>6, <1>9, <1>10 DEF SlotUnits, TableInv, vars
<1> QED
  BY <1>4, <1>5, <1>11

(* SysSignal adds a unit to the slot it finds. *)
LEMMA SysSignalSInv == ASSUME SInv, NEW n \in SemName, SysSignal(n) PROVE SInv'
<1> USE DEF SInv
<1>1. PICK s \in bm : /\ s = Find(n) /\ semTab[s] = n /\ s \in Semaphore
                      /\ \A r \in bm : semTab[r] = n => r = s
  BY FindIsTheSlot, SlotAssumption DEF SysSignal, TableInv
<1>2. /\ V(s) /\ granted' = [granted EXCEPT ![n] = @ + 1]
      /\ UNCHANGED <<bm, semTab, waits, taken>>
  BY <1>1 DEF SysSignal
<1>3. IInv'
  BY <1>1, <1>2, CallIInv
<1>4. UNCHANGED waitingOn /\ value' = [value EXCEPT ![s] = @ + 1]
  BY <1>1, <1>2, VUnits
<1>5. TableInv'
  BY SMTT(60), <1>1, <1>2, <1>4 DEF TableInv
<1>6. \A r \in bm : Holding(r)' = Holding(r)
  BY <1>2, <1>4 DEF Holding
<1>7. /\ value'[s] = value[s] + 1 /\ value[s] \in Int
      /\ \A r \in bm : r # s => value'[r] = value[r]
  BY <1>1, <1>4, SlotAssumption DEF IInv, TypeOK, TableInv
<1>8. /\ granted'[n] = granted[n] + 1 /\ granted[n] \in Int /\ taken[n] \in Int
      /\ \A m \in SemName : m # n => granted'[m] = granted[m]
  BY <1>2 DEF TableInv
<1>9. value'[s] + Cardinality(Holding(s)) + taken[semTab[s]] = granted'[semTab[s]]
  BY SMTT(60), <1>1, <1>7, <1>8, HoldingFinite DEF SlotUnits
<1>10. SlotUnits'
  BY SMTT(60), <1>1, <1>2, <1>6, <1>7, <1>8, <1>9 DEF SlotUnits, TableInv
<1> QED
  BY <1>3, <1>5, <1>10

(* STable::Create gives a new name the units the program asked for, in a slot that is free. *)
LEMMA CreateSInv == ASSUME SInv, NEW n \in SemName, NEW x \in SemVal, Create(n, x) PROVE SInv'
<1> USE DEF SInv
<1>1. PICK s \in Slot \ bm : s = FreeSlot
  BY MinOfSlots DEF Create, FreeSlot, TableInv
<1>0. x \in Int /\ \A r \in bm : semTab[r] # n
  BY SlotAssumption DEF Create, NewName, Named
<1>2. /\ bm' = bm \cup {s} /\ semTab' = [semTab EXCEPT ![s] = n]
      /\ value' = [value EXCEPT ![s] = x] /\ granted' = [granted EXCEPT ![n] = @ + x]
      /\ UNCHANGED <<status, readyList, currentThread, toBeDestroyed, queue, waitingOn, mode,
                     waits, taken>>
  BY <1>1 DEF Create
<1>3. IInv'
  <2>1. TypeOK'
    BY <1>0, <1>1, <1>2, SlotAssumption DEF IInv, TypeOK
  <2> QED
    BY <1>2, <2>1 DEF IInv, Placement, SafeDestruction, ModeInv
<1>4. /\ granted[n] = 0 /\ taken[n] = 0 /\ \A t \in Thread : waits[t] # n
  BY SMTT(60), <1>0, SlotAssumption DEF TableInv
<1>5. TableInv'
  BY SMTT(60), <1>0, <1>1, <1>2, <1>4, SlotAssumption DEF TableInv
<1>6. /\ semTab'[s] = n /\ value'[s] = x /\ granted'[n] = x
      /\ \A r \in bm : r # s /\ semTab'[r] = semTab[r] /\ value'[r] = value[r]
      /\ \A m \in SemName : m # n => granted'[m] = granted[m]
  BY SMTT(60), <1>0, <1>1, <1>2, <1>4, SlotAssumption DEF TableInv, IInv, TypeOK
<1>7. Holding(s)' = {}
  BY SMTT(60), <1>2, <1>4, <1>6 DEF Holding
<1>8. \A r \in bm : Holding(r)' = Holding(r)
  BY <1>2, <1>6 DEF Holding
<1>9. value'[s] + Cardinality(Holding(s)') + taken[n] = granted'[n]
  BY SMTT(60), <1>0, <1>4, <1>6, <1>7, FS_EmptySet
<1>10. SlotUnits'
  BY SMTT(60), <1>0, <1>1, <1>2, <1>6, <1>8, <1>9 DEF SlotUnits, TableInv, SInv
<1> QED
  BY <1>3, <1>5, <1>10

(* The kernel, starting programs and ending ones. *)
LEMMA EnvironmentSInv == ASSUME SInv, Environment PROVE SInv'
<1> USE DEF SInv
<1>1. UNCHANGED <<bm, semTab, waits, result, granted, taken>>
  BY DEF Environment, svars
<1>2. IInv'
  BY CallIInv, SemaphoreAssumption DEF Environment, KernelNext
<1>3. CASE UNCHANGED <<value, waitingOn>>
  <2>1. \A r \in bm : Holding(r)' = Holding(r)
    BY <1>1, <1>3 DEF Holding
  <2>2. TableInv'
    BY <1>1, <1>3 DEF TableInv
  <2> QED
    BY <1>1, <1>2, <1>3, <2>1, <2>2, UnitsKept
<1>4. ASSUME NEW t \in Thread, NEW s \in Semaphore, waitingOn[t] = s,
             value' = [value EXCEPT ![s] = @ - 1],
             waitingOn' = [waitingOn EXCEPT ![t] = NoSemaphore]
      PROVE  SInv'
  <2>1. /\ s \in bm /\ semTab[s] = waits[t] /\ s # NoSemaphore
        /\ waitingOn \in [Thread -> Semaphore \cup {NoSemaphore}]
        /\ \A r \in bm : semTab[r] = semTab[s] => r = s
    BY <1>4, SemaphoreAssumption DEF TableInv, IInv, TypeOK
  <2>2. TableInv'
    BY SMTT(60), <1>1, <1>4, <2>1 DEF TableInv
  <2>3. /\ t \notin Holding(s) /\ Holding(s)' = Holding(s) \cup {t}
        /\ \A r \in bm : r # s => Holding(r)' = Holding(r)
    BY <1>1, <1>4, <2>1 DEF Holding
  <2>4. SlotUnits'
    BY <1>1, <1>4, <2>1, <2>3, UnitTaken
  <2> QED
    BY <1>2, <2>2, <2>4
<1>5. CASE KernelNext
  BY <1>3, <1>4, <1>5, KernelUnits, SlotAssumption
<1>6. CASE Finish \/ \E t \in Thread : Fork(t)
  BY <1>3, <1>6 DEF Finish, Fork
<1> QED
  BY <1>5, <1>6 DEF Environment

LEMMA NextSInv == SInv /\ [SNext]_allvars => SInv'
<1> SUFFICES ASSUME SInv, [SNext]_allvars PROVE SInv'
  OBVIOUS
<1>1. CASE UNCHANGED <<vars, bm, semTab, waits, granted, taken>>
  <2>1. IInv'
    BY <1>1 DEF vars, SInv, IInv, TypeOK, Placement, SafeDestruction, ModeInv
  <2>2. TableInv'
    BY <1>1 DEF vars, SInv, TableInv
  <2>3. SlotUnits'
    BY <1>1, UnitsKept DEF vars, SInv, Holding
  <2> QED
    BY <2>1, <2>2, <2>3 DEF SInv
<1>2. CASE Refused
  BY <1>1, <1>2 DEF Refused
<1>3. CASE UNCHANGED allvars
  BY <1>1, <1>3 DEF allvars, svars
<1> QED
  BY <1>2, <1>3, EnvironmentSInv, WaitReturnSInv, SysWaitSInv, SysSignalSInv, CreateSInv DEF SNext

(***************************************************************************)
(* The kernel's invariant holds under the system calls of stable.cc too,   *)
(* and so do the facts about the table that conservation rests on.         *)
(***************************************************************************)
THEOREM SemaphoreTableInvariant == SSpec => []SInv
  BY InitSInv, NextSInv, PTL DEF SSpec

(***************************************************************************)
(* Programs that agree on a name share one counting semaphore: every unit  *)
(* CreateSemaphore or Signal gave a name is in the semaphore that Wait     *)
(* finds, on its way to a program, or with the program whose Wait returned *)
(***************************************************************************)
THEOREM UnitsAlwaysConserved == SSpec => []UnitsConserved
<1>1. SInv => UnitsConserved
  <2> SUFFICES ASSUME SInv, NEW n \in SemName, Named(n) # {}
               PROVE  value[Find(n)] + Cardinality(Holding(Find(n))) + taken[n] = granted[n]
    BY DEF UnitsConserved
  <2>1. Find(n) \in bm /\ semTab[Find(n)] = n
    BY FindIsTheSlot DEF SInv
  <2> QED
    BY <2>1 DEF SInv, SlotUnits
<1> QED
  BY <1>1, SemaphoreTableInvariant, PTL
=============================================================================
