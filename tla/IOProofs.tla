------------------------------ MODULE IOProofs ------------------------------
(***************************************************************************)
(* Proofs about what programs read and write through.  Console: the        *)
(* devices are used as their asserts demand, and what is typed is returned *)
(* once and in order, for any number of readers, writers and echo loops    *)
(* and whatever is typed.  SynchDisk: the disk never gets a second         *)
(* request, for any number of threads, any geometry and any timing.        *)
(* FileTable: for a table of any capacity, any files and any numbers the   *)
(* host may hand out.                                                      *)
(***************************************************************************)
EXTENDS Console, SynchDisk, FileTable, SequenceTheorems, WellFoundedInduction, TLAPS

(* Zenon proves the leaves that name no prover; those with arithmetic or   *)
(* sequences name the SMT solver.                                          *)
USE ZenonT(60)

Places == {"get", "wait for char", "take char", "put", "display", "wait for display", "done"}

(* The user inside SynchConsoleOutput::PutChar has its lock; the display owes it an interrupt. *)
OutputInv ==
  /\ putBusy \in BOOLEAN /\ outSem \in {0, 1}
  /\ \A u \in User : at[u] \in {"display", "wait for display"} <=> outLock = u
  /\ putBusy => outSem = 0
  /\ putBusy \/ outSem = 1 => \E u \in User : at[u] = "wait for display"

(* The user inside SynchConsoleInput::GetChar has its lock. *)
InputLockInv ==
  \A u \in User : at[u] \in {"wait for char", "take char"} <=> inLock = u

Taking == \E u \in User : at[u] = "take char"

(* How many bytes of typed the poll has read. *)
BytesRead == Len(typed) - Len(keyboard)

(* keyboard is the rest of typed. *)
KeyboardInv ==
  /\ typed \in Seq(0 .. 255) /\ keyboard \in Seq(0 .. 255) /\ Len(keyboard) <= Len(typed)
  /\ \A i \in 1 .. Len(keyboard) : keyboard[i] = typed[BytesRead + i]

(* All that GetChar has returned is what was typed first, and none of it is EOF. *)
TakenAll ==
  /\ Len(taken) <= BytesRead
  /\ \A i \in 1 .. Len(taken) : taken[i] = AsChar(typed[i]) /\ taken[i] # EOF

(* A poll is pending: every byte that was read has been taken. *)
Polled == /\ polling /\ inSem = 0 /\ ~Taking
          /\ incoming = EOF /\ Len(taken) = BytesRead /\ TakenAll

(* An interrupt has been counted, or its user has been woken: there is a byte, or no more. *)
Arrived == /\ ~polling /\ ((inSem = 1 /\ ~Taking) \/ (inSem = 0 /\ Taking))
           /\ TakenAll
           /\ \/ BytesRead = Len(taken) + 1 /\ incoming = AsChar(typed[Len(taken) + 1])
              \/ BytesRead = Len(taken) /\ keyboard = <<>> /\ incoming = EOF

(* GetChar has returned EOF: nobody polls any more. *)
Over == /\ ~polling /\ inSem = 0 /\ ~Taking /\ incoming = EOF
        /\ TypedOnceInOrder

(* The inductive invariant. *)
ConsoleInv ==
  /\ at \in [User -> Places]
  /\ taken \in Seq(Int) /\ polling \in BOOLEAN
  /\ OutputInv
  /\ InputLockInv
  /\ KeyboardInv
  /\ Polled \/ Arrived \/ Over

LEMMA InitConsoleInv == CInit => ConsoleInv
<1> SUFFICES ASSUME CInit PROVE ConsoleInv
  OBVIOUS
<1>1. at \in [User -> Places] /\ \A u \in User : at[u] \in {"put", "get"}
  BY DEF CInit, Places
<1>2. /\ polling = TRUE /\ putBusy = FALSE /\ outSem = 0 /\ inSem = 0
      /\ inLock = NoOne /\ outLock = NoOne /\ incoming = EOF
      /\ taken = <<>> /\ keyboard = typed
  BY DEF CInit
<1>3. typed \in Seq(0 .. 255) /\ Len(typed) \in Nat /\ BytesRead = 0
  BY SMTT(60), <1>2, ConsoleAssumption, LenProperties DEF CInit, BytesRead
<1>4. taken \in Seq(Int) /\ Len(taken) = 0
  BY SMTT(60), <1>2
<1>5. KeyboardInv
  BY SMTT(60), <1>2, <1>3 DEF KeyboardInv
<1>6. InputLockInv
  BY <1>1, <1>2, ConsoleAssumption DEF InputLockInv
<1>7. OutputInv
  <2>1. \A u \in User : at[u] \in {"display", "wait for display"} <=> outLock = u
    BY <1>1, <1>2, ConsoleAssumption
  <2>2. outSem # 1 /\ outSem \in {0, 1}
    BY SMTT(60), <1>2
  <2> QED
    BY <1>2, <2>1, <2>2 DEF OutputInv
<1>8. ~Taking
  BY <1>1 DEF Taking
<1>9. TakenAll
  BY SMTT(60), <1>3, <1>4 DEF TakenAll
<1>10. Polled
  BY <1>2, <1>3, <1>4, <1>8, <1>9 DEF Polled
<1> QED
  BY <1>1, <1>2, <1>4, <1>5, <1>6, <1>7, <1>10 DEF ConsoleInv

-----------------------------------------------------------------------------
(* What users do at the display leaves the keyboard's side alone. *)
LEMMA InputFrame ==
  ASSUME ConsoleInv, UNCHANGED inputSide,
         \A u \in User : \A p \in {"wait for char", "take char"} : at'[u] = p <=> at[u] = p
  PROVE  /\ taken' \in Seq(Int) /\ polling' \in BOOLEAN
         /\ InputLockInv' /\ KeyboardInv' /\ (Polled \/ Arrived \/ Over)'
<1>1. /\ typed' = typed /\ keyboard' = keyboard /\ incoming' = incoming /\ polling' = polling
      /\ inLock' = inLock /\ inSem' = inSem /\ taken' = taken
  BY DEF inputSide
<1>2. Taking' <=> Taking
  BY DEF Taking
<1>3. InputLockInv'
  BY <1>1 DEF ConsoleInv, InputLockInv
<1>4. BytesRead' = BytesRead
  BY <1>1 DEF BytesRead
<1>5. KeyboardInv' /\ (TakenAll' <=> TakenAll) /\ (TypedOnceInOrder' <=> TypedOnceInOrder)
  BY <1>1, <1>4 DEF ConsoleInv, KeyboardInv, TakenAll, TypedOnceInOrder
<1>6. /\ Polled => Polled'
      /\ Arrived => Arrived'
      /\ Over => Over'
  BY <1>1, <1>2, <1>4, <1>5 DEF Polled, Arrived, Over
<1> QED
  BY <1>1, <1>3, <1>5, <1>6 DEF ConsoleInv

(* What users do at the keyboard leaves the display's side alone. *)
LEMMA OutputFrame ==
  ASSUME OutputInv, UNCHANGED outputSide,
         \A u \in User : \A p \in {"display", "wait for display"} : at'[u] = p <=> at[u] = p
  PROVE  OutputInv'
<1>1. putBusy' = putBusy /\ outLock' = outLock /\ outSem' = outSem
  BY DEF outputSide
<1>2. (\E u \in User : at'[u] = "wait for display") <=> \E u \in User : at[u] = "wait for display"
  OBVIOUS
<1>3. \A u \in User : at'[u] \in {"display", "wait for display"} <=> outLock' = u
  BY <1>1 DEF OutputInv
<1> QED
  BY <1>1, <1>2, <1>3 DEF OutputInv

LEMMA WriteInterruptConsoleInv == ASSUME ConsoleInv, WriteInterrupt PROVE ConsoleInv'
<1>1. /\ putBusy /\ putBusy' = FALSE /\ outSem' = outSem + 1
      /\ UNCHANGED inputSide /\ outLock' = outLock /\ at' = at
  BY DEF WriteInterrupt
<1>2. outSem' = 1
  <2>1. outSem = 0
    BY <1>1 DEF ConsoleInv, OutputInv
  <2> QED
    BY SMTT(60), <1>1, <2>1
<1>3. OutputInv'
  <2>1. \E u \in User : at'[u] = "wait for display"
    BY <1>1 DEF ConsoleInv, OutputInv
  <2>2. \A u \in User : at'[u] \in {"display", "wait for display"} <=> outLock' = u
    BY <1>1 DEF ConsoleInv, OutputInv
  <2> QED
    BY <1>1, <1>2, <2>1, <2>2 DEF OutputInv
<1> QED
  BY <1>1, <1>3, InputFrame DEF ConsoleInv

LEMMA PutLockConsoleInv ==
  ASSUME ConsoleInv, NEW u \in User, PutLock(u) PROVE ConsoleInv'
<1>1. /\ at[u] = "put" /\ outLock = NoOne /\ outLock' = u /\ at' = [at EXCEPT ![u] = "display"]
      /\ UNCHANGED inputSide /\ putBusy' = putBusy /\ outSem' = outSem
  BY DEF PutLock
<1>2. at' \in [User -> Places] /\ at'[u] = "display" /\ \A v \in User : v # u => at'[v] = at[v]
  BY <1>1 DEF ConsoleInv, Places
<1>3. \A v \in User : at[v] \notin {"display", "wait for display"}
  BY <1>1, ConsoleAssumption DEF ConsoleInv, OutputInv
<1>4. ~putBusy' /\ outSem' # 1 /\ putBusy' \in BOOLEAN /\ outSem' \in {0, 1}
  BY <1>1, <1>3 DEF ConsoleInv, OutputInv
<1>5. \A v \in User : at'[v] \in {"display", "wait for display"} <=> outLock' = v
  BY <1>1, <1>2, <1>3
<1>6. OutputInv'
  BY <1>4, <1>5 DEF OutputInv
<1> QED
  BY <1>1, <1>2, <1>6, InputFrame DEF ConsoleInv

LEMMA PutCharConsoleInv ==
  ASSUME ConsoleInv, NEW u \in User, PutChar(u) PROVE ConsoleInv'
<1>1. /\ at[u] = "display" /\ putBusy' = TRUE /\ at' = [at EXCEPT ![u] = "wait for display"]
      /\ UNCHANGED inputSide /\ outLock' = outLock /\ outSem' = outSem
  BY DEF PutChar
<1>2. /\ at' \in [User -> Places] /\ at'[u] = "wait for display"
      /\ \A v \in User : v # u => at'[v] = at[v]
  BY <1>1 DEF ConsoleInv, Places
<1>3. outLock = u /\ \A v \in User : v # u => at[v] \notin {"display", "wait for display"}
  BY <1>1 DEF ConsoleInv, OutputInv
<1>4. outSem' = 0
  BY <1>1, <1>3 DEF ConsoleInv, OutputInv
<1>5. \A v \in User : at'[v] \in {"display", "wait for display"} <=> outLock' = v
  BY <1>1, <1>2, <1>3
<1>6. OutputInv'
  BY <1>1, <1>2, <1>4, <1>5 DEF OutputInv
<1> QED
  BY <1>1, <1>2, <1>6, InputFrame DEF ConsoleInv

LEMMA PutWaitConsoleInv ==
  ASSUME ConsoleInv, NEW u \in User, PutWait(u) PROVE ConsoleInv'
<1>1. /\ at[u] = "wait for display" /\ outSem > 0 /\ outSem' = outSem - 1 /\ outLock' = NoOne
      /\ UNCHANGED inputSide /\ putBusy' = putBusy
  BY DEF PutWait
<1>2. PICK p \in {"put", "get", "done"} : at' = [at EXCEPT ![u] = p]
  BY DEF PutWait, Wrote
<1>3. at' \in [User -> Places] /\ at'[u] = p /\ \A v \in User : v # u => at'[v] = at[v]
  BY <1>2 DEF ConsoleInv, Places
<1>4. \A v \in User : v # u => at[v] \notin {"display", "wait for display"}
  BY <1>1 DEF ConsoleInv, OutputInv
<1>5. ~putBusy' /\ putBusy' \in BOOLEAN /\ outSem' = 0
  <2>1. outSem \in {0, 1} /\ outSem > 0 /\ outSem' = outSem - 1
    BY <1>1 DEF ConsoleInv, OutputInv
  <2>2. outSem # 0 /\ outSem' = 0
    BY SMTT(60), <2>1
  <2>3. ~putBusy' /\ putBusy' \in BOOLEAN
    BY <1>1, <2>2 DEF ConsoleInv, OutputInv
  <2> QED
    BY <2>2, <2>3
<1>6. at'[u] \notin {"display", "wait for display"}
  BY <1>3
<1>7. OutputInv'
  <2>1. \A v \in User : at'[v] \notin {"display", "wait for display"} /\ outLock' # v
    BY <1>1, <1>3, <1>4, <1>6, ConsoleAssumption
  <2>2. outSem' # 1 /\ outSem' \in {0, 1}
    BY SMTT(60), <1>5
  <2> QED
    BY <1>5, <2>1, <2>2 DEF OutputInv
<1> QED
  BY <1>1, <1>3, <1>7, InputFrame DEF ConsoleInv

-----------------------------------------------------------------------------
LEMMA GetLockConsoleInv ==
  ASSUME ConsoleInv, NEW u \in User, GetLock(u) PROVE ConsoleInv'
<1>1. /\ at[u] = "get" /\ inLock = NoOne /\ inLock' = u
      /\ at' = [at EXCEPT ![u] = "wait for char"]
  BY DEF GetLock
<1>2. /\ typed' = typed /\ keyboard' = keyboard /\ incoming' = incoming /\ polling' = polling
      /\ inSem' = inSem /\ taken' = taken /\ UNCHANGED outputSide
  BY DEF GetLock
<1>3. /\ at' \in [User -> Places] /\ at'[u] = "wait for char"
      /\ \A v \in User : v # u => at'[v] = at[v]
  BY <1>1 DEF ConsoleInv, Places
<1>4. InputLockInv'
  BY <1>1, <1>3, ConsoleAssumption DEF ConsoleInv, InputLockInv
<1>5. OutputInv'
  BY <1>1, <1>2, <1>3, OutputFrame DEF ConsoleInv
<1>6. Taking' <=> Taking
  BY <1>1, <1>3 DEF Taking
<1>7. /\ BytesRead' = BytesRead /\ KeyboardInv' /\ (TakenAll' <=> TakenAll)
      /\ (TypedOnceInOrder' <=> TypedOnceInOrder)
  BY <1>2 DEF BytesRead, ConsoleInv, KeyboardInv, TakenAll, TypedOnceInOrder
<1>8. (Polled => Polled') /\ (Arrived => Arrived') /\ (Over => Over')
  BY <1>2, <1>6, <1>7 DEF Polled, Arrived, Over
<1> QED
  BY <1>2, <1>3, <1>4, <1>5, <1>7, <1>8 DEF ConsoleInv

LEMMA GetWaitConsoleInv ==
  ASSUME ConsoleInv, NEW u \in User, GetWait(u) PROVE ConsoleInv'
<1>1. /\ at[u] = "wait for char" /\ inSem > 0 /\ inSem' = inSem - 1
      /\ at' = [at EXCEPT ![u] = "take char"]
  BY DEF GetWait
<1>2. /\ typed' = typed /\ keyboard' = keyboard /\ incoming' = incoming /\ polling' = polling
      /\ inLock' = inLock /\ taken' = taken /\ UNCHANGED outputSide
  BY DEF GetWait
<1>3. /\ at' \in [User -> Places] /\ at'[u] = "take char"
      /\ \A v \in User : v # u => at'[v] = at[v]
  BY <1>1 DEF ConsoleInv, Places
<1>4. InputLockInv'
  BY <1>1, <1>2, <1>3 DEF ConsoleInv, InputLockInv
<1>5. OutputInv'
  BY <1>1, <1>2, <1>3, OutputFrame DEF ConsoleInv
<1>6. Taking'
  BY <1>3 DEF Taking
<1>7. Arrived /\ inSem' = 0
  <2>1. inSem \in {0, 1} /\ (inSem # 0 => Arrived)
    BY DEF ConsoleInv, Polled, Arrived, Over
  <2>2. inSem > 0 /\ inSem' = inSem - 1
    BY <1>1
  <2>3. inSem # 0 /\ inSem' = 0
    BY SMTT(60), <2>1, <2>2
  <2> QED
    BY <2>1, <2>3
<1>8. BytesRead' = BytesRead /\ KeyboardInv' /\ TakenAll'
  BY <1>2, <1>7 DEF BytesRead, ConsoleInv, KeyboardInv, Arrived, TakenAll
<1>9. Arrived'
  BY <1>2, <1>6, <1>7, <1>8 DEF Arrived
<1> QED
  BY <1>2, <1>3, <1>4, <1>5, <1>8, <1>9 DEF ConsoleInv

LEMMA ReadInterruptConsoleInv == ASSUME ConsoleInv, ReadInterrupt PROVE ConsoleInv'
<1>1. /\ typed' = typed /\ inLock' = inLock /\ taken' = taken /\ at' = at
      /\ UNCHANGED outputSide /\ polling' = FALSE
  BY DEF ReadInterrupt
<1>2. Polled
  BY DEF ReadInterrupt, ConsoleInv, Arrived, Over
<1>3. ~Taking' /\ InputLockInv'
  BY <1>1, <1>2 DEF Polled, Taking, ConsoleInv, InputLockInv
<1>4. inSem' = 1
  <2>1. inSem = 0 /\ inSem' = inSem + 1
    BY <1>2 DEF Polled, ReadInterrupt
  <2> QED
    BY SMTT(60), <2>1
<1>5. OutputInv'
  BY <1>1, OutputFrame DEF ConsoleInv
<1>6. /\ typed \in Seq(0 .. 255) /\ keyboard \in Seq(0 .. 255) /\ Len(keyboard) <= Len(typed)
      /\ \A i \in 1 .. Len(keyboard) : keyboard[i] = typed[BytesRead + i]
      /\ taken \in Seq(Int) /\ Len(taken) = BytesRead /\ TakenAll /\ incoming = EOF
  BY <1>2 DEF ConsoleInv, KeyboardInv, Polled
<1>7. /\ KeyboardInv' /\ TakenAll'
      /\ \/ BytesRead' = Len(taken') + 1 /\ incoming' = AsChar(typed'[Len(taken') + 1])
         \/ BytesRead' = Len(taken') /\ keyboard' = <<>> /\ incoming' = EOF
  <2>1. CASE keyboard = <<>>
    <3>1. keyboard' = keyboard /\ incoming' = incoming
      BY <2>1 DEF ReadInterrupt
    <3>2. BytesRead' = BytesRead
      BY <1>1, <3>1 DEF BytesRead
    <3>3. KeyboardInv'
      BY <1>1, <1>6, <3>1, <3>2 DEF KeyboardInv
    <3>4. TakenAll'
      BY <1>1, <1>6, <3>2 DEF TakenAll
    <3> QED
      BY <1>1, <1>6, <2>1, <3>1, <3>2, <3>3, <3>4
  <2>2. CASE keyboard # <<>>
    <3>1. incoming' = AsChar(Head(keyboard)) /\ keyboard' = Tail(keyboard)
      BY <2>2 DEF ReadInterrupt
    <3>2. /\ keyboard' \in Seq(0 .. 255) /\ Len(keyboard') = Len(keyboard) - 1
          /\ Len(keyboard) \in Nat /\ Len(keyboard) > 0
          /\ \A i \in 1 .. Len(keyboard') : keyboard'[i] = keyboard[i + 1]
      BY SMTT(60), <1>6, <2>2, <3>1, HeadTailProperties
    <3>3. Len(typed) \in Nat /\ Len(taken) \in Nat /\ BytesRead' = BytesRead + 1 /\ BytesRead \in Int
      BY SMTT(60), <1>1, <1>6, <3>2, LenProperties DEF BytesRead
    <3>4. Head(keyboard) = keyboard[1] /\ keyboard[1] = typed[BytesRead + 1]
      BY SMTT(60), <1>6, <3>2, HeadTailProperties
    <3>5. KeyboardInv'
      <4>1. \A i \in 1 .. Len(keyboard') : keyboard'[i] = typed[BytesRead' + i]
        <5> SUFFICES ASSUME NEW i \in 1 .. Len(keyboard') PROVE keyboard'[i] = typed[BytesRead' + i]
          OBVIOUS
        <5>1. i + 1 \in 1 .. Len(keyboard) /\ BytesRead + (i + 1) = BytesRead' + i
          BY SMTT(60), <3>2, <3>3
        <5> QED
          BY <1>6, <3>2, <5>1
      <4> QED
        BY SMTT(60), <1>1, <1>6, <3>2, <3>3, <4>1 DEF KeyboardInv
    <3>6. TakenAll'
      BY SMTT(60), <1>1, <1>6, <3>3 DEF TakenAll
    <3>7. BytesRead' = Len(taken') + 1 /\ incoming' = AsChar(typed'[Len(taken') + 1])
      BY <1>1, <1>6, <3>1, <3>3, <3>4
    <3> QED
      BY <3>5, <3>6, <3>7
  <2> QED
    BY <2>1, <2>2
<1>8. Arrived'
  <2>1. ~polling'
    BY <1>1
  <2>2. inSem' = 1 /\ ~Taking'
    BY <1>3, <1>4
  <2> QED
    BY <1>7, <2>1, <2>2 DEF Arrived
<1> QED
  BY <1>1, <1>3, <1>5, <1>7, <1>8 DEF ConsoleInv

LEMMA GetCharConsoleInv ==
  ASSUME ConsoleInv, NEW u \in User, GetChar(u) PROVE ConsoleInv'
<1>1. /\ at[u] = "take char" /\ inLock' = NoOne /\ incoming' = EOF
      /\ taken' = Append(taken, incoming)
      /\ typed' = typed /\ keyboard' = keyboard /\ inSem' = inSem /\ UNCHANGED outputSide
  BY DEF GetChar
<1>2. PICK p \in {"get", "put", "done"} : at' = [at EXCEPT ![u] = p]
  BY DEF GetChar, Got
<1>3. at' \in [User -> Places] /\ at'[u] = p /\ \A v \in User : v # u => at'[v] = at[v]
  BY <1>2 DEF ConsoleInv, Places
<1>4. \A v \in User : v # u => at[v] \notin {"wait for char", "take char"}
  BY <1>1 DEF ConsoleInv, InputLockInv
<1>5. InputLockInv' /\ ~Taking'
  BY <1>1, <1>3, <1>4, ConsoleAssumption DEF InputLockInv, Taking
<1>6. OutputInv'
  BY <1>1, <1>3, OutputFrame DEF ConsoleInv
<1>7. Arrived /\ ~polling /\ inSem' = 0
  <2>1. Taking
    BY <1>1 DEF Taking
  <2> QED
    BY <1>1, <2>1 DEF ConsoleInv, Polled, Arrived, Over
<1>8. /\ typed \in Seq(0 .. 255) /\ keyboard \in Seq(0 .. 255) /\ Len(keyboard) <= Len(typed)
      /\ taken \in Seq(Int) /\ TakenAll
  BY <1>7 DEF ConsoleInv, KeyboardInv, Arrived
<1>9. Len(typed) \in Nat /\ Len(keyboard) \in Nat /\ Len(taken) \in Nat
  BY SMTT(60), <1>8, LenProperties
<1>10. BytesRead' = BytesRead /\ BytesRead \in Int /\ BytesRead <= Len(typed) /\ KeyboardInv'
  <2>1. BytesRead' = BytesRead
    BY <1>1 DEF BytesRead
  <2>2. BytesRead \in Int /\ BytesRead <= Len(typed)
    BY SMTT(60), <1>9 DEF BytesRead
  <2> QED
    BY <1>1, <2>1, <2>2 DEF ConsoleInv, KeyboardInv
<1>11. \/ BytesRead = Len(taken) + 1 /\ incoming = AsChar(typed[Len(taken) + 1])
       \/ BytesRead = Len(taken) /\ keyboard = <<>> /\ incoming = EOF
  BY <1>7 DEF Arrived
<1>12. incoming \in Int
  <2>1. CASE BytesRead = Len(taken) + 1 /\ incoming = AsChar(typed[Len(taken) + 1])
    <3>1. typed[Len(taken) + 1] \in 0 .. 255
      BY SMTT(60), <1>8, <1>9, <1>10, <2>1, ElementOfSeq
    <3> QED
      BY SMTT(60), <2>1, <3>1 DEF AsChar
  <2> QED
    BY SMTT(60), <1>11, <2>1 DEF EOF
<1>13. /\ taken' \in Seq(Int) /\ Len(taken') = Len(taken) + 1 /\ taken'[Len(taken) + 1] = incoming
       /\ \A i \in 1 .. Len(taken) : taken'[i] = taken[i]
  <2>1. taken' = Append(taken, incoming) /\ taken \in Seq(Int)
    BY <1>1, <1>8
  <2> QED
    BY SMTT(60), <1>12, <2>1, AppendProperties
<1>14. Polled' \/ Over'
  <2>1. CASE incoming # EOF
    <3>1. polling'
      BY <2>1 DEF GetChar
    <3>2. BytesRead = Len(taken) + 1 /\ incoming = AsChar(typed[Len(taken) + 1])
      BY <1>11, <2>1
    <3>3. TakenAll' /\ Len(taken') = BytesRead'
      <4> SUFFICES ASSUME NEW i \in 1 .. Len(taken')
                   PROVE  taken'[i] = AsChar(typed[i]) /\ taken'[i] # EOF
        <5>1. Len(taken') = BytesRead'
          BY <1>10, <1>13, <3>2
        <5>2. Len(taken') <= BytesRead'
          BY SMTT(60), <1>9, <1>13, <5>1
        <5> QED
          BY <1>1, <5>1, <5>2 DEF TakenAll
      <4>1. CASE i = Len(taken) + 1
        BY <1>13, <2>1, <3>2, <4>1
      <4>2. CASE i \in 1 .. Len(taken)
        BY <1>8, <1>13, <4>2 DEF TakenAll
      <4> QED
        BY SMTT(60), <1>9, <1>13, <4>1, <4>2
    <3>4. incoming' = EOF /\ inSem' = 0
      BY <1>1, <1>7
    <3> QED
      BY <1>5, <3>1, <3>3, <3>4 DEF Polled
  <2>2. CASE incoming = EOF
    <3>1. ~polling'
      BY <1>7, <2>2 DEF GetChar
    <3>2. DOMAIN taken' = 1 .. Len(taken) + 1
      BY <1>13, LenProperties
    <3>3. TypedOnceInOrder'
      <4>1. \A i \in 1 .. Len(taken) : taken'[i] = AsChar(typed[i]) /\ taken'[i] # EOF /\ i <= Len(typed)
        <5>1. /\ Len(taken) <= BytesRead
              /\ \A i \in 1 .. Len(taken) : taken[i] = AsChar(typed[i]) /\ taken[i] # EOF
          BY <1>8 DEF TakenAll
        <5>2. \A i \in 1 .. Len(taken) : i <= Len(typed)
          BY SMTT(60), <1>9, <1>10, <5>1
        <5> QED
          BY <1>13, <5>1, <5>2
      <4>2. taken'[Len(taken) + 1] =
              IF Len(taken) + 1 <= Len(typed) THEN AsChar(typed[Len(taken) + 1]) ELSE EOF
        <5>1. CASE BytesRead = Len(taken) + 1 /\ incoming = AsChar(typed[Len(taken) + 1])
          BY <1>9, <1>10, <1>13, <5>1
        <5>2. CASE BytesRead = Len(taken) /\ keyboard = <<>> /\ incoming = EOF
          <6>1. Len(typed) = Len(taken)
            BY SMTT(60), <1>9, <5>2 DEF BytesRead
          <6> QED
            BY SMTT(60), <1>9, <1>13, <5>2, <6>1
        <5> QED
          BY <1>11, <5>1, <5>2
      <4>3. \A i \in 1 .. Len(taken) + 1 : i = Len(taken) + 1 \/ i \in 1 .. Len(taken)
        BY SMTT(60), <1>9
      <4>4. Len(taken') - 1 = Len(taken)
        BY SMTT(60), <1>9, <1>13
      <4> QED
        BY <1>1, <3>2, <4>1, <4>2, <4>3, <4>4 DEF TypedOnceInOrder
    <3>4. incoming' = EOF /\ inSem' = 0
      BY <1>1, <1>7
    <3> QED
      BY <1>5, <3>1, <3>3, <3>4 DEF Over
  <2> QED
    BY <2>1, <2>2
<1>15. polling' \in BOOLEAN
  BY DEF GetChar
<1> QED
  BY <1>3, <1>5, <1>6, <1>10, <1>13, <1>14, <1>15 DEF ConsoleInv

-----------------------------------------------------------------------------
LEMMA NextConsoleInv == ASSUME ConsoleInv, [CNext]_cvars PROVE ConsoleInv'
<1>1. CASE ReadInterrupt
  BY <1>1, ReadInterruptConsoleInv
<1>2. CASE WriteInterrupt
  BY <1>2, WriteInterruptConsoleInv
<1>3. ASSUME NEW u \in User,
             \/ GetLock(u) \/ GetWait(u) \/ GetChar(u)
             \/ PutLock(u) \/ PutChar(u) \/ PutWait(u)
      PROVE  ConsoleInv'
  BY <1>3, GetLockConsoleInv, GetWaitConsoleInv, GetCharConsoleInv,
     PutLockConsoleInv, PutCharConsoleInv, PutWaitConsoleInv
<1>4. CASE UNCHANGED cvars
  BY <1>4 DEF cvars, ConsoleInv, OutputInv, InputLockInv, KeyboardInv, BytesRead, Taking,
     TakenAll, Polled, Arrived, Over, TypedOnceInOrder
<1> QED
  BY <1>1, <1>2, <1>3, <1>4 DEF CNext

LEMMA TakenAllInOrder == ASSUME ConsoleInv PROVE TypedOnceInOrder
<1>1. CASE Over
  BY <1>1 DEF Over
<1>2. CASE TakenAll
  <2>1. /\ Len(typed) \in Nat /\ Len(taken) \in Nat /\ Len(keyboard) \in Nat
        /\ DOMAIN taken = 1 .. Len(taken) /\ Len(keyboard) <= Len(typed)
    BY SMTT(60), LenProperties DEF ConsoleInv, KeyboardInv
  <2> QED
    BY SMTT(60), <1>2, <2>1 DEF TakenAll, TypedOnceInOrder, BytesRead
<1> QED
  BY <1>1, <1>2 DEF ConsoleInv, Polled, Arrived

LEMMA ConsoleInvDiscipline == ASSUME ConsoleInv PROVE ConsoleDiscipline
<1>1. polling => incoming = EOF
  BY DEF ConsoleInv, Polled, Arrived, Over
<1>2. ASSUME NEW u \in User, at[u] = "display" PROVE ~putBusy
  BY <1>2 DEF ConsoleInv, OutputInv
<1>3. ASSUME NEW u \in User, at[u] = "take char", incoming = EOF
      PROVE  keyboard = <<>> \/ AsChar(typed[Len(taken) + 1]) = EOF
  BY <1>3 DEF ConsoleInv, Polled, Arrived, Over, Taking
<1>4. inSem + (IF polling THEN 1 ELSE 0) <= 1
  <2>1. (polling => inSem = 0) /\ inSem \in {0, 1}
    BY DEF ConsoleInv, Polled, Arrived, Over
  <2>2. CASE polling
    BY SMTT(60), <2>1, <2>2
  <2>3. CASE ~polling
    BY SMTT(60), <2>1, <2>3
  <2> QED
    BY <2>2, <2>3
<1>5. outSem + (IF putBusy THEN 1 ELSE 0) <= 1
  <2>1. (putBusy => outSem = 0) /\ outSem \in {0, 1}
    BY DEF ConsoleInv, OutputInv
  <2>2. CASE putBusy
    BY SMTT(60), <2>1, <2>2
  <2>3. CASE ~putBusy
    BY SMTT(60), <2>1, <2>3
  <2> QED
    BY <2>2, <2>3
<1> QED
  BY <1>1, <1>2, <1>3, <1>4, <1>5 DEF ConsoleDiscipline

(* The asserts of ConsoleInput::CallBack and ConsoleOutput::PutChar hold, and no interrupt  *)
(* is counted twice, whatever is typed and however many processes use the console.          *)
THEOREM ConsoleAlwaysDisciplined == CSpec => []ConsoleDiscipline
<1>1. ConsoleInv /\ [CNext]_cvars => ConsoleInv'
  BY NextConsoleInv
<1>2. ConsoleInv => ConsoleDiscipline
  BY ConsoleInvDiscipline
<1> QED
  BY InitConsoleInv, <1>1, <1>2, PTL DEF CSpec

(* GetChar returns what was typed, once and in order, to any number of competing callers. *)
THEOREM AlwaysTypedOnceInOrder == CSpec => []TypedOnceInOrder
<1>1. ConsoleInv /\ [CNext]_cvars => ConsoleInv'
  BY NextConsoleInv
<1>2. ConsoleInv => TypedOnceInOrder
  BY TakenAllInOrder
<1> QED
  BY InitConsoleInv, <1>1, <1>2, PTL DEF CSpec

-----------------------------------------------------------------------------
(***************************************************************************)
(* The inductive invariant: the thread in ReadSector or WriteSector has    *)
(* the lock, and while a request is out, or its interrupt counted, that    *)
(* thread waits for it.                                                    *)
(***************************************************************************)
DiskInv ==
  /\ active \in BOOLEAN
  /\ diskSem \in {0, 1}
  /\ diskLock \in Client \cup {NoClient}
  /\ doing \in [Client -> {"other", "request", "wait"}]
  /\ \A c \in Client : doing[c] # "other" <=> diskLock = c
  /\ active => diskSem = 0
  /\ active \/ diskSem = 1 => \E c \in Client : doing[c] = "wait"

LEMMA InitDiskInv == DInit => DiskInv
<1> SUFFICES ASSUME DInit PROVE DiskInv
  OBVIOUS
<1>1. active = FALSE /\ diskSem = 0 /\ diskLock = NoClient
  BY DEF DInit
<1>2. /\ doing \in [Client -> {"other", "request", "wait"}]
      /\ \A c \in Client : doing[c] # "other" <=> diskLock = c
  BY <1>1, DiskAssumption DEF DInit
<1>3. diskSem # 1
  BY SMTT(60), <1>1
<1> QED
  BY <1>1, <1>2, <1>3 DEF DiskInv

LEMMA AcquireDiskInv ==
  ASSUME DiskInv, NEW c \in Client, DiskAcquire(c) PROVE DiskInv'
<1>1. /\ diskLock = NoClient /\ diskLock' = c /\ doing' = [doing EXCEPT ![c] = "request"]
      /\ UNCHANGED <<active, diskSem>>
  BY DEF DiskAcquire
<1>2. \A d \in Client : doing[d] = "other"
  BY <1>1, DiskAssumption DEF DiskInv
<1> QED
  BY <1>1, <1>2 DEF DiskInv

LEMMA RequestDiskInv ==
  ASSUME DiskInv, NEW c \in Client, DiskRequest(c) PROVE DiskInv'
<1>1. /\ doing[c] = "request" /\ active' = TRUE /\ doing' = [doing EXCEPT ![c] = "wait"]
      /\ UNCHANGED <<diskLock, diskSem>>
  BY DEF DiskRequest
<1>2. diskSem = 0
  BY <1>1 DEF DiskInv
<1>3. /\ doing' \in [Client -> {"other", "request", "wait"}] /\ doing'[c] = "wait"
      /\ \A d \in Client : doing'[d] # "other" <=> diskLock' = d
  BY <1>1 DEF DiskInv
<1> QED
  BY <1>1, <1>2, <1>3 DEF DiskInv

LEMMA InterruptDiskInv == ASSUME DiskInv, DiskInterrupt PROVE DiskInv'
<1>1. active /\ active' = FALSE /\ diskSem' = diskSem + 1 /\ UNCHANGED <<diskLock, doing>>
  BY DEF DiskInterrupt
<1>2. diskSem = 0
  BY <1>1 DEF DiskInv
<1>3. diskSem' = 1
  BY SMTT(60), <1>1, <1>2
<1>4. \E c \in Client : doing'[c] = "wait"
  BY <1>1 DEF DiskInv
<1> QED
  BY <1>1, <1>3, <1>4 DEF DiskInv

LEMMA ReturnDiskInv ==
  ASSUME DiskInv, NEW c \in Client, DiskReturn(c) PROVE DiskInv'
<1>1. /\ doing[c] = "wait" /\ diskSem = 1 /\ diskSem' = 0 /\ diskLock' = NoClient
      /\ doing' = [doing EXCEPT ![c] = "other"] /\ active' = active
  BY SMTT(60) DEF DiskReturn, DiskInv
<1>2. ~active /\ \A d \in Client : d # c => doing[d] = "other"
  BY SMTT(60), <1>1 DEF DiskInv
<1> QED
  BY SMTT(60), <1>1, <1>2, DiskAssumption DEF DiskInv

LEMMA NextDiskInv == DiskInv /\ [DNext]_dvars => DiskInv'
<1> SUFFICES ASSUME DiskInv, [DNext]_dvars PROVE DiskInv'
  OBVIOUS
<1>1. CASE UNCHANGED <<active, diskSem, diskLock, doing>>
  BY <1>1 DEF DiskInv
<1> QED
  BY <1>1, AcquireDiskInv, RequestDiskInv, InterruptDiskInv, ReturnDiskInv
  DEF DNext, dvars, DiskTick

(***************************************************************************)
(* The asserts of disk.cc hold, and a thread returns from ReadSector or    *)
(* WriteSector only after the interrupt of its own request.                *)
(***************************************************************************)
THEOREM DiskAlwaysDisciplined == DSpec => []DiskDiscipline
<1>1. DiskInv => DiskDiscipline
  BY DEF DiskInv, DiskDiscipline
<1> QED
  BY <1>1, InitDiskInv, NextDiskInv, PTL DEF DSpec

-----------------------------------------------------------------------------
(* The table of open files. *)

(* A set of natural numbers that is not empty has a smallest member. *)
LEMMA SmallestExists ==
  ASSUME NEW T, T \subseteq Nat, T # {}
  PROVE  \E m \in T : \A y \in T : m <= y
<1> DEFINE R == {ss \in Nat \X Nat : ss[1] < ss[2]}
<1>1. IsWellFoundedOn(R, Nat)
  BY NatLessThanWellFounded DEF OpToRel
<1> HIDE DEF R
<1>2. PICK m \in T : \A y \in T : ~ (<<y, m>> \in R)
  BY <1>1, WFMin
<1>3. \A y \in T : ~ (y < m)
  <2> TAKE y \in T
  <2>1. <<y, m>> \in Nat \X Nat
    OBVIOUS
  <2> QED
    BY <1>2, <2>1 DEF R
<1> QED
  BY SMTT(60), <1>3

(* Min of the community modules is the smallest member. *)
LEMMA MinIsMember ==
  ASSUME NEW T, T \subseteq Nat, T # {}
  PROVE  Min(T) \in T /\ \A y \in T : Min(T) <= y
<1>1. PICK m \in T : \A y \in T : m <= y
  BY SmallestExists
<1> QED
  BY <1>1 DEF Min

(* The two numbers of a pair. *)
LEMMA MinMaxPair ==
  ASSUME NEW a \in Int, NEW b \in Int
  PROVE  /\ Min({a, b}) = IF a <= b THEN a ELSE b
         /\ Max({a, b}) = IF a >= b THEN a ELSE b
<1> DEFINE m == IF a <= b THEN a ELSE b
           x == IF a >= b THEN a ELSE b
<1>1. m \in {a, b} /\ \A y \in {a, b} : m <= y
  BY SMTT(60)
<1>2. \A z \in {a, b} : (\A y \in {a, b} : z <= y) => z = m
  BY SMTT(60)
<1>3. x \in {a, b} /\ \A y \in {a, b} : x >= y
  BY SMTT(60)
<1>4. \A z \in {a, b} : (\A y \in {a, b} : z >= y) => z = x
  BY SMTT(60)
<1> HIDE DEF m, x
<1>5. Min({a, b}) = m
  BY <1>1, <1>2 DEF Min
<1>6. Max({a, b}) = x
  BY <1>3, <1>4 DEF Max
<1> QED
  BY <1>5, <1>6 DEF m, x

(* The search of the table returns a slot it was to find, or -1. *)
LEMMA FirstFinds ==
  ASSUME NEW T \in SUBSET Slot
  PROVE  IF T = {} THEN First(T) = -1 ELSE First(T) \in T
<1>1. T \subseteq Nat
  BY SMTT(60), FileAssumption DEF Slot
<1> QED
  BY <1>1, MinIsMember DEF First

-----------------------------------------------------------------------------
(* What the fields of a descriptor in use say of each other. *)
FieldsMatch ==
  \A s \in OpenSlot :
    IF desc[s].mode = Socket_Mode THEN desc[s].name = NoName /\ ~desc[s].hasFile
    ELSE desc[s].name \in Name /\ desc[s].hasFile

(* The inductive invariant. *)
TableInv ==
  /\ TypeInv
  /\ FieldsMatch
  /\ TableMatchesHost
  /\ OpenFileNotRemoved
  /\ OffsetWithinFile
  /\ NoCrash

LEMMA InitTableInv == FInit => TableInv
<1> SUFFICES ASSUME FInit PROVE TableInv
  OBVIOUS
<1>1. \A s \in Slot : desc[s] = Unused /\ desc[s].mode = -1 /\ desc[s].id = -1
  BY DEF FInit, Unused
<1>2. OpenSlot = {}
  BY <1>1 DEF OpenSlot
<1>3. TypeInv
  BY SMTT(60), FileAssumption DEF FInit, TypeInv, Unused, Descriptor, Offsets, Outcomes
<1>4. DOMAIN hostOpen = {}
  BY DEF FInit
<1>5. TableMatchesHost
  BY <1>1, <1>2, <1>4 DEF TableMatchesHost
<1> QED
  BY <1>2, <1>3, <1>5
  DEF TableInv, FieldsMatch, OpenFileNotRemoved, OffsetWithinFile, NoCrash, FInit

-----------------------------------------------------------------------------
(* A call that leaves the table and the host alone, and crashes only if it is careless. *)
LEMMA FrameTableInv ==
  ASSUME TableInv, UNCHANGED <<desc, length, hostOpen>>,
         result' \in Int, outcome' \in Outcomes, careful' \in BOOLEAN,
         careful' => careful /\ outcome' = "none"
  PROVE  TableInv'
BY SMTT(60) DEF TableInv, TypeInv, FieldsMatch, TableMatchesHost, OpenFileNotRemoved, OffsetWithinFile,
       NoCrash, OpenSlot, Descriptor, Slot

(* The calls that only answer. *)
LEMMA AnswerTableInv ==
  ASSUME TableInv, Refused \/ RemoveNoName \/ \E id \in Id, n \in ByteCount : SocketCall(id, n)
  PROVE  TableInv'
<1>1. UNCHANGED <<desc, length, hostOpen>> /\ result' \in Int
  <2>0. result \in Int /\ -1 \in Int
    BY SMTT(60) DEF TableInv, TypeInv
  <2>1. CASE Refused \/ RemoveNoName
    BY <2>0, <2>1 DEF Refused, RemoveNoName, Use, Fail, Crash, Return
  <2>2. ASSUME NEW id PROVE SocketAnswer(id) = {-1} \/ SocketAnswer(id) = {-1, 0, 1}
    <3>1. CASE InTable(id) /\ id \in OpenSocketIds
      BY <3>1 DEF SocketAnswer, HostAnswer
    <3>2. CASE InTable(id) /\ id \notin OpenSocketIds
      BY <3>2 DEF SocketAnswer, HostAnswer
    <3>3. CASE ~InTable(id)
      BY <3>3 DEF SocketAnswer
    <3> QED
      BY <3>1, <3>2, <3>3
  <2>3. ASSUME NEW id PROVE SocketAnswer(id) \subseteq Int
    BY SMTT(60), <2>2
  <2>4. ASSUME NEW id \in Id, NEW n \in ByteCount, SocketCall(id, n)
        PROVE  UNCHANGED <<desc, length, hostOpen>> /\ result' \in Int
    BY <2>0, <2>3, <2>4 DEF SocketCall, Crash, Return
  <2> QED
    BY <2>1, <2>4
<1>2. /\ outcome' \in Outcomes /\ careful' \in BOOLEAN
      /\ careful' => careful /\ outcome' = "none"
  <2>1. CASE UNCHANGED <<outcome, careful>>
    BY <2>1 DEF TableInv, TypeInv, NoCrash
  <2>2. CASE RemoveNoName
    BY <2>2 DEF RemoveNoName, Use, Crash, Fail, TableInv, TypeInv, NoCrash, Outcomes, Running
  <2>3. ASSUME NEW id \in Id, NEW n \in ByteCount, SocketCall(id, n)
        PROVE  /\ outcome' \in Outcomes /\ careful' \in BOOLEAN
               /\ careful' => careful /\ outcome' = "none"
    <3>1. careful' \in BOOLEAN /\ (careful' => careful /\ n >= 0) /\ outcome = "none"
      BY <2>3 DEF SocketCall, Use, Running, TableInv, TypeInv
    <3>2. CASE NoBuffer(n) /\ Crash("buffer")
      <4>1. ~(n >= 0)
        BY SMTT(60), <3>2, FileAssumption DEF NoBuffer, ByteCount
      <4> QED
        BY <3>1, <3>2, <4>1 DEF Crash, Outcomes
    <3>3. CASE UNCHANGED outcome
      BY <3>1, <3>3 DEF Outcomes
    <3> QED
      BY <2>3, <3>2, <3>3 DEF SocketCall
  <2> QED
    BY <2>1, <2>2, <2>3 DEF Refused, Fail
<1> QED
  BY <1>1, <1>2, FrameTableInv

(* SysCreate truncates a file that careful programs do not have open. *)
LEMMA CreateTableInv ==
  ASSUME TableInv, NEW n \in Name, SysCreate(n)
  PROVE  TableInv'
<1> USE DEF TableInv
<1>1. CASE n \notin Creatable
  <2>1. UNCHANGED <<desc, length, hostOpen, result>> /\ outcome' = "create"
    BY <1>1 DEF SysCreate, Crash
  <2>2. careful' = FALSE
    BY <1>1 DEF SysCreate, Use
  <2> QED
    BY <2>1, <2>2, FrameTableInv DEF TypeInv, Outcomes
<1>2. CASE n \in Creatable
  <2>1. /\ UNCHANGED <<desc, hostOpen, outcome>> /\ result' = 0
        /\ length' = [length EXCEPT ![n] = 0]
        /\ OpenSlot' = OpenSlot
        /\ outcome = "none"
    BY <1>2 DEF SysCreate, Return, Running, OpenSlot
  <2>2. /\ careful' \in BOOLEAN
        /\ careful' => careful /\ \A s \in OpenSlot : desc[s].name # n
    BY DEF SysCreate, Use, OpenSlot, TypeInv
  <2>3. TypeInv'
    BY SMTT(60), <2>1, <2>2, FileAssumption DEF TypeInv
  <2>4. FieldsMatch' /\ TableMatchesHost' /\ NoCrash'
    BY SMTT(60), <2>1 DEF FieldsMatch, TableMatchesHost, NoCrash
  <2>5. OpenFileNotRemoved'
    BY SMTT(60), <2>1 DEF OpenFileNotRemoved, FieldsMatch, TypeInv
  <2>6. OffsetWithinFile'
    BY <2>1, <2>2 DEF OffsetWithinFile, FieldsMatch, TypeInv
  <2> QED
    BY <2>3, <2>4, <2>5, <2>6
<1> QED
  BY <1>1, <1>2

(* FindFreeSlot returns a slot that is not in use, or -1. *)
LEMMA FreeSlotIsFree ==
  FindFreeSlot # -1 => FindFreeSlot \in Slot /\ desc[FindFreeSlot].mode = -1
BY SMTT(60), FirstFinds DEF FindFreeSlot

(* IsOpening returns a slot that holds the number, or -1 if none does. *)
LEMMA OpeningHolds ==
  ASSUME NEW id
  PROVE  /\ IsOpening(id) # -1 => IsOpening(id) \in Slot /\ desc[IsOpening(id)].id = id
         /\ IsOpening(id) = -1 => \A s \in Slot : desc[s].id # id
<1> DEFINE T == {s \in Slot : desc[s].id = id}
<1>1. IF T = {} THEN First(T) = -1 ELSE First(T) \in T
  BY FirstFinds
<1>2. -1 \notin Slot
  BY SMTT(60), FileAssumption DEF Slot
<1> QED
  BY <1>1, <1>2 DEF IsOpening

(* An Open that fails may leave a descriptor that is not in use without its file. *)
LEMMA OpenFailsTableInv ==
  ASSUME TableInv, NEW n \in Name, OpenFails(n)
  PROVE  TableInv'
<1> USE DEF TableInv
<1>1. CASE desc' = desc
  <2>1. UNCHANGED <<desc, length, hostOpen, outcome, careful>> /\ result' = -1
    BY <1>1 DEF OpenFails, Return
  <2> QED
    BY SMTT(60), <2>1, FrameTableInv DEF TypeInv, NoCrash
<1>2. CASE FindFreeSlot # -1 /\ desc' = [desc EXCEPT ![FindFreeSlot].hasFile = FALSE]
  <2> DEFINE f == FindFreeSlot
  <2>1. f \in Slot /\ desc[f].mode = -1
    BY <1>2, FreeSlotIsFree
  <2> HIDE DEF f
  <2>2. /\ UNCHANGED <<length, hostOpen, outcome, careful>> /\ result' = -1
        /\ desc' = [desc EXCEPT ![f].hasFile = FALSE]
    BY <1>2 DEF OpenFails, Return, f
  <2>3. desc' \in [Slot -> Descriptor]
    BY <2>1, <2>2 DEF TypeInv, Descriptor
  <2>4. \A s \in Slot : /\ desc'[s].mode = desc[s].mode /\ desc'[s].id = desc[s].id
                        /\ desc'[s].name = desc[s].name /\ desc'[s].offset = desc[s].offset
                        /\ s # f => desc'[s] = desc[s]
    BY <2>1, <2>2 DEF TypeInv, Descriptor
  <2>5. OpenSlot' = OpenSlot /\ f \notin OpenSlot /\ OpenSlot \subseteq Slot
    BY <2>1, <2>4 DEF OpenSlot
  <2>6. TypeInv'
    BY SMTT(60), <2>2, <2>3 DEF TypeInv
  <2>7. FieldsMatch' /\ OpenFileNotRemoved' /\ OffsetWithinFile' /\ NoCrash'
    BY SMTT(60), <2>2, <2>4, <2>5 DEF FieldsMatch, OpenFileNotRemoved, OffsetWithinFile, NoCrash
  <2>8. TableMatchesHost'
    <3>1. {desc'[s].id : s \in OpenSlot'} = {desc[s].id : s \in OpenSlot}
      BY SMTT(60), <2>4, <2>5
    <3>2. {desc'[s].id : s \in OpenSlot'} = DOMAIN hostOpen'
      BY <2>2, <3>1 DEF TableMatchesHost
    <3>3. \A s, x \in OpenSlot' : desc'[s].id = desc'[x].id => s = x
      BY SMTT(60), <2>4, <2>5 DEF TableMatchesHost
    <3>4. /\ \A s \in Slot : desc'[s].mode = -1 <=> desc'[s].id = -1
          /\ \A s \in OpenSlot' : desc'[s].id \in DOMAIN hostOpen' => hostOpen'[desc'[s].id] = desc'[s].name
      BY SMTT(60), <2>2, <2>4, <2>5 DEF TableMatchesHost
    <3> QED
      BY <3>2, <3>3, <3>4 DEF TableMatchesHost
  <2> QED
    BY <2>6, <2>7, <2>8
<1> QED
  BY <1>1, <1>2 DEF OpenFails

(* SysOpen and SysSocketTCP: a free descriptor takes a number the host did not have open. *)
LEMMA TakeTableInv ==
  ASSUME TableInv, NEW fd \in HostFd, fd \notin DOMAIN hostOpen, FindFreeSlot # -1, Running,
         NEW n \in Name \cup {NoName}, NEW d \in Descriptor,
         d.id = fd, d.name = n, d.offset = 0,
         IF n = NoName THEN d.mode = Socket_Mode /\ ~d.hasFile
         ELSE d.mode \in {ReadWriteFile, ReadFile} /\ d.hasFile /\ length[n] # -1,
         hostOpen' = HostOpened(fd, n),
         desc' = [desc EXCEPT ![FindFreeSlot] = d],
         result' = fd,
         UNCHANGED <<length, outcome, careful>>
  PROVE  TableInv'
<1> USE DEF TableInv
<1> DEFINE f == FindFreeSlot
<1>1. f \in Slot /\ desc[f].mode = -1
  BY FreeSlotIsFree
<1>2. desc' = [desc EXCEPT ![f] = d]
  OBVIOUS
<1> HIDE DEF f
<1>3. fd \in Nat /\ fd > 2
  BY FileAssumption
<1>4. /\ desc' \in [Slot -> Descriptor]
      /\ desc'[f] = d
      /\ \A s \in Slot : s # f => desc'[s] = desc[s]
  BY <1>1, <1>2 DEF TypeInv
<1>5. d.mode # -1 /\ (d.mode = Socket_Mode <=> n = NoName)
  BY SMTT(60) DEF Socket_Mode, ReadWriteFile, ReadFile
<1>6. OpenSlot' = OpenSlot \cup {f} /\ f \notin OpenSlot /\ OpenSlot \subseteq Slot
  BY <1>1, <1>4, <1>5 DEF OpenSlot
<1>7. /\ DOMAIN hostOpen' = DOMAIN hostOpen \cup {fd}
      /\ hostOpen'[fd] = n
      /\ \A g \in DOMAIN hostOpen : hostOpen'[g] = hostOpen[g]
  BY DEF HostOpened
<1>8. TypeInv'
  BY SMTT(60), <1>3, <1>4, <1>7 DEF TypeInv
<1>9. FieldsMatch' /\ NoCrash'
  BY SMTT(60), <1>4, <1>5, <1>6 DEF FieldsMatch, NoCrash
<1>10. OpenFileNotRemoved'
  BY SMTT(60), <1>4, <1>5, <1>6 DEF OpenFileNotRemoved
<1>11. OffsetWithinFile'
  <2>1. n # NoName => length[n] \in Nat
    BY SMTT(60), FileAssumption DEF TypeInv
  <2> QED
    BY SMTT(60), <2>1, <1>4, <1>5, <1>6 DEF OffsetWithinFile
<1>12. TableMatchesHost'
  <2>1. \A s \in OpenSlot : desc[s].id \in DOMAIN hostOpen /\ desc[s].id # fd
    BY DEF TableMatchesHost
  <2>2. {desc'[s].id : s \in OpenSlot'} = {desc[s].id : s \in OpenSlot} \cup {fd}
    BY SMTT(60), <1>4, <1>6
  <2> QED
    BY SMTT(60), <1>3, <1>4, <1>5, <1>6, <1>7, <2>1, <2>2 DEF TableMatchesHost, OpenSlot
<1> QED
  BY <1>8, <1>9, <1>10, <1>11, <1>12

LEMMA OpenTableInv ==
  ASSUME TableInv, NEW n \in Name, NEW type \in {ReadWriteFile, ReadFile}, NEW fd \in HostFd,
         SysOpen(n, type, fd)
  PROVE  TableInv'
<1> DEFINE d == OpenedFile(n, type, fd)
<1>1. /\ d \in Descriptor
      /\ d.id = fd /\ d.name = n /\ d.offset = 0 /\ d.mode = type /\ d.hasFile
  BY SMTT(60), FileAssumption DEF OpenedFile, Descriptor, Offsets, ReadWriteFile, ReadFile
<1>2. n # NoName
  BY FileAssumption
<1>3. /\ Running /\ FindFreeSlot # -1 /\ length[n] # -1 /\ fd \notin DOMAIN hostOpen
      /\ hostOpen' = HostOpened(fd, n) /\ desc' = [desc EXCEPT ![FindFreeSlot] = d]
      /\ result' = fd /\ UNCHANGED <<length, outcome, careful>>
  BY DEF SysOpen, Return
<1> HIDE DEF d
<1> QED
  BY <1>1, <1>2, <1>3, TakeTableInv

LEMMA SocketTableInv ==
  ASSUME TableInv, NEW fd \in HostFd, SysSocketTCP(fd)
  PROVE  TableInv'
<1> DEFINE d == OpenedSocket(fd)
<1>1. /\ d \in Descriptor
      /\ d.id = fd /\ d.name = NoName /\ d.offset = 0 /\ d.mode = Socket_Mode /\ ~d.hasFile
  BY SMTT(60), FileAssumption DEF OpenedSocket, Descriptor, Offsets, Socket_Mode
<1>2. /\ Running /\ FindFreeSlot # -1 /\ fd \notin DOMAIN hostOpen
      /\ hostOpen' = HostOpened(fd, NoName) /\ desc' = [desc EXCEPT ![FindFreeSlot] = d]
      /\ result' = fd /\ UNCHANGED <<length, outcome, careful>>
  BY DEF SysSocketTCP, Return
<1> HIDE DEF d
<1> QED
  BY <1>1, <1>2, TakeTableInv

(* Close_File and Close_Socket: a descriptor and its number are given back together. *)
LEMMA GiveBackTableInv ==
  ASSUME TableInv, NEW s \in OpenSlot, NEW d \in Descriptor, d.mode = -1, d.id = -1,
         hostOpen' = HostClosed(desc[s].id),
         desc' = [desc EXCEPT ![s] = d],
         result' \in Int,
         UNCHANGED <<length, outcome, careful>>
  PROVE  TableInv'
<1> USE DEF TableInv
<1>1. s \in Slot /\ desc[s].mode # -1
  BY DEF OpenSlot
<1>2. /\ desc' \in [Slot -> Descriptor]
      /\ desc'[s] = d
      /\ \A x \in Slot : x # s => desc'[x] = desc[x]
  BY <1>1 DEF TypeInv
<1>3. OpenSlot' = OpenSlot \ {s} /\ OpenSlot \subseteq Slot
  BY <1>1, <1>2 DEF OpenSlot
<1>4. /\ DOMAIN hostOpen' = DOMAIN hostOpen \ {desc[s].id}
      /\ \A g \in DOMAIN hostOpen' : hostOpen'[g] = hostOpen[g]
  BY DEF HostClosed
<1>5. TypeInv'
  BY <1>2, <1>4 DEF TypeInv
<1>6. FieldsMatch' /\ NoCrash' /\ OpenFileNotRemoved' /\ OffsetWithinFile'
  BY <1>2, <1>3 DEF FieldsMatch, NoCrash, OpenFileNotRemoved, OffsetWithinFile
<1>7. TableMatchesHost'
  <2>1. \A x \in OpenSlot : x # s => desc[x].id # desc[s].id
    BY DEF TableMatchesHost
  <2>2. {desc'[x].id : x \in OpenSlot'} = {desc[x].id : x \in OpenSlot} \ {desc[s].id}
    BY SMTT(60), <1>2, <1>3, <2>1
  <2>3. {desc'[x].id : x \in OpenSlot'} = DOMAIN hostOpen'
    BY <1>4, <2>2 DEF TableMatchesHost
  <2>4. \A x, y \in OpenSlot' : desc'[x].id = desc'[y].id => x = y
    BY SMTT(60), <1>2, <1>3 DEF TableMatchesHost
  <2>5. \A x \in Slot : desc'[x].mode = -1 <=> desc'[x].id = -1
    BY <1>2 DEF TableMatchesHost
  <2>6. \A x \in OpenSlot' :
          desc'[x].id \in DOMAIN hostOpen' => hostOpen'[desc'[x].id] = desc'[x].name
    BY SMTT(60), <1>2, <1>3, <1>4 DEF TableMatchesHost
  <2> QED
    BY <2>3, <2>4, <2>5, <2>6 DEF TableMatchesHost
<1> QED
  BY <1>5, <1>6, <1>7

LEMMA CloseTableInv ==
  ASSUME TableInv, NEW id \in Id, SysClose(id) \/ SysCloseSocket(id)
  PROVE  TableInv'
<1> USE DEF TableInv
<1>1. CASE ~InTable(id)
  <2>1. UNCHANGED <<desc, length, hostOpen, outcome, careful>> /\ result' = -1
    BY <1>1 DEF SysClose, SysCloseSocket, Return
  <2> QED
    BY SMTT(60), <2>1, FrameTableInv DEF TypeInv, NoCrash
<1>2. CASE InTable(id)
  <2> DEFINE s == IsOpening(id)
             file == Unused
             socket == [desc[s] EXCEPT !.mode = -1, !.id = -1]
  <2>1. s \in Slot /\ desc[s].id = id /\ id # -1
    BY <1>2, OpeningHolds DEF InTable
  <2>2. s \in OpenSlot
    BY <2>1 DEF OpenSlot, TableMatchesHost
  <2>3. file \in Descriptor /\ file.mode = -1 /\ file.id = -1
    BY SMTT(60), FileAssumption DEF Unused, Descriptor, Offsets
  <2>4. socket \in Descriptor /\ socket.mode = -1 /\ socket.id = -1
    BY <2>1 DEF TypeInv, Descriptor
  <2>5. /\ hostOpen' = HostClosed(desc[s].id)
        /\ UNCHANGED <<length, outcome, careful>> /\ result' \in Int
    BY SMTT(60), <1>2, <2>1 DEF SysClose, SysCloseSocket, Closed, Return
  <2>6. desc' = [desc EXCEPT ![s] = file] \/ desc' = [desc EXCEPT ![s] = socket]
    BY <1>2, <2>1 DEF SysClose, SysCloseSocket, CloseFile, CloseSocket, TypeInv
  <2> HIDE DEF s, file, socket
  <2> QED
    BY <2>2, <2>3, <2>4, <2>5, <2>6, GiveBackTableInv
<1> QED
  BY <1>1, <1>2

(* SysRemove: no descriptor in use has the name of a file that goes. *)
LEMMA RemoveTableInv ==
  ASSUME TableInv, NEW n \in Name, SysRemove(n)
  PROVE  TableInv'
<1> USE DEF TableInv
<1>1. careful' \in BOOLEAN /\ (careful' => careful /\ OpenSocketIds = {}) /\ outcome = "none"
  BY DEF SysRemove, Use, TypeInv, Running
<1>2. CASE NullName(n) /\ Crash("null name")
  <2>1. PICK s \in Slot : desc[s].mode # -1 /\ desc[s].name = NoName
    BY <1>2 DEF NullName
  <2>2. desc[s].mode = Socket_Mode
    BY <2>1, FileAssumption DEF FieldsMatch, OpenSlot
  <2>3. OpenSocketIds # {}
    BY <2>2 DEF OpenSocketIds
  <2> QED
    BY <1>1, <1>2, <2>3, FrameTableInv DEF Crash, TypeInv, Outcomes
<1>3. CASE ~NullName(n) /\ (OpenWithName(n) # {} \/ length[n] = -1)
  <2>1. UNCHANGED <<desc, length, hostOpen, outcome>> /\ result' = -1
    BY <1>3 DEF SysRemove, Return
  <2> QED
    BY SMTT(60), <1>1, <2>1, FrameTableInv DEF TypeInv
<1>4. CASE ~NullName(n) /\ OpenWithName(n) = {} /\ length[n] # -1
  <2>1. /\ UNCHANGED <<desc, hostOpen, outcome>> /\ result' = 0
        /\ length' = [length EXCEPT ![n] = -1]
        /\ OpenSlot' = OpenSlot
    BY <1>4 DEF SysRemove, Return, OpenSlot
  <2>2. \A s \in OpenSlot : desc[s].name # n
    BY <1>4, FileAssumption DEF OpenWithName, OpenSlot
  <2>3. TypeInv'
    BY SMTT(60), <1>1, <2>1, FileAssumption DEF TypeInv
  <2>4. FieldsMatch' /\ TableMatchesHost' /\ NoCrash'
    BY SMTT(60), <1>1, <2>1 DEF FieldsMatch, TableMatchesHost, NoCrash
  <2>5. OpenFileNotRemoved' /\ OffsetWithinFile'
    BY <1>1, <2>1, <2>2 DEF OpenFileNotRemoved, OffsetWithinFile, FieldsMatch, TypeInv
  <2> QED
    BY <2>3, <2>4, <2>5
<1> QED
  BY <1>2, <1>3, <1>4 DEF SysRemove

(* A number that is not -1 and that the table holds belongs to a descriptor in use. *)
LEMMA OpeningInUse ==
  ASSUME TableInv, NEW id, id # -1, IsOpening(id) # -1
  PROVE  IsOpening(id) \in OpenSlot
BY OpeningHolds DEF TableInv, TableMatchesHost, OpenSlot

(* The number of an open file leads Read, Write and Seek to its descriptor. *)
LEMMA OpenFileFound ==
  ASSUME TableInv, NEW id \in OpenFileIds
  PROVE  /\ IsOpening(id) # -1 /\ IsOpening(id) \in OpenSlot
         /\ desc[IsOpening(id)].mode \in {ReadWriteFile, ReadFile}
         /\ ~NoFile(id)
<1> USE DEF TableInv
<1>1. PICK x \in Slot : desc[x].mode \in {ReadWriteFile, ReadFile} /\ desc[x].id = id
  BY DEF OpenFileIds
<1>2. x \in OpenSlot /\ id # -1 /\ desc[x].hasFile
  BY SMTT(60), <1>1 DEF OpenSlot, TableMatchesHost, FieldsMatch, ReadWriteFile, ReadFile, Socket_Mode
<1>3. IsOpening(id) # -1 /\ desc[IsOpening(id)].id = id
  BY <1>1, OpeningHolds
<1>4. IsOpening(id) \in OpenSlot
  BY <1>2, <1>3, OpeningInUse
<1>5. IsOpening(id) = x
  BY <1>1, <1>2, <1>3, <1>4 DEF TableMatchesHost
<1> QED
  BY <1>1, <1>2, <1>3, <1>4, <1>5 DEF NoFile

(* Read, Write and Seek move the position of one file; Write may make the file longer. *)
LEMMA MoveTableInv ==
  ASSUME TableInv, NEW s \in OpenSlot, desc[s].mode # Socket_Mode,
         NEW p \in Offsets,
         desc' = [desc EXCEPT ![s].offset = p],
         length' \in [Name -> -1 .. MaxLength], \A n \in Name : length'[n] >= length[n],
         careful' \in BOOLEAN,
         careful' => careful /\ p \in 0 .. length'[desc[s].name],
         result' \in Int, UNCHANGED <<hostOpen, outcome>>
  PROVE  TableInv'
<1> USE DEF TableInv
<1>1. s \in Slot
  BY DEF OpenSlot
<1>2. desc' \in [Slot -> Descriptor]
  BY SMTT(60), <1>1 DEF TypeInv, Descriptor
<1>3. \A x \in Slot : /\ desc'[x].mode = desc[x].mode /\ desc'[x].id = desc[x].id
                      /\ desc'[x].name = desc[x].name /\ desc'[x].hasFile = desc[x].hasFile
                      /\ desc'[x].offset = IF x = s THEN p ELSE desc[x].offset
  BY <1>1 DEF TypeInv, Descriptor
<1>4. OpenSlot' = OpenSlot /\ OpenSlot \subseteq Slot
  BY <1>3 DEF OpenSlot
<1>5. TypeInv' /\ NoCrash'
  BY <1>2 DEF TypeInv, NoCrash
<1>6. FieldsMatch'
  BY SMTT(60), <1>3, <1>4 DEF FieldsMatch
<1>7. TableMatchesHost'
  <2>1. {desc'[x].id : x \in OpenSlot'} = {desc[x].id : x \in OpenSlot}
    BY SMTT(60), <1>3, <1>4
  <2>2. {desc'[x].id : x \in OpenSlot'} = DOMAIN hostOpen'
    BY <2>1 DEF TableMatchesHost
  <2>3. \A x, y \in OpenSlot' : desc'[x].id = desc'[y].id => x = y
    BY SMTT(60), <1>3, <1>4 DEF TableMatchesHost
  <2>4. /\ \A x \in Slot : desc'[x].mode = -1 <=> desc'[x].id = -1
        /\ \A x \in OpenSlot' :
             desc'[x].id \in DOMAIN hostOpen' => hostOpen'[desc'[x].id] = desc'[x].name
    BY SMTT(60), <1>3, <1>4 DEF TableMatchesHost
  <2> QED
    BY <2>2, <2>3, <2>4 DEF TableMatchesHost
<1>8. \A x \in OpenSlot : desc[x].mode # Socket_Mode =>
        /\ desc[x].name \in Name /\ length[desc[x].name] \in Nat
        /\ length'[desc[x].name] \in Nat /\ length'[desc[x].name] >= length[desc[x].name]
  BY SMTT(60), FileAssumption DEF FieldsMatch, OpenFileNotRemoved, TypeInv
<1>9. OpenFileNotRemoved' /\ OffsetWithinFile'
  BY SMTT(60), <1>3, <1>4, <1>8 DEF OpenFileNotRemoved, OffsetWithinFile
<1> QED
  BY <1>5, <1>6, <1>7, <1>9

(* What TableInv says of the file behind a descriptor that has one. *)
LEMMA FileBehind ==
  ASSUME TableInv, NEW s \in OpenSlot, desc[s].mode # Socket_Mode
  PROVE  /\ s \in Slot /\ desc[s].name \in Name
         /\ length[desc[s].name] \in 0 .. MaxLength
         /\ desc[s].offset \in Offsets
         /\ careful => desc[s].offset \in 0 .. length[desc[s].name]
<1>1. s \in Slot /\ desc[s].name \in Name
  BY DEF TableInv, FieldsMatch, OpenSlot
<1>2. length[desc[s].name] \in 0 .. MaxLength
  BY SMTT(60), <1>1, FileAssumption DEF TableInv, TypeInv, OpenFileNotRemoved
<1>3. desc[s].offset \in Offsets
  BY <1>1 DEF TableInv, TypeInv, Descriptor
<1> QED
  BY <1>1, <1>2, <1>3 DEF TableInv, OffsetWithinFile

LEMMA PositionsAreIntegers ==
  /\ \A q \in Offsets : q \in Int /\ (q >= 0 => q \in 0 .. MaxLength)
  /\ -1 .. MaxLength \subseteq Offsets
  /\ 0 .. MaxLength \subseteq Offsets
<1>1. \A q \in Position : q \in Int
  BY FileAssumption
<1>2. \A q \in -1 .. MaxLength : q \in Int /\ (q >= 0 => q \in 0 .. MaxLength)
  BY SMTT(60), FileAssumption
<1>3. \A q \in Position : q < 0 => ~(q >= 0)
  BY SMTT(60), <1>1
<1>4. 0 .. MaxLength \subseteq -1 .. MaxLength
  BY SMTT(60), FileAssumption
<1> QED
  BY <1>1, <1>2, <1>3, <1>4 DEF Offsets

(* A call that cannot be answered was careless: careful programs pass open files and sizes. *)
LEMMA CrashTableInv ==
  ASSUME TableInv, NEW why \in {"null id", "lseek", "buffer"}, Crash(why),
         careful' \in BOOLEAN, careful' = FALSE
  PROVE  TableInv'
BY FrameTableInv DEF Crash, TableInv, TypeInv, Outcomes

LEMMA ReadTableInv ==
  ASSUME TableInv, NEW id \in Id, NEW n \in ByteCount, SysRead(id, n)
  PROVE  TableInv'
<1> DEFINE s == IsOpening(id)
<1>1. /\ careful' \in BOOLEAN /\ (careful' => careful /\ id \in OpenFileIds /\ n >= 0)
      /\ id # -1
  BY DEF SysRead, Use, TableInv, TypeInv
<1>2. CASE NoFile(id) /\ Crash("null id")
  BY <1>1, <1>2, OpenFileFound, CrashTableInv
<1>buffer. CASE NoBuffer(n) /\ Crash("buffer")
  <2>1. ~(n >= 0)
    BY SMTT(60), <1>buffer, FileAssumption DEF NoBuffer, ByteCount
  <2> QED
    BY <1>1, <1>buffer, <2>1, CrashTableInv
<1>3. ASSUME ~NoFile(id)
      PROVE  s \in OpenSlot /\ desc[s].mode # Socket_Mode
  BY <1>1, <1>3, OpeningInUse DEF NoFile, TableInv, FieldsMatch
<1>4. CASE ~NoFile(id) /\ Offset(id) < 0 /\ Crash("lseek")
  <2>1. ~careful'
    BY SMTT(60), <1>1, <1>3, <1>4, FileBehind, FileAssumption DEF Offset
  <2> QED
    BY <1>1, <1>4, <2>1, CrashTableInv
<1>5. CASE /\ ~NoBuffer(n) /\ ~NoFile(id) /\ Offset(id) >= 0 /\ Advance(id, ReadPartial(id, n))
           /\ Return(ReadPartial(id, n)) /\ UNCHANGED <<length, hostOpen, outcome>>
  <2> DEFINE len == length[desc[s].name]
             off == desc[s].offset
             got == ReadPartial(id, n)
  <2>1. /\ s \in OpenSlot /\ desc[s].mode # Socket_Mode /\ s \in Slot
        /\ len \in 0 .. MaxLength /\ off \in 0 .. MaxLength
        /\ careful => off \in 0 .. len
    <3>1. s \in OpenSlot /\ desc[s].mode # Socket_Mode
      BY <1>3, <1>5
    <3>2. desc[s].offset \in Offsets
      BY <3>1, FileBehind
    <3>3. desc[s].offset \in Int
      BY <3>2, PositionsAreIntegers
    <3>4. desc[s].offset >= 0
      BY <1>5 DEF Offset
    <3>5. desc[s].offset \in 0 .. MaxLength
      BY <3>2, <3>4, PositionsAreIntegers
    <3> QED
      BY <3>1, <3>5, FileBehind
  <2>2. got = IF n < 0 THEN -1 ELSE Max({0, Min({n, len - off})})
    BY DEF ReadPartial, Offset, File
  <2>ints. n \in Int /\ len \in Int /\ off \in Int /\ len - off \in Int
    BY SMTT(60), <2>1, FileAssumption DEF ByteCount
  <2> HIDE DEF len, off, got
  <2>3. Min({n, len - off}) = IF n <= len - off THEN n ELSE len - off
    BY <2>ints, MinMaxPair
  <2>4. Min({n, len - off}) \in Int /\ Min({n, len - off}) <= len - off
    BY SMTT(60), <2>ints, <2>3
  <2>5. Max({0, Min({n, len - off})}) = IF 0 >= Min({n, len - off}) THEN 0 ELSE Min({n, len - off})
    <3>1. 0 \in Int
      BY SMTT(60)
    <3> QED
      BY <2>4, <3>1, MinMaxPair
  <2>6. /\ got \in Int /\ got >= -1 /\ (got <= 0 \/ off + got <= len)
        /\ n >= 0 => got >= 0
    BY SMTT(60), <2>ints, <2>2, <2>4, <2>5
  <2>7. off + got \in -1 .. MaxLength /\ (n >= 0 /\ off <= len => off + got \in 0 .. len)
    BY SMTT(60), <2>1, <2>ints, <2>6, FileAssumption
  <2>8. desc' = [desc EXCEPT ![s].offset = off + got] /\ result' = got
    BY <1>5 DEF Advance, Return, got, off
  <2>9. length' \in [Name -> -1 .. MaxLength] /\ \A x \in Name : length'[x] >= length[x]
    BY SMTT(60), <1>5, FileAssumption DEF TableInv, TypeInv
  <2>10. careful' => careful /\ off + got \in 0 .. length'[desc[s].name]
    BY SMTT(60), <1>1, <1>5, <2>1, <2>7, FileAssumption DEF len
  <2> DEFINE p == off + got
  <2>11. /\ p \in Offsets /\ result' \in Int
         /\ careful' => careful /\ p \in 0 .. length'[desc[s].name]
         /\ desc' = [desc EXCEPT ![s].offset = p]
    BY <2>6, <2>7, <2>8, <2>10, PositionsAreIntegers
  <2> HIDE DEF s, p
  <2> QED
    BY <1>1, <1>5, <2>1, <2>9, <2>11, MoveTableInv
<1> QED
  BY <1>2, <1>buffer, <1>4, <1>5 DEF SysRead

LEMMA WriteTableInv ==
  ASSUME TableInv, NEW id \in Id, NEW n \in ByteCount, SysWrite(id, n)
  PROVE  TableInv'
<1> DEFINE s == IsOpening(id)
<1>1. /\ careful' \in BOOLEAN /\ (careful' => careful /\ id \in OpenFileIds /\ n >= 0)
      /\ id # -1 /\ outcome = "none"
  BY DEF SysWrite, Use, TableInv, TypeInv, Running
<1>2. CASE s = -1 /\ Crash("null id")
  BY <1>1, <1>2, OpenFileFound, CrashTableInv
<1>buffer. CASE NoBuffer(n) /\ Crash("buffer")
  <2>1. ~(n >= 0)
    BY SMTT(60), <1>buffer, FileAssumption DEF NoBuffer, ByteCount
  <2> QED
    BY <1>1, <1>buffer, <2>1, CrashTableInv
<1>3. CASE Fail
  BY SMTT(60), <1>1, <1>3, FrameTableInv DEF Fail, Return, TableInv, TypeInv
<1>4. ASSUME s # -1, desc[s].mode = ReadWriteFile
      PROVE  s \in OpenSlot /\ desc[s].mode # Socket_Mode
  BY SMTT(60), <1>1, <1>4, OpeningInUse DEF ReadWriteFile, Socket_Mode
<1>5. CASE s # -1 /\ desc[s].mode = ReadWriteFile /\ Offset(id) < 0 /\ Crash("lseek")
  <2>1. ~careful'
    BY SMTT(60), <1>1, <1>4, <1>5, FileBehind, FileAssumption DEF Offset
  <2> QED
    BY <1>1, <1>5, <2>1, CrashTableInv
<1>6. CASE /\ ~NoBuffer(n) /\ s # -1 /\ desc[s].mode = ReadWriteFile
           /\ Offset(id) >= 0 /\ Offset(id) + n <= MaxLength
           /\ WriteFile(id, n)
           /\ Advance(id, n) /\ Return(n) /\ UNCHANGED <<hostOpen, outcome>>
  <2> DEFINE len == length[desc[s].name]
             off == desc[s].offset
  <2>1. /\ s \in OpenSlot /\ desc[s].mode # Socket_Mode /\ s \in Slot
        /\ desc[s].name \in Name
        /\ len \in 0 .. MaxLength /\ off \in 0 .. MaxLength
    <3>1. s \in OpenSlot /\ desc[s].mode # Socket_Mode
      BY <1>4, <1>6
    <3>2. desc[s].offset \in Offsets
      BY <3>1, FileBehind
    <3>3. desc[s].offset \in Int
      BY <3>2, PositionsAreIntegers
    <3>4. desc[s].offset >= 0
      BY <1>6 DEF Offset
    <3>5. desc[s].offset \in 0 .. MaxLength
      BY <3>2, <3>4, PositionsAreIntegers
    <3> QED
      BY <3>1, <3>5, FileBehind
  <2>2. /\ desc' = [desc EXCEPT ![s].offset = off + n] /\ result' = n
        /\ length' = IF n > 0 THEN [length EXCEPT ![desc[s].name] = Max({len, off + n})] ELSE length
        /\ off + n <= MaxLength
        /\ careful => off <= len
    <3>1. careful => off \in 0 .. len
      BY <2>1, FileBehind
    <3>2. careful => off <= len
      BY SMTT(60), <2>1, <3>1
    <3> QED
      BY <1>6, <3>2 DEF Advance, Return, Offset, File, WriteFile
  <2>ints. n \in Int /\ n >= -1 /\ len \in Int /\ off \in Int /\ off + n \in Int
    BY SMTT(60), <1>6, <2>1, FileAssumption DEF ByteCount, NoBuffer
  <2> HIDE DEF len, off
  <2>3. Max({len, off + n}) = IF len >= off + n THEN len ELSE off + n
    BY <2>ints, MinMaxPair
  <2>4. Max({len, off + n}) \in 0 .. MaxLength
        /\ Max({len, off + n}) >= len /\ Max({len, off + n}) >= off + n
    BY SMTT(60), <2>1, <2>2, <2>3, <2>ints, FileAssumption
  <2>5. length \in [Name -> -1 .. MaxLength]
    BY DEF TableInv, TypeInv
  <2>6. /\ length' \in [Name -> -1 .. MaxLength] /\ \A x \in Name : length'[x] >= length[x]
        /\ length'[desc[s].name] = IF n > 0 THEN Max({len, off + n}) ELSE len
    <3>1. CASE n > 0
      BY SMTT(60), <3>1, <2>1, <2>2, <2>4, <2>5, FileAssumption DEF len
    <3>2. CASE ~(n > 0)
      BY SMTT(60), <3>2, <2>1, <2>2, <2>5, FileAssumption DEF len
    <3> QED
      BY <3>1, <3>2
  <2> DEFINE p == off + n
  <2>7. p \in -1 .. MaxLength /\ (careful /\ n >= 0 => p \in 0 .. length'[desc[s].name])
    <3>1. CASE n > 0
      BY SMTT(60), <3>1, <2>1, <2>2, <2>4, <2>6, <2>ints, FileAssumption
    <3>2. CASE ~(n > 0)
      BY SMTT(60), <3>2, <2>1, <2>2, <2>6, <2>ints, FileAssumption
    <3> QED
      BY <3>1, <3>2
  <2>8. /\ p \in Offsets /\ result' \in Int
        /\ careful' => careful /\ p \in 0 .. length'[desc[s].name]
        /\ desc' = [desc EXCEPT ![s].offset = p]
    BY <1>1, <2>2, <2>7, <2>ints, PositionsAreIntegers
  <2> HIDE DEF s, p
  <2> QED
    BY <1>1, <1>6, <2>1, <2>6, <2>8, MoveTableInv
<1> QED
  BY <1>2, <1>buffer, <1>3, <1>5, <1>6 DEF SysWrite, Writable

LEMMA SeekTableInv ==
  ASSUME TableInv, NEW id \in Id, NEW q \in Position, SysSeek(id, q)
  PROVE  TableInv'
<1> DEFINE s == IsOpening(id)
           len == length[desc[s].name]
           p == Target(len, q)
<1>1. /\ careful' \in BOOLEAN /\ (careful' => careful /\ id \in OpenFileIds /\ q >= -1)
      /\ id # -1 /\ outcome = "none"
  BY DEF SysSeek, Use, TableInv, TypeInv, Running
<1>2. CASE NoFile(id) /\ Crash("null id")
  BY <1>1, <1>2, OpenFileFound, CrashTableInv
<1>3. CASE UNCHANGED <<desc, length, hostOpen, outcome>> /\ result' = -1
  BY SMTT(60), <1>1, <1>3, FrameTableInv DEF TableInv, TypeInv
<1>4. CASE /\ ~NoFile(id) /\ ~TooFar(len, q)
           /\ desc' = [desc EXCEPT ![s].offset = p] /\ result' = p
           /\ UNCHANGED <<length, hostOpen, outcome>>
  <2>1. s \in OpenSlot /\ desc[s].mode # Socket_Mode
    BY <1>1, <1>4, OpeningInUse DEF NoFile, TableInv, FieldsMatch
  <2>2. len \in 0 .. MaxLength
    BY <2>1, FileBehind
  <2>3. q \in Int /\ MaxLength \in Nat /\ q < len
    BY SMTT(60), <1>4, <2>2, FileAssumption DEF TooFar
  <2>4. /\ p \in Int
        /\ p \in Offsets
        /\ q >= -1 => p \in 0 .. len
    BY SMTT(60), <2>2, <2>3 DEF Target, Offsets
  <2>5. length' \in [Name -> -1 .. MaxLength] /\ \A x \in Name : length'[x] >= length[x]
    BY SMTT(60), <1>4, FileAssumption DEF TableInv, TypeInv
  <2>6. careful' => careful /\ p \in 0 .. length'[desc[s].name]
    BY <1>1, <1>4, <2>4
  <2> HIDE DEF s, p
  <2> QED
    BY <1>1, <1>4, <2>1, <2>4, <2>5, <2>6, MoveTableInv
<1> QED
  BY <1>2, <1>3, <1>4 DEF SysSeek, Return, File

LEMMA NextTableInv == TableInv /\ [FNext]_tvars => TableInv'
<1> SUFFICES ASSUME TableInv, [FNext]_tvars PROVE TableInv'
  OBVIOUS
<1>1. CASE UNCHANGED tvars
  BY <1>1, FrameTableInv DEF tvars, TableInv, TypeInv, NoCrash
<1>2. CASE FNext
  BY <1>2, AnswerTableInv, CreateTableInv, OpenFailsTableInv, RemoveTableInv, OpenTableInv,
     SocketTableInv, CloseTableInv, ReadTableInv, WriteTableInv, SeekTableInv
  DEF FNext
<1> QED
  BY <1>1, <1>2

(* The inductive invariant holds in every reachable state. *)
THEOREM FileTableInvariant == FSpec => []TableInv
BY InitTableInv, NextTableInv, PTL DEF FSpec

(***************************************************************************)
(* FileDescriptors.h: the descriptors in use and the numbers the host has  *)
(* open agree, for a table of any capacity.                                *)
(***************************************************************************)
THEOREM TableAlwaysMatchesHost == FSpec => []TableMatchesHost
<1>1. TableInv => TableMatchesHost
  BY DEF TableInv
<1> QED
  BY <1>1, FileTableInvariant, PTL

(* SysRemove: a file that a program has open is never removed, by whatever case of its name. *)
THEOREM OpenFileNeverRemoved == FSpec => []OpenFileNotRemoved
<1>1. TableInv => OpenFileNotRemoved
  BY DEF TableInv
<1> QED
  BY <1>1, FileTableInvariant, PTL

(***************************************************************************)
(* OpenFile: positions stay within their files, as long as programs pass   *)
(* no negative size, seek to no negative position but -1 and do not create *)
(* again a file that is open.                                              *)
(***************************************************************************)
THEOREM OffsetAlwaysWithinFile == FSpec => []OffsetWithinFile
<1>1. TableInv => OffsetWithinFile
  BY DEF TableInv
<1> QED
  BY <1>1, FileTableInvariant, PTL

(***************************************************************************)
(* ksyscall.h: as long as programs keep to the calls listed at Use, none   *)
(* follows a NULL, asks for a buffer of a negative size or fails an ASSERT *)
(* of sysdep.cc.                                                           *)
(***************************************************************************)
THEOREM CarefulNeverCrashes == FSpec => []NoCrash
<1>1. TableInv => NoCrash
  BY DEF TableInv
<1> QED
  BY <1>1, FileTableInvariant, PTL
=============================================================================
