---------------------------- MODULE UserPrograms ----------------------------
(***************************************************************************)
(* User programs on the processor of Mips.tla, one per thread and address  *)
(* space, interrupted and switched between any two instructions and inside *)
(* system calls: AddrSpace::Execute, Machine::Run, CheckIfDue's effect on  *)
(* the registers, Scheduler::Run with the registers and the page table it  *)
(* saves and restores, the trap to ExceptionHandler with every case of it  *)
(* but Connect, Send and Receive (whose buffer is in r5, which the model   *)
(* does not keep: no program here makes them), and the copies between user *)
(* memory and the kernel.                                                  *)
(***************************************************************************)
EXTENDS Noff

CONSTANTS
  UserThread,    \* threads that may run a program
  Workloads,     \* sets of programs: UserThread -> [kind, coff, code, r1, r2]
  CopySize,      \* the size passed to Read and Write
  MaxFileLength  \* bytes of a name, at most

SC_Halt == 0
SC_Exit == 1
SC_Exec == 2
SC_Join == 3
SC_Create == 4
SC_Remove == 5
SC_Open == 6
SC_Read == 7
SC_Write == 8
SC_Seek == 9
SC_Close == 10
SC_SocketTCP == 16
SC_Connect == 17
SC_Send == 18
SC_Receive == 19
SC_CloseSocket == 20
SC_CreateSemaphore == 21
SC_Wait == 22
SC_Signal == 23

VARIABLES
  running,  \* currentThread
  regs,     \* Machine::registers
  mem,      \* Machine::mainMemory
  tableOf,  \* Machine::pageTable: whose it is
  tables,   \* UserThread -> AddrSpace::pageTable
  saved,    \* UserThread -> Thread::userRegisters
  clear,    \* the clear bits of gPhysPageBitMap
  mode,     \* UserThread -> "new", "user", "kernel" or "ended"
  stopped,  \* the exception or call that halted the machine, or "No"
  buffer,   \* the file that Read and Write use
  load,     \* the programs: an element of Workloads
  due,      \* history: UserThread -> the addresses of its next instructions
  alone,    \* history: UserThread -> the processor, were it alone on it
  slotsKept \* history: UserThread -> no instruction so far has used a register in the
            \* delay slot of the load of it

uvars == <<running, regs, mem, tableOf, tables, saved, clear, mode, stopped, buffer, load, due, alone, slotsKept>>

Nop == [op |-> 0, rs |-> 0, rt |-> 0, rd |-> 0, shamt |-> 0, funct |-> 0, imm |-> 0, target |-> 0]
NoRegs == [x \in Registers |-> 0]
NoMemory == [a \in 0 .. NumPhysPages * PageSize - 1 |-> 0]

(* Machine::Machine: memory and registers are zero.  A thread of kind "none" does not exist. *)
UInit ==
  /\ load \in Workloads
  /\ running \in UserThread
  /\ load[running].kind # "none" \/ \A t \in UserThread : load[t].kind = "none"
  /\ regs = NoRegs
  /\ mem = NoMemory
  /\ tableOf = running
  /\ tables = [t \in UserThread |-> <<>>]
  /\ saved = [t \in UserThread |-> NoRegs]
  /\ clear = 0 .. NumPhysPages - 1
  /\ mode = [t \in UserThread |-> "new"]
  /\ stopped = "No"
  /\ buffer = <<>>
  /\ due = [t \in UserThread |-> <<>>]
  /\ alone = [t \in UserThread |-> [r |-> NoRegs, m |-> NoMemory, pt |-> <<>>, exc |-> "No"]]
  /\ slotsKept = [t \in UserThread |-> TRUE]

(* The processor as the running thread has it. *)
Processor == [r |-> regs, m |-> mem, pt |-> tables[tableOf], exc |-> "No"]

(* The byte the linker puts at a virtual address. *)
Linked(coff, v) ==
  LET Has(s) == s.name # ".bss" /\ v \in s.paddr .. s.paddr + s.size - 1
      at == {n \in DOMAIN coff : Has(coff[n])}
  IN  IF at = {} THEN 0 ELSE LET s == coff[CHOOSE n \in at : TRUE] IN s.data[v - s.paddr + 1]

(* The memory of a machine that holds nothing but the linked program. *)
Private(coff, pt) ==
  [a \in DOMAIN NoMemory |->
     IF \E i \in DOMAIN pt : pt[i].frame = a \div PageSize
     THEN Linked(coff, ((CHOOSE i \in DOMAIN pt : pt[i].frame = a \div PageSize) - 1) * PageSize + (a % PageSize))
     ELSE 0]

(* AddrSpace::Load under addrLock, and Execute: InitRegisters and RestoreState.  The code   *)
(* that puts a program's inputs into r1 and r2 is taken along.  When Load returns FALSE,    *)
(* for want of frames, Nachos stops.                                                        *)
Begin(t) ==
  LET noff == Coff2Noff(load[t].coff)
      pt == NewPageTable(clear, NumPages(noff))
      r == [InitRegisters(NumPages(noff)) EXCEPT ![1] = load[t].r1, ![2] = load[t].r2]
      fits == NumPages(noff) <= Cardinality(clear)
  IN  /\ running = t
      /\ stopped = "No"
      /\ mode[t] = "new"
      /\ stopped' = IF fits THEN "No" ELSE "NoMemory"
      /\ IF fits
         THEN /\ clear' = clear \ {pt[i].frame : i \in DOMAIN pt}
              /\ mem' = Loaded(mem, pt, noff)
              /\ tables' = [tables EXCEPT ![t] = pt]
              /\ mode' = [mode EXCEPT ![t] = "user"]
              /\ regs' = r
              /\ tableOf' = t
              /\ due' = [due EXCEPT ![t] = <<0>>]
              /\ alone' = [alone EXCEPT ![t] = [r |-> r, m |-> Private(load[t].coff, pt), pt |-> pt, exc |-> "No"]]
         ELSE UNCHANGED <<clear, mem, tables, mode, regs, tableOf, due, alone>>
      /\ UNCHANGED <<running, saved, buffer, load, slotsKept>>

(* The code at the PC.  The programs end; what follows them is not run. *)
CodeAt(t, pc) ==
  LET n == (pc \div 4) + 1
  IN  IF n \in DOMAIN load[t].code THEN load[t].code[n] ELSE Nop

HasCode(t, pc) ==
  \/ (pc \div 4) + 1 \in DOMAIN load[t].code
  \/ Translate(tables[t], pc, 4, FALSE).exc # "No"

(* The addresses that come after an instruction, by the architecture: the next in order, *)
(* and after a branch its delay slot and then its target.                                *)
Following(e, r, d) ==
  LET i == Decode(e)
      next == Wrap(Head(d) + 4)
      linked == Assigned(i, r)
      jumps == \/ Taken(i, linked) \/ i.op \in {"J", "JAL", "JR", "JALR"}
  IN  CASE jumps -> <<next, PCAfter(i, linked)>>
        [] ~jumps /\ Len(d) > 1 -> Tail(d)
        [] OTHER -> <<next>>

(* The registers an instruction reads or sets, a load's target excepted. *)
Uses(e) ==
  LET i == Decode(e)
  IN  CASE i.op \in Loads \cup {"BGEZ", "BGTZ", "BLEZ", "BLTZ"} -> {i.rs}
        [] i.op \in Stores \cup Immediates \cup {"BEQ", "BNE"} -> {i.rs, i.rt}
        [] i.op \in {"BGEZAL", "BLTZAL"} -> {i.rs, 31}
        [] i.op = "JAL" -> {31}
        [] i.op \in {"J", "SYSCALL", "RES", "UNIMP"} -> {}
        [] OTHER -> {i.rs, i.rt, i.rd}

(* Machine::Run: OneInstruction.  An exception other than a system call halts. *)
Step(t) ==
  LET e == CodeAt(t, regs[PCReg])
      s == Execute(Processor, e)
  IN  /\ running = t
      /\ stopped = "No"
      /\ mode[t] = "user"
      /\ HasCode(t, regs[PCReg])
      /\ regs' = s.r
      /\ mem' = s.m
      /\ tables' = [tables EXCEPT ![tableOf] = s.pt]
      /\ mode' = [mode EXCEPT ![t] = IF s.exc = "Syscall" THEN "kernel" ELSE "user"]
      /\ stopped' = IF s.exc = "Syscall" THEN "No" ELSE s.exc
      /\ due' = [due EXCEPT ![t] = IF s.exc = "No" THEN Following(e, regs, @) ELSE @]
      /\ alone' = [alone EXCEPT ![t] = [Execute(@, e) EXCEPT !.exc = "No"]]
      /\ slotsKept' = [slotsKept EXCEPT ![t] = @ /\ alone[t].r[LoadReg] \notin Uses(e) \ {0}]
      /\ UNCHANGED <<running, tableOf, saved, clear, buffer, load>>

(* Mutant: the load that is pending is dropped. *)
LoadDropped(r) == [r EXCEPT ![LoadReg] = 0, ![LoadValueReg] = 0]

(* CheckIfDue, before the handlers: the load that is pending is done. *)
Interrupted(r) == DelayedLoad(r, 0, 0)

(* OneTick after an instruction, with interrupts due and no switch; SwitchTo is the rest. *)
CheckIfDue(t) ==
  /\ running = t
  /\ stopped = "No"
  /\ mode[t] = "user"
  /\ regs' = Interrupted(regs)
  /\ UNCHANGED <<running, mem, tableOf, tables, saved, clear, mode, stopped, buffer, load, due, alone, slotsKept>>

(* Mutant: the next program counter is taken from the PC of the call. *)
ReturnsToNext(r, result) ==
  [r EXCEPT ![2] = result, ![PrevPCReg] = r[PCReg],
            ![PCReg] = Wrap(r[PCReg] + 4), ![NextPCReg] = Wrap(r[PCReg] + 8)]

(* The end of a case of ExceptionHandler that returns: the result in r2, and IncreasePC. *)
Returns(r, result) == IncreasePC([r EXCEPT ![2] = result])

AfterCall(d) == IF Len(d) > 1 THEN Tail(d) ELSE <<Wrap(Head(d) + 4)>>

(* ExceptionHandler of a system call: t is in the kernel with one of these numbers in r2. *)
Calls(t, numbers) ==
  /\ running = t
  /\ stopped = "No"
  /\ mode[t] = "kernel"
  /\ regs[2] \in numbers

NumberCalls == {SC_Join, SC_Seek, SC_Close, SC_SocketTCP, SC_CloseSocket}
NameCalls == {SC_Exec, SC_Create, SC_Remove, SC_Open, SC_CreateSemaphore, SC_Wait, SC_Signal}
KnownCalls == NumberCalls \cup NameCalls
                \cup {SC_Halt, SC_Exit, SC_Read, SC_Write, SC_Connect, SC_Send, SC_Receive}

(* A call that copies nothing; SysOpen of a bad type returns -1 before it reads the name. *)
NumberCall(t) ==
  /\ Calls(t, NumberCalls \cup {SC_Open})
  /\ \E result \in IF regs[2] = SC_Open THEN {Ones} ELSE {0, Ones} :
       /\ regs' = Returns(regs, result)
       /\ alone' = [alone EXCEPT ![t].r = Returns(@, result)]
  /\ mode' = [mode EXCEPT ![t] = "user"]
  /\ due' = [due EXCEPT ![t] = AfterCall(@)]
  /\ UNCHANGED <<running, mem, tableOf, tables, saved, clear, stopped, buffer, load, slotsKept>>

(* The name at r4 is read, which sets use bits, and the call returns. *)
Named(p, result) ==
  LET limit == IF p.r[2] = SC_Create THEN MaxFileLength + 1 ELSE MaxFileLength
      s == User2System(p, p.r[4], limit).s
  IN  IF s.exc = "No" THEN [s EXCEPT !.r = Returns(@, result)] ELSE s

(* A call that takes a name.  An exception on the way halts the machine. *)
NameCall(t) ==
  /\ Calls(t, NameCalls)
  /\ \E result \in {0, Ones} :
       LET s == Named(Processor, result)
       IN  /\ regs' = s.r
           /\ tables' = [tables EXCEPT ![tableOf] = s.pt]
           /\ stopped' = s.exc
           /\ alone' = [alone EXCEPT ![t] = [Named(@, result) EXCEPT !.exc = "No"]]
  /\ mode' = [mode EXCEPT ![t] = "user"]
  /\ due' = [due EXCEPT ![t] = AfterCall(@)]
  /\ UNCHANGED <<running, mem, tableOf, saved, clear, buffer, load, slotsKept>>

(* SysExit, of SC_Halt too: the first process halts the machine, another's thread finishes.  *)
(* Its frames stay taken.                                                                    *)
ExitCall(t) ==
  /\ Calls(t, {SC_Halt, SC_Exit})
  /\ \/ stopped' = "Halt" /\ UNCHANGED mode
     \/ mode' = [mode EXCEPT ![t] = "ended"] /\ UNCHANGED stopped
  /\ UNCHANGED <<running, regs, mem, tableOf, tables, saved, clear, buffer, load, due, alone, slotsKept>>

(* The default case neither sets r2 nor calls IncreasePC: the call is made again. *)
UnknownCall(t) ==
  /\ Calls(t, (0 .. Ones) \ KnownCalls)
  /\ mode' = [mode EXCEPT ![t] = "user"]
  /\ UNCHANGED <<running, regs, mem, tableOf, tables, saved, clear, stopped, buffer, load, due, alone, slotsKept>>

(* SysRead and SysWrite of CopySize bytes at r4: User2System, the file, System2User, which  *)
(* SysWrite calls too.  Read has a descriptor of its own, at the beginning of the file, and *)
(* leaves the buffer as it is when the file is empty.                                       *)
Copied(p) ==
  LET in == User2System(p, p.r[4], CopySize)
      data == IF p.r[2] = SC_Write \/ buffer = <<>> THEN in.data ELSE buffer
      s == System2User(in.s, p.r[4], data)
      result == IF p.r[2] = SC_Read /\ buffer = <<>> THEN 0 ELSE CopySize
  IN  [s |-> IF s.exc = "No" THEN [s EXCEPT !.r = Returns(@, result)] ELSE s,
       file |-> IF p.r[2] = SC_Write THEN in.data ELSE buffer]

(* An exception on the way halts the machine in ExceptionHandler. *)
CopyCall(t) ==
  LET c == Copied(Processor)
  IN  /\ Calls(t, {SC_Read, SC_Write})
      /\ stopped' = c.s.exc
      /\ buffer' = c.file
      /\ mem' = c.s.m
      /\ tables' = [tables EXCEPT ![tableOf] = c.s.pt]
      /\ regs' = c.s.r
      /\ mode' = [mode EXCEPT ![t] = "user"]
      /\ due' = [due EXCEPT ![t] = AfterCall(@)]
      /\ alone' = [alone EXCEPT ![t] = [Copied(@).s EXCEPT !.exc = "No"]]
      /\ UNCHANGED <<running, tableOf, saved, clear, load, slotsKept>>

(* RestoreUserState *)
Restored(t) == saved[t]

(* Scheduler::Run: SaveUserState of the thread that is left, RestoreUserState and           *)
(* RestoreState of the one that goes on.  Between two instructions it is CheckIfDue that    *)
(* brings the switch about; in the kernel no load is pending (RaiseException).  A thread    *)
(* that has no space yet finds the machine as the other left it.                            *)
SwitchTo(t) ==
  /\ t # running
  /\ stopped = "No"
  /\ load[t].kind # "none"
  /\ mode[t] # "ended"
  /\ saved' = [saved EXCEPT ![running] = IF mode[running] = "new" THEN @ ELSE Interrupted(regs)]
  /\ regs' = IF mode[t] = "new" THEN regs ELSE Restored(t)
  /\ tableOf' = IF mode[t] = "new" THEN tableOf ELSE t
  /\ running' = t
  /\ UNCHANGED <<mem, tables, clear, mode, stopped, buffer, load, due, alone, slotsKept>>

UNext ==
  \E t \in UserThread :
    \/ Begin(t) \/ Step(t) \/ CheckIfDue(t) \/ SwitchTo(t)
    \/ NumberCall(t) \/ NameCall(t) \/ CopyCall(t) \/ ExitCall(t) \/ UnknownCall(t)

USpec == UInit /\ [][UNext]_uvars

-----------------------------------------------------------------------------
RegistersOf(t) == IF running = t THEN regs ELSE saved[t]

(* Bytes of t's own pages, by virtual address. *)
Virtual(t, m) ==
  [v \in 0 .. Len(tables[t]) * PageSize - 1 |->
     m[tables[t][(v \div PageSize) + 1].frame * PageSize + (v % PageSize)]]

(* The registers once a load that is pending is done. *)
Settled(r) == DelayedLoad(r, 0, 0)

(***************************************************************************)
(* A program computes what it would compute alone: however often it is     *)
(* interrupted, between a load and the instruction in its delay slot too,  *)
(* switched away from and resumed, its registers, but for when a load is   *)
(* done, its memory and its page table are as if it had never lost the     *)
(* processor (CheckIfDue, SaveUserState, RestoreUserState, RestoreState),  *)
(* and it started with what the linker laid out (coff2noff, Load).  The    *)
(* program is one that keeps to the architecture's rule for load delay     *)
(* slots; one that does not sees the interrupts.                           *)
(***************************************************************************)
AsIfAlone ==
  \A t \in UserThread : mode[t] # "new" /\ slotsKept[t] =>
    /\ running = t => tableOf = t
    /\ stopped = "No" => Settled(RegistersOf(t)) = Settled(alone[t].r)
    /\ Virtual(t, mem) = Virtual(t, alone[t].m)
    /\ tables[t] = alone[t].pt

(* The PC goes through the program in the order of the architecture: a branch takes effect *)
(* after its delay slot, also when the slot holds a system call that returns (NextPCReg,   *)
(* IncreasePC).                                                                            *)
ProgramOrder ==
  \A t \in UserThread : mode[t] # "new" /\ stopped = "No" => RegistersOf(t)[PCReg] = Head(due[t])

(***************************************************************************)
(* The arithmetic of an instruction against the integers: an add or a      *)
(* subtract traps exactly when the true result does not fit a word, and    *)
(* otherwise gives it; a product fills Hi and Lo; quotient and remainder   *)
(* satisfy the division identity; comparisons compare.  SRL and SRLV are   *)
(* left out: they shift in the sign.                                       *)
(***************************************************************************)
RightResult(e, exc, b, r) ==
  LET i == Decode(e)
      x == Signed(b[i.rs])
      imm == IF e.imm >= Range2(2 * ByteBits - 1) THEN e.imm - Range2(2 * ByteBits) ELSE e.imm
      y == IF i.op \in Immediates THEN imm ELSE Signed(b[i.rt])
      dest == IF i.op \in Immediates THEN i.rt ELSE i.rd
      out == r[dest]
      Fits(v) == v \in -Range2(WordBits - 1) .. Range2(WordBits - 1) - 1
      Gives(v) == exc = (IF Fits(v) THEN "No" ELSE "Overflow") /\ (Fits(v) => Signed(out) = v)
      hi == r[HiReg]
      lo == r[LoReg]
      ux == b[i.rs]
      uy == Wrap(y)
      Abs(v) == IF v < 0 THEN -v ELSE v
      Judged == dest \notin {0, b[LoadReg]}
  IN  CASE i.op \in {"ADD", "ADDI"} -> Judged => Gives(x + y)
        [] i.op = "SUB" -> Judged => Gives(x - y)
        [] i.op = "MULT" -> Signed(hi) * Range2(WordBits) + lo = x * y
        [] i.op = "MULTU" -> hi * Range2(WordBits) + lo = ux * uy
        [] i.op = "DIV" /\ y # 0 -> /\ x = y * Signed(lo) + Signed(hi)
                                    /\ Abs(Signed(hi)) < Abs(y)
                                    /\ Signed(hi) # 0 => ((Signed(hi) < 0) = (x < 0))
        [] i.op = "DIVU" /\ uy # 0 -> ux = uy * lo + hi /\ hi < uy
        [] i.op \in {"SLT", "SLTI"} -> Judged => out = ToBit(x < y)
        [] i.op \in {"SLTU", "SLTIU"} -> Judged => out = ToBit(ux < uy)
        [] i.op = "SRA" -> Judged => Signed(out) = y \div Range2(i.extra)
        [] OTHER -> TRUE

(* ADD, ADDI, SUB, MULT, MULTU, DIV, DIVU, SLT, SLTI, SLTU, SLTIU and SRA compute what the *)
(* architecture says, and ADD, ADDI and SUB trap exactly when the result does not fit      *)
(* (OneInstruction, Mult()).  Logic, ADDU, ADDIU, SUBU, LUI and the other shifts are not   *)
(* judged.                                                                                 *)
ArithmeticRight ==
  [][\A t \in UserThread :
       Step(t) /\ stopped' # "HostTrap" => RightResult(CodeAt(t, regs[PCReg]), stopped', regs, regs')]_uvars

(* Exceptions are precise: an instruction that traps changes no memory and sets no dirty   *)
(* bit, and of the registers only a pending load's target and BadVAddr change, so that it  *)
(* can be run again (RaiseException, DelayedLoad).                                         *)
PreciseExceptions ==
  [][\A t \in UserThread :
       Step(t) /\ (mode'[t] = "kernel" \/ stopped' \notin {"No", "HostTrap"}) =>
         /\ mem' = mem
         /\ \A p \in DOMAIN tables[t] : tables'[t][p].dirty = tables[t][p].dirty
         /\ \A x \in Registers \ {LoadReg, LoadValueReg, BadVAddrReg} :
              regs'[x] = IF x = regs[LoadReg] /\ x # 0 THEN regs[LoadValueReg] ELSE regs[x]]_uvars

Ended(t) == mode[t] = "user" /\ stopped = "No" /\ RegistersOf(t)[PCReg] = 4 * Len(load[t].code)

(* The pair LWL a+3, LWR a loads the word at any address a, and the pair SWL a+3, SWR a    *)
(* stores one there and touches nothing else, as in the code gcc makes for unaligned data  *)
(* (mipssim.cc, SIM_FIX), over page borders and in spite of switches between the two.      *)
UnalignedPairs ==
  \A t \in UserThread : Ended(t) =>
    LET c == load[t]
        ByteOf(w, k) == (w \div Range2(ByteBits * k)) % Range2(ByteBits)
    IN  /\ c.kind = "lwl" => \A k \in 0 .. 3 : ByteOf(RegistersOf(t)[3], k) = Linked(c.coff, c.r1 + k)
        /\ c.kind = "swl" => \A v \in DOMAIN Virtual(t, mem) :
             Virtual(t, mem)[v] = IF v \in c.r1 .. c.r1 + 3 THEN ByteOf(c.r2, v - c.r1) ELSE Linked(c.coff, v)

=============================================================================
