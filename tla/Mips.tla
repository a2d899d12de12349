-------------------------------- MODULE Mips --------------------------------
(***************************************************************************)
(* The simulated MIPS processor: instructions (machine/mipssim.cc), the    *)
(* tables that decode them (machine/mipssim.h), memory and address         *)
(* translation (machine/translate.cc), exceptions (machine/machine.cc).    *)
(* A processor state is a record of the registers r, physical memory m and *)
(* the page table pt; Execute maps it to the state after one instruction.  *)
(*                                                                         *)
(* Words are scaled: a word is four bytes of ByteBits bits, an immediate   *)
(* half a word.  An instruction is the record of its fields, and code is   *)
(* kept apart from data: no program writes its own code.                   *)
(***************************************************************************)
EXTENDS Integers, Sequences, Bitwise

CONSTANTS
  ByteBits,      \* bits of a byte
  PageSize,      \* bytes of a page
  NumPhysPages,  \* page frames
  RegionBits     \* bits of an address that J and JAL set

ASSUME MipsAssumption ==
  /\ ByteBits \in Nat \ {0} /\ PageSize \in Nat \ {0} /\ NumPhysPages \in Nat \ {0}
  /\ PageSize % 4 = 0
  /\ RegionBits \in Nat

(* The registers the model keeps of the NumTotalRegs, with their numbers. *)
GPRegs == {0, 1, 2, 3, 4, 29, 31}
HiReg == 32
LoReg == 33
PCReg == 34
NextPCReg == 35
PrevPCReg == 36
LoadReg == 37
LoadValueReg == 38
BadVAddrReg == 39
Registers == GPRegs \cup (HiReg .. BadVAddrReg)

WordBits == 4 * ByteBits
Range2(bits) == 2 ^ bits
Wrap(x) == x % Range2(WordBits)
Signed(x) == IF x >= Range2(WordBits - 1) THEN x - Range2(WordBits) ELSE x
Negative(x) == x >= Range2(WordBits - 1)
SignExtend(x, bits) == IF x >= Range2(bits - 1) THEN Wrap(x - Range2(bits)) ELSE x
Ones == Range2(WordBits) - 1

-----------------------------------------------------------------------------
(* opTable: bits 31:26 of an instruction. *)
opTable == <<
  "SPECIAL", "BCOND", "J", "JAL", "BEQ", "BNE", "BLEZ", "BGTZ",
  "ADDI", "ADDIU", "SLTI", "SLTIU", "ANDI", "ORI", "XORI", "LUI",
  "UNIMP", "UNIMP", "UNIMP", "UNIMP", "RES", "RES", "RES", "RES",
  "RES", "RES", "RES", "RES", "RES", "RES", "RES", "RES",
  "LB", "LH", "LWL", "LW", "LBU", "LHU", "LWR", "RES",
  "SB", "SH", "SWL", "SW", "RES", "RES", "SWR", "RES",
  "UNIMP", "UNIMP", "UNIMP", "UNIMP", "RES", "RES", "RES", "RES",
  "UNIMP", "UNIMP", "UNIMP", "UNIMP", "RES", "RES", "RES", "RES" >>

(* specialTable: bits 5:0 of a SPECIAL instruction; the codes from 44 on are reserved. *)
specialTable == <<
  "SLL", "RES", "SRL", "SRA", "SLLV", "RES", "SRLV", "SRAV",
  "JR", "JALR", "RES", "RES", "SYSCALL", "UNIMP", "RES", "RES",
  "MFHI", "MTHI", "MFLO", "MTLO", "RES", "RES", "RES", "RES",
  "MULT", "MULTU", "DIV", "DIVU", "RES", "RES", "RES", "RES",
  "ADD", "ADDU", "SUB", "SUBU", "AND", "OR", "XOR", "NOR",
  "RES", "RES", "SLT", "SLTU" >>

(* Instruction::Decode *)
Decode(e) ==
  LET top == opTable[e.op + 1]
  IN  [op |-> CASE top = "SPECIAL" -> IF e.funct < 44 THEN specialTable[e.funct + 1] ELSE "RES"
                [] top = "BCOND" -> CASE e.rt = 0 -> "BLTZ" [] e.rt = 1 -> "BGEZ"
                                      [] e.rt = 16 -> "BLTZAL" [] e.rt = 17 -> "BGEZAL"
                                      [] OTHER -> "UNIMP"
                [] OTHER -> top,
       rs |-> e.rs, rt |-> e.rt, rd |-> e.rd,
       extra |-> CASE top = "SPECIAL" -> e.shamt
                   [] top \in {"J", "JAL"} -> e.target
                   [] OTHER -> SignExtend(e.imm, 2 * ByteBits)]

-----------------------------------------------------------------------------
(* Machine::Translate with a page table: the exception, or the physical address and the  *)
(* table with the use and dirty bits set.                                                *)
Translate(pt, addr, size, writing) ==
  LET vpn == addr \div PageSize
      Fails(exc) == [exc |-> exc, phys |-> 0, pt |-> pt]
  IN  IF (size = 4 /\ addr % 4 # 0) \/ (size = 2 /\ addr % 2 # 0) \/ vpn >= Len(pt)
      THEN Fails("AddressError")
      ELSE IF ~pt[vpn + 1].valid THEN Fails("PageFault")
      ELSE IF pt[vpn + 1].readOnly /\ writing THEN Fails("ReadOnly")
      ELSE IF pt[vpn + 1].frame >= NumPhysPages THEN Fails("BusError")
      ELSE [exc |-> "No", phys |-> pt[vpn + 1].frame * PageSize + (addr % PageSize),
            pt |-> [pt EXCEPT ![vpn + 1].use = TRUE, ![vpn + 1].dirty = @ \/ writing]]

(* What ReadMem and WriteMem do to memory: little endian, WordToHost changes nothing. *)
Fetch(m, phys, size) ==
  LET sum[k \in 0 .. size] ==
        IF k = 0 THEN 0 ELSE sum[k - 1] + m[phys + k - 1] * Range2(ByteBits * (k - 1))
  IN  sum[size]

Put(m, phys, size, value) ==
  [a \in DOMAIN m |->
     IF a \in phys .. phys + size - 1
     THEN (value \div Range2(ByteBits * (a - phys))) % Range2(ByteBits) ELSE m[a]]

(* Machine::DelayedLoad *)
DelayedLoad(r, nextReg, nextValue) ==
  [r EXCEPT ![r[LoadReg]] = r[LoadValueReg],
            ![LoadReg] = nextReg,
            ![LoadValueReg] = nextValue,
            ![0] = 0]

(* Mutant: the delayed load is forgotten when an exception is raised. *)
RaiseForgets(s, which, badVAddr) ==
  [s EXCEPT !.r = [@ EXCEPT ![BadVAddrReg] = badVAddr, ![LoadReg] = 0, ![LoadValueReg] = 0, ![0] = 0],
            !.exc = which]

(* Machine::RaiseException up to the call of ExceptionHandler. *)
RaiseException(s, which, badVAddr) ==
  [s EXCEPT !.r = DelayedLoad([@ EXCEPT ![BadVAddrReg] = badVAddr], 0, 0),
            !.exc = which]

(* The end of OneInstruction: the delayed load, and the program counters advance. *)
Complete(s, r, pcAfter, nextReg, nextValue) ==
  [s EXCEPT !.r = [DelayedLoad(r, nextReg, nextValue) EXCEPT
                     ![PrevPCReg] = r[PCReg],
                     ![PCReg] = r[NextPCReg],
                     ![NextPCReg] = pcAfter]]

-----------------------------------------------------------------------------
(* Mutant: SUB is tested as ADD is. *)
SameSign(op, a, b) == Negative(a) = Negative(b)

(* Whether the operands' signs allow an overflow. *)
MayOverflow(op, a, b) == (Negative(a) = Negative(b)) = (op # "SUB")

(* The tests of the sign bits in ADD, ADDI and SUB. *)
Overflows(i, r) ==
  LET a == r[i.rs]
      b == IF i.op = "ADDI" THEN i.extra ELSE r[i.rt]
  IN  /\ i.op \in {"ADD", "ADDI", "SUB"}
      /\ MayOverflow(i.op, a, b)
      /\ Negative(a) # Negative(IF i.op = "SUB" THEN Wrap(a - b) ELSE Wrap(a + b))

(* Mult: shift and add over the bits of the absolute values, then the sign. *)
Mult(x, y, signedArith) ==
  LET Abs(v) == IF signedArith /\ Negative(v) THEN Wrap(-v) ELSE v
      negative == signedArith /\ (Negative(x) # Negative(y))
      a == Abs(x)
      acc[n \in 0 .. WordBits] ==
        IF n = 0 THEN [bLo |-> Abs(y), bHi |-> 0, lo |-> 0, hi |-> 0]
        ELSE LET p == acc[n - 1]
                 bit == (a \div Range2(n - 1)) % 2 = 1
                 lo == IF bit THEN Wrap(p.lo + p.bLo) ELSE p.lo
                 hi == IF bit THEN Wrap(p.hi + p.bHi + (IF lo < p.bLo THEN 1 ELSE 0)) ELSE p.hi
             IN  [bLo |-> Wrap(p.bLo * 2),
                  bHi |-> Wrap(p.bHi * 2) + (IF Negative(p.bLo) THEN 1 ELSE 0),
                  lo |-> lo, hi |-> hi]
      res == acc[WordBits]
      low == Wrap(Ones - res.lo + 1)
  IN  IF x = 0 \/ y = 0 THEN [hi |-> 0, lo |-> 0]
      ELSE IF negative THEN [hi |-> Wrap(Ones - res.hi + (IF low = 0 THEN 1 ELSE 0)), lo |-> low]
      ELSE [hi |-> res.hi, lo |-> res.lo]

(* Division of C: the quotient is truncated towards zero. *)
Quotient(x, y) ==
  LET Abs(v) == IF v < 0 THEN -v ELSE v
      q == Abs(x) \div Abs(y)
  IN  IF (x < 0) # (y < 0) THEN -q ELSE q

Divide(x, y) ==
  IF y = 0 THEN [hi |-> 0, lo |-> 0]
  ELSE [hi |-> Wrap(x - y * Quotient(x, y)), lo |-> Wrap(Quotient(x, y))]

(* The quotient that does not fit a word: the host's division is undefined. *)
DivisionUndefined(i, r) ==
  i.op = "DIV" /\ r[i.rs] = Range2(WordBits - 1) /\ r[i.rt] = Ones

HighLow(r, d) == [r EXCEPT ![HiReg] = d.hi, ![LoReg] = d.lo]
ToBit(b) == IF b THEN 1 ELSE 0
Immediates == {"ADDI", "ADDIU", "ANDI", "ORI", "XORI", "LUI", "SLTI", "SLTIU"}

(***************************************************************************)
(* The value an instruction puts into its destination, from operands a and *)
(* b and the extra field x.  SRL and SRLV shift a signed tmp, as SRA does. *)
(***************************************************************************)
Value(i, r) ==
  LET a == r[i.rs]
      b == r[i.rt]
      x == i.extra
      low == x % Range2(2 * ByteBits)
      shift == a % WordBits
  IN  CASE i.op \in {"ADD", "ADDU"} -> Wrap(a + b)
        [] i.op \in {"ADDI", "ADDIU"} -> Wrap(a + x)
        [] i.op \in {"SUB", "SUBU"} -> Wrap(a - b)
        [] i.op = "AND" -> a & b
        [] i.op = "ANDI" -> a & low
        [] i.op = "OR" -> a | b
        [] i.op = "ORI" -> a | low
        [] i.op = "XOR" -> a ^^ b
        [] i.op = "XORI" -> a ^^ low
        [] i.op = "NOR" -> Ones - (a | b)
        [] i.op = "LUI" -> Wrap(x * Range2(2 * ByteBits))
        [] i.op = "SLL" -> Wrap(b * Range2(x))
        [] i.op = "SLLV" -> Wrap(b * Range2(shift))
        [] i.op \in {"SRA", "SRL"} -> Wrap(Signed(b) \div Range2(x))
        [] i.op \in {"SRAV", "SRLV"} -> Wrap(Signed(b) \div Range2(shift))
        [] i.op = "SLT" -> ToBit(Signed(a) < Signed(b))
        [] i.op = "SLTI" -> ToBit(Signed(a) < Signed(x))
        [] i.op = "SLTU" -> ToBit(a < b)
        [] i.op = "SLTIU" -> ToBit(a < x)
        [] i.op = "MFHI" -> r[HiReg]
        [] i.op = "MFLO" -> r[LoReg]

Link(r) == Wrap(r[NextPCReg] + 4)

(* The registers after the assignments of an instruction that is no load or store. *)
Assigned(i, r) ==
  CASE i.op \in {"BGEZAL", "BLTZAL", "JAL"} -> [r EXCEPT ![31] = Link(r)]
    [] i.op = "JALR" -> [r EXCEPT ![i.rd] = Link(r)]
    [] i.op = "MTHI" -> [r EXCEPT ![HiReg] = r[i.rs]]
    [] i.op = "MTLO" -> [r EXCEPT ![LoReg] = r[i.rs]]
    [] i.op \in {"MULT", "MULTU"} -> HighLow(r, Mult(r[i.rs], r[i.rt], i.op = "MULT"))
    [] i.op = "DIV" -> HighLow(r, Divide(Signed(r[i.rs]), Signed(r[i.rt])))
    [] i.op = "DIVU" -> HighLow(r, Divide(r[i.rs], r[i.rt]))
    [] i.op \in {"BEQ", "BNE", "BGEZ", "BGTZ", "BLEZ", "BLTZ", "J", "JR"} -> r
    [] i.op \in Immediates -> [r EXCEPT ![i.rt] = Value(i, r)]
    [] OTHER -> [r EXCEPT ![i.rd] = Value(i, r)]

(* A branch looks at registers after the link register is set. *)
Taken(i, r) ==
  LET a == r[i.rs]
  IN  \/ i.op = "BEQ" /\ a = r[i.rt]
      \/ i.op = "BNE" /\ a # r[i.rt]
      \/ i.op \in {"BGEZ", "BGEZAL"} /\ ~Negative(a)
      \/ i.op \in {"BLTZ", "BLTZAL"} /\ Negative(a)
      \/ i.op = "BGTZ" /\ Signed(a) > 0
      \/ i.op = "BLEZ" /\ Signed(a) <= 0

PCAfter(i, r) ==
  CASE Taken(i, r) -> Wrap(r[NextPCReg] + 4 * i.extra)
    [] i.op \in {"J", "JAL"} -> Link(r) - (Link(r) % Range2(RegionBits)) + 4 * i.extra
    [] i.op \in {"JR", "JALR"} -> r[i.rs]
    [] OTHER -> Link(r)

-----------------------------------------------------------------------------
Loads == {"LB", "LBU", "LH", "LHU", "LW", "LWL", "LWR"}
Stores == {"SB", "SH", "SW", "SWL", "SWR"}
Unaligned == {"LWL", "LWR", "SWL", "SWR"}

SizeOf(op) ==
  CASE op \in {"LB", "LBU", "SB"} -> 1 [] op \in {"LH", "LHU", "SH"} -> 2 [] OTHER -> 4

(* The address of the access: LWL, LWR, SWL and SWR round it down. *)
Accessed(i, r) ==
  LET addr == Wrap(r[i.rs] + i.extra)
  IN  IF i.op \in Unaligned THEN addr - (addr % 4) ELSE addr

(* Mutant: the register's old value, though a load of it is pending. *)
OldValue(r, reg) == r[reg]

(* The value LWL and LWR merge with: the one a pending load will put into the register. *)
PendingValue(r, reg) == IF r[LoadReg] = reg THEN r[LoadValueReg] ELSE r[reg]

(* What a load brings into its register. *)
Merged(i, r, value) ==
  LET byte == Wrap(r[i.rs] + i.extra) % 4
      old == PendingValue(r, i.rt)
  IN  CASE i.op = "LWL" -> (old % Range2(ByteBits * (3 - byte))) + Wrap(value * Range2(ByteBits * (3 - byte)))
        [] i.op = "LWR" -> old - (old % Range2(ByteBits * (4 - byte))) + (value \div Range2(ByteBits * byte))
        [] i.op = "LB" -> SignExtend(value, ByteBits)
        [] i.op = "LH" -> SignExtend(value, 2 * ByteBits)
        [] OTHER -> value

(* What a store puts into memory, where value is there. *)
Stored(i, r, value) ==
  LET byte == Wrap(r[i.rs] + i.extra) % 4
      new == r[i.rt]
  IN  CASE i.op = "SWL" -> value - (value % Range2(ByteBits * (byte + 1))) + (new \div Range2(ByteBits * (3 - byte)))
        [] i.op = "SWR" -> (value % Range2(ByteBits * byte)) + Wrap(new * Range2(ByteBits * byte))
        [] OTHER -> new % Range2(ByteBits * SizeOf(i.op))

Load(s, i) ==
  LET addr == Accessed(i, s.r)
      t == Translate(s.pt, addr, SizeOf(i.op), FALSE)
  IN  IF t.exc # "No" THEN RaiseException(s, t.exc, addr)
      ELSE Complete([s EXCEPT !.pt = t.pt], s.r, Link(s.r), i.rt,
                    Merged(i, s.r, Fetch(s.m, t.phys, SizeOf(i.op))))

(* SWL and SWR read the word first. *)
Store(s, i) ==
  LET addr == Accessed(i, s.r)
      read == IF i.op \in Unaligned THEN Translate(s.pt, addr, 4, FALSE) ELSE [exc |-> "No", pt |-> s.pt]
      t == Translate(read.pt, addr, SizeOf(i.op), TRUE)
      done == [s EXCEPT !.pt = t.pt,
                        !.m = Put(@, t.phys, SizeOf(i.op),
                                  Stored(i, s.r, Fetch(@, t.phys, SizeOf(i.op))))]
  IN  CASE read.exc # "No" -> RaiseException(s, read.exc, addr)
        [] read.exc = "No" /\ t.exc # "No" -> RaiseException([s EXCEPT !.pt = read.pt], t.exc, addr)
        [] OTHER -> Complete(done, s.r, Link(s.r), 0, 0)

(* The exception an instruction raises by itself, or "No"; the division that the host cannot *)
(* do ends Nachos.                                                                          *)
Raises(i, r) ==
  CASE Overflows(i, r) -> "Overflow"
    [] i.op = "SYSCALL" -> "Syscall"
    [] i.op \in {"RES", "UNIMP"} -> "IllegalInstr"
    [] OTHER -> "No"

(* Machine::OneInstruction, where the code at the PC is encoded e; exc says how it ended. *)
Execute(s, e) ==
  LET t == Translate(s.pt, s.r[PCReg], 4, FALSE)
      i == Decode(e)
      f == [s EXCEPT !.pt = t.pt]
      r == Assigned(i, s.r)
  IN  CASE t.exc # "No" -> RaiseException(s, t.exc, s.r[PCReg])
        [] t.exc = "No" /\ i.op \in Loads -> Load(f, i)
        [] t.exc = "No" /\ i.op \in Stores -> Store(f, i)
        [] t.exc = "No" /\ Raises(i, s.r) # "No" -> RaiseException(f, Raises(i, s.r), 0)
        [] t.exc = "No" /\ DivisionUndefined(i, s.r) -> [f EXCEPT !.exc = "HostTrap"]
        [] OTHER -> Complete(f, r, PCAfter(i, r), 0, 0)

-----------------------------------------------------------------------------
(* User2System: up to limit bytes of user memory, as far as the first zero byte; the rest *)
(* of the buffer is zero.  A byte that cannot be read raises an exception, which halts.   *)
User2System(p, virtAddr, limit) ==
  LET copy[n \in 0 .. limit] ==
        IF n = 0 THEN [data |-> <<>>, ended |-> FALSE, s |-> p]
        ELSE LET c == copy[n - 1]
                 addr == Wrap(virtAddr + n - 1)
                 t == Translate(c.s.pt, addr, 1, FALSE)
             IN  CASE c.ended -> [c EXCEPT !.data = Append(@, 0)]
                   [] ~c.ended /\ t.exc # "No" -> [data |-> Append(c.data, 0), ended |-> TRUE,
                                                   s |-> RaiseException(c.s, t.exc, addr)]
                   [] OTHER -> [data |-> Append(c.data, p.m[t.phys]), ended |-> p.m[t.phys] = 0,
                                s |-> [c.s EXCEPT !.pt = t.pt]]
  IN  copy[limit]

(* How many bytes the loop of System2User writes: it ends after a zero byte. *)
LengthWithZero(data) ==
  IF \E k \in DOMAIN data : data[k] = 0
  THEN CHOOSE k \in DOMAIN data : data[k] = 0 /\ \A j \in 1 .. k - 1 : data[j] # 0 ELSE Len(data)

System2User(s, virtAddr, data) ==
  LET last == LengthWithZero(data)
      st[n \in 0 .. last] ==
        IF n = 0 THEN s
        ELSE LET addr == Wrap(virtAddr + n - 1)
                 t == Translate(st[n - 1].pt, addr, 1, TRUE)
             IN  CASE st[n - 1].exc # "No" -> st[n - 1]
                   [] st[n - 1].exc = "No" /\ t.exc # "No" -> RaiseException(st[n - 1], t.exc, addr)
                   [] OTHER -> [st[n - 1] EXCEPT !.pt = t.pt, !.m = Put(@, t.phys, 1, data[n])]
  IN  st[last]

(* IncreasePC *)
IncreasePC(r) ==
  [r EXCEPT ![PrevPCReg] = r[PCReg],
            ![PCReg] = r[NextPCReg],
            ![NextPCReg] = Wrap(r[NextPCReg] + 4)]

(* AddrSpace::InitRegisters for a space of numPages pages. *)
InitRegisters(numPages) ==
  [x \in Registers |->
     CASE x = NextPCReg -> 4 [] x = 29 -> Wrap(numPages * PageSize - 16) [] OTHER -> 0]
=============================================================================
