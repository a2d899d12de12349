---------------------------- MODULE MCAlgorithms ----------------------------
(***************************************************************************)
(* Model checking of what computes: user programs on the processor, single *)
(* instructions on boundary values with the machine to themselves and short *)
(* programs switched against another; the programs that share items.txt;   *)
(* and the containers of lib/ and c++example/.  They have no state in      *)
(* common; a behaviour runs the one that focus names, and the others stay  *)
(* in an initial state.                                                    *)
(***************************************************************************)
EXTENDS UserPrograms, ItemPrograms, Lists, HashTable, Bitmap, Stacks

CONSTANTS A, B, x1, x2, x3, x4

VARIABLE focus

I(op, rs, rt, imm) == [Nop EXCEPT !.op = op, !.rs = rs, !.rt = rt, !.imm = imm]
R(funct, rs, rt, rd) == [Nop EXCEPT !.funct = funct, !.rs = rs, !.rt = rt, !.rd = rd]
Shift(funct, rt, rd, shamt) == [Nop EXCEPT !.funct = funct, !.rt = rt, !.rd = rd, !.shamt = shamt]
Jump(op, target) == [Nop EXCEPT !.op = op, !.target = target]

Boundary == {0, 1, 2, 7, 8, 85, 127, 128, 129, 240, 254, 255}

(* Sections as the linker script lays them out: one after the other from zero. *)
Coff(code, rdata, data, bss) ==
  LET text == [n \in 1 .. 4 * Len(code) |-> 3]
  IN  << [name |-> ".text", paddr |-> 0, size |-> Len(text), data |-> text],
         [name |-> ".rdata", paddr |-> Len(text), size |-> Len(rdata), data |-> rdata],
         [name |-> ".data", paddr |-> Len(text) + Len(rdata), size |-> Len(data), data |-> data],
         [name |-> ".bss", paddr |-> Len(text) + Len(rdata) + Len(data), size |-> bss, data |-> <<>>] >>

Program(what, code, data, r1, r2) ==
  [kind |-> what, code |-> code, coff |-> Coff(code, <<2>>, data, 1), r1 |-> r1, r2 |-> r2]

None == Program("none", <<>>, <<>>, 0, 0)
Alone(p) == (A :> p) @@ (B :> None)

(* One instruction. *)
Registerwise == {32, 33, 34, 35, 36, 37, 38, 39, 42, 43, 24, 25, 26, 27, 4, 6, 7, 17, 19, 40, 13, 63}
Single ==
  {R(f, 1, 2, 3) : f \in Registerwise}
    \cup {Shift(f, 2, 3, n) : f \in {0, 2, 3}, n \in {0, 1, 7}}
SingleImmediate == {I(op, 1, 3, imm) : op \in 8 .. 15, imm \in {0, 1, 7, 8, 15}}

ALU ==
  {Alone(Program("alu", <<e>>, <<>>, x, y)) : e \in Single, x \in Boundary, y \in Boundary}
    \cup {Alone(Program("alu", <<e>>, <<>>, x, 0)) : e \in SingleImmediate, x \in Boundary}

(* Data that tells addresses apart, with a zero byte in it. *)
Data == <<1, 2, 3, 1, 3, 2, 0, 3, 1, 1>>

(* A pair of unaligned loads or stores of r3 or r2 at r1. *)
LoadPair == <<I(34, 1, 3, 3), I(38, 1, 3, 0), Nop>>
StorePair == <<I(42, 1, 2, 3), I(46, 1, 2, 0)>>

(* Two system calls: Write from r1, Read into r2. *)
CopyCode == << R(33, 2, 0, 3), R(33, 1, 0, 4), I(13, 0, 2, SC_Write), R(12, 0, 0, 0),
               R(33, 3, 0, 4), I(13, 0, 2, SC_Read), R(12, 0, 0, 0) >>

(* Branches with a system call, a load or a branch to a subroutine around them.  r2 is the *)
(* number of the call; the last program sets a register in the delay slot of its load.     *)
Branching ==
  { <<I(4, 1, 2, 2), R(12, 0, 0, 0), I(9, 0, 3, 1), I(9, 3, 3, 2), Nop>>,       \* BEQ, SYSCALL in its slot
    <<I(5, 1, 2, 2), I(9, 0, 3, 1), I(9, 3, 3, 1), I(9, 3, 3, 2), Nop>>,        \* BNE
    <<Jump(3, 4), I(9, 0, 3, 1), Jump(2, 6), Nop, R(8, 31, 0, 0), I(9, 3, 3, 2)>>,   \* JAL, JR back, J
    <<I(35, 0, 3, 0), R(12, 0, 0, 0), R(33, 3, 3, 1), Nop>>,                    \* LW, SYSCALL, ADDU
    <<I(1, 1, 17, 2), I(32, 0, 3, 5), R(33, 1, 1, 2), Nop, I(40, 29, 3, 2), Nop>>,   \* BGEZAL, LB in its slot, SB
    <<I(1, 1, 0, 3), I(33, 0, 3, 2), Nop, I(41, 29, 3, 2), I(36, 0, 3, 1), Nop>>,    \* BLTZ, LH, SH, LBU
    <<I(6, 1, 0, 3), I(37, 0, 3, 2), Nop, I(43, 29, 3, 4), R(9, 1, 0, 31), Nop>>,    \* BLEZ, LHU, SW, JALR
    <<I(7, 1, 0, 1), I(35, 2, 3, 0), R(16, 0, 0, 3), R(18, 0, 0, 1)>> }         \* BGTZ, LW that may trap

(* The other thread's program: loads, a store to the stack and a system call with the name *)
(* at address 0.                                                                           *)
Other == Program("other", <<I(35, 0, 1, 0), I(43, 29, 29, 0), R(12, 0, 0, 0), R(25, 1, 29, 0)>>, <<1>>, 5, SC_Open)

Against(p) == (A :> p) @@ (B :> Other)

WorkloadSet ==
  ALU
    \cup {Against(Program("lwl", LoadPair, Data, a, 0)) : a \in 10 .. 20}
    \cup {Against(Program("swl", StorePair, Data, a, w)) : a \in 9 .. 16, w \in {27, 228}}
    \cup {Against(Program("copy", CopyCode, Data, from, to)) : from \in {29, 31, 34}, to \in {30, 35, 36}}
    \cup {Against(Program("branch", code, Data, x, y)) : code \in Branching, x \in {0, 20, 200}, y \in {SC_Halt, SC_CloseSocket, 200}}
    \cup {Alone(None)}
    \cup {Alone(Program("big", LoadPair, [n \in 1 .. 60 |-> 1], 0, 0))}

-----------------------------------------------------------------------------
(* x2 and x3 compare equal. *)
MCRank == x1 :> 1 @@ x2 :> 2 @@ x3 :> 2 @@ x4 :> 3

(* Keys that share a bucket in a small table and part in a larger one. *)
MCKey == 0 .. 4
MCHash == [k \in MCKey |-> 2 * k]

all == <<uvars, ivars, lvars, hvars, bvars, svars, focus>>

Init ==
  /\ focus \in {"programs", "items", "lists", "hash table", "bitmap", "stacks"}
  /\ UInit /\ PInit /\ LInit /\ HInit /\ BInit /\ SInit
  /\ IF focus = "programs" THEN load # Alone(None) ELSE load = Alone(None) /\ running = A
  /\ focus # "items" => ~file.exists
  /\ focus # "lists" => ~sorted
  /\ focus # "stacks" => kind = "list" /\ test.left = 1

Next ==
  /\ UNCHANGED focus
  /\ \/ focus = "programs" /\ UNext /\ UNCHANGED <<ivars, lvars, hvars, bvars, svars>>
     \/ focus = "items" /\ PNext /\ UNCHANGED <<uvars, lvars, hvars, bvars, svars>>
     \/ focus = "lists" /\ LNext /\ UNCHANGED <<uvars, ivars, hvars, bvars, svars>>
     \/ focus = "hash table" /\ HNext /\ UNCHANGED <<uvars, ivars, lvars, bvars, svars>>
     \/ focus = "bitmap" /\ BNext /\ UNCHANGED <<uvars, ivars, lvars, hvars, svars>>
     \/ focus = "stacks" /\ SNext /\ UNCHANGED <<uvars, ivars, lvars, hvars, bvars>>

Spec == Init /\ [][Next]_all /\ (focus = "items" => PFairness)

(* Every run of the programs that share items.txt ends. *)
ItemProgramsHalt == focus = "items" => ProgramsHalt
=============================================================================
