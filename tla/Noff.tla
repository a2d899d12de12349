-------------------------------- MODULE Noff --------------------------------
(***************************************************************************)
(* From the linker's file to memory: coff2noff.c makes a NOFF file of the  *)
(* sections of a COFF file, and AddrSpace::Load puts the segments of the   *)
(* NOFF file into page frames.                                             *)
(*                                                                         *)
(* A section is [name, paddr, size, data]; the file is kept without its    *)
(* headers, so the addresses in the file start at zero.                    *)
(***************************************************************************)
EXTENDS Mips, FiniteSets

CONSTANT UserStackSize  \* bytes of the stack

(* Segment and NoffHeader. *)
NoSegment == [virtualAddr |-> 0, inFileAddr |-> 0, size |-> 0]
NoffHeader == [code |-> NoSegment, initData |-> NoSegment, readonlyData |-> NoSegment,
               uninitData |-> NoSegment, contents |-> <<>>, ok |-> TRUE]

SegmentOf(name) ==
  CASE name = ".text" -> "code" [] name = ".data" -> "initData" [] name = ".rdata" -> "readonlyData"

(* inNoffFile *)
inNoffFile(h) == Len(h.contents)

(* One round of the loop over the sections in coff2noff's main().  A second .bss is        *)
(* refused when it follows the first, and its size added when it does not.                 *)
AddSection(h, s) ==
  LET seg == [virtualAddr |-> s.paddr, inFileAddr |-> inNoffFile(h), size |-> s.size]
      bss == h.uninitData
  IN  CASE s.size = 0 -> h
        [] s.size # 0 /\ s.name \in {".text", ".data", ".rdata"} ->
             [h EXCEPT ![SegmentOf(s.name)] = seg, !.contents = @ \o s.data]
        [] s.size # 0 /\ s.name = ".bss" /\ bss.size = 0 ->
             [h EXCEPT !.uninitData = [virtualAddr |-> s.paddr, inFileAddr |-> 0, size |-> s.size]]
        [] s.size # 0 /\ s.name = ".bss" /\ bss.size # 0 /\ s.paddr # bss.virtualAddr + bss.size ->
             [h EXCEPT !.uninitData.size = @ + s.size]
        [] OTHER -> [h EXCEPT !.ok = FALSE]

(* main() of coff2noff: the sections in order, until one is refused. *)
Coff2Noff(sections) ==
  LET h[n \in 0 .. Len(sections)] ==
        IF n = 0 THEN NoffHeader
        ELSE IF h[n - 1].ok THEN AddSection(h[n - 1], sections[n]) ELSE h[n - 1]
  IN  h[Len(sections)]

-----------------------------------------------------------------------------
divRoundUp(n, s) == (n \div s) + (IF n % s > 0 THEN 1 ELSE 0)

SegmentSize(noff) == noff.code.size + noff.initData.size + noff.readonlyData.size
NumPages(noff) == divRoundUp(SegmentSize(noff) + noff.uninitData.size + UserStackSize, PageSize)

(* Load's buffer: code, then initialised data, then read-only data are read into it. *)
Buffer(noff) ==
  LET In(seg, b) == b \in seg.virtualAddr .. seg.virtualAddr + seg.size - 1
      From(seg, b) == noff.contents[seg.inFileAddr + b - seg.virtualAddr + 1]
  IN  [b \in 0 .. SegmentSize(noff) - 1 |->
         CASE In(noff.readonlyData, b) -> From(noff.readonlyData, b)
           [] ~In(noff.readonlyData, b) /\ In(noff.initData, b) -> From(noff.initData, b)
           [] ~In(noff.readonlyData, b) /\ ~In(noff.initData, b) /\ In(noff.code, b) -> From(noff.code, b)
           [] OTHER -> 0]

(* n times gPhysPageBitMap->FindAndSet(), as page table entries. *)
NewPageTable(clear, n) ==
  [i \in 1 .. n |->
     [frame |-> CHOOSE f \in clear : Cardinality({g \in clear : g < f}) = i - 1,
      valid |-> TRUE, use |-> FALSE, dirty |-> FALSE, readOnly |-> FALSE]]

(* Memory after Load: the frames zeroed, and the pages of the buffer copied into them. *)
Loaded(m, pt, noff) ==
  LET buffer == Buffer(noff)
      PageAt(a) == CHOOSE i \in DOMAIN pt : pt[i].frame = a \div PageSize
      Virtual(a) == (PageAt(a) - 1) * PageSize + (a % PageSize)
  IN  [a \in DOMAIN m |->
         IF ~\E i \in DOMAIN pt : pt[i].frame = a \div PageSize THEN m[a]
         ELSE IF Virtual(a) < SegmentSize(noff) THEN buffer[Virtual(a)] ELSE 0]
=============================================================================
