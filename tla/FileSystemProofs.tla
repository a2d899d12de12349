-------------------------- MODULE FileSystemProofs --------------------------
(***************************************************************************)
(* Proofs about FileSystem: the metadata stay consistent and files read    *)
(* back what was written to them, for a disk and a directory of any size,  *)
(* any sector size, any files and any bytes written.                       *)
(***************************************************************************)
EXTENDS FileSystem, FiniteSetTheorems, WellFoundedInduction, TLAPS

(* Zenon proves the leaves that name no prover; those with arithmetic or   *)
(* sequences name the SMT solver.                                          *)
USE ZenonT(60)

(* A set of natural numbers that is not empty has a smallest member. *)
LEMMA SmallestExists ==
  ASSUME NEW T, T \subseteq Nat, T # {}
  PROVE  \E m \in T : \A y \in T : m <= y
<1> DEFINE R == {ss \in Nat \X Nat : ss[1] < ss[2]}
<1>1. IsWellFoundedOn(R, Nat)
  BY NatLessThanWellFounded DEF OpToRel
<1> HIDE DEF R
<1>2. PICK m \in T : \A y \in T : ~ (<<y, m>> \in R)
  BY <1>1, WFMin
<1>3. \A y \in T : ~ (y < m)
  <2> TAKE y \in T
  <2>1. <<y, m>> \in Nat \X Nat
    OBVIOUS
  <2> QED
    BY <1>2, <2>1 DEF R
<1> QED
  BY SMTT(60), <1>3

(* Min of the community modules is the smallest member. *)
LEMMA MinIsMember ==
  ASSUME NEW T, T \subseteq Nat, T # {}
  PROVE  Min(T) \in T /\ \A y \in T : Min(T) <= y
<1>1. PICK m \in T : \A y \in T : m <= y
  BY SmallestExists
<1> QED
  BY <1>1 DEF Min

-----------------------------------------------------------------------------
(* Sectors, and the free ones among them. *)

(* Sector numbers are natural, and the bitmap has finitely many clear bits to count. *)
LEMMA SectorFacts ==
  /\ Sector \subseteq Nat /\ 0 \in Sector /\ 1 \in Sector
  /\ \A map : FreeSectors(map) \subseteq Sector /\ FreeSectors(map) \subseteq Nat
  /\ \A map : IsFiniteSet(FreeSectors(map)) /\ Cardinality(FreeSectors(map)) \in Nat
<1>1. Sector \subseteq Nat /\ 0 \in Sector /\ 1 \in Sector
  BY SMTT(60), FileSystemAssumption DEF Sector
<1>2. IsFiniteSet(Sector)
  <2>1. 0 \in Int /\ NumSectors - 1 \in Int
    BY SMTT(60), FileSystemAssumption
  <2> QED
    BY <2>1, FS_Interval DEF Sector
<1>3. ASSUME NEW map
      PROVE  /\ FreeSectors(map) \subseteq Sector /\ FreeSectors(map) \subseteq Nat
             /\ IsFiniteSet(FreeSectors(map)) /\ Cardinality(FreeSectors(map)) \in Nat
  <2>1. FreeSectors(map) \in SUBSET Sector
    BY DEF FreeSectors
  <2> QED
    BY <1>1, <1>2, <2>1, FS_Subset, FS_CardinalityType
<1> QED
  BY <1>1, <1>3

(* The clear sectors below s. *)
Below(F, s) == {r \in F : r < s}

(* Counting upwards meets every number: the i-th clear sector exists. *)
LEMMA NthClear ==
  ASSUME NEW F, F \subseteq Sector, NEW i \in Nat, i < Cardinality(F)
  PROVE  \E s \in F : Cardinality(Below(F, s)) = i
<1> DEFINE Enough == {s \in Nat : Cardinality(Below(F, s)) > i}
<1>1. IsFiniteSet(F) /\ Cardinality(F) \in Nat /\ F \subseteq Nat
  <2>1. F = FreeSectors(Sector \ F)
    BY DEF FreeSectors
  <2> QED
    BY <2>1, SectorFacts
<1>2. \A s \in Nat : IsFiniteSet(Below(F, s)) /\ Cardinality(Below(F, s)) \in Nat
  <2>1. \A s \in Nat : Below(F, s) \in SUBSET F
    BY DEF Below
  <2> QED
    BY <1>1, <2>1, FS_Subset, FS_CardinalityType
<1>3. Enough # {}
  <2>1. NumSectors \in Nat /\ \A s \in Sector : s < NumSectors
    BY SMTT(60), FileSystemAssumption DEF Sector
  <2>2. Below(F, NumSectors) = F
    BY <2>1 DEF Below
  <2>3. Cardinality(F) > i
    BY SMTT(60), <1>1
  <2> QED
    BY <2>1, <2>2, <2>3
<1>4. PICK m \in Enough : \A y \in Enough : m <= y
  <2>1. Enough \subseteq Nat
    OBVIOUS
  <2> HIDE DEF Enough
  <2> QED
    BY <1>3, <2>1, SmallestExists
<1>5. m # 0
  <2>1. \A r \in F : ~ (r < 0)
    BY SMTT(60), <1>1
  <2>2. Below(F, 0) = {}
    BY <2>1 DEF Below
  <2>3. Cardinality(Below(F, 0)) = 0
    BY <2>2, FS_EmptySet
  <2>4. ~ (0 > i)
    BY SMTT(60)
  <2> QED
    BY <1>4, <2>3, <2>4
<1> DEFINE s == m - 1
<1>6. m \in Nat /\ s \in Nat /\ m = s + 1 /\ ~ (m <= s)
  BY SMTT(60), <1>4, <1>5
<1>7. ~ (Cardinality(Below(F, s)) > i) /\ Cardinality(Below(F, m)) > i
  BY <1>4, <1>6
<1> HIDE DEF s, Enough
<1>8. CASE s \in F
  <2>1. \A r \in F : r < m <=> r < s \/ r = s
    BY SMTT(60), <1>1, <1>6
  <2>2. ~ (s < s)
    BY SMTT(60), <1>6
  <2>3. Below(F, m) = Below(F, s) \cup {s} /\ s \notin Below(F, s)
    BY <1>8, <2>1, <2>2 DEF Below
  <2>4. Cardinality(Below(F, m)) = Cardinality(Below(F, s)) + 1
    BY <1>2, <1>6, <2>3, FS_AddElement
  <2>5. Cardinality(Below(F, s)) = i
    <3>1. Cardinality(Below(F, s)) \in Nat
      BY <1>2, <1>6
    <3> QED
      BY SMTT(60), <1>7, <2>4, <3>1
  <2> QED
    BY <1>8, <2>5
<1>9. CASE s \notin F
  <2>1. \A r \in F : r < m <=> r < s
    BY SMTT(60), <1>1, <1>6, <1>9
  <2>2. Below(F, m) = Below(F, s)
    BY <2>1 DEF Below
  <2> QED
    BY <1>7, <2>2
<1> QED
  BY <1>8, <1>9

(* FileHeader::Allocate gives a file as many different clear sectors as it asks for. *)
LEMMA FirstClearClear ==
  ASSUME NEW map, NEW n \in Nat, n <= Cardinality(FreeSectors(map))
  PROVE  LET t == FirstClear(map, n)
         IN  /\ t \in Seq(Sector) /\ Len(t) = n /\ DOMAIN t = 1 .. n
             /\ \A i \in DOMAIN t : t[i] \in FreeSectors(map)
             /\ \A i, j \in DOMAIN t : t[i] = t[j] => i = j
<1> DEFINE F == FreeSectors(map)
           t == FirstClear(map, n)
<1>1. F \subseteq Sector /\ Cardinality(F) \in Nat
  BY SectorFacts
<1>2. ASSUME NEW i \in 1 .. n
      PROVE  t[i] \in F /\ Cardinality(Below(F, t[i])) = i - 1
  <2>1. i - 1 \in Nat /\ i - 1 < Cardinality(F)
    BY SMTT(60), <1>1
  <2>2. \E s \in F : Cardinality(Below(F, s)) = i - 1
    BY <1>1, <2>1, NthClear
  <2>3. t[i] = CHOOSE s \in F : Cardinality(Below(F, s)) = i - 1
    BY DEF FirstClear, Below
  <2> HIDE DEF F, t
  <2> QED
    BY <2>2, <2>3
<1>3. DOMAIN t = 1 .. n
  BY DEF FirstClear
<1> DEFINE G(i) == CHOOSE s \in F : Cardinality(Below(F, s)) = i - 1
<1>4. t = [i \in 1 .. n |-> G(i)]
  BY DEF FirstClear, Below
<1> HIDE DEF t, G
<1>5. t \in [1 .. n -> Sector]
  <2>1. \A i \in 1 .. n : G(i) \in Sector
    BY <1>1, <1>2, <1>4
  <2> QED
    BY <1>4, <2>1
<1>6. t \in Seq(Sector) /\ Len(t) = n
  BY SMTT(60), <1>5
<1>7. \A i, j \in 1 .. n : t[i] = t[j] => i = j
  <2> SUFFICES ASSUME NEW i \in 1 .. n, NEW j \in 1 .. n, t[i] = t[j]
               PROVE  i = j
    OBVIOUS
  <2>1. i - 1 = j - 1
    BY <1>2
  <2> QED
    BY SMTT(60), <2>1
<1> QED
  BY <1>2, <1>3, <1>6, <1>7 DEF t

-----------------------------------------------------------------------------
(* Headers, and the layout Format makes. *)

(* The headers of the map and of the directory, as Format makes them, and their sectors. *)
MapHdr == Allocate({FreeMapSector, DirectorySector}, FreeMapFileSize)
MapMarked == Marked({FreeMapSector, DirectorySector}, MapHdr)
DirHdr == Allocate(MapMarked, DirectoryFileSize)
MapData == MapHdr.data[1]
DirData1 == DirHdr.data[1]
DirData2 == DirHdr.data[2]
System == {FreeMapSector, DirectorySector, MapData, DirData1, DirData2}

(* A file header that Allocate can have made. *)
IsHeader(hdr) ==
  /\ hdr \in [bytes : Nat, data : Seq(Sector)]
  /\ Len(hdr.data) = SectorsFor(hdr.bytes)
  /\ \A i, j \in DOMAIN hdr.data : hdr.data[i] = hdr.data[j] => i = j

(* Division by the size of a sector. *)
LEMMA Divide ==
  ASSUME NEW n \in Nat
  PROVE  /\ n \div SectorSize \in Nat /\ n % SectorSize \in 0 .. SectorSize - 1
         /\ n = (n \div SectorSize) * SectorSize + (n % SectorSize)
  BY SMTT(60), FileSystemAssumption

(* A quotient and a remainder that give the number back are its quotient and remainder. *)
LEMMA DivideUnique ==
  ASSUME NEW q \in Nat, NEW r \in 0 .. SectorSize - 1
  PROVE  /\ (q * SectorSize + r) \div SectorSize = q
         /\ (q * SectorSize + r) % SectorSize = r
  BY SMTT(60), FileSystemAssumption

(* divRoundUp: the sectors of a file hold its bytes, and one sector fewer would not. *)
LEMMA SectorsForFacts ==
  /\ \A n \in Nat : SectorsFor(n) \in Nat
  /\ SectorsFor(FreeMapFileSize) = 1
  /\ SectorsFor(DirectoryFileSize) = 2
  /\ FreeMapFileSize \in Nat /\ DirectoryFileSize \in Nat
<1>1. SectorSize \in Nat /\ SectorSize > 0 /\ 0 \in 0 .. SectorSize - 1
  BY SMTT(60), FileSystemAssumption
<1>2. \A n \in Nat : SectorsFor(n) \in Nat
  BY SMTT(60), Divide, <1>1 DEF SectorsFor, DivRoundUp
<1>3. SectorSize = 1 * SectorSize + 0 /\ 2 * SectorSize = 2 * SectorSize + 0
  BY SMTT(60), <1>1
<1>4. /\ SectorSize \div SectorSize = 1 /\ SectorSize % SectorSize = 0
      /\ (2 * SectorSize) \div SectorSize = 2 /\ (2 * SectorSize) % SectorSize = 0
  <2>1. 1 \in Nat /\ 2 \in Nat
    BY SMTT(60)
  <2> QED
    BY <1>1, <1>3, <2>1, DivideUnique
<1>5. SectorsFor(FreeMapFileSize) = 1 /\ SectorsFor(DirectoryFileSize) = 2
  BY SMTT(60), <1>4 DEF SectorsFor, DivRoundUp, FreeMapFileSize, DirectoryFileSize
<1> QED
  BY SMTT(60), <1>1, <1>2, <1>5 DEF FreeMapFileSize, DirectoryFileSize

(* FileHeader::Allocate *)
LEMMA AllocateHeader ==
  ASSUME NEW map, NEW fileSize \in Nat, CanAllocate(map, fileSize)
  PROVE  LET hdr == Allocate(map, fileSize)
         IN  /\ IsHeader(hdr) /\ hdr.bytes = fileSize
             /\ DOMAIN hdr.data = 1 .. SectorsFor(fileSize)
             /\ \A s \in FileSectors(hdr) : s \in Sector /\ s \notin map
<1> DEFINE hdr == Allocate(map, fileSize)
           n == SectorsFor(fileSize)
           t == FirstClear(map, n)
<1>1. n \in Nat /\ n <= Cardinality(FreeSectors(map))
  <2>1. n \in Nat /\ Cardinality(FreeSectors(map)) >= n /\ Cardinality(FreeSectors(map)) \in Nat
    BY SectorsForFacts, SectorFacts DEF CanAllocate
  <2> QED
    BY SMTT(60), <2>1
<1>2. /\ t \in Seq(Sector) /\ Len(t) = n /\ DOMAIN t = 1 .. n
      /\ \A i \in DOMAIN t : t[i] \in FreeSectors(map)
      /\ \A i, j \in DOMAIN t : t[i] = t[j] => i = j
  <2> HIDE DEF n
  <2> QED
    BY <1>1, FirstClearClear
<1>3. hdr = [bytes |-> fileSize, data |-> t]
  BY DEF Allocate
<1> HIDE DEF hdr, t, n
<1>4. hdr.bytes = fileSize /\ hdr.data = t /\ hdr \in [bytes : Nat, data : Seq(Sector)]
  BY <1>2, <1>3
<1>5. IsHeader(hdr)
  BY <1>2, <1>4 DEF IsHeader, n
<1>6. \A s \in FileSectors(hdr) : s \in Sector /\ s \notin map
  <2> SUFFICES ASSUME NEW i \in DOMAIN hdr.data PROVE hdr.data[i] \in Sector /\ hdr.data[i] \notin map
    BY DEF FileSectors
  <2> QED
    BY <1>2, <1>4 DEF FreeSectors
<1> QED
  BY <1>2, <1>4, <1>5, <1>6 DEF hdr, n

(* The disk after Format: five different sectors are in use. *)
LEMMA Layout ==
  /\ IsHeader(MapHdr) /\ DOMAIN MapHdr.data = {1} /\ FileSectors(MapHdr) = {MapData}
  /\ IsHeader(DirHdr) /\ DOMAIN DirHdr.data = {1, 2} /\ FileSectors(DirHdr) = {DirData1, DirData2}
  /\ System \subseteq Sector
  /\ MapData \notin {0, 1} /\ DirData1 \notin {0, 1, MapData} /\ DirData2 \notin {0, 1, MapData}
  /\ DirData1 # DirData2
  /\ MapMarked = {0, 1, MapData}
<1>1. IsFiniteSet(Sector) /\ Cardinality(Sector) = NumSectors
  <2>1. /\ 0 \in Int /\ NumSectors - 1 \in Int /\ ~ (0 > NumSectors - 1)
        /\ NumSectors - 1 - 0 + 1 = NumSectors
    BY SMTT(60), FileSystemAssumption
  <2> QED
    BY <2>1, FS_Interval DEF Sector
<1>2. /\ IsFiniteSet(Sector \ {0}) /\ Cardinality(Sector \ {0}) = NumSectors - 1
      /\ 1 \in Sector \ {0}
  <2>1. 0 \in Sector /\ 1 \in Sector /\ 0 # 1
    BY SMTT(60), SectorFacts
  <2> QED
    BY <1>1, <2>1, FS_RemoveElement
<1>3. LET F == (Sector \ {0}) \ {1} IN IsFiniteSet(F) /\ Cardinality(F) = NumSectors - 1 - 1
  BY <1>2, FS_RemoveElement
<1>4. (Sector \ {0}) \ {1} = FreeSectors({0, 1})
  BY DEF FreeSectors
<1>5. Cardinality(FreeSectors({0, 1})) >= 1 /\ Cardinality(FreeSectors({0, 1})) = NumSectors - 2
  <2>1. Cardinality(FreeSectors({0, 1})) = NumSectors - 1 - 1
    BY <1>3, <1>4
  <2> QED
    BY SMTT(60), <2>1, FileSystemAssumption
<1>6. CanAllocate({0, 1}, FreeMapFileSize)
  BY <1>5, SectorsForFacts DEF CanAllocate
<1>7. /\ IsHeader(MapHdr) /\ DOMAIN MapHdr.data = {1}
      /\ \A s \in FileSectors(MapHdr) : s \in Sector /\ s \notin {0, 1}
  <2>1. 1 .. 1 = {1}
    BY SMTT(60)
  <2> QED
    BY <1>6, <2>1, AllocateHeader, SectorsForFacts DEF MapHdr, FreeMapSector, DirectorySector
<1>8. FileSectors(MapHdr) = {MapData}
  BY <1>7 DEF FileSectors, MapData
<1>9. MapMarked = {0, 1, MapData}
  BY <1>8 DEF MapMarked, Marked, FileSectors, FreeMapSector, DirectorySector
<1>10. Cardinality(FreeSectors(MapMarked)) >= 2
  <2>1. FreeSectors(MapMarked) = FreeSectors({0, 1}) \ {MapData}
    BY <1>9 DEF FreeSectors
  <2>2. IsFiniteSet(FreeSectors({0, 1})) /\ MapData \in FreeSectors({0, 1})
    BY <1>7, <1>8, SectorFacts DEF FreeSectors
  <2>3. Cardinality(FreeSectors(MapMarked)) = Cardinality(FreeSectors({0, 1})) - 1
    BY <2>1, <2>2, FS_RemoveElement
  <2> QED
    BY SMTT(60), <1>5, <2>3, FileSystemAssumption
<1>11. CanAllocate(MapMarked, DirectoryFileSize)
  BY <1>10, SectorsForFacts DEF CanAllocate
<1>12. /\ IsHeader(DirHdr) /\ DOMAIN DirHdr.data = {1, 2}
       /\ \A s \in FileSectors(DirHdr) : s \in Sector /\ s \notin MapMarked
  <2>1. 1 .. 2 = {1, 2}
    BY SMTT(60)
  <2> QED
    BY <1>11, <2>1, AllocateHeader, SectorsForFacts DEF DirHdr
<1>13. FileSectors(DirHdr) = {DirData1, DirData2}
  BY <1>12 DEF FileSectors, DirData1, DirData2
<1>14. DirData1 # DirData2
  <2>1. 1 # 2
    BY SMTT(60)
  <2> QED
    BY <1>12, <2>1 DEF IsHeader, DirData1, DirData2
<1> QED
  BY <1>7, <1>8, <1>9, <1>12, <1>13, <1>14, SectorFacts
     DEF System, FreeMapSector, DirectorySector

-----------------------------------------------------------------------------
(* The bytes a request covers: OpenFile::ReadAt and OpenFile::WriteAt. *)

(* The bytes a request moves *)
LEMMA TransferFacts ==
  ASSUME NEW hdr, IsHeader(hdr), NEW numBytes \in Nat, NEW position \in Nat
  PROVE  LET n == Transfer(hdr, numBytes, position)
         IN  n \in Nat /\ n <= numBytes /\ (n > 0 => position + n <= hdr.bytes)
<1>1. hdr.bytes \in Nat
  BY DEF IsHeader
<1> QED
  BY SMTT(60), <1>1 DEF Transfer

(* Products with the size of a sector *)
LEMMA Times ==
  ASSUME NEW a \in Nat, NEW b \in Nat
  PROVE  /\ a * SectorSize \in Nat
         /\ a <= b => a * SectorSize <= b * SectorSize
         /\ a < b => a * SectorSize + SectorSize <= b * SectorSize
         /\ (a + 1) * SectorSize = a * SectorSize + SectorSize
         /\ (a + b) * SectorSize = a * SectorSize + b * SectorSize
  BY SMTT(60), FileSystemAssumption

(* Division is monotonic *)
LEMMA DivideMonotonic ==
  ASSUME NEW i \in Nat, NEW j \in Nat, i <= j
  PROVE  i \div SectorSize <= j \div SectorSize
<1> DEFINE S == SectorSize
           q == i \div S
           u == j \div S
           a == q * S
           b == u * S
<1>1. /\ q \in Nat /\ i % S \in 0 .. S - 1 /\ i = a + (i % S)
      /\ u \in Nat /\ j % S \in 0 .. S - 1 /\ j = b + (j % S)
  BY Divide
<1>2. a \in Nat /\ b \in Nat /\ (u < q => b + S <= a)
  BY <1>1, Times
<1>3. S \in Nat
  BY FileSystemAssumption
<1> DEFINE r == i % S
           v == j % S
<1> HIDE DEF q, u, a, b, r, v, S
<1>4. q <= u
  <2>1. r \in 0 .. S - 1 /\ i = a + r /\ v \in 0 .. S - 1 /\ j = b + v
    BY <1>1 DEF r, v
  <2> QED
    BY SMTT(60), <1>1, <1>2, <1>3, <2>1
<1> QED
  BY <1>4 DEF q, u, S

(* A byte of a file lies in one of its sectors. *)
LEMMA OffsetInFile ==
  ASSUME NEW i \in Nat, NEW m \in Nat, i < m
  PROVE  (i \div SectorSize) + 1 <= SectorsFor(m)
<1> DEFINE S == SectorSize
           q == i \div S
           u == m \div S
           a == q * S
           b == u * S
           r == i % S
           v == m % S
<1>1. /\ q \in Nat /\ r \in 0 .. S - 1 /\ i = a + r
      /\ u \in Nat /\ v \in 0 .. S - 1 /\ m = b + v
  BY Divide
<1>2. a \in Nat /\ b \in Nat /\ (u <= q => b <= a) /\ (u < q => b + S <= a)
  BY <1>1, Times
<1>3. S \in Nat
  BY FileSystemAssumption
<1>4. SectorsFor(m) = u + (IF v > 0 THEN 1 ELSE 0)
  BY DEF SectorsFor, DivRoundUp
<1> HIDE DEF q, u, a, b, r, v, S
<1>5. q + 1 <= SectorsFor(m)
  BY SMTT(60), <1>1, <1>2, <1>3, <1>4
<1> QED
  BY <1>5 DEF q, S

(* The sectors WriteAt writes are sectors of the file, each of them once. *)
WriteSpan(pos, n) == (pos + n - 1) \div SectorSize - (pos \div SectorSize) + 1

(* The sectors WriteAt writes are sectors of the file, and there is at least one. *)
LEMMA SpanFacts ==
  ASSUME NEW hdr, IsHeader(hdr), NEW pos \in Nat, NEW n \in Nat, n > 0, pos + n <= hdr.bytes
  PROVE  /\ pos \div SectorSize \in Nat
         /\ LastSector(pos, n) \in Nat /\ LastSector(pos, n) + 1 <= Len(hdr.data)
         /\ LastSector(pos, n) - FirstSector(pos) + 1 = WriteSpan(pos, n)
         /\ WriteSpan(pos, n) \in Nat /\ WriteSpan(pos, n) > 0
         /\ \A k \in 1 .. WriteSpan(pos, n) :
              /\ pos \div SectorSize + k - 1 \in Nat
              /\ pos \div SectorSize + k \in DOMAIN hdr.data
              /\ ByteToSector(hdr, (pos \div SectorSize + k - 1) * SectorSize) =
                   hdr.data[pos \div SectorSize + k]
<1> DEFINE first == pos \div SectorSize
           m == pos + n - 1
           last == m \div SectorSize
           w == WriteSpan(pos, n)
<1>1. hdr.bytes \in Nat /\ hdr.data \in Seq(Sector) /\ Len(hdr.data) = SectorsFor(hdr.bytes)
  BY DEF IsHeader
<1>2. m \in Nat /\ pos <= m /\ m < hdr.bytes
  BY SMTT(60), <1>1
<1>3. w = last - first + 1 /\ LastSector(pos, n) = last /\ FirstSector(pos) = first
  BY DEF WriteSpan, LastSector, FirstSector
<1> HIDE DEF m, w
<1>4. first \in Nat /\ last \in Nat
  BY <1>2, Divide
<1>5. first <= last
  BY <1>2, DivideMonotonic
<1>6. last + 1 <= Len(hdr.data)
  BY <1>1, <1>2, OffsetInFile
<1> HIDE DEF first, last
<1>7. w \in Nat /\ w > 0
  BY SMTT(60), <1>3, <1>4, <1>5
<1>8. ASSUME NEW k \in 1 .. w
      PROVE  /\ first + k - 1 \in Nat /\ first + k \in DOMAIN hdr.data
             /\ ByteToSector(hdr, (first + k - 1) * SectorSize) = hdr.data[first + k]
  <2> DEFINE q == first + k - 1
  <2>1. q \in Nat /\ q + 1 = first + k
    BY SMTT(60), <1>3, <1>4, <1>7
  <2>2. first + k \in DOMAIN hdr.data
    <3>1. DOMAIN hdr.data = 1 .. Len(hdr.data) /\ Len(hdr.data) \in Nat
      BY SMTT(60), <1>1
    <3> QED
      BY SMTT(60), <1>3, <1>4, <1>6, <3>1
  <2> HIDE DEF q
  <2>3. (q * SectorSize) \div SectorSize = q
    <3>1. 0 \in 0 .. SectorSize - 1 /\ q * SectorSize = q * SectorSize + 0
      BY SMTT(60), <2>1, FileSystemAssumption
    <3> QED
      BY <2>1, <3>1, DivideUnique
  <2>4. ByteToSector(hdr, q * SectorSize) = hdr.data[first + k]
    BY <2>1, <2>3 DEF ByteToSector
  <2> QED
    BY <2>1, <2>2, <2>4 DEF q
<1> QED
  BY <1>3, <1>4, <1>6, <1>7, <1>8 DEF first, w, last

(* The WriteSector calls of OpenFile::WriteAt. *)
BufferPart(view, hdr, from, n, pos, k) ==
  [i \in 1 .. SectorSize |-> WriteBuffer(view, hdr, from, n, pos)[(k - 1) * SectorSize + i - 1]]

(* The calls of WriteSector that write the buffer back. *)
WriteCalls(view, hdr, from, n, pos) ==
  [k \in 1 .. WriteSpan(pos, n) |->
     [sector |-> hdr.data[(pos \div SectorSize) + k],
      content |-> BufferPart(view, hdr, from, n, pos, k)]]

(* OpenFile::WriteAt writes the sectors of the request in order, each once. *)
LEMMA WriteAtFacts ==
  ASSUME NEW view, NEW hdr, IsHeader(hdr), NEW from \in Seq(Int), NEW pos \in Nat,
         NEW n, n = Transfer(hdr, Len(from), pos), n > 0
  PROVE  /\ n \in Nat /\ n <= Len(from) /\ pos + n <= hdr.bytes
         /\ WriteAt(view, hdr, from, pos) = WriteCalls(view, hdr, from, n, pos)
<1> DEFINE first == pos \div SectorSize
           c(k) == BufferPart(view, hdr, from, n, pos, k)
<1>1. Len(from) \in Nat
  BY SMTT(60)
<1>2. n \in Nat /\ n <= Len(from) /\ pos + n <= hdr.bytes
  BY <1>1, TransferFacts
<1>3. n # 0
  BY SMTT(60), <1>2
<1>4. WriteAt(view, hdr, from, pos) =
        [k \in 1 .. LastSector(pos, n) - FirstSector(pos) + 1 |->
          [sector |-> ByteToSector(hdr, (FirstSector(pos) + k - 1) * SectorSize), content |-> c(k)]]
  BY <1>3 DEF WriteAt, BufferPart
<1> HIDE DEF c
<1>5. LastSector(pos, n) - FirstSector(pos) + 1 = WriteSpan(pos, n)
  BY SMTT(60), <1>2, SpanFacts
<1>6. \A k \in 1 .. WriteSpan(pos, n) : ByteToSector(hdr, (first + k - 1) * SectorSize) = hdr.data[first + k]
  BY SMTT(60), <1>2, SpanFacts
<1>7. FirstSector(pos) = first
  BY DEF FirstSector
<1> HIDE DEF first
<1>8. WriteAt(view, hdr, from, pos) =
        [k \in 1 .. WriteSpan(pos, n) |->
          [sector |-> ByteToSector(hdr, (first + k - 1) * SectorSize), content |-> c(k)]]
  BY <1>4, <1>5, <1>7
<1>9. WriteAt(view, hdr, from, pos) =
        [k \in 1 .. WriteSpan(pos, n) |-> [sector |-> hdr.data[first + k], content |-> c(k)]]
  BY <1>6, <1>8
<1> QED
  BY <1>2, <1>9 DEF c, first, WriteCalls

(* The offset in the buffer that starts at the sector first *)
LEMMA OffsetInSector ==
  ASSUME NEW a \in Nat, NEW first \in Nat, first * SectorSize <= a
  PROVE  (a - first * SectorSize) % SectorSize = a % SectorSize
<1> DEFINE S == SectorSize
           q == a \div S
           r == a % S
<1>1. q \in Nat /\ r \in 0 .. S - 1 /\ a = q * S + r /\ S \in Nat
  BY Divide, FileSystemAssumption
<1> HIDE DEF q, r
<1>2. first <= q
  <2>1. q < first => q * S + S <= first * S
    BY <1>1, Times
  <2>2. q * S \in Nat /\ first * S \in Nat
    BY <1>1, Times
  <2> DEFINE x == q * S
             y == first * S
  <2>3. (q < first => x + S <= y) /\ x \in Nat /\ y \in Nat /\ y <= a /\ a = x + r
    BY <1>1, <2>1, <2>2
  <2> HIDE DEF x, y, S
  <2> QED
    BY SMTT(60), <1>1, <2>3
<1> DEFINE m == q - first
<1>3. m \in Nat /\ q = first + m
  BY SMTT(60), <1>1, <1>2
<1> HIDE DEF m
<1>4. (first + m) * S = first * S + m * S
  BY <1>3, Times
<1>5. a - first * S = m * S + r
  <2> DEFINE x == first * S
             y == m * S
  <2>1. a = (x + y) + r /\ x \in Nat /\ y \in Nat
    BY <1>1, <1>3, <1>4, Times
  <2> HIDE DEF x, y, S
  <2>2. a - x = y + r
    BY SMTT(60), <1>1, <2>1
  <2> QED
    BY <2>2 DEF x, y
<1>6. (m * S + r) % S = r
  BY <1>1, <1>3, DivideUnique
<1> QED
  BY <1>5, <1>6 DEF r

(* OpenFile::ReadAt *)
AreBytes(got, view, hdr, pos, n) ==
  /\ n \in Nat /\ DOMAIN got = 1 .. n /\ Len(got) = n
  /\ \A i \in 1 .. n : got[i] =
       view[hdr.data[((pos + i - 1) \div SectorSize) + 1]][((pos + i - 1) % SectorSize) + 1]

(* OpenFile::ReadAt returns the bytes of the file at the position asked for. *)
LEMMA ReadAtFacts ==
  ASSUME NEW view, NEW hdr, IsHeader(hdr), NEW numBytes \in Nat, NEW pos \in Nat
  PROVE  AreBytes(ReadAt(view, hdr, numBytes, pos), view, hdr, pos, Transfer(hdr, numBytes, pos))
<1> DEFINE n == Transfer(hdr, numBytes, pos)
           first == pos \div SectorSize
           B(i) == Buffered(view, hdr, first, pos - first * SectorSize + i - 1)
<1>1. n \in Nat
  BY TransferFacts
<1>2. ReadAt(view, hdr, numBytes, pos) = [i \in 1 .. n |-> B(i)]
  BY DEF ReadAt, FirstSector
<1> HIDE DEF n
<1>3. Len(ReadAt(view, hdr, numBytes, pos)) = n
  <2> HIDE DEF B
  <2> QED
    BY SMTT(60), <1>1, <1>2
<1>4. ASSUME NEW i \in 1 .. n
      PROVE  B(i) = view[hdr.data[((pos + i - 1) \div SectorSize) + 1]][((pos + i - 1) % SectorSize) + 1]
  <2> DEFINE a == pos + i - 1
             x == first * SectorSize
             j == pos - x + i - 1
  <2>1. first \in Nat /\ x \in Nat /\ x <= pos
    <3>1. first \in Nat /\ pos % SectorSize \in 0 .. SectorSize - 1 /\ pos = x + (pos % SectorSize)
      BY Divide
    <3>2. x \in Nat
      BY <3>1, Times
    <3> DEFINE r == pos % SectorSize
    <3>3. r \in Nat /\ pos = x + r
      <4>1. \A v \in 0 .. SectorSize - 1 : v \in Nat
        BY SMTT(60), FileSystemAssumption
      <4> QED
        BY <3>1, <4>1
    <3> HIDE DEF x, r, first
    <3>4. x <= pos
      BY SMTT(60), <3>2, <3>3
    <3> QED
      BY <3>1, <3>2, <3>4
  <2> HIDE DEF x
  <2>2. a \in Nat /\ x <= a /\ j = a - x /\ x + j = a
    BY SMTT(60), <1>1, <2>1
  <2> HIDE DEF a, j
  <2>3. j % SectorSize = a % SectorSize
    BY <2>1, <2>2, OffsetInSector DEF x
  <2>4. Buffered(view, hdr, first, j) = view[hdr.data[(a \div SectorSize) + 1]][(a % SectorSize) + 1]
    BY <2>2, <2>3 DEF Buffered, ByteToSector, x
  <2> QED
    BY <2>4 DEF a, j, x
<1> HIDE DEF B
<1> QED
  BY <1>1, <1>2, <1>3, <1>4 DEF AreBytes, n

(* The sectors WriteAt reads in first *)
ReadIn(pos, n) ==
  LET first == FirstSector(pos)
      last == LastSector(pos, n)
      firstAligned == pos = first * SectorSize
      lastAligned == pos + n = (last + 1) * SectorSize
  IN  {s \in {first} : ~firstAligned}
      \cup {s \in {last} : ~lastAligned /\ (first # last \/ firstAligned)}

(* A byte of those sectors that the request does not cover is read in. *)
LEMMA ReadInFacts ==
  ASSUME NEW pos \in Nat, NEW n \in Nat, n > 0, NEW q \in Nat, NEW r \in 0 .. SectorSize - 1,
         FirstSector(pos) <= q, q <= LastSector(pos, n),
         (q * SectorSize) + r \notin pos .. pos + n - 1
  PROVE  q \in ReadIn(pos, n)
<1> DEFINE S == SectorSize
           first == FirstSector(pos)
           m == pos + n - 1
           last == LastSector(pos, n)
           X == first * S
           L == last * S
           Q == q * S
           u == pos % S
           v == m % S
<1>1. S \in Nat /\ S > 0
  BY SMTT(60), FileSystemAssumption
<1>2. m \in Nat
  BY SMTT(60)
<1>3. /\ first \in Nat /\ u \in 0 .. S - 1 /\ pos = X + u
      /\ last \in Nat /\ v \in 0 .. S - 1 /\ m = L + v
  BY <1>2, Divide DEF FirstSector, LastSector
<1>4. /\ X \in Nat /\ L \in Nat /\ Q \in Nat /\ (first < q => X + S <= Q) /\ (q < last => Q + S <= L)
      /\ (last + 1) * S = L + S
  BY <1>3, Times
<1>5. (first = q => X = Q) /\ (last = q => L = Q)
  OBVIOUS
<1>6. ReadIn(pos, n) = {s \in {first} : ~(pos = X)} \cup
                       {s \in {last} : ~(pos + n = L + S) /\ (first # last \/ pos = X)}
  BY <1>4 DEF ReadIn
<1>7. first <= q /\ q <= last /\ Q + r \notin pos .. m /\ m = pos + n - 1
  OBVIOUS
<1> HIDE DEF first, m, last, X, L, Q, u, v, S
<1>8. Q + r < pos \/ Q + r >= pos + n
  BY SMTT(60), <1>1, <1>2, <1>4, <1>7 DEF S
<1>9. CASE Q + r < pos
  <2>1. q = first
    BY SMTT(60), <1>1, <1>3, <1>4, <1>7, <1>9 DEF S
  <2>2. pos # X
    <3>1. X = Q
      BY <1>5, <2>1
    <3> QED
      BY SMTT(60), <1>4, <1>9, <3>1
  <2> QED
    BY <1>6, <2>1, <2>2
<1>10. CASE Q + r >= pos + n
  <2>1. q = last
    BY SMTT(60), <1>1, <1>3, <1>4, <1>7, <1>10 DEF S
  <2>2. pos + n # L + S
    <3>1. L = Q
      BY <1>5, <2>1
    <3> QED
      BY SMTT(60), <1>1, <1>4, <1>10, <3>1 DEF S
  <2> QED
    BY <1>6, <2>1, <2>2
<1> QED
  BY <1>8, <1>9, <1>10

(* A sector that WriteAt reads in *)
LEMMA OldByte ==
  ASSUME NEW view, NEW hdr, IsHeader(hdr), NEW q \in Nat, NEW r \in 0 .. SectorSize - 1,
         (q * SectorSize) + r < hdr.bytes
  PROVE  ReadAt(view, hdr, SectorSize, q * SectorSize)[r + 1] = view[hdr.data[q + 1]][r + 1]
<1> DEFINE S == SectorSize
           Q == q * S
           n == Transfer(hdr, S, Q)
           got == ReadAt(view, hdr, S, Q)
<1>1. S \in Nat /\ S > 0 /\ Q \in Nat /\ hdr.bytes \in Nat
  <2>1. S \in Nat /\ S > 0
    BY SMTT(60), FileSystemAssumption
  <2> QED
    BY <2>1, Times DEF IsHeader
<1>2. /\ (Q + r) \div S = q /\ (Q + r) % S = r
  BY DivideUnique
<1>3. AreBytes(got, view, hdr, Q, n)
  BY <1>1, ReadAtFacts
<1>4. Q + r < hdr.bytes /\ r \in 0 .. S - 1
  OBVIOUS
<1> HIDE DEF Q, S, got
<1>5. r + 1 \in 1 .. n /\ Q + (r + 1) - 1 = Q + r
  BY SMTT(60), <1>1, <1>4 DEF Transfer
<1> HIDE DEF n
<1>6. got[r + 1] = view[hdr.data[((Q + (r + 1) - 1) \div S) + 1]][((Q + (r + 1) - 1) % S) + 1]
  BY <1>3, <1>5 DEF AreBytes, S
<1>7. got[r + 1] = view[hdr.data[q + 1]][r + 1]
  BY <1>2, <1>5, <1>6
<1> QED
  BY <1>7 DEF got, Q, S

(* What WriteAt puts into the sector q of the file *)
NewByte(b, view, hdr, from, n, pos, q, r, a) ==
  /\ a \in pos .. pos + n - 1 => b = from[a - pos + 1]
  /\ a \notin pos .. pos + n - 1 /\ a < hdr.bytes => b = view[hdr.data[q + 1]][r + 1]

(* A byte of the buffer WriteAt writes back: the caller's inside the request, the old one outside it. *)
LEMMA BufferByte ==
  ASSUME NEW view, NEW hdr, IsHeader(hdr), NEW from, NEW pos \in Nat, NEW n \in Nat, n > 0,
         pos + n <= hdr.bytes, NEW k \in 1 .. WriteSpan(pos, n), NEW r \in 0 .. SectorSize - 1,
         NEW q, q = (pos \div SectorSize) + k - 1, NEW a, a = (q * SectorSize) + r
  PROVE  NewByte(BufferPart(view, hdr, from, n, pos, k)[r + 1], view, hdr, from, n, pos, q, r, a)
<1> DEFINE S == SectorSize
           first == FirstSector(pos)
           last == LastSector(pos, n)
           w == WriteSpan(pos, n)
           X == first * S
           Y == (k - 1) * S
           j == Y + r
           buf == WriteBuffer(view, hdr, from, n, pos)
           new == BufferPart(view, hdr, from, n, pos, k)[r + 1]
<1>1. S \in Nat /\ S > 0
  BY SMTT(60), FileSystemAssumption
<1>2. /\ first \in Nat /\ last \in Nat /\ last - first + 1 = w /\ w \in Nat
  <2>1. first = pos \div SectorSize
    BY DEF FirstSector
  <2>2. first \in Nat
    BY <2>1, Divide
  <2>3. last \in Nat /\ last - first + 1 = w /\ w \in Nat
    BY SpanFacts
  <2> QED
    BY <2>2, <2>3
<1>3. q = first + k - 1 /\ k \in 1 .. w
  BY DEF FirstSector
<1> HIDE DEF first, last, w
<1>4. k - 1 \in Nat /\ q \in Nat /\ q = first + (k - 1) /\ first <= q /\ q <= last /\ k - 1 < w
  BY SMTT(60), <1>2, <1>3
<1>5. X \in Nat /\ Y \in Nat /\ Y + S <= w * S /\ w * S \in Nat /\ q * S = X + Y
  <2>1. X \in Nat /\ w * S \in Nat
    BY <1>2, Times
  <2> DEFINE i == k - 1
  <2>2. i \in Nat /\ i < w /\ q = first + i
    BY <1>4
  <2> HIDE DEF i
  <2>3. i * S \in Nat /\ (i * S) + S <= w * S
    BY <1>2, <2>2, Times
  <2>4. (first + i) * S = (first * S) + (i * S)
    BY SMTT(60), <1>2, <2>2, Times
  <2> QED
    BY <2>1, <2>2, <2>3, <2>4 DEF i
<1>6. new = buf[(k - 1) * SectorSize + (r + 1) - 1]
  <2>1. r + 1 \in 1 .. SectorSize
    BY SMTT(60), <1>1 DEF S
  <2> HIDE DEF buf
  <2> QED
    BY <2>1 DEF BufferPart, buf
<1> DEFINE W == w * S
<1>7. j \in 0 .. W - 1 /\ (k - 1) * SectorSize + (r + 1) - 1 = j /\ X + j = a /\ a \in Nat /\ a = (q * S) + r
  <2>1. a = (X + Y) + r /\ r \in 0 .. S - 1 /\ Y + S <= W /\ W \in Nat /\ X \in Nat /\ Y \in Nat
    BY <1>5
  <2>2. a = (q * S) + r
    OBVIOUS
  <2>3. j \in 0 .. W - 1 /\ Y + (r + 1) - 1 = j /\ X + j = a /\ a \in Nat
    <3> HIDE DEF X, Y, W, S
    <3> QED
      BY SMTT(60), <1>1, <2>1
  <2> QED
    BY <2>2, <2>3
<1>8. FirstSector(a) = q /\ a % S = r
  BY <1>4, <1>7, DivideUnique DEF FirstSector
<1>9. (last - first + 1) * SectorSize = W
  BY <1>2
<1>10. buf[j] = IF a \in pos .. pos + n - 1 THEN from[a - pos + 1]
                ELSE IF q \in ReadIn(pos, n) /\ a < hdr.bytes
                     THEN ReadAt(view, hdr, SectorSize, q * SectorSize)[(a % SectorSize) + 1]
                     ELSE Garbage
  <2> DEFINE f(i) == LET p == first * SectorSize + i
                         s == FirstSector(p)
                     IN  IF p \in pos .. pos + n - 1 THEN from[p - pos + 1]
                         ELSE IF s \in ReadIn(pos, n) /\ p < hdr.bytes
                              THEN ReadAt(view, hdr, SectorSize, s * SectorSize)[(p % SectorSize) + 1]
                              ELSE Garbage
  <2>1. buf = [i \in 0 .. (last - first + 1) * SectorSize - 1 |-> f(i)]
    BY DEF WriteBuffer, ReadIn, first, last
  <2>2. buf[j] = f(j)
    <3> HIDE DEF f, j, buf, W
    <3> QED
      BY <1>7, <1>9, <2>1
  <2>3. first * SectorSize + j = a
    BY <1>7
  <2> HIDE DEF j
  <2> QED
    BY <1>8, <2>2, <2>3
<1>11. a \in pos .. pos + n - 1 => new = from[a - pos + 1]
  BY <1>6, <1>7, <1>10
<1>12. ASSUME a \notin pos .. pos + n - 1, a < hdr.bytes PROVE new = view[hdr.data[q + 1]][r + 1]
  <2>1. q \in ReadIn(pos, n)
    BY <1>4, <1>12, ReadInFacts DEF first, last
  <2>2. ReadAt(view, hdr, SectorSize, q * SectorSize)[r + 1] = view[hdr.data[q + 1]][r + 1]
    <3>1. (q * SectorSize) + r < hdr.bytes
      BY <1>12
    <3> QED
      BY SMTT(60), <1>4, <3>1, OldByte
  <2> HIDE DEF new, buf, j
  <2> QED
    BY <1>6, <1>7, <1>8, <1>10, <1>12, <2>1, <2>2
<1> QED
  BY <1>11, <1>12 DEF NewByte

-----------------------------------------------------------------------------
(* The disk, and what a sequence of WriteSector calls makes of it. *)

(* What a disk says, when its first two sectors hold the headers Format made. *)
MapOf(d) == d[MapData].map
DirOf(d) == ReadDirectory(d[DirData1], d[DirData2])
HdrOf(d, e) == d[DirOf(d)[e].sector].hdr
Used(d) == {e \in Entry : DirOf(d)[e].inUse}
Owned(d, e) == {DirOf(d)[e].sector} \cup FileSectors(HdrOf(d, e))

(* A DirectoryEntry that came from Directory::Add. *)
DirEntry == [inUse : BOOLEAN, sector : Sector, name : StoredName]

(* Entry e of the directory leads to a FileHeader written by Create, in sectors the map marks. *)
IsFile(d, e) ==
  /\ d[DirOf(d)[e].sector].kind = "header"
  /\ IsHeader(HdrOf(d, e))
  /\ DirOf(d)[e].sector \notin FileSectors(HdrOf(d, e))
  /\ Owned(d, e) \cap System = {}

(* The structures on the disk d agree: MetadataConsistent as a predicate of a disk. *)
Consistent(d) ==
  /\ d[FreeMapSector] = HeaderSector(MapHdr)
  /\ d[DirectorySector] = HeaderSector(DirHdr)
  /\ DirOf(d) \in [Entry -> DirEntry]
  /\ \A e \in Used(d) : IsFile(d, e)
  /\ \A e, f \in Used(d) : e # f => /\ DirOf(d)[e].name # DirOf(d)[f].name
                                    /\ Owned(d, e) \cap Owned(d, f) = {}
  /\ MapOf(d) = System \cup UNION {Owned(d, e) : e \in Used(d)}

(* The disk d once the writes of p are done. *)
After(d, p) ==
  [s \in Sector |-> IF \E i \in DOMAIN p : p[i].sector = s
                    THEN p[CHOOSE i \in DOMAIN p : p[i].sector = s].content ELSE d[s]]

(* Writes to different sectors. *)
Writes(p) ==
  /\ p \in Seq({p[i] : i \in DOMAIN p})
  /\ \A i \in DOMAIN p : p[i].sector \in Sector
  /\ \A i, j \in DOMAIN p : p[i].sector = p[j].sector => i = j

(* A sector that one call of WriteSector wrote, and no other, holds what that call wrote. *)
LEMMA AfterWrites ==
  ASSUME NEW d, NEW p, Writes(p), NEW i \in DOMAIN p
  PROVE  After(d, p)[p[i].sector] = p[i].content
<1> DEFINE j == CHOOSE j \in DOMAIN p : p[j].sector = p[i].sector
<1>1. j \in DOMAIN p /\ p[j].sector = p[i].sector
  OBVIOUS
<1>2. j = i
  BY <1>1 DEF Writes
<1>3. p[i].sector \in Sector
  BY DEF Writes
<1> QED
  BY <1>2, <1>3 DEF After

(* A sector that no call of WriteSector wrote keeps its contents. *)
LEMMA AfterKeeps ==
  ASSUME NEW d, NEW p, NEW s \in Sector, \A i \in DOMAIN p : p[i].sector # s
  PROVE  After(d, p)[s] = d[s]
  BY DEF After

(* The rest of a sequence of writes. *)
LEMMA FirstWrite ==
  ASSUME NEW p, Writes(p), p # <<>>
  PROVE  /\ Head(p) = p[1] /\ 1 \in DOMAIN p /\ p[1].sector \in Sector
         /\ Len(p) \in Nat /\ Len(Tail(p)) = Len(p) - 1 /\ DOMAIN p = 1 .. Len(p)
         /\ Writes(Tail(p))
         /\ \A i \in DOMAIN Tail(p) : i + 1 \in DOMAIN p /\ i + 1 # 1 /\ Tail(p)[i] = p[i + 1]
         /\ \A i \in DOMAIN p : i # 1 => i - 1 \in DOMAIN Tail(p) /\ Tail(p)[i - 1] = p[i]
<1> DEFINE S == {p[i] : i \in DOMAIN p}
           t == Tail(p)
<1>1. p \in Seq(S)
  BY DEF Writes
<1> HIDE DEF S
<1>2. /\ Head(p) = p[1] /\ 1 \in DOMAIN p /\ Len(p) \in Nat /\ DOMAIN p = 1 .. Len(p)
      /\ t \in Seq(S) /\ Len(t) = Len(p) - 1 /\ DOMAIN t = 1 .. Len(t)
  BY SMTT(60), <1>1
<1>3. \A i \in DOMAIN t : i + 1 \in DOMAIN p /\ i + 1 # 1 /\ t[i] = p[i + 1]
  BY SMTT(60), <1>1
<1>4. \A i \in DOMAIN p : i # 1 => i - 1 \in DOMAIN t /\ t[i - 1] = p[i]
  BY SMTT(60), <1>1
<1>5. \A i, j \in DOMAIN t : i + 1 = j + 1 => i = j
  BY SMTT(60), <1>2
<1> HIDE DEF t
<1>6. t \in Seq({t[i] : i \in DOMAIN t})
  <2> DEFINE T == {t[i] : i \in DOMAIN t}
  <2>1. \A i \in DOMAIN t : t[i] \in T
    OBVIOUS
  <2> HIDE DEF T
  <2>2. t \in Seq(T)
    BY SMTT(60), <1>2, <2>1
  <2> QED
    BY <2>2 DEF T
<1>7. \A i \in DOMAIN p : p[i].sector \in Sector
  BY DEF Writes
<1>8. \A i, j \in DOMAIN p : p[i].sector = p[j].sector => i = j
  BY DEF Writes
<1>9. \A i, j \in DOMAIN t : t[i].sector = t[j].sector => i = j
  <2> SUFFICES ASSUME NEW i \in DOMAIN t, NEW j \in DOMAIN t, t[i].sector = t[j].sector
               PROVE  i = j
    OBVIOUS
  <2>1. /\ i + 1 \in DOMAIN p /\ t[i] = p[i + 1]
        /\ j + 1 \in DOMAIN p /\ t[j] = p[j + 1]
    BY <1>3
  <2>2. i + 1 = j + 1
    BY <1>8, <2>1
  <2> QED
    BY <1>5, <2>2
<1>10. Writes(t)
  BY <1>3, <1>6, <1>7, <1>9 DEF Writes
<1> QED
  BY <1>2, <1>3, <1>4, <1>7, <1>10 DEF t

(* SynchDisk::WriteSector does not change what the disk will be in the end. *)
LEMMA AfterStep ==
  ASSUME NEW d, DOMAIN d = Sector, NEW p, Writes(p), p # <<>>
  PROVE  After([d EXCEPT ![Head(p).sector] = Head(p).content], Tail(p)) = After(d, p)
<1> DEFINE h == p[1]
           t == Tail(p)
           e == [d EXCEPT ![h.sector] = h.content]
<1>1. /\ Head(p) = h /\ 1 \in DOMAIN p /\ h.sector \in Sector /\ Writes(t)
      /\ \A i \in DOMAIN t : i + 1 \in DOMAIN p /\ i + 1 # 1 /\ t[i] = p[i + 1]
      /\ \A i \in DOMAIN p : i # 1 => i - 1 \in DOMAIN t /\ t[i - 1] = p[i]
  BY FirstWrite
<1>2. \A s \in Sector : e[s] = IF s = h.sector THEN h.content ELSE d[s]
  OBVIOUS
<1>3. \A i, j \in DOMAIN p : p[i].sector = p[j].sector => i = j
  BY DEF Writes
<1> HIDE DEF t, e
<1>4. /\ \A i \in DOMAIN p : After(d, p)[p[i].sector] = p[i].content
      /\ \A s \in Sector : (\A i \in DOMAIN p : p[i].sector # s) => After(d, p)[s] = d[s]
  BY SMTT(60), AfterWrites, AfterKeeps
<1>5. /\ \A i \in DOMAIN t : After(e, t)[t[i].sector] = t[i].content
      /\ \A s \in Sector : (\A i \in DOMAIN t : t[i].sector # s) => After(e, t)[s] = e[s]
  <2>1. Writes(t)
    BY <1>1
  <2> QED
    BY SMTT(60), <2>1, AfterWrites, AfterKeeps
<1>6. ASSUME NEW s \in Sector PROVE After(e, t)[s] = After(d, p)[s]
  <2>1. CASE s = h.sector
    <3>1. \A i \in DOMAIN t : t[i].sector # s
      BY <1>1, <1>3, <2>1
    <3>2. After(e, t)[s] = h.content
      BY <1>2, <1>5, <2>1, <3>1
    <3>3. After(d, p)[h.sector] = h.content
      BY <1>1, <1>4
    <3> QED
      BY <2>1, <3>2, <3>3
  <2>2. CASE s # h.sector /\ \E i \in DOMAIN p : p[i].sector = s
    <3>1. PICK i \in DOMAIN p : p[i].sector = s
      BY <2>2
    <3>2. i - 1 \in DOMAIN t /\ t[i - 1] = p[i]
      BY <1>1, <2>2, <3>1
    <3>3. After(d, p)[s] = p[i].content
      BY <1>4, <3>1
    <3>4. After(e, t)[t[i - 1].sector] = t[i - 1].content
      BY <1>5, <3>2
    <3> QED
      BY <3>1, <3>2, <3>3, <3>4
  <2>3. CASE \A i \in DOMAIN p : p[i].sector # s
    <3>1. \A i \in DOMAIN t : t[i].sector # s
      BY <1>1, <2>3
    <3> QED
      BY <1>1, <1>2, <1>4, <1>5, <2>3, <3>1
  <2> QED
    BY <2>1, <2>2, <2>3
<1>7. \A D, q : After(D, q) = [s \in Sector |-> After(D, q)[s]]
  BY SMTT(60) DEF After
<1>8. After(e, t) = After(d, p)
  <2> DEFINE A == After(e, t)
             B == After(d, p)
  <2>1. A = [s \in Sector |-> A[s]] /\ B = [s \in Sector |-> B[s]]
    BY <1>7
  <2> HIDE DEF A, B
  <2>2. \A s \in Sector : A[s] = B[s]
    BY <1>6 DEF A, B
  <2>3. A = B
    BY SMTT(60), <2>1, <2>2
  <2> QED
    BY <2>3 DEF A, B
<1> QED
  BY <1>1, <1>8 DEF t, e

(* No call, no change. *)
LEMMA AfterNothing ==
  ASSUME NEW d, d = [s \in Sector |-> d[s]]
  PROVE  After(d, <<>>) = d
  BY SMTT(60) DEF After

-----------------------------------------------------------------------------
(* The directory. *)

(* The entries of the directory, by their position in the two sectors that hold them. *)
LEMMA EntryFacts ==
  /\ Entry \subseteq Nat /\ Split \in Entry /\ Entry # {}
  /\ \A e \in Entry : e < Split => e \in 0 .. Split - 1
  /\ \A e \in Entry : e > Split => e \in Split + 1 .. NumDirEntries - 1
  /\ \A e \in Entry : ~ (e < Split) /\ ~ (e > Split) => e = Split
<1>1. NumDirEntries \in Nat /\ Split \in Nat /\ Split < NumDirEntries
  BY SMTT(60), FileSystemAssumption
<1>2. \A e \in Entry : e \in Nat /\ e < NumDirEntries
  BY SMTT(60), <1>1 DEF Entry
<1>3. Split \in Entry
  BY SMTT(60), <1>1 DEF Entry
<1>4. \A e \in Entry : e < Split => e \in 0 .. Split - 1
  BY SMTT(60), <1>1, <1>2
<1>5. \A e \in Entry : e > Split => e \in Split + 1 .. NumDirEntries - 1
  BY SMTT(60), <1>1, <1>2
<1>6. \A e \in Entry : ~ (e < Split) /\ ~ (e > Split) => e = Split
  BY SMTT(60), <1>1, <1>2
<1> QED
  BY <1>2, <1>3, <1>4, <1>5, <1>6

(* Directory::FetchFrom reads what WriteBack wrote. *)
LEMMA ReadBack ==
  ASSUME NEW dir \in [Entry -> DirEntry]
  PROVE  ReadDirectory(DirectorySectors(dir)[1], DirectorySectors(dir)[2]) = dir
<1> DEFINE d1 == DirectorySectors(dir)[1]
           d2 == DirectorySectors(dir)[2]
           R == ReadDirectory(d1, d2)
<1>1. /\ d1.ent = [e \in 0 .. Split - 1 |-> dir[e]]
      /\ d1.inUse = dir[Split].inUse /\ d1.sector = dir[Split].sector
      /\ d2.ent = [e \in Split + 1 .. NumDirEntries - 1 |-> dir[e]]
      /\ d2.name = dir[Split].name
  BY DEF DirectorySectors
<1> HIDE DEF d1, d2
<1>2. ASSUME NEW e \in Entry PROVE R[e] = dir[e]
  <2>1. CASE e < Split
    BY <1>1, <2>1, EntryFacts DEF ReadDirectory
  <2>2. CASE e > Split
    <3>1. ~ (e < Split)
      BY SMTT(60), <2>2, EntryFacts
    <3> QED
      BY <1>1, <2>2, <3>1, EntryFacts DEF ReadDirectory
  <2>3. CASE ~ (e < Split) /\ ~ (e > Split)
    <3>1. e = Split
      BY <2>3, EntryFacts
    <3>2. R[e] = [inUse |-> dir[e].inUse, sector |-> dir[e].sector, name |-> dir[e].name]
      BY <1>1, <2>3, <3>1 DEF ReadDirectory
    <3>3. dir[e] \in DirEntry
      OBVIOUS
    <3>4. dir[e] = [inUse |-> dir[e].inUse, sector |-> dir[e].sector, name |-> dir[e].name]
      BY <3>3 DEF DirEntry
    <3> QED
      BY <3>2, <3>4
  <2> QED
    BY <2>1, <2>2, <2>3
<1>3. R = [e \in Entry |-> R[e]]
  BY SMTT(60) DEF ReadDirectory
<1> HIDE DEF R
<1>4. R = dir
  BY SMTT(60), <1>2, <1>3
<1> QED
  BY <1>4 DEF R, d1, d2

(* Directory::FindIndex and Find *)
LEMMA FindFacts ==
  ASSUME NEW dir \in [Entry -> DirEntry], NEW key
  PROVE  /\ Find(dir, key) = -1 => \A e \in Entry : dir[e].inUse => dir[e].name # key
         /\ Find(dir, key) # -1 =>
              LET e == FindIndex(dir, key)
              IN  e \in Entry /\ dir[e].inUse /\ dir[e].name = key /\ Find(dir, key) = dir[e].sector
<1> DEFINE found == {e \in Entry : dir[e].inUse /\ dir[e].name = key}
<1>1. CASE found = {}
  <2>1. FindIndex(dir, key) = -1
    BY <1>1 DEF FindIndex
  <2>2. Find(dir, key) = -1
    BY <2>1 DEF Find
  <2> QED
    BY <1>1, <2>2
<1>2. CASE found # {}
  <2>1. found \subseteq Nat
    BY EntryFacts
  <2>2. FindIndex(dir, key) = Min(found)
    BY <1>2 DEF FindIndex
  <2>3. Min(found) \in found
    <3> HIDE DEF found
    <3> QED
      BY <1>2, <2>1, MinIsMember
  <2>4. FindIndex(dir, key) \in Entry
    BY <2>2, <2>3
  <2>5. FindIndex(dir, key) # -1 /\ dir[FindIndex(dir, key)].sector # -1
    <3>1. dir[FindIndex(dir, key)].sector \in Nat
      BY <2>4, SectorFacts DEF DirEntry
    <3> QED
      BY SMTT(60), <2>4, <3>1, EntryFacts
  <2>6. Find(dir, key) = dir[FindIndex(dir, key)].sector
    BY <2>5 DEF Find
  <2> QED
    BY <2>2, <2>3, <2>5, <2>6
<1> QED
  BY <1>1, <1>2

(* Bitmap::FindAndSet *)
LEMMA FindAndSetFacts ==
  ASSUME NEW map, FindAndSet(map) # -1
  PROVE  FindAndSet(map) \in Sector /\ FindAndSet(map) \notin map
<1>1. FreeSectors(map) # {} /\ FindAndSet(map) = Min(FreeSectors(map))
  BY DEF FindAndSet
<1>2. FindAndSet(map) \in FreeSectors(map)
  BY <1>1, SectorFacts, MinIsMember
<1> QED
  BY <1>2 DEF FreeSectors

(* Directory::Add *)
AddedAt(f, dir, key, s, new) ==
  /\ ~dir[f].inUse
  /\ new \in [Entry -> DirEntry]
  /\ new[f].inUse /\ new[f].sector = s /\ new[f].name = key
  /\ \A e \in Entry : e # f => new[e] = dir[e]

(* Directory::Add takes a free entry, fills it in and leaves the others alone. *)
LEMMA AddFacts ==
  ASSUME NEW dir \in [Entry -> DirEntry], NEW key \in StoredName, NEW s \in Sector, HasRoom(dir)
  PROVE  \E f \in Entry : AddedAt(f, dir, key, s, Add(dir, key, s))
<1> DEFINE unused == {e \in Entry : ~dir[e].inUse}
           f == Min(unused)
           new == [inUse |-> TRUE, sector |-> s, name |-> key]
<1>1. f \in unused
  <2>1. unused \subseteq Nat /\ unused # {}
    BY EntryFacts DEF HasRoom
  <2> HIDE DEF unused
  <2> QED
    BY <2>1, MinIsMember
<1>2. f \in Entry /\ ~dir[f].inUse
  BY <1>1
<1>3. Add(dir, key, s) = [dir EXCEPT ![f] = new]
  BY DEF Add
<1>4. new \in DirEntry /\ new.inUse /\ new.sector = s /\ new.name = key
  BY DEF DirEntry
<1> HIDE DEF f, new
<1>5. /\ Add(dir, key, s) \in [Entry -> DirEntry] /\ Add(dir, key, s)[f] = new
      /\ \A e \in Entry : e # f => Add(dir, key, s)[e] = dir[e]
  BY <1>2, <1>3, <1>4
<1>6. AddedAt(f, dir, key, s, Add(dir, key, s))
  BY <1>2, <1>4, <1>5 DEF AddedAt
<1> QED
  BY <1>2, <1>6

(* Directory::Remove *)
LEMMA RemoveFacts ==
  ASSUME NEW dir \in [Entry -> DirEntry], NEW key, FindIndex(dir, key) \in Entry
  PROVE  LET f == FindIndex(dir, key)
             new == RemoveEntry(dir, key)
         IN  /\ new \in [Entry -> DirEntry] /\ ~new[f].inUse
             /\ \A e \in Entry : e # f => new[e] = dir[e]
<1> DEFINE f == FindIndex(dir, key)
           new == RemoveEntry(dir, key)
<1> HIDE DEF f
<1>1. new = [dir EXCEPT ![f] = [dir[f] EXCEPT !.inUse = FALSE]]
  BY DEF RemoveEntry, f
<1>2. f \in Entry
  BY DEF f
<1>3. dir[f] \in DirEntry
  BY <1>2
<1>4. /\ [dir[f] EXCEPT !.inUse = FALSE] \in DirEntry
      /\ ~[dir[f] EXCEPT !.inUse = FALSE].inUse
  BY <1>3 DEF DirEntry
<1> HIDE DEF new
<1>5. new \in [Entry -> DirEntry] /\ ~new[f].inUse /\ \A e \in Entry : e # f => new[e] = dir[e]
  BY <1>1, <1>2, <1>4
<1> QED
  BY <1>5 DEF f, new

-----------------------------------------------------------------------------
(* A file more and a file fewer. *)

(* What a consistent disk says of a file. *)
LEMMA FileFacts ==
  ASSUME NEW d, Consistent(d), NEW e \in Used(d)
  PROVE  /\ e \in Entry /\ DirOf(d)[e] \in DirEntry /\ DirOf(d)[e].inUse
         /\ DirOf(d)[e].sector \in Sector /\ DirOf(d)[e].sector \notin System
         /\ IsHeader(HdrOf(d, e))
         /\ Owned(d, e) \subseteq MapOf(d)
         /\ \A s \in FileSectors(HdrOf(d, e)) : /\ s \in Sector /\ s \notin System
                                                /\ \A f \in Used(d) : s # DirOf(d)[f].sector
<1>1. e \in Entry /\ DirOf(d)[e].inUse
  BY DEF Used
<1>2. DirOf(d)[e] \in DirEntry
  BY <1>1 DEF Consistent
<1>3. IsFile(d, e)
  BY DEF Consistent
<1>4. DirOf(d)[e].sector \in Owned(d, e) /\ FileSectors(HdrOf(d, e)) \subseteq Owned(d, e)
  BY DEF Owned
<1>5. DirOf(d)[e].sector \in Sector
  BY <1>2 DEF DirEntry
<1>6. Owned(d, e) \subseteq MapOf(d)
  BY DEF Consistent
<1>7. ASSUME NEW s \in FileSectors(HdrOf(d, e))
      PROVE  s \in Sector /\ s \notin System /\ \A f \in Used(d) : s # DirOf(d)[f].sector
  <2>1. s \in Sector
    <3>1. HdrOf(d, e).data \in Seq(Sector)
      BY <1>3 DEF IsFile, IsHeader
    <3>2. PICK i \in DOMAIN HdrOf(d, e).data : s = HdrOf(d, e).data[i]
      BY DEF FileSectors
    <3> QED
      BY SMTT(60), <3>1, <3>2
  <2>2. s \notin System
    BY <1>3, <1>4 DEF IsFile
  <2>3. ASSUME NEW f \in Used(d) PROVE s # DirOf(d)[f].sector
    <3>1. CASE f = e
      BY <1>3, <3>1 DEF IsFile
    <3>2. CASE f # e
      <4>1. Owned(d, e) \cap Owned(d, f) = {}
        BY <3>2 DEF Consistent
      <4>2. DirOf(d)[f].sector \in Owned(d, f)
        BY DEF Owned
      <4> QED
        BY <1>4, <4>1, <4>2
    <3> QED
      BY <3>1, <3>2
  <2> QED
    BY <2>1, <2>2, <2>3
<1> QED
  BY <1>1, <1>2, <1>3, <1>4, <1>5, <1>6, <1>7 DEF IsFile

(* Writes to sectors that hold neither a header nor the map nor the directory. *)
LEMMA DataWritten ==
  ASSUME NEW d, Consistent(d), NEW d2,
         \A s \in System : d2[s] = d[s],
         \A e \in Used(d) : d2[DirOf(d)[e].sector] = d[DirOf(d)[e].sector]
  PROVE  /\ Consistent(d2) /\ MapOf(d2) = MapOf(d) /\ DirOf(d2) = DirOf(d) /\ Used(d2) = Used(d)
         /\ \A e \in Used(d) : HdrOf(d2, e) = HdrOf(d, e)
<1>1. /\ d2[FreeMapSector] = d[FreeMapSector] /\ d2[DirectorySector] = d[DirectorySector]
      /\ MapOf(d2) = MapOf(d) /\ DirOf(d2) = DirOf(d)
  BY DEF System, MapOf, DirOf
<1>2. Used(d2) = Used(d)
  BY <1>1 DEF Used
<1>3. \A e \in Used(d) : HdrOf(d2, e) = HdrOf(d, e)
  BY <1>1 DEF HdrOf
<1>4. \A e \in Used(d) : Owned(d2, e) = Owned(d, e)
  BY <1>1, <1>3 DEF Owned
<1>5. \A e \in Used(d) : IsFile(d2, e)
  BY <1>1, <1>3, <1>4 DEF IsFile, Consistent
<1>6. UNION {Owned(d2, e) : e \in Used(d2)} = UNION {Owned(d, e) : e \in Used(d)}
  BY <1>2, <1>4
<1>7. Consistent(d2)
  <2>1. /\ d2[FreeMapSector] = HeaderSector(MapHdr) /\ d2[DirectorySector] = HeaderSector(DirHdr)
        /\ DirOf(d2) \in [Entry -> DirEntry]
    BY <1>1 DEF Consistent
  <2>2. \A e, f \in Used(d2) : e # f => /\ DirOf(d2)[e].name # DirOf(d2)[f].name
                                        /\ Owned(d2, e) \cap Owned(d2, f) = {}
    BY <1>1, <1>2, <1>4 DEF Consistent
  <2>3. MapOf(d2) = System \cup UNION {Owned(d2, e) : e \in Used(d2)}
    BY <1>1, <1>6 DEF Consistent
  <2> QED
    BY <1>2, <1>5, <2>1, <2>2, <2>3 DEF Consistent
<1> QED
  BY <1>1, <1>2, <1>3, <1>7

(* The disk d2 is d but for the map, the directory and one new header. *)
CreatesFile(d, d2, key, s, hdr) ==
  /\ key \in StoredName /\ HasRoom(DirOf(d)) /\ Find(DirOf(d), key) = -1
  /\ s \in Sector /\ s \notin MapOf(d)
  /\ IsHeader(hdr) /\ \A x \in FileSectors(hdr) : x \notin MapOf(d) \cup {s}
  /\ DirOf(d2) = Add(DirOf(d), key, s) /\ MapOf(d2) = Marked(MapOf(d) \cup {s}, hdr)
  /\ d2[s] = HeaderSector(hdr)
  /\ \A x \in Sector : x \notin {s, MapData, DirData1, DirData2} => d2[x] = d[x]

(* The disk Create leaves is consistent again: the new file's sectors were free before. *)
LEMMA FileCreated ==
  ASSUME NEW d, Consistent(d), NEW d2, NEW key, NEW s, NEW hdr, CreatesFile(d, d2, key, s, hdr)
  PROVE  /\ Consistent(d2)
         /\ \A e \in Used(d) : /\ e \in Used(d2) /\ DirOf(d2)[e] = DirOf(d)[e]
                               /\ HdrOf(d2, e) = HdrOf(d, e)
         /\ \A e \in Used(d2) : e \notin Used(d) => DirOf(d2)[e].name = key /\ HdrOf(d2, e) = hdr
<1> USE DEF CreatesFile
<1> DEFINE dir == DirOf(d)
           dir2 == DirOf(d2)
<1>1. dir \in [Entry -> DirEntry]
  BY DEF Consistent
<1>2. PICK f \in Entry : AddedAt(f, dir, key, s, dir2)
  <2>1. HasRoom(dir) /\ dir2 = Add(dir, key, s)
    OBVIOUS
  <2> HIDE DEF dir, dir2
  <2>2. \E f \in Entry : AddedAt(f, dir, key, s, Add(dir, key, s))
    BY <1>1, <2>1, AddFacts
  <2> QED
    BY <2>1, <2>2
<1>3. /\ ~dir[f].inUse /\ dir2 \in [Entry -> DirEntry]
      /\ dir2[f].inUse /\ dir2[f].sector = s /\ dir2[f].name = key
      /\ \A e \in Entry : e # f => dir2[e] = dir[e]
  BY <1>2 DEF AddedAt
<1>4. f \notin Used(d) /\ Used(d2) = Used(d) \cup {f}
  BY <1>3 DEF Used
<1>5. \A e \in Used(d) : e \in Entry /\ e # f /\ dir2[e] = dir[e]
  BY <1>3, <1>4 DEF Used
<1>6. s \notin System /\ System \subseteq MapOf(d)
  BY DEF Consistent
<1>7. ASSUME NEW e \in Used(d) PROVE d2[dir[e].sector] = d[dir[e].sector]
  <2>1. dir[e].sector \in Sector /\ dir[e].sector \in MapOf(d) /\ dir[e].sector \notin System
    BY FileFacts DEF Owned
  <2> QED
    BY <2>1 DEF System
<1>8. \A e \in Used(d) : HdrOf(d2, e) = HdrOf(d, e) /\ Owned(d2, e) = Owned(d, e)
  BY <1>5, <1>7 DEF HdrOf, Owned
<1>9. HdrOf(d2, f) = hdr /\ d2[dir2[f].sector].kind = "header"
  <2>1. HeaderSector(hdr).hdr = hdr /\ HeaderSector(hdr).kind = "header"
    BY DEF HeaderSector
  <2> QED
    BY <1>3, <2>1 DEF HdrOf
<1>10. Owned(d2, f) = {s} \cup FileSectors(hdr)
  BY <1>3, <1>9 DEF Owned
<1>11. Owned(d2, f) \cap MapOf(d) = {}
  BY <1>10
<1>12. \A e \in Used(d2) : IsFile(d2, e)
  <2>1. ASSUME NEW e \in Used(d) PROVE IsFile(d2, e)
    <3>1. IsFile(d, e) /\ dir2[e] = dir[e] /\ HdrOf(d2, e) = HdrOf(d, e) /\ Owned(d2, e) = Owned(d, e)
      BY <1>5, <1>8 DEF Consistent
    <3> QED
      BY <1>7, <3>1 DEF IsFile
  <2>2. IsFile(d2, f)
    BY <1>3, <1>6, <1>9, <1>11 DEF IsFile
  <2> QED
    BY <1>4, <2>1, <2>2
<1>13. \A e \in Used(d) : dir2[e].name # key /\ Owned(d2, e) \cap Owned(d2, f) = {}
  <2> TAKE e \in Used(d)
  <2>1. dir[e].name # key
    BY <1>1, FindFacts DEF Used
  <2>2. Owned(d, e) \subseteq MapOf(d)
    BY FileFacts
  <2> QED
    BY <1>5, <1>8, <1>11, <2>1, <2>2
<1>14. \A e, g \in Used(d2) : e # g => dir2[e].name # dir2[g].name /\ Owned(d2, e) \cap Owned(d2, g) = {}
  <2>1. \A e, g \in Used(d) : e # g => dir[e].name # dir[g].name /\ Owned(d, e) \cap Owned(d, g) = {}
    BY DEF Consistent
  <2>2. \A e, g \in Used(d) : e # g => dir2[e].name # dir2[g].name /\ Owned(d2, e) \cap Owned(d2, g) = {}
    BY <1>5, <1>8, <2>1
  <2> QED
    BY <1>3, <1>4, <1>13, <2>2
<1>15. MapOf(d2) = System \cup UNION {Owned(d2, e) : e \in Used(d2)}
  <2>1. MapOf(d2) = MapOf(d) \cup {s} \cup FileSectors(hdr)
    BY DEF Marked, FileSectors
  <2>2. UNION {Owned(d2, e) : e \in Used(d2)} = (UNION {Owned(d, e) : e \in Used(d)}) \cup Owned(d2, f)
    BY <1>4, <1>8
  <2>3. MapOf(d) = System \cup UNION {Owned(d, e) : e \in Used(d)}
    BY DEF Consistent
  <2> QED
    BY <1>10, <2>1, <2>2, <2>3
<1>16. d2[FreeMapSector] = HeaderSector(MapHdr) /\ d2[DirectorySector] = HeaderSector(DirHdr)
  <2>1. /\ FreeMapSector \in Sector /\ DirectorySector \in Sector
        /\ FreeMapSector \notin {s, MapData, DirData1, DirData2}
        /\ DirectorySector \notin {s, MapData, DirData1, DirData2}
    BY <1>6, Layout, SectorFacts DEF System, FreeMapSector, DirectorySector
  <2> QED
    BY <2>1 DEF Consistent
<1>17. Consistent(d2)
  BY <1>3, <1>12, <1>14, <1>15, <1>16 DEF Consistent
<1> QED
  BY <1>3, <1>4, <1>5, <1>8, <1>9, <1>17

(* The disk d2 is d but for the map and the directory, without one file. *)
RemovesFile(d, d2, key) ==
  /\ Find(DirOf(d), key) # -1 /\ DirOf(d2) = RemoveEntry(DirOf(d), key)
  /\ MapOf(d2) = Deallocated(MapOf(d), d[Find(DirOf(d), key)].hdr) \ {Find(DirOf(d), key)}
  /\ \A x \in Sector : x \notin {MapData, DirData1, DirData2} => d2[x] = d[x]

(* The disk Remove leaves is consistent again: the sectors given back belonged to no other file. *)
LEMMA FileRemoved ==
  ASSUME NEW d, Consistent(d), NEW d2, NEW key, RemovesFile(d, d2, key)
  PROVE  /\ Consistent(d2)
         /\ \A e \in Used(d) : DirOf(d)[e].name # key =>
              /\ e \in Used(d2) /\ DirOf(d2)[e] = DirOf(d)[e] /\ HdrOf(d2, e) = HdrOf(d, e)
         /\ \A e \in Used(d2) : e \in Used(d) /\ DirOf(d)[e].name # key
<1> USE DEF RemovesFile
<1> DEFINE dir == DirOf(d)
           dir2 == DirOf(d2)
           f == FindIndex(dir, key)
<1>1. dir \in [Entry -> DirEntry]
  BY DEF Consistent
<1>2. f \in Entry /\ dir[f].inUse /\ dir[f].name = key /\ Find(dir, key) = dir[f].sector
  BY <1>1, FindFacts
<1>3. /\ dir2 \in [Entry -> DirEntry] /\ ~dir2[f].inUse
      /\ \A e \in Entry : e # f => dir2[e] = dir[e]
  <2>1. dir2 = RemoveEntry(dir, key)
    OBVIOUS
  <2> HIDE DEF dir, dir2
  <2> QED
    BY <1>1, <1>2, <2>1, RemoveFacts
<1> HIDE DEF f
<1>4. f \in Used(d) /\ Used(d2) = Used(d) \ {f}
  BY <1>2, <1>3 DEF Used
<1>5. \A e \in Used(d) : e # f => dir[e].name # key
  BY <1>2, <1>4 DEF Consistent
<1>6. \A e \in Used(d2) : e \in Entry /\ e # f /\ dir2[e] = dir[e]
  BY <1>3, <1>4 DEF Used
<1>7. ASSUME NEW e \in Used(d) PROVE d2[dir[e].sector] = d[dir[e].sector]
  <2>1. dir[e].sector \in Sector /\ dir[e].sector \notin System
    BY FileFacts
  <2> QED
    BY <2>1 DEF System
<1>8. \A e \in Used(d2) : HdrOf(d2, e) = HdrOf(d, e) /\ Owned(d2, e) = Owned(d, e)
  BY <1>4, <1>6, <1>7 DEF HdrOf, Owned
<1>9. \A e \in Used(d2) : IsFile(d2, e)
  <2> TAKE e \in Used(d2)
  <2>1. e \in Used(d)
    BY <1>4
  <2>2. IsFile(d, e) /\ dir2[e] = dir[e] /\ HdrOf(d2, e) = HdrOf(d, e) /\ Owned(d2, e) = Owned(d, e)
    BY <1>6, <1>8, <2>1 DEF Consistent
  <2> QED
    BY <1>7, <2>1, <2>2 DEF IsFile
<1>10. \A e, g \in Used(d2) : e # g => dir2[e].name # dir2[g].name /\ Owned(d2, e) \cap Owned(d2, g) = {}
  <2>1. \A e, g \in Used(d) : e # g => dir[e].name # dir[g].name /\ Owned(d, e) \cap Owned(d, g) = {}
    BY DEF Consistent
  <2>2. \A e \in Used(d2) : e \in Used(d)
    BY <1>4
  <2> QED
    BY <1>6, <1>8, <2>1, <2>2
<1>11. MapOf(d2) = System \cup UNION {Owned(d2, e) : e \in Used(d2)}
  <2>1. MapOf(d2) = MapOf(d) \ Owned(d, f)
    BY <1>2 DEF Deallocated, FileSectors, Owned, HdrOf
  <2>2. MapOf(d) = System \cup UNION {Owned(d, e) : e \in Used(d)}
    BY DEF Consistent
  <2>3. Owned(d, f) \cap System = {}
    BY <1>4 DEF Consistent, IsFile
  <2>4. \A e \in Used(d2) : Owned(d, e) \cap Owned(d, f) = {}
    BY <1>4 DEF Consistent
  <2>5. UNION {Owned(d2, e) : e \in Used(d2)} = UNION {Owned(d, e) : e \in Used(d2)}
    BY <1>8
  <2>6. UNION {Owned(d, e) : e \in Used(d)} = (UNION {Owned(d, e) : e \in Used(d2)}) \cup Owned(d, f)
    BY <1>4
  <2>7. (UNION {Owned(d, e) : e \in Used(d2)}) \cap Owned(d, f) = {}
    BY <2>4
  <2> QED
    BY <2>1, <2>2, <2>3, <2>5, <2>6, <2>7
<1>12. d2[FreeMapSector] = HeaderSector(MapHdr) /\ d2[DirectorySector] = HeaderSector(DirHdr)
  <2>1. /\ FreeMapSector \in Sector /\ DirectorySector \in Sector
        /\ FreeMapSector \notin {MapData, DirData1, DirData2}
        /\ DirectorySector \notin {MapData, DirData1, DirData2}
    BY Layout, SectorFacts DEF FreeMapSector, DirectorySector
  <2> QED
    BY <2>1 DEF Consistent
<1>13. Consistent(d2)
  BY <1>3, <1>9, <1>10, <1>11, <1>12 DEF Consistent
<1>14. ASSUME NEW e \in Used(d), dir[e].name # key
       PROVE  e \in Used(d2) /\ dir2[e] = dir[e] /\ HdrOf(d2, e) = HdrOf(d, e)
  <2>1. e # f
    BY <1>2, <1>14
  <2>2. e \in Used(d2)
    BY <1>4, <2>1
  <2> QED
    BY <1>6, <1>8, <2>2
<1> QED
  BY <1>4, <1>5, <1>13, <1>14

(* There is a name. *)
LEMMA SomeName == (CHOOSE k \in StoredName : TRUE) \in StoredName
<1>1. StoredName # {}
  BY FileSystemAssumption DEF StoredName
<1> QED
  BY <1>1

(* The empty disk of Format. *)
LEMMA Formatted ==
  ASSUME NEW d, d[FreeMapSector] = HeaderSector(MapHdr), d[DirectorySector] = HeaderSector(DirHdr),
         MapOf(d) = Marked(MapMarked, DirHdr), DirOf(d) = [e \in Entry |-> NotInUse]
  PROVE  Consistent(d) /\ Used(d) = {}
<1>1. NotInUse \in DirEntry /\ ~NotInUse.inUse
  BY SomeName, SectorFacts DEF NotInUse, DirEntry
<1>2. DirOf(d) \in [Entry -> DirEntry] /\ Used(d) = {}
  BY <1>1 DEF Used
<1>3. MapOf(d) = System
  BY Layout DEF Marked, FileSectors, System, FreeMapSector, DirectorySector
<1> QED
  BY <1>2, <1>3 DEF Consistent

-----------------------------------------------------------------------------
(* The inductive invariant of the metadata, and the operations that keep it. *)

(* Each open file is one of the files of the disk d, unless that was removed. *)
Handles(o, d) ==
  \A h \in Handle : o[h].hdr # NoHdr /\ o[h].fresh =>
    \E e \in Used(d) : DirOf(d)[e].name = o[h].key /\ o[h].hdr = HdrOf(d, e)

(* What Open puts in an OpenFile. *)
HandleType(o) ==
  /\ o \in [Handle -> [hdr : [bytes : Nat, data : Seq(Sector)] \cup {NoHdr}, pos : Nat,
                       key : StoredName, fresh : BOOLEAN]]
  /\ \A h \in Handle : o[h].hdr # NoHdr => IsHeader(o[h].hdr)

(* The types of the variables; the operation under way writes each sector at most once. *)
FSType ==
  /\ disk = [s \in Sector |-> disk[s]]
  /\ Writes(pending)
  /\ up \in BOOLEAN /\ intact \in BOOLEAN
  /\ HandleType(open)

(* How far the operation in progress is. *)
Progress ==
  /\ doing.op \in {"create", "remove", "write"}
  /\ doing.op = "create" =>
       Len(pending) <= 4 /\ (Len(pending) = 4 => pending[1].sector \notin MapOf(disk))
  /\ doing.op = "remove" => Len(pending) <= 3
  /\ doing.op = "write" =>
       \E e \in Used(disk) :
         /\ DirOf(disk)[e].name = doing.key
         /\ \A i \in DOMAIN pending : pending[i].sector \in FileSectors(HdrOf(disk, e))

(* The inductive invariant. *)
FSInv ==
  /\ FSType
  /\ ~up => pending = <<>> /\ \A h \in Handle : ~IsOpen(h)
  /\ doing.op = "format" => /\ pending # <<>> /\ ~intact /\ Consistent(After(disk, pending))
                           /\ \A h \in Handle : ~IsOpen(h)
  /\ intact => Consistent(After(disk, pending)) /\ Handles(open, After(disk, pending))
  /\ intact /\ ~InWindow => Consistent(disk)
  /\ intact /\ pending # <<>> => Progress

(* What the operations read, on a consistent disk. *)
LEMMA Decode ==
  ASSUME Consistent(disk)
  PROVE  /\ MapFile = MapHdr /\ DirFile = DirHdr
         /\ FreeMap = MapOf(disk) /\ Dir = DirOf(disk)
         /\ InUse = Used(disk) /\ SystemSectors = System
<1>1. MapFile = MapHdr /\ DirFile = DirHdr
  <2>1. disk[FreeMapSector] = HeaderSector(MapHdr) /\ disk[DirectorySector] = HeaderSector(DirHdr)
    BY DEF Consistent
  <2>2. HeaderSector(MapHdr).hdr = MapHdr /\ HeaderSector(DirHdr).hdr = DirHdr
    BY DEF HeaderSector
  <2> QED
    BY <2>1, <2>2 DEF MapFile, DirFile
<1>2. FreeMap = MapOf(disk) /\ Dir = DirOf(disk)
  BY <1>1 DEF FreeMap, MapOf, MapData, Dir, DirOf, DirData1, DirData2
<1>3. SystemSectors = System
  BY <1>1, Layout DEF SystemSectors, System
<1> QED
  BY <1>1, <1>2, <1>3 DEF InUse, Used

(* Nothing is pending. *)
LEMMA Quiet ==
  ASSUME FSInv, Ready
  PROVE  /\ up /\ intact /\ pending = <<>> /\ ~InWindow
         /\ Consistent(disk) /\ Handles(open, disk) /\ After(disk, pending) = disk
<1>1. up /\ intact /\ pending = <<>>
  BY DEF Ready
<1>2. ~InWindow
  BY SMTT(60), <1>1 DEF InWindow
<1>3. After(disk, pending) = disk
  BY <1>1, AfterNothing DEF FSInv, FSType
<1> QED
  BY <1>1, <1>2, <1>3 DEF FSInv

(* An OpenFile object that was deleted. *)
LEMMA ClosedFacts ==
  /\ ClosedHandle \in [hdr : [bytes : Nat, data : Seq(Sector)] \cup {NoHdr}, pos : Nat,
                       key : StoredName, fresh : BOOLEAN]
  /\ ClosedHandle.hdr = NoHdr
<1>1. 0 \in Nat
  BY SMTT(60)
<1> QED
  BY <1>1, SomeName DEF ClosedHandle

(* The machine starts with a disk that Format has not yet written. *)
LEMMA FSInitial == FSInit => FSInv
<1> SUFFICES ASSUME FSInit PROVE FSInv
  OBVIOUS
<1>1. disk = [s \in Sector |-> disk[s]]
  BY SMTT(60) DEF FSInit
<1>2. Writes(pending)
  <2>1. pending = <<>> /\ DOMAIN pending = {} /\ pending \in Seq({pending[i] : i \in DOMAIN pending})
    BY SMTT(60) DEF FSInit
  <2> QED
    BY <2>1 DEF Writes
<1>3. \A h \in Handle : open[h] = ClosedHandle
  BY DEF FSInit
<1>4. HandleType(open)
  BY <1>3, ClosedFacts DEF HandleType, FSInit
<1>5. \A h \in Handle : ~IsOpen(h)
  BY <1>3, ClosedFacts DEF IsOpen
<1>6. pending = <<>> /\ up = FALSE /\ intact = FALSE /\ doing.op # "format"
  BY DEF FSInit, Idle
<1> QED
  BY <1>1, <1>2, <1>4, <1>5, <1>6 DEF FSInv, FSType

(* Actions that only change the handles. *)
LEMMA OnlyHandles ==
  ASSUME FSInv, Ready, HandleType(open'), UNCHANGED <<disk, pending, doing, up, intact>>,
         Handles(open', disk)
  PROVE  FSInv'
<1>1. /\ up /\ intact /\ pending = <<>> /\ Consistent(disk) /\ After(disk, pending) = disk
      /\ doing.op # "format" /\ FSType
  BY Quiet DEF FSInv
<1>2. FSType'
  BY <1>1 DEF FSType
<1> QED
  BY <1>1, <1>2 DEF FSInv

(* FileSystem::Open *)
LEMMA OpenPreserves ==
  ASSUME FSInv, NEW h \in Handle, NEW n \in PathName, Open(h, n)
  PROVE  FSInv'
<1> DEFINE key == Stored[n]
           e == FindIndex(DirOf(disk), key)
           new == [hdr |-> HdrOf(disk, e), pos |-> 0, key |-> key, fresh |-> TRUE]
<1>1. Consistent(disk) /\ Handles(open, disk) /\ HandleType(open)
  BY Quiet DEF Open, FSInv, FSType
<1>2. Dir = DirOf(disk) /\ Find(DirOf(disk), key) # -1
  BY <1>1, Decode DEF Open
<1>3. e \in Used(disk) /\ DirOf(disk)[e].name = key /\ Find(DirOf(disk), key) = DirOf(disk)[e].sector
  BY <1>1, <1>2, FindFacts DEF Consistent, Used
<1>4. open' = [open EXCEPT ![h] = new]
  BY <1>2, <1>3 DEF Open, HdrOf
<1>5. IsHeader(HdrOf(disk, e)) /\ key \in StoredName /\ 0 \in Nat
  <2>1. 0 \in Nat
    BY SMTT(60)
  <2> QED
    BY <1>1, <1>3, <2>1, FileFacts DEF StoredName
<1> HIDE DEF e, key
<1>6. new.hdr = HdrOf(disk, e) /\ new.key = key
  OBVIOUS
<1>7. new \in [hdr : [bytes : Nat, data : Seq(Sector)] \cup {NoHdr}, pos : Nat,
               key : StoredName, fresh : BOOLEAN]
  BY <1>5 DEF IsHeader
<1> HIDE DEF new
<1>8. open'[h] = new /\ \A g \in Handle : g # h => open'[g] = open[g]
  BY <1>1, <1>4 DEF HandleType
<1>9. HandleType(open')
  <2>1. open' \in [Handle -> [hdr : [bytes : Nat, data : Seq(Sector)] \cup {NoHdr}, pos : Nat,
                             key : StoredName, fresh : BOOLEAN]]
    BY <1>1, <1>4, <1>7 DEF HandleType
  <2> QED
    BY <1>1, <1>5, <1>6, <1>8, <2>1 DEF HandleType
<1>10. Handles(open', disk)
  <2> SUFFICES ASSUME NEW g \in Handle, open'[g].hdr # NoHdr, open'[g].fresh
               PROVE  \E f \in Used(disk) : DirOf(disk)[f].name = open'[g].key /\ open'[g].hdr = HdrOf(disk, f)
    BY DEF Handles
  <2>1. CASE g = h
    BY <1>3, <1>6, <1>8, <2>1
  <2>2. CASE g # h
    BY <1>1, <1>8, <2>2 DEF Handles
  <2> QED
    BY <2>1, <2>2
<1> QED
  BY <1>9, <1>10, OnlyHandles DEF Open

(* Deleting an OpenFile writes nothing. *)
LEMMA ClosePreserves ==
  ASSUME FSInv, NEW h \in Handle, Close(h)
  PROVE  FSInv'
<1>1. Consistent(disk) /\ Handles(open, disk) /\ HandleType(open)
  BY Quiet DEF Close, FSInv, FSType
<1>2. open' = [open EXCEPT ![h] = ClosedHandle]
  BY DEF Close
<1>3. open'[h] = ClosedHandle /\ \A g \in Handle : g # h => open'[g] = open[g]
  BY <1>1, <1>2 DEF HandleType
<1>4. HandleType(open')
  <2>1. open' \in [Handle -> [hdr : [bytes : Nat, data : Seq(Sector)] \cup {NoHdr}, pos : Nat,
                             key : StoredName, fresh : BOOLEAN]]
    BY <1>1, <1>2, ClosedFacts DEF HandleType
  <2> QED
    BY <1>1, <1>3, <2>1, ClosedFacts DEF HandleType
<1>5. Handles(open', disk)
  BY <1>1, <1>3, ClosedFacts DEF Handles
<1> QED
  BY <1>4, <1>5, OnlyHandles DEF Close

(* OpenFile::Seek and Read move the position. *)
LEMMA Moved ==
  ASSUME HandleType(open), NEW h \in Handle, NEW pos \in Nat, open' = [open EXCEPT ![h].pos = pos]
  PROVE  /\ HandleType(open')
         /\ \A g \in Handle : /\ open'[g].hdr = open[g].hdr /\ open'[g].key = open[g].key
                             /\ open'[g].fresh = open[g].fresh
<1>1. open'[h] = [open[h] EXCEPT !.pos = pos] /\ \A g \in Handle : g # h => open'[g] = open[g]
  BY DEF HandleType
<1>2. \A g \in Handle : /\ open'[g].hdr = open[g].hdr /\ open'[g].key = open[g].key
                       /\ open'[g].fresh = open[g].fresh
  BY <1>1 DEF HandleType
<1>3. open' \in [Handle -> [hdr : [bytes : Nat, data : Seq(Sector)] \cup {NoHdr}, pos : Nat,
                           key : StoredName, fresh : BOOLEAN]]
  BY <1>1 DEF HandleType
<1> QED
  BY <1>2, <1>3 DEF HandleType

(* Moving seekPosition writes nothing. *)
LEMMA MovedPreserves ==
  ASSUME FSInv, Ready, NEW h \in Handle, NEW pos \in Nat, open' = [open EXCEPT ![h].pos = pos],
         UNCHANGED <<disk, pending, doing, up, intact>>
  PROVE  FSInv'
<1>1. Handles(open, disk) /\ HandleType(open)
  BY Quiet DEF FSInv, FSType
<1>2. /\ HandleType(open')
      /\ \A g \in Handle : /\ open'[g].hdr = open[g].hdr /\ open'[g].key = open[g].key
                          /\ open'[g].fresh = open[g].fresh
  BY <1>1, Moved
<1>3. Handles(open', disk)
  BY <1>1, <1>2 DEF Handles
<1> QED
  BY <1>2, <1>3, OnlyHandles

(* OpenFile::Seek keeps the inductive invariant. *)
LEMMA SeekPreserves ==
  ASSUME FSInv, NEW h \in Handle, NEW position \in SeekTo, Seek(h, position)
  PROVE  FSInv'
<1>1. position \in Nat
  BY FileSystemAssumption
<1> QED
  BY <1>1, MovedPreserves DEF Seek

(* OpenFile::Read keeps the inductive invariant: it moves the position and writes nothing. *)
LEMMA ReadPreserves ==
  ASSUME FSInv, NEW h \in Handle, NEW numBytes \in Nat, Read(h, numBytes)
  PROVE  FSInv'
<1> DEFINE file == open[h]
           n == Transfer(file.hdr, numBytes, file.pos)
           got == ReadAt(ByteView, file.hdr, numBytes, file.pos)
           moved == file.pos + Len(got)
<1>1. HandleType(open)
  BY DEF FSInv, FSType
<1>2. IsHeader(file.hdr) /\ file.pos \in Nat
  BY <1>1 DEF Read, IsOpen, HandleType
<1>3. n \in Nat
  BY <1>2, TransferFacts
<1>4. Len(got) = n
  <2> DEFINE B(i) == Buffered(ByteView, file.hdr, FirstSector(file.pos),
                              file.pos - FirstSector(file.pos) * SectorSize + i - 1)
  <2>1. got = [i \in 1 .. n |-> B(i)]
    BY DEF ReadAt
  <2> HIDE DEF got, n, B
  <2> QED
    BY SMTT(60), <1>3, <2>1
<1>5. moved \in Nat
  <2> HIDE DEF n, got, file
  <2> QED
    BY SMTT(60), <1>2, <1>3, <1>4
<1>6. open' = [open EXCEPT ![h].pos = moved]
  BY DEF Read
<1> HIDE DEF moved
<1> QED
  BY <1>5, <1>6, MovedPreserves DEF Read

(* A restart of the machine finds the disk as it was, and no file open. *)
LEMMA RestartPreserves ==
  ASSUME FSInv, Restart
  PROVE  FSInv'
<1>1. UNCHANGED <<disk, pending, doing, open, intact>> /\ up' = TRUE /\ ~up
  BY DEF Restart
<1>2. FSType'
  BY <1>1 DEF FSInv, FSType
<1>3. /\ Handles(open, After(disk, pending))' <=> Handles(open, After(disk, pending))
      /\ Progress' <=> Progress
      /\ InWindow' <=> InWindow
      /\ \A h \in Handle : IsOpen(h)' <=> IsOpen(h)
  BY <1>1 DEF Handles, Progress, InWindow, IsOpen
<1> QED
  BY <1>1, <1>2, <1>3 DEF FSInv

(* Nothing is pending and no file is open. *)
LEMMA NothingPending ==
  ASSUME NEW p, p = <<>>
  PROVE  Writes(p) /\ Len(p) = 0
<1>1. DOMAIN p = {} /\ p \in Seq({p[i] : i \in DOMAIN p}) /\ Len(p) = 0
  BY SMTT(60)
<1> QED
  BY <1>1 DEF Writes

(* A stop of the machine between two sectors: inside the window the disk is given up, outside it is consistent. *)
LEMMA StopPreserves ==
  ASSUME FSInv, Stop
  PROVE  FSInv'
<1>1. /\ disk' = disk /\ pending' = <<>> /\ doing' = Idle /\ up' = FALSE
      /\ open' = [h \in Handle |-> ClosedHandle] /\ intact' = (intact /\ ~InWindow)
  BY DEF Stop
<1>2. HandleType(open') /\ \A h \in Handle : ~IsOpen(h)'
  BY <1>1, ClosedFacts DEF HandleType, IsOpen
<1>3. FSType'
  BY <1>1, <1>2, NothingPending DEF FSInv, FSType
<1>4. After(disk, pending)' = disk
  BY <1>1, <1>3, AfterNothing DEF FSType
<1>5. intact' => Consistent(disk)
  BY <1>1 DEF FSInv
<1>6. Handles(open, After(disk, pending))'
  BY <1>2 DEF Handles, IsOpen
<1>7. doing'.op # "format"
  BY <1>1 DEF Idle
<1> QED
  BY <1>1, <1>2, <1>3, <1>4, <1>5, <1>6, <1>7 DEF FSInv

(* A write of a sector that is no structure of a file other than its data. *)
LEMMA OneDataSector ==
  ASSUME NEW d, Consistent(d), NEW s \in Sector, s \notin System,
         \A e \in Used(d) : s # DirOf(d)[e].sector,
         NEW d2, \A x \in Sector : x # s => d2[x] = d[x]
  PROVE  /\ Consistent(d2) /\ MapOf(d2) = MapOf(d) /\ DirOf(d2) = DirOf(d) /\ Used(d2) = Used(d)
         /\ \A e \in Used(d) : HdrOf(d2, e) = HdrOf(d, e)
<1>1. \A x \in System : d2[x] = d[x]
  BY Layout
<1>2. \A e \in Used(d) : d2[DirOf(d)[e].sector] = d[DirOf(d)[e].sector]
  BY FileFacts
<1> QED
  BY <1>1, <1>2, DataWritten

(* How many sectors of an operation are left to write after one more. *)
LEMMA OneFewer ==
  ASSUME NEW a \in Nat, a - 1 >= 1
  PROVE  /\ a <= 3 => a - 1 \in 1 .. 2 /\ a - 1 <= 3
         /\ a <= 4 => a - 1 <= 4 /\ a - 1 # 4 /\ (a - 1 \notin 1 .. 2 => a = 4)
  BY SMTT(60)

(* SynchDisk::WriteSector: the disk the operation leaves in the end is the same; until    *)
(* it is there, the disk is consistent outside the window.                                *)
LEMMA WriteSectorPreserves ==
  ASSUME FSInv, WriteSector
  PROVE  FSInv'
<1> DEFINE p == pending
           t == Tail(pending)
           s == pending[1].sector
<1>1. /\ up /\ p # <<>> /\ pending' = t /\ open' = open /\ up' = up
      /\ disk' = [disk EXCEPT ![Head(p).sector] = Head(p).content]
  BY DEF WriteSector
<1>2. disk = [x \in Sector |-> disk[x]] /\ Writes(p) /\ HandleType(open) /\ intact \in BOOLEAN
  BY DEF FSInv, FSType
<1>3. /\ Head(p) = p[1] /\ 1 \in DOMAIN p /\ s \in Sector
      /\ Len(p) \in Nat /\ Len(t) = Len(p) - 1 /\ Writes(t)
      /\ \A i \in DOMAIN t : i + 1 \in DOMAIN p /\ t[i] = p[i + 1]
  BY <1>1, <1>2, FirstWrite
<1>4. After(disk, pending)' = After(disk, pending)
  <2>1. DOMAIN disk = Sector
    BY <1>2
  <2> QED
    BY <1>1, <1>2, <2>1, AfterStep
<1>5. disk' = [x \in Sector |-> disk'[x]]
  BY SMTT(60), <1>1, <1>2
<1>6. FSType'
  <2>1. intact' \in BOOLEAN
    BY <1>2 DEF WriteSector
  <2> QED
    BY <1>1, <1>2, <1>3, <1>5, <2>1 DEF FSType, FSInv
<1>7. \A h \in Handle : IsOpen(h)' <=> IsOpen(h)
  BY <1>1 DEF IsOpen
<1>8. CASE t = <<>>
  <2>1. doing' = Idle /\ intact' = (intact \/ doing.op = "format")
    BY <1>8 DEF WriteSector
  <2>2. doing'.op # "format"
    BY <2>1 DEF Idle
  <2>3. After(disk, pending)' = disk'
    BY <1>1, <1>5, <1>8, AfterNothing
  <2>4. intact' => Consistent(After(disk, pending)) /\ Handles(open, After(disk, pending))
    BY <2>1 DEF FSInv, Handles, IsOpen
  <2>5. pending' = <<>>
    BY <1>1, <1>8
  <2> HIDE DEF t
  <2> QED
    BY <1>1, <1>4, <1>6, <1>7, <2>2, <2>3, <2>4, <2>5 DEF FSInv
<1>9. CASE t # <<>>
  <2>0. Len(t) \in Nat /\ Len(t) >= 1
    <3>1. Len(t) \in Nat /\ DOMAIN t = 1 .. Len(t) /\ 1 \in DOMAIN t
      BY <1>3, <1>9, FirstWrite
    <3> HIDE DEF t
    <3> QED
      BY SMTT(60), <3>1
  <2>1. doing' = doing /\ intact' = intact
    BY <1>9 DEF WriteSector
  <2>2. /\ doing.op = "format" => ~intact /\ Consistent(After(disk, pending)) /\ \A h \in Handle : ~IsOpen(h)
        /\ intact => Consistent(After(disk, pending)) /\ Handles(open, After(disk, pending))
        /\ intact /\ ~InWindow => Consistent(disk)
        /\ intact => Progress
    BY <1>1 DEF FSInv
  <2>3. ASSUME intact, ~InWindow, Consistent(disk), s \notin System, \A e \in Used(disk) : s # DirOf(disk)[e].sector
        PROVE  /\ Consistent(disk') /\ MapOf(disk') = MapOf(disk) /\ DirOf(disk') = DirOf(disk)
               /\ Used(disk') = Used(disk) /\ \A e \in Used(disk) : HdrOf(disk', e) = HdrOf(disk, e)
    <3>1. \A x \in Sector : x # s => disk'[x] = disk[x]
      BY <1>1, <1>2, <1>3
    <3> HIDE DEF s
    <3> QED
      BY <1>3, <2>3, <3>1, OneDataSector
  <2>4. ASSUME intact, doing.op = "write" PROVE Consistent(disk') /\ Progress'
    <3>1. ~InWindow /\ Consistent(disk) /\ Progress
      BY <2>2, <2>4 DEF InWindow
    <3>2. PICK e \in Used(disk) : /\ DirOf(disk)[e].name = doing.key
                                 /\ \A i \in DOMAIN p : p[i].sector \in FileSectors(HdrOf(disk, e))
      BY <2>4, <3>1 DEF Progress
    <3>3. s \notin System /\ \A f \in Used(disk) : s # DirOf(disk)[f].sector
      BY <1>3, <3>1, <3>2, FileFacts
    <3>4. /\ Consistent(disk') /\ Used(disk') = Used(disk) /\ DirOf(disk') = DirOf(disk)
          /\ HdrOf(disk', e) = HdrOf(disk, e)
      BY <2>3, <2>4, <3>1, <3>3
    <3>5. \A i \in DOMAIN t : t[i].sector \in FileSectors(HdrOf(disk', e))
      BY <1>3, <3>2, <3>4
    <3> QED
      BY <1>1, <2>1, <2>4, <3>2, <3>4, <3>5 DEF Progress
  <2>5. ASSUME intact, doing.op = "remove" PROVE InWindow' /\ Progress'
    <3>1. Len(p) <= 3
      BY <2>2, <2>5 DEF Progress
    <3>2. Len(t) \in 1 .. 2 /\ Len(t) <= 3
      <4> HIDE DEF p, t, s
      <4> QED
        BY <1>3, <2>0, <3>1, OneFewer
    <3> QED
      BY <1>1, <2>1, <2>5, <3>2 DEF InWindow, Progress
  <2>6. ASSUME intact, doing.op = "create" PROVE (~InWindow' => Consistent(disk')) /\ Progress'
    <3>1. /\ Len(p) <= 4 /\ (Len(p) = 4 => s \notin MapOf(disk))
      BY <2>2, <2>6 DEF Progress
    <3>2. Len(t) <= 4 /\ Len(t) # 4 /\ (Len(t) \notin 1 .. 2 => Len(p) = 4)
      <4> HIDE DEF p, t, s
      <4> QED
        BY <1>3, <2>0, <3>1, OneFewer
    <3>3. Progress'
      BY <1>1, <2>1, <2>6, <3>2 DEF Progress
    <3>4. ASSUME ~InWindow' PROVE Consistent(disk')
      <4>1. Len(p) = 4 /\ s \notin MapOf(disk)
        BY <1>1, <2>1, <2>6, <3>1, <3>2, <3>4 DEF InWindow
      <4>2. ~InWindow
        <5>1. 4 \notin 1 .. 2
          BY SMTT(60)
        <5> QED
          BY <4>1, <5>1 DEF InWindow
      <4>3. Consistent(disk)
        BY <2>2, <2>6, <4>2
      <4>4. s \notin System
        BY <4>1, <4>3 DEF Consistent
      <4>5. \A e \in Used(disk) : s # DirOf(disk)[e].sector
        BY <4>1, <4>3, FileFacts DEF Owned
      <4> QED
        BY <2>3, <2>6, <4>2, <4>3, <4>4, <4>5
    <3> QED
      BY <3>3, <3>4
  <2>7. intact => doing.op \in {"create", "remove", "write"}
    BY <2>2 DEF Progress
  <2>8. intact' => Progress' /\ (~InWindow' => Consistent(disk'))
    BY <2>1, <2>4, <2>5, <2>6, <2>7
  <2> HIDE DEF t
  <2> QED
    BY <1>1, <1>4, <1>6, <1>7, <1>9, <2>1, <2>2, <2>8 DEF FSInv
<1> QED
  BY <1>8, <1>9

(* Writes to different sectors *)
LEMMA IsWrites ==
  ASSUME NEW S, NEW p \in Seq(S), \A i \in DOMAIN p : p[i].sector \in Sector,
         \A i, j \in DOMAIN p : p[i].sector = p[j].sector => i = j
  PROVE  Writes(p)
<1>1. p \in Seq({p[i] : i \in DOMAIN p})
  BY SMTT(60)
<1> QED
  BY <1>1 DEF Writes

(* FileSystem(TRUE) *)
LEMMA FormatPreserves ==
  ASSUME FSInv, Format
  PROVE  FSInv' /\ Used(After(disk', pending')) = {}
<1> DEFINE none == [e \in Entry |-> NotInUse]
           dir == DirectorySectors(none)
           a == [sector |-> FreeMapSector, content |-> HeaderSector(MapHdr)]
           b == [sector |-> DirectorySector, content |-> HeaderSector(DirHdr)]
           c == [sector |-> MapData, content |-> MapSector(Marked(MapMarked, DirHdr))]
           d == [sector |-> DirData1, content |-> dir[1]]
           e == [sector |-> DirData2, content |-> dir[2]]
           p == <<a, b, c, d, e>>
           A == After(disk, p)
<1>1. /\ ~up /\ up' = TRUE /\ intact' = FALSE /\ UNCHANGED <<disk, open>>
      /\ pending' = p /\ doing'.op = "format"
  BY DEF Format, Start, MapHdr, MapMarked, DirHdr, MapData, DirData1, DirData2
<1>2. /\ a.sector = FreeMapSector /\ a.content = HeaderSector(MapHdr)
      /\ b.sector = DirectorySector /\ b.content = HeaderSector(DirHdr)
      /\ c.sector = MapData /\ c.content = MapSector(Marked(MapMarked, DirHdr))
      /\ d.sector = DirData1 /\ d.content = dir[1]
      /\ e.sector = DirData2 /\ e.content = dir[2]
  OBVIOUS
<1> HIDE DEF a, b, c, d, e, dir, none
<1>3. /\ p \in Seq({a, b, c, d, e}) /\ DOMAIN p = {1, 2, 3, 4, 5}
      /\ p[1] = a /\ p[2] = b /\ p[3] = c /\ p[4] = d /\ p[5] = e
      /\ p # <<>>
  BY SMTT(60)
<1> HIDE DEF p
<1>4. \A i \in DOMAIN p : p[i].sector \in Sector
  BY <1>2, <1>3, Layout DEF System
<1>5. \A i, j \in DOMAIN p : p[i].sector = p[j].sector => i = j
  <2>1. /\ FreeMapSector # DirectorySector /\ FreeMapSector # MapData /\ FreeMapSector # DirData1
        /\ FreeMapSector # DirData2 /\ DirectorySector # MapData /\ DirectorySector # DirData1
        /\ DirectorySector # DirData2 /\ MapData # DirData1 /\ MapData # DirData2 /\ DirData1 # DirData2
    <3>1. 0 # 1
      BY SMTT(60)
    <3> QED
      BY <3>1, Layout DEF FreeMapSector, DirectorySector
  <2> QED
    BY SMTT(60), <1>2, <1>3, <2>1
<1>6. Writes(p)
  BY <1>3, <1>4, <1>5, IsWrites
<1> HIDE DEF A
<1>7. \A i \in DOMAIN p : A[p[i].sector] = p[i].content
  <2>1. \A i \in DOMAIN p : After(disk, p)[p[i].sector] = p[i].content
    BY SMTT(60), <1>6, AfterWrites
  <2> QED
    BY <2>1 DEF A
<1>8. /\ A[FreeMapSector] = HeaderSector(MapHdr) /\ A[DirectorySector] = HeaderSector(DirHdr)
      /\ A[MapData] = MapSector(Marked(MapMarked, DirHdr)) /\ A[DirData1] = dir[1] /\ A[DirData2] = dir[2]
  <2>1. 1 \in DOMAIN p /\ 2 \in DOMAIN p /\ 3 \in DOMAIN p /\ 4 \in DOMAIN p /\ 5 \in DOMAIN p
    BY <1>3
  <2> QED
    BY <1>2, <1>3, <1>7, <2>1
<1>9. MapOf(A) = Marked(MapMarked, DirHdr)
  <2>1. MapSector(Marked(MapMarked, DirHdr)).map = Marked(MapMarked, DirHdr)
    BY DEF MapSector
  <2> QED
    BY <1>8, <2>1 DEF MapOf
<1>10. DirOf(A) = none
  <2>1. none \in [Entry -> DirEntry]
    BY SomeName, SectorFacts DEF none, NotInUse, DirEntry
  <2> QED
    BY <1>8, <2>1, ReadBack DEF DirOf, dir
<1>11. Consistent(A) /\ Used(A) = {}
  BY <1>8, <1>9, <1>10, Formatted DEF none
<1>12. \A h \in Handle : ~IsOpen(h)'
  BY <1>1 DEF FSInv, IsOpen
<1>13. FSType'
  BY <1>1, <1>6 DEF FSInv, FSType
<1> QED
  BY <1>1, <1>3, <1>6, <1>11, <1>12, <1>13 DEF FSInv, A

(* FileSystem's freeMap->WriteBack and directory->WriteBack *)
LEMMA AfterStructures ==
  ASSUME NEW d, NEW p, Writes(p), NEW dir \in [Entry -> DirEntry], NEW map,
         NEW i \in DOMAIN p, p[i].sector = MapData, p[i].content = MapSector(map),
         NEW j \in DOMAIN p, p[j].sector = DirData1, p[j].content = DirectorySectors(dir)[1],
         NEW k \in DOMAIN p, p[k].sector = DirData2, p[k].content = DirectorySectors(dir)[2]
  PROVE  MapOf(After(d, p)) = map /\ DirOf(After(d, p)) = dir
<1> DEFINE A == After(d, p)
<1>1. /\ A[p[i].sector] = p[i].content /\ A[p[j].sector] = p[j].content
      /\ A[p[k].sector] = p[k].content
  BY SMTT(60), AfterWrites
<1> HIDE DEF A
<1>2. A[MapData] = MapSector(map) /\ A[DirData1] = DirectorySectors(dir)[1]
        /\ A[DirData2] = DirectorySectors(dir)[2]
  BY <1>1
<1>3. MapOf(A) = map
  <2>1. MapSector(map).map = map
    BY DEF MapSector
  <2> QED
    BY <1>2, <2>1 DEF MapOf
<1>4. DirOf(A) = dir
  BY <1>2, ReadBack DEF DirOf
<1> QED
  BY <1>3, <1>4 DEF A

(* The files that are open stay on the disk. *)
KeepsOpen(o, d, d2) ==
  \A h \in Handle, e \in Used(d) :
    o[h].hdr # NoHdr /\ o[h].fresh /\ DirOf(d)[e].name = o[h].key =>
      e \in Used(d2) /\ DirOf(d2)[e] = DirOf(d)[e] /\ HdrOf(d2, e) = HdrOf(d, e)

(* An open file stays what it was when the operation keeps the open files' entries and headers. *)
LEMMA HandlesKept ==
  ASSUME NEW o, NEW d, NEW d2, Handles(o, d), KeepsOpen(o, d, d2)
  PROVE  Handles(o, d2)
<1> SUFFICES ASSUME NEW h \in Handle, o[h].hdr # NoHdr, o[h].fresh
             PROVE  \E e \in Used(d2) : DirOf(d2)[e].name = o[h].key /\ o[h].hdr = HdrOf(d2, e)
  BY DEF Handles
<1>1. PICK e \in Used(d) : DirOf(d)[e].name = o[h].key /\ o[h].hdr = HdrOf(d, e)
  BY DEF Handles
<1>2. e \in Used(d2) /\ DirOf(d2)[e] = DirOf(d)[e] /\ HdrOf(d2, e) = HdrOf(d, e)
  BY <1>1 DEF KeepsOpen
<1> QED
  BY <1>1, <1>2

(* What Create leaves on the disk, when nothing stops it. *)
CreateFacts(n, size, s, hdr, A) ==
  /\ s \in Sector /\ s \notin MapOf(disk)
  /\ IsHeader(hdr) /\ hdr.bytes = size
  /\ \A x \in FileSectors(hdr) : x \in Sector /\ x \notin MapOf(disk) \cup {s}
  /\ Consistent(A)
  /\ \A e \in Used(disk) : /\ e \in Used(A) /\ DirOf(A)[e] = DirOf(disk)[e]
                           /\ HdrOf(A, e) = HdrOf(disk, e)
                           /\ DirOf(disk)[e].name # Stored[n]
  /\ \A e \in Used(A) : e \notin Used(disk) => DirOf(A)[e].name = Stored[n] /\ HdrOf(A, e) = hdr
  /\ \A x \in Sector : x \notin {s, MapData, DirData1, DirData2} => A[x] = disk[x]

(* What FileSystem::Create writes, taken together, makes one more file. *)
LEMMA CreateWrites ==
  ASSUME FSInv, NEW n \in PathName, NEW size \in Size, Create(n, size)
  PROVE  /\ Writes(pending') /\ pending' # <<>> /\ Len(pending') = 4
         /\ pending'[1].sector \notin MapOf(disk)
         /\ \E s, hdr : CreateFacts(n, size, s, hdr, After(disk, pending'))
<1> DEFINE key == Stored[n]
           map0 == MapOf(disk)
           dir0 == DirOf(disk)
           s == FindAndSet(map0)
           hdr == Allocate(map0 \cup {s}, size)
           map == Marked(map0 \cup {s}, hdr)
           dir == Add(dir0, key, s)
           a == [sector |-> s, content |-> HeaderSector(hdr)]
           b == [sector |-> DirData1, content |-> DirectorySectors(dir)[1]]
           c == [sector |-> DirData2, content |-> DirectorySectors(dir)[2]]
           d == [sector |-> MapData, content |-> MapSector(map)]
           p == pending'
           A == After(disk, p)
<1>1. /\ Consistent(disk) /\ DirFile = DirHdr /\ MapFile = MapHdr /\ FreeMap = map0 /\ Dir = dir0
  BY Quiet, Decode DEF Create
<1>2. /\ Find(dir0, key) = -1 /\ s # -1 /\ HasRoom(dir0) /\ CanAllocate(map0 \cup {s}, size)
      /\ p = <<[sector |-> s, content |-> HeaderSector(hdr)]>> \o WriteDir(dir) \o WriteMap(map)
  BY <1>1 DEF Create, Start
<1>3. s \in Sector /\ s \notin map0 /\ key \in StoredName /\ dir0 \in [Entry -> DirEntry] /\ size \in Nat
  BY <1>1, <1>2, FindAndSetFacts, FileSystemAssumption DEF StoredName, Consistent
<1>4. /\ IsHeader(hdr) /\ hdr.bytes = size
      /\ \A x \in FileSectors(hdr) : x \in Sector /\ x \notin map0 \cup {s}
  BY <1>2, <1>3, AllocateHeader
<1> HIDE DEF s, hdr
<1>5. dir \in [Entry -> DirEntry]
  BY <1>2, <1>3, AddFacts DEF AddedAt
<1>6. /\ a.sector = s /\ a.content = HeaderSector(hdr)
      /\ b.sector = DirData1 /\ b.content = DirectorySectors(dir)[1]
      /\ c.sector = DirData2 /\ c.content = DirectorySectors(dir)[2]
      /\ d.sector = MapData /\ d.content = MapSector(map)
  OBVIOUS
<1>7. WriteMap(map) = <<d>>
  BY <1>1 DEF WriteMap, MapData
<1> HIDE DEF map, dir
<1>8. WriteDir(dir) = <<b, c>>
  <2>1. WriteDir(dir) = [i \in 1 .. 2 |-> [sector |-> DirHdr.data[i], content |-> DirectorySectors(dir)[i]]]
    BY <1>1 DEF WriteDir
  <2> QED
    BY SMTT(60), <2>1 DEF DirData1, DirData2
<1>9. p = <<a>> \o <<b, c>> \o <<d>>
  BY <1>2, <1>7, <1>8
<1> HIDE DEF a, b, c, d, p
<1>10. /\ p \in Seq({a, b, c, d}) /\ DOMAIN p = {1, 2, 3, 4} /\ Len(p) = 4 /\ p # <<>>
       /\ p[1] = a /\ p[2] = b /\ p[3] = c /\ p[4] = d
  BY SMTT(60), <1>9
<1>11. s \notin System
  BY <1>1, <1>3 DEF Consistent
<1>12. \A i \in DOMAIN p : p[i].sector \in Sector
  BY <1>3, <1>6, <1>10, Layout DEF System
<1>13. \A i, j \in DOMAIN p : p[i].sector = p[j].sector => i = j
  <2>1. /\ s # DirData1 /\ s # DirData2 /\ s # MapData
        /\ MapData # DirData1 /\ MapData # DirData2 /\ DirData1 # DirData2
    BY <1>11, Layout DEF System
  <2> QED
    BY SMTT(60), <1>6, <1>10, <2>1
<1>14. Writes(p)
  BY <1>10, <1>12, <1>13, IsWrites
<1>15. 1 \in DOMAIN p /\ 2 \in DOMAIN p /\ 3 \in DOMAIN p /\ 4 \in DOMAIN p
  BY <1>10
<1>16. MapOf(A) = map /\ DirOf(A) = dir
  BY <1>5, <1>6, <1>10, <1>14, <1>15, AfterStructures
<1>17. A[s] = HeaderSector(hdr)
  <2>1. A[p[1].sector] = p[1].content
    BY SMTT(60), <1>14, <1>15, AfterWrites
  <2> HIDE DEF A
  <2> QED
    BY <1>6, <1>10, <2>1
<1>18. \A x \in Sector : x \notin {s, MapData, DirData1, DirData2} => A[x] = disk[x]
  <2> SUFFICES ASSUME NEW x \in Sector, x \notin {s, MapData, DirData1, DirData2} PROVE A[x] = disk[x]
    OBVIOUS
  <2>1. \A i \in DOMAIN p : p[i].sector # x
    BY <1>6, <1>10
  <2> QED
    BY <2>1, AfterKeeps
<1> HIDE DEF A
<1>19. /\ Consistent(A)
       /\ \A e \in Used(disk) : /\ e \in Used(A) /\ DirOf(A)[e] = dir0[e] /\ HdrOf(A, e) = HdrOf(disk, e)
       /\ \A e \in Used(A) : e \notin Used(disk) => DirOf(A)[e].name = key /\ HdrOf(A, e) = hdr
  <2>1. DirOf(A) = Add(dir0, key, s) /\ MapOf(A) = Marked(map0 \cup {s}, hdr)
    BY <1>16 DEF map, dir
  <2>2. \A x \in FileSectors(hdr) : x \notin map0 \cup {s}
    BY <1>4
  <2>3. CreatesFile(disk, A, key, s, hdr)
    BY <1>2, <1>3, <1>4, <1>17, <1>18, <2>1, <2>2 DEF CreatesFile
  <2> HIDE DEF key
  <2>4. Consistent(A)
    BY <1>1, <2>3, FileCreated
  <2>5. \A e \in Used(disk) : /\ e \in Used(A) /\ DirOf(A)[e] = DirOf(disk)[e]
                              /\ HdrOf(A, e) = HdrOf(disk, e)
    BY <1>1, <2>3, FileCreated
  <2>6. \A e \in Used(A) : e \notin Used(disk) => DirOf(A)[e].name = key /\ HdrOf(A, e) = hdr
    BY SMTT(60), <1>1, <2>3, FileCreated
  <2> QED
    BY <2>4, <2>5, <2>6
<1>20. \A e \in Used(disk) : dir0[e].name # key
  BY <1>2, <1>3, FindFacts DEF Used
<1>21. CreateFacts(n, size, s, hdr, A)
  BY <1>3, <1>4, <1>18, <1>19, <1>20 DEF CreateFacts
<1>22. p[1].sector \notin map0
  BY <1>3, <1>6, <1>10
<1> QED
  BY <1>10, <1>14, <1>21, <1>22 DEF p, A

(* FileSystem::Create keeps the inductive invariant. *)
LEMMA CreatePreserves ==
  ASSUME FSInv, NEW n \in PathName, NEW size \in Size, Create(n, size)
  PROVE  FSInv'
<1> DEFINE A == After(disk, pending')
<1>1. /\ up /\ intact /\ Consistent(disk) /\ Handles(open, disk)
      /\ UNCHANGED <<disk, open, up, intact>> /\ doing'.op = "create"
  BY Quiet DEF Create, Start
<1>2. /\ Writes(pending') /\ pending' # <<>> /\ Len(pending') = 4
      /\ pending'[1].sector \notin MapOf(disk)
      /\ \E s, hdr : CreateFacts(n, size, s, hdr, A)
  BY CreateWrites
<1> HIDE DEF A
<1>3. /\ Consistent(A)
      /\ \A e \in Used(disk) : e \in Used(A) /\ DirOf(A)[e] = DirOf(disk)[e] /\ HdrOf(A, e) = HdrOf(disk, e)
  BY <1>2 DEF CreateFacts
<1>4. Handles(open, A)
  <2>1. KeepsOpen(open, disk, A)
    BY <1>3 DEF KeepsOpen
  <2> QED
    BY <1>1, <2>1, HandlesKept
<1>5. FSType'
  BY <1>1, <1>2 DEF FSInv, FSType
<1>6. Progress'
  <2>1. 4 <= 4
    BY SMTT(60)
  <2> QED
    BY <1>1, <1>2, <2>1 DEF Progress
<1> QED
  BY <1>1, <1>2, <1>3, <1>4, <1>5, <1>6 DEF FSInv, A

(* What Remove leaves on the disk, when nothing stops it. *)
RemoveResult(key, A) ==
  /\ Consistent(A)
  /\ \A e \in Used(disk) : DirOf(disk)[e].name # key =>
       e \in Used(A) /\ DirOf(A)[e] = DirOf(disk)[e] /\ HdrOf(A, e) = HdrOf(disk, e)
  /\ \A e \in Used(A) : e \in Used(disk) /\ DirOf(disk)[e].name # key
  /\ \A x \in Sector : x \notin {MapData, DirData1, DirData2} => A[x] = disk[x]

(* What FileSystem::Remove writes, taken together, removes the file it names and no other. *)
LEMMA RemoveWrites ==
  ASSUME FSInv, NEW n \in PathName, RemoveFile(n)
  PROVE  /\ Writes(pending') /\ pending' # <<>> /\ Len(pending') = 3
         /\ RemoveResult(Stored[n], After(disk, pending'))
<1> DEFINE key == Stored[n]
           map0 == MapOf(disk)
           dir0 == DirOf(disk)
           s == Find(dir0, key)
           map == Deallocated(map0, disk[s].hdr) \ {s}
           dir == RemoveEntry(dir0, key)
           a == [sector |-> MapData, content |-> MapSector(map)]
           b == [sector |-> DirData1, content |-> DirectorySectors(dir)[1]]
           c == [sector |-> DirData2, content |-> DirectorySectors(dir)[2]]
           p == pending'
           A == After(disk, p)
<1>1. /\ Consistent(disk) /\ DirFile = DirHdr /\ MapFile = MapHdr /\ FreeMap = map0 /\ Dir = dir0
  BY Quiet, Decode DEF RemoveFile
<1>2. s # -1 /\ p = WriteMap(map) \o WriteDir(dir)
  BY <1>1 DEF RemoveFile, Start
<1>3. dir0 \in [Entry -> DirEntry]
  BY <1>1 DEF Consistent
<1>4. dir \in [Entry -> DirEntry]
  <2>1. FindIndex(dir0, key) \in Entry /\ dir0[FindIndex(dir0, key)].inUse
    BY <1>2, <1>3, FindFacts
  <2> HIDE DEF dir0, key
  <2> QED
    BY <1>3, <2>1, RemoveFacts
<1>5. /\ a.sector = MapData /\ a.content = MapSector(map)
      /\ b.sector = DirData1 /\ b.content = DirectorySectors(dir)[1]
      /\ c.sector = DirData2 /\ c.content = DirectorySectors(dir)[2]
  OBVIOUS
<1>6. WriteMap(map) = <<a>>
  BY <1>1 DEF WriteMap, MapData
<1> HIDE DEF map, dir
<1>7. WriteDir(dir) = <<b, c>>
  <2>1. WriteDir(dir) = [i \in 1 .. 2 |-> [sector |-> DirHdr.data[i], content |-> DirectorySectors(dir)[i]]]
    BY <1>1 DEF WriteDir
  <2> QED
    BY SMTT(60), <2>1 DEF DirData1, DirData2
<1>8. p = <<a>> \o <<b, c>>
  BY <1>2, <1>6, <1>7
<1> HIDE DEF a, b, c, p
<1>9. /\ p \in Seq({a, b, c}) /\ DOMAIN p = {1, 2, 3} /\ Len(p) = 3 /\ p # <<>>
      /\ p[1] = a /\ p[2] = b /\ p[3] = c
  BY SMTT(60), <1>8
<1>10. \A i \in DOMAIN p : p[i].sector \in Sector
  BY <1>5, <1>9, Layout DEF System
<1>11. \A i, j \in DOMAIN p : p[i].sector = p[j].sector => i = j
  <2>1. MapData # DirData1 /\ MapData # DirData2 /\ DirData1 # DirData2
    BY Layout
  <2> QED
    BY SMTT(60), <1>5, <1>9, <2>1
<1>12. Writes(p)
  BY <1>9, <1>10, <1>11, IsWrites
<1>13. 1 \in DOMAIN p /\ 2 \in DOMAIN p /\ 3 \in DOMAIN p
  BY <1>9
<1>14. MapOf(A) = map /\ DirOf(A) = dir
  BY <1>4, <1>5, <1>9, <1>12, <1>13, AfterStructures
<1>15. \A x \in Sector : x \notin {MapData, DirData1, DirData2} => A[x] = disk[x]
  <2> SUFFICES ASSUME NEW x \in Sector, x \notin {MapData, DirData1, DirData2} PROVE A[x] = disk[x]
    OBVIOUS
  <2>1. \A i \in DOMAIN p : p[i].sector # x
    BY <1>5, <1>9
  <2> QED
    BY <2>1, AfterKeeps
<1> HIDE DEF A
<1>16. RemovesFile(disk, A, key)
  BY <1>2, <1>14, <1>15 DEF RemovesFile, map, dir
<1> HIDE DEF key
<1>17. Consistent(A)
  BY <1>1, <1>16, FileRemoved
<1>18. \A e \in Used(disk) : DirOf(disk)[e].name # key =>
         e \in Used(A) /\ DirOf(A)[e] = DirOf(disk)[e] /\ HdrOf(A, e) = HdrOf(disk, e)
  BY SMTT(60), <1>1, <1>16, FileRemoved
<1>19. \A e \in Used(A) : e \in Used(disk) /\ DirOf(disk)[e].name # key
  BY SMTT(60), <1>1, <1>16, FileRemoved
<1>20. RemoveResult(key, A)
  BY <1>15, <1>17, <1>18, <1>19 DEF RemoveResult
<1> QED
  BY <1>9, <1>12, <1>20 DEF p, A, key

(* FileSystem::Remove keeps the inductive invariant. *)
LEMMA RemovePreserves ==
  ASSUME FSInv, NEW n \in PathName, RemoveFile(n)
  PROVE  FSInv'
<1> DEFINE A == After(disk, pending')
           key == Stored[n]
<1>1. /\ up /\ intact /\ Consistent(disk) /\ Handles(open, disk) /\ HandleType(open)
      /\ UNCHANGED <<disk, up, intact>> /\ doing'.op = "remove"
      /\ open' = [h \in Handle |-> [open[h] EXCEPT !.fresh = @ /\ (IsOpen(h) => open[h].key # key)]]
  BY Quiet DEF RemoveFile, Start, FSInv, FSType
<1>2. /\ Writes(pending') /\ pending' # <<>> /\ Len(pending') = 3 /\ RemoveResult(key, A)
  BY RemoveWrites
<1> HIDE DEF A, key
<1>3. ASSUME NEW h \in Handle
      PROVE  /\ open'[h].hdr = open[h].hdr /\ open'[h].key = open[h].key
             /\ open'[h].fresh = (open[h].fresh /\ (IsOpen(h) => open[h].key # key))
             /\ open'[h] \in [hdr : [bytes : Nat, data : Seq(Sector)] \cup {NoHdr}, pos : Nat,
                              key : StoredName, fresh : BOOLEAN]
  <2>1. open'[h] = [open[h] EXCEPT !.fresh = open[h].fresh /\ (IsOpen(h) => open[h].key # key)]
    BY <1>1
  <2>2. open[h] \in [hdr : [bytes : Nat, data : Seq(Sector)] \cup {NoHdr}, pos : Nat,
                     key : StoredName, fresh : BOOLEAN]
    BY <1>1 DEF HandleType
  <2>3. (open[h].fresh /\ (IsOpen(h) => open[h].key # key)) \in BOOLEAN
    OBVIOUS
  <2> QED
    BY <2>1, <2>2, <2>3
<1>4. HandleType(open')
  <2>1. open' = [h \in Handle |-> open'[h]]
    BY SMTT(60), <1>1
  <2>2. open' \in [Handle -> [hdr : [bytes : Nat, data : Seq(Sector)] \cup {NoHdr}, pos : Nat,
                              key : StoredName, fresh : BOOLEAN]]
    BY <1>3, <2>1
  <2> QED
    BY <1>1, <1>3, <2>2 DEF HandleType
<1>5. Handles(open', disk)
  BY <1>1, <1>3 DEF Handles
<1>6. \A h \in Handle : open'[h].hdr # NoHdr /\ open'[h].fresh => open'[h].key # key
  BY <1>3 DEF IsOpen
<1>7. Consistent(A) /\ Handles(open', A)
  <2>1. KeepsOpen(open', disk, A)
    BY <1>2, <1>6 DEF RemoveResult, KeepsOpen
  <2> QED
    BY <1>2, <1>5, <2>1, HandlesKept DEF RemoveResult
<1>8. FSType'
  BY <1>1, <1>2, <1>4 DEF FSInv, FSType
<1>9. Progress'
  <2>1. 3 <= 3
    BY SMTT(60)
  <2> QED
    BY <1>1, <1>2, <2>1 DEF Progress
<1> QED
  BY <1>1, <1>2, <1>7, <1>8, <1>9 DEF FSInv, A

(* OpenFile::Write through a handle: the sectors it writes are the ones of the file. *)
LEMMA WriteWrites ==
  ASSUME FSInv, NEW h \in Handle, NEW from \in Data, Write(h, from)
  PROVE  LET hdr == open[h].hdr
             pos == open[h].pos
             n == Transfer(hdr, Len(from), pos)
             first == pos \div SectorSize
         IN  /\ IsHeader(hdr) /\ pos \in Nat /\ from \in Seq(Int)
             /\ n \in Nat /\ n > 0 /\ n <= Len(from) /\ pos + n <= hdr.bytes
             /\ Writes(pending') /\ pending' # <<>>
             /\ DOMAIN pending' = 1 .. WriteSpan(pos, n)
             /\ \A k \in DOMAIN pending' :
                  /\ first + k \in DOMAIN hdr.data /\ pending'[k].sector = hdr.data[first + k]
                  /\ pending'[k].content = [kind |-> "data",
                       bytes |-> BufferPart(ByteView, hdr, from, n, pos, k)]
<1> DEFINE hdr == open[h].hdr
           pos == open[h].pos
           n == Transfer(hdr, Len(from), pos)
           first == pos \div SectorSize
           c(k) == BufferPart(ByteView, hdr, from, n, pos, k)
           w == WriteAt(ByteView, hdr, from, pos)
           p == pending'
<1>1. HandleType(open) /\ IsOpen(h) /\ n > 0
  BY DEF FSInv, FSType, Write
<1>2. IsHeader(hdr) /\ pos \in Nat /\ from \in Seq(Int)
  BY <1>1, FileSystemAssumption DEF HandleType, IsOpen
<1>3. p = [k \in DOMAIN w |-> [sector |-> w[k].sector, content |-> [kind |-> "data", bytes |-> w[k].content]]]
  BY DEF Write, Start
<1> HIDE DEF hdr, pos, p
<1>4. /\ n \in Nat /\ n <= Len(from) /\ pos + n <= hdr.bytes
      /\ w = [k \in 1 .. WriteSpan(pos, n) |-> [sector |-> hdr.data[first + k], content |-> c(k)]]
  <2>1. n = Transfer(hdr, Len(from), pos)
    OBVIOUS
  <2> HIDE DEF n
  <2>2. /\ n \in Nat /\ n <= Len(from) /\ pos + n <= hdr.bytes
        /\ w = WriteCalls(ByteView, hdr, from, n, pos)
    BY SMTT(60), <1>1, <1>2, <2>1, WriteAtFacts
  <2> QED
    BY <2>2 DEF WriteCalls
<1> HIDE DEF n, c, w
<1>5. /\ WriteSpan(pos, n) \in Nat /\ WriteSpan(pos, n) > 0
      /\ \A k \in 1 .. WriteSpan(pos, n) : first + k \in DOMAIN hdr.data
  BY <1>1, <1>2, <1>4, SpanFacts
<1> DEFINE m == WriteSpan(pos, n)
<1>6. first \in Nat
  BY <1>2, Divide
<1> HIDE DEF first, m
<1>7. p = [k \in 1 .. m |-> [sector |-> hdr.data[first + k], content |-> [kind |-> "data", bytes |-> c(k)]]]
  <2>1. DOMAIN w = 1 .. m /\ \A k \in 1 .. m : w[k].sector = hdr.data[first + k] /\ w[k].content = c(k)
    BY <1>4 DEF m
  <2> QED
    BY <1>3, <2>1
<1>8. /\ DOMAIN p = 1 .. m
      /\ \A k \in 1 .. m : /\ p[k].sector = hdr.data[first + k]
                           /\ p[k].content = [kind |-> "data", bytes |-> c(k)]
  BY <1>7
<1>9. p \in Seq({p[k] : k \in 1 .. m}) /\ p # <<>>
  <2> DEFINE v(k) == [sector |-> hdr.data[first + k], content |-> [kind |-> "data", bytes |-> c(k)]]
  <2>1. p = [k \in 1 .. m |-> v(k)] /\ m \in Nat /\ m > 0
    BY <1>5, <1>7 DEF m
  <2> HIDE DEF v
  <2> QED
    BY SMTT(60), <2>1
<1>10. \A k \in DOMAIN p : first + k \in DOMAIN hdr.data
  BY <1>5, <1>8 DEF m
<1>11. \A k \in DOMAIN p : p[k].sector \in Sector
  <2>1. \A i \in DOMAIN hdr.data : hdr.data[i] \in Sector
    <3>1. hdr.data \in Seq(Sector)
      BY <1>2 DEF IsHeader
    <3> QED
      BY SMTT(60), <3>1
  <2> QED
    BY <1>8, <1>10, <2>1
<1>12. \A i, j \in DOMAIN p : p[i].sector = p[j].sector => i = j
  <2> SUFFICES ASSUME NEW i \in DOMAIN p, NEW j \in DOMAIN p, p[i].sector = p[j].sector
               PROVE  i = j
    OBVIOUS
  <2>1. hdr.data[first + i] = hdr.data[first + j]
    BY <1>8
  <2>2. first + i = first + j
    BY <1>2, <1>10, <2>1 DEF IsHeader
  <2>3. i \in 1 .. m /\ j \in 1 .. m /\ m \in Nat
    BY <1>5, <1>8 DEF m
  <2> QED
    BY SMTT(60), <1>6, <2>2, <2>3
<1>13. Writes(p)
  BY <1>9, <1>11, <1>12, IsWrites
<1> QED
  BY <1>1, <1>2, <1>4, <1>8, <1>9, <1>10, <1>13 DEF hdr, pos, p, n, c, first, m

(* The disk after writes to the data sectors of one file *)
LEMMA DataOnly ==
  ASSUME NEW d, Consistent(d), NEW p, NEW e \in Used(d),
         \A i \in DOMAIN p : p[i].sector \in FileSectors(HdrOf(d, e))
  PROVE  LET A == After(d, p)
         IN  /\ Consistent(A) /\ DirOf(A) = DirOf(d) /\ Used(A) = Used(d)
             /\ \A f \in Used(d) : HdrOf(A, f) = HdrOf(d, f)
<1> DEFINE A == After(d, p)
<1>1. \A i \in DOMAIN p : /\ p[i].sector \notin System
                          /\ \A f \in Used(d) : p[i].sector # DirOf(d)[f].sector
  BY FileFacts
<1>2. \A s \in System : A[s] = d[s]
  <2> TAKE s \in System
  <2>1. s \in Sector /\ \A i \in DOMAIN p : p[i].sector # s
    BY <1>1, Layout
  <2> QED
    BY <2>1, AfterKeeps
<1>3. \A f \in Used(d) : A[DirOf(d)[f].sector] = d[DirOf(d)[f].sector]
  <2> TAKE f \in Used(d)
  <2>1. DirOf(d)[f].sector \in Sector /\ \A i \in DOMAIN p : p[i].sector # DirOf(d)[f].sector
    BY <1>1, FileFacts
  <2> QED
    BY <2>1, AfterKeeps
<1> HIDE DEF A
<1>4. /\ Consistent(A) /\ DirOf(A) = DirOf(d) /\ Used(A) = Used(d)
      /\ \A f \in Used(d) : HdrOf(A, f) = HdrOf(d, f)
  BY <1>2, <1>3, DataWritten
<1> QED
  BY <1>4 DEF A

(* OpenFile::Write keeps the inductive invariant: it changes data sectors of one file only. *)
LEMMA WritePreserves ==
  ASSUME FSInv, NEW h \in Handle, NEW from \in Data, Write(h, from)
  PROVE  FSInv'
<1> DEFINE hdr == open[h].hdr
           pos == open[h].pos
           n == Transfer(hdr, Len(from), pos)
           p == pending'
           A == After(disk, p)
<1>1. /\ up /\ intact /\ Consistent(disk) /\ Handles(open, disk) /\ HandleType(open)
      /\ UNCHANGED <<disk, up>> /\ doing'.op = "write" /\ doing'.key = open[h].key /\ doing.op # "format"
      /\ intact' = open[h].fresh /\ IsOpen(h) /\ open' = [open EXCEPT ![h].pos = @ + n]
  BY Quiet DEF Write, Start, FSInv, FSType, Damage
<1>2. /\ pos \in Nat /\ n \in Nat /\ Writes(p) /\ p # <<>>
      /\ \A k \in DOMAIN p : pos \div SectorSize + k \in DOMAIN hdr.data
                             /\ p[k].sector = hdr.data[pos \div SectorSize + k]
  BY WriteWrites
<1>3. \A k \in DOMAIN p : p[k].sector \in FileSectors(hdr)
  BY <1>2 DEF FileSectors
<1>4. /\ HandleType(open')
      /\ \A g \in Handle : /\ open'[g].hdr = open[g].hdr /\ open'[g].key = open[g].key
                           /\ open'[g].fresh = open[g].fresh
  <2> DEFINE to == pos + n
  <2>1. open' = [open EXCEPT ![h].pos = to]
    BY <1>1
  <2>2. to \in Nat
    <3> HIDE DEF pos, n
    <3> QED
      BY SMTT(60), <1>2
  <2> HIDE DEF to
  <2> QED
    BY <1>1, <2>1, <2>2, Moved
<1>5. Handles(open', disk)
  BY <1>1, <1>4 DEF Handles
<1>6. intact' \in BOOLEAN
  BY <1>1 DEF HandleType
<1>7. FSType'
  BY <1>1, <1>2, <1>4, <1>6 DEF FSInv, FSType
<1>8. ASSUME intact' PROVE Consistent(A) /\ Handles(open', A) /\ Progress'
  <2>1. \E e \in Used(disk) : DirOf(disk)[e].name = open[h].key /\ hdr = HdrOf(disk, e)
    BY <1>1, <1>8 DEF Handles, IsOpen
  <2>2. PICK e \in Used(disk) : DirOf(disk)[e].name = open[h].key /\ hdr = HdrOf(disk, e)
    BY <2>1
  <2>3. \A k \in DOMAIN p : p[k].sector \in FileSectors(HdrOf(disk, e))
    BY <1>3, <2>2
  <2> HIDE DEF p, A
  <2>4. /\ Consistent(A) /\ DirOf(A) = DirOf(disk) /\ Used(A) = Used(disk)
        /\ \A f \in Used(disk) : HdrOf(A, f) = HdrOf(disk, f)
    BY <1>1, <2>3, DataOnly DEF A
  <2>5. KeepsOpen(open', disk, A)
    BY <2>4 DEF KeepsOpen
  <2>6. Handles(open', A)
    BY <1>5, <2>5, HandlesKept
  <2>7. Progress'
    BY <1>1, <2>2, <2>3 DEF Progress, p
  <2> QED
    BY <2>4, <2>6, <2>7
<1> HIDE DEF A
<1>9. A = After(disk, pending)'
  BY <1>1 DEF A
<1> QED
  BY <1>1, <1>2, <1>7, <1>8, <1>9 DEF FSInv

(* Every step keeps the inductive invariant, one lemma per operation. *)
LEMMA FSStep == FSInv /\ [FSNext]_fsvars => FSInv'
<1> SUFFICES ASSUME FSInv, [FSNext]_fsvars PROVE FSInv'
  OBVIOUS
<1>1. CASE Format
  BY <1>1, FormatPreserves
<1>2. CASE Restart
  BY <1>2, RestartPreserves
<1>3. CASE WriteSector
  BY <1>3, WriteSectorPreserves
<1>4. CASE Stop
  BY <1>4, StopPreserves
<1>5. ASSUME NEW n \in PathName, RemoveFile(n) PROVE FSInv'
  BY <1>5, RemovePreserves
<1>6. ASSUME NEW n \in PathName, NEW size \in Size, Create(n, size) PROVE FSInv'
  BY <1>6, CreatePreserves
<1>7. ASSUME NEW h \in Handle, Close(h) PROVE FSInv'
  BY <1>7, ClosePreserves
<1>8. ASSUME NEW h \in Handle, NEW n \in PathName, Open(h, n) PROVE FSInv'
  BY <1>8, OpenPreserves
<1>9. ASSUME NEW h \in Handle, NEW p \in SeekTo, Seek(h, p) PROVE FSInv'
  BY <1>9, SeekPreserves
<1>10. ASSUME NEW h \in Handle, NEW from \in Data, Read(h, Len(from)) PROVE FSInv'
  <2>1. Len(from) \in Nat
    BY SMTT(60), FileSystemAssumption
  <2> QED
    BY <1>10, <2>1, ReadPreserves
<1>11. ASSUME NEW h \in Handle, NEW from \in Data, Write(h, from) PROVE FSInv'
  BY <1>11, WritePreserves
<1>12. CASE UNCHANGED fsvars
  BY <1>12 DEF fsvars, FSInv, FSType, InWindow, Progress, IsOpen
<1> QED
  BY <1>1, <1>2, <1>3, <1>4, <1>5, <1>6, <1>7, <1>8, <1>9, <1>10, <1>11, <1>12 DEF FSNext

(* The inductive invariant implies the property: a disk that is intact and outside the window is consistent. *)
LEMMA FSInvMetadata == FSInv => MetadataConsistent
<1> SUFFICES ASSUME FSInv, intact, ~InWindow
             PROVE  LET Sectors(e) == {Dir[e].sector} \cup FileSectors(disk[Dir[e].sector].hdr)
                    IN  /\ \A e \in InUse : /\ disk[Dir[e].sector].kind = "header"
                                            /\ Dir[e].sector \notin FileSectors(disk[Dir[e].sector].hdr)
                                            /\ Sectors(e) \cap SystemSectors = {}
                        /\ \A e, f \in InUse : e # f => /\ Dir[e].name # Dir[f].name
                                                        /\ Sectors(e) \cap Sectors(f) = {}
                        /\ FreeMap = SystemSectors \cup UNION {Sectors(e) : e \in InUse}
  BY DEF MetadataConsistent
<1>1. Consistent(disk)
  BY DEF FSInv
<1>2. FreeMap = MapOf(disk) /\ Dir = DirOf(disk) /\ InUse = Used(disk) /\ SystemSectors = System
  BY <1>1, Decode
<1> DEFINE Sectors(e) == {Dir[e].sector} \cup FileSectors(disk[Dir[e].sector].hdr)
<1>3. \A e \in InUse : Sectors(e) = Owned(disk, e)
  BY <1>2 DEF Owned, HdrOf
<1>4. \A e \in InUse : /\ disk[Dir[e].sector].kind = "header"
                       /\ Dir[e].sector \notin FileSectors(disk[Dir[e].sector].hdr)
  BY <1>1, <1>2 DEF Consistent, IsFile, HdrOf
<1> HIDE DEF Sectors
<1>5. \A e \in InUse : Sectors(e) \cap SystemSectors = {}
  BY <1>1, <1>2, <1>3 DEF Consistent, IsFile
<1>6. \A e, f \in InUse : e # f => /\ Dir[e].name # Dir[f].name
                                   /\ Sectors(e) \cap Sectors(f) = {}
  BY <1>1, <1>2, <1>3 DEF Consistent
<1>7. FreeMap = SystemSectors \cup UNION {Sectors(e) : e \in InUse}
  <2>1. MapOf(disk) = System \cup UNION {Owned(disk, e) : e \in Used(disk)}
    BY <1>1 DEF Consistent
  <2>2. UNION {Sectors(e) : e \in InUse} = UNION {Owned(disk, e) : e \in Used(disk)}
    BY <1>2, <1>3
  <2> QED
    BY <1>2, <2>1, <2>2
<1> QED
  BY <1>4, <1>5, <1>6, <1>7 DEF Sectors

(* theorem *)
THEOREM FilesConsistent == FSSpec => []MetadataConsistent
<1>1. FSInit => FSInv
  BY FSInitial
<1>2. FSInv /\ [FSNext]_fsvars => FSInv'
  BY FSStep
<1>3. FSInv => MetadataConsistent
  BY FSInvMetadata
<1> QED
  BY <1>1, <1>2, <1>3, PTL DEF FSSpec

-----------------------------------------------------------------------------
(* The bytes of the files, and the operations that keep them. *)

(* What the bytes of a file read: the byte i of a file, and the files of a disk whose     *)
(* bytes are what w says, those of the names in X excepted.                               *)
View(c) == IF c.kind = "data" THEN c.bytes ELSE Blank.bytes

(* Byte i of the file with this header. *)
ByteOf(d, hdr, i) ==
  View(d[hdr.data[((i - 1) \div SectorSize) + 1]])[((i - 1) % SectorSize) + 1]

(* The file's bytes are these, where it is known what they should be (Garbage: never written). *)
Holds(d, hdr, content) == \A i \in 1 .. hdr.bytes : content[i] \in {ByteOf(d, hdr, i), Garbage}

(* Every file but those in X holds what the history w says. *)
DiskHolds(d, w, X) ==
  \A e \in Used(d) :
    LET k == DirOf(d)[e].name
    IN  /\ DOMAIN w[k] = 1 .. HdrOf(d, e).bytes
        /\ k \notin X => Holds(d, HdrOf(d, e), w[k])

(* The file whose data sectors are being written. *)
Writing == IF doing.op = "write" THEN {doing.key} ELSE {}

(* The history once the operation under way is done. *)
WillBe == [written EXCEPT ![doing.key] = doing.after]

(* What the reads rest on: the disk holds the history between operations, and the sectors *)
(* still to be written will make it hold the history after the operation.                 *)
ReadsInv ==
  /\ written = [k \in StoredName |-> written[k]]
  /\ pending = <<>> => doing.op = "none"
  /\ pending # <<>> => doing.key \in StoredName
  /\ doing.op = "format" => Used(After(disk, pending)) = {}
  /\ intact /\ ~InWindow => DiskHolds(disk, written, Writing)
  /\ intact /\ pending # <<>> => DiskHolds(After(disk, pending), WillBe, {})

(* Each byte of a file lies in one of its sectors. *)
LEMMA ByteInFile ==
  ASSUME NEW hdr, IsHeader(hdr), NEW i \in 1 .. hdr.bytes
  PROVE  /\ i - 1 \in Nat /\ i - 1 < hdr.bytes
         /\ ((i - 1) \div SectorSize) + 1 \in DOMAIN hdr.data
         /\ hdr.data[((i - 1) \div SectorSize) + 1] \in FileSectors(hdr)
<1> DEFINE j == i - 1
           q == j \div SectorSize
<1>1. hdr.bytes \in Nat /\ hdr.data \in Seq(Sector) /\ Len(hdr.data) = SectorsFor(hdr.bytes)
  BY DEF IsHeader
<1>2. j \in Nat /\ j < hdr.bytes
  BY SMTT(60), <1>1
<1> HIDE DEF j
<1>3. q \in Nat /\ q + 1 <= Len(hdr.data)
  BY <1>1, <1>2, Divide, OffsetInFile
<1> HIDE DEF q
<1>4. q + 1 \in DOMAIN hdr.data
  BY SMTT(60), <1>1, <1>3
<1>5. hdr.data[q + 1] \in FileSectors(hdr)
  BY <1>4 DEF FileSectors
<1> QED
  BY <1>2, <1>4, <1>5 DEF j, q

(* A file whose sectors do not change keeps its bytes. *)
LEMMA HoldsKept ==
  ASSUME NEW d, NEW d2, NEW hdr, IsHeader(hdr), NEW c, Holds(d, hdr, c),
         \A s \in FileSectors(hdr) : d2[s] = d[s]
  PROVE  Holds(d2, hdr, c)
<1> SUFFICES ASSUME NEW i \in 1 .. hdr.bytes PROVE c[i] \in {ByteOf(d2, hdr, i), Garbage}
  BY DEF Holds
<1>1. hdr.data[((i - 1) \div SectorSize) + 1] \in FileSectors(hdr)
  BY ByteInFile
<1>2. ByteOf(d2, hdr, i) = ByteOf(d, hdr, i)
  BY <1>1 DEF ByteOf
<1> QED
  BY <1>2 DEF Holds

(* A file of which nothing is known holds whatever it holds. *)
LEMMA HoldsGarbage ==
  ASSUME NEW d, NEW hdr, NEW c, \A i \in 1 .. hdr.bytes : c[i] = Garbage
  PROVE  Holds(d, hdr, c)
  BY DEF Holds

(* A file of d that is a file of d2 with the same bytes *)
SameFile(d, d2, e) ==
  /\ e \in Used(d) /\ DirOf(d2)[e] = DirOf(d)[e] /\ HdrOf(d2, e) = HdrOf(d, e)
  /\ \A s \in FileSectors(HdrOf(d, e)) : d2[s] = d[s]

(* The file of entry e holds what the history w says of it. *)
HeldAt(d, e, w, X) ==
  LET k == DirOf(d)[e].name
  IN  /\ DOMAIN w[k] = 1 .. HdrOf(d, e).bytes
      /\ k \notin X => Holds(d, HdrOf(d, e), w[k])

(* A file that no step touches holds after it what it held before. *)
LEMMA FileHeld ==
  ASSUME NEW d, Consistent(d), NEW d2, NEW e, SameFile(d, d2, e), NEW w, NEW X, DiskHolds(d, w, X)
  PROVE  HeldAt(d2, e, w, X)
<1> DEFINE k == DirOf(d2)[e].name
           hdr == HdrOf(d2, e)
<1>1. e \in Used(d) /\ DirOf(d)[e].name = k /\ HdrOf(d, e) = hdr
  BY DEF SameFile
<1>2. IsHeader(hdr)
  BY <1>1, FileFacts
<1>3. DOMAIN w[k] = 1 .. hdr.bytes /\ (k \notin X => Holds(d, hdr, w[k]))
  BY <1>1 DEF DiskHolds
<1>4. \A s \in FileSectors(hdr) : d2[s] = d[s]
  BY <1>1 DEF SameFile
<1> HIDE DEF k, hdr
<1>5. k \notin X => Holds(d2, hdr, w[k])
  BY <1>2, <1>3, <1>4, HoldsKept
<1> QED
  BY <1>3, <1>5 DEF k, hdr, HeldAt

(* Nothing is said of a disk that was never formatted. *)
LEMMA ReadsInitial == FSInit => ReadsInv
<1> SUFFICES ASSUME FSInit PROVE ReadsInv
  OBVIOUS
<1>1. written = [k \in StoredName |-> written[k]]
  BY SMTT(60) DEF FSInit
<1>2. pending = <<>> /\ intact = FALSE /\ doing.op = "none" /\ doing.op # "format"
  BY DEF FSInit, Idle
<1> QED
  BY <1>1, <1>2 DEF ReadsInv

(* The steps that change neither the disk nor what is pending. *)
LEMMA ReadsUnchanged ==
  ASSUME ReadsInv, UNCHANGED <<disk, pending, doing, intact, written>>
  PROVE  ReadsInv'
  BY DEF ReadsInv, InWindow, Writing, WillBe

(* FileSystem::FileSystem(format) leaves no file that could be read. *)
LEMMA FormatReads ==
  ASSUME FSInv, ReadsInv, Format
  PROVE  ReadsInv'
<1>1. Used(After(disk', pending')) = {} /\ FSInv'
  BY FormatPreserves
<1>2. /\ doing'.op = "format" /\ doing'.key \in StoredName /\ intact' = FALSE
      /\ written' = [k \in StoredName |-> <<>>]
  BY SomeName DEF Format, Start, Idle
<1>3. written' = [k \in StoredName |-> written'[k]]
  BY SMTT(60), <1>2
<1>4. pending' # <<>>
  BY <1>1, <1>2 DEF FSInv
<1> QED
  BY <1>1, <1>2, <1>3, <1>4 DEF ReadsInv

(* A stop of the machine inside the window gives the disk up; outside it nothing is lost. *)
LEMMA StopReads ==
  ASSUME FSInv, ReadsInv, Stop
  PROVE  ReadsInv'
<1>1. /\ disk' = disk /\ pending' = <<>> /\ doing' = Idle /\ intact' = (intact /\ ~InWindow)
      /\ written' = [k \in StoredName |-> IF doing.op = "write" /\ doing.key = k
                                          THEN [i \in DOMAIN written[k] |-> Garbage] ELSE written[k]]
  BY DEF Stop
<1>2. written' = [k \in StoredName |-> written'[k]]
  BY SMTT(60), <1>1
<1>3. doing'.op = "none" /\ doing'.op # "format" /\ doing'.op # "write"
  BY <1>1 DEF Idle
<1>4. ASSUME intact' PROVE DiskHolds(disk, written', {})
  <2>1. Consistent(disk) /\ DiskHolds(disk, written, Writing)
    BY <1>1, <1>4 DEF FSInv, ReadsInv
  <2> SUFFICES ASSUME NEW e \in Used(disk)
               PROVE  LET k == DirOf(disk)[e].name
                      IN  /\ DOMAIN written'[k] = 1 .. HdrOf(disk, e).bytes
                          /\ Holds(disk, HdrOf(disk, e), written'[k])
    BY DEF DiskHolds
  <2> DEFINE k == DirOf(disk)[e].name
             hdr == HdrOf(disk, e)
  <2>2. k \in StoredName
    BY <2>1, FileFacts DEF DirEntry
  <2>3. DOMAIN written[k] = 1 .. hdr.bytes /\ (k \notin Writing => Holds(disk, hdr, written[k]))
    BY <2>1 DEF DiskHolds
  <2> HIDE DEF k, hdr
  <2>4. CASE doing.op = "write" /\ doing.key = k
    <3>1. written'[k] = [i \in DOMAIN written[k] |-> Garbage]
      BY <1>1, <2>2, <2>4
    <3>2. DOMAIN written'[k] = 1 .. hdr.bytes /\ \A i \in 1 .. hdr.bytes : written'[k][i] = Garbage
      BY <2>3, <3>1
    <3> QED
      BY <3>2, HoldsGarbage DEF k, hdr
  <2>5. CASE ~ (doing.op = "write" /\ doing.key = k)
    <3>1. written'[k] = written[k] /\ k \notin Writing
      BY <1>1, <2>2, <2>5 DEF Writing
    <3> QED
      BY <2>3, <3>1 DEF k, hdr
  <2> QED
    BY <2>4, <2>5
<1>5. Writing' = {}
  BY <1>3 DEF Writing
<1> QED
  BY <1>1, <1>2, <1>3, <1>4, <1>5 DEF ReadsInv

(* What ReadSector copies from a sector. *)
LEMMA ViewOf ==
  ASSUME Consistent(disk), NEW s \in Sector
  PROVE  ByteView[s] = View(disk[s])
  BY DEF ByteView, View

(* Changing the history of one name leaves the others. *)
LEMMA OtherName ==
  ASSUME NEW w, w = [k \in StoredName |-> w[k]], NEW key \in StoredName, NEW c
  PROVE  LET v == [w EXCEPT ![key] = c]
         IN  /\ v = [k \in StoredName |-> v[k]] /\ v[key] = c
             /\ \A k \in StoredName : k # key => v[k] = w[k]
<1> DEFINE v == [w EXCEPT ![key] = c]
<1>1. v = [k \in StoredName |-> v[k]]
  BY SMTT(60)
<1>2. v[key] = c /\ \A k \in StoredName : k # key => v[k] = w[k]
  BY SMTT(60)
<1> QED
  BY <1>1, <1>2

(* Files of a disk of which one sector is written *)
LEMMA FilesHeld ==
  ASSUME NEW d, Consistent(d), NEW d2, NEW w, NEW X, DiskHolds(d, w, X), Used(d2) = Used(d),
         NEW Y, X \subseteq Y, DirOf(d2) = DirOf(d),
         \A e \in Used(d) : HdrOf(d2, e) = HdrOf(d, e),
         \A e \in Used(d) : DirOf(d)[e].name \notin Y => \A s \in FileSectors(HdrOf(d, e)) : d2[s] = d[s]
  PROVE  DiskHolds(d2, w, Y)
<1> SUFFICES ASSUME NEW e \in Used(d2)
             PROVE  LET k == DirOf(d2)[e].name
                    IN  /\ DOMAIN w[k] = 1 .. HdrOf(d2, e).bytes
                        /\ k \notin Y => Holds(d2, HdrOf(d2, e), w[k])
  BY DEF DiskHolds
<1> DEFINE k == DirOf(d2)[e].name
           hdr == HdrOf(d2, e)
<1>1. e \in Used(d) /\ hdr = HdrOf(d, e) /\ k = DirOf(d)[e].name
  OBVIOUS
<1>2. DOMAIN w[k] = 1 .. hdr.bytes /\ (k \notin X => Holds(d, hdr, w[k]))
  BY <1>1 DEF DiskHolds
<1>3. IsHeader(hdr)
  BY <1>1, FileFacts
<1>4. k \notin Y => \A s \in FileSectors(hdr) : d2[s] = d[s]
  BY <1>1
<1> HIDE DEF k, hdr
<1>5. ASSUME k \notin Y PROVE Holds(d2, hdr, w[k])
  BY <1>2, <1>3, <1>4, <1>5, HoldsKept
<1> QED
  BY <1>2, <1>5 DEF k, hdr

(* The last WriteSector of an operation makes the disk hold the new history; the others leave the files *)
(* that are not being written as they were.                                                             *)
LEMMA WriteSectorReads ==
  ASSUME FSInv, ReadsInv, WriteSector
  PROVE  ReadsInv'
<1> DEFINE p == pending
           t == Tail(pending)
           s == pending[1].sector
<1>1. /\ p # <<>> /\ pending' = t
      /\ disk' = [disk EXCEPT ![Head(p).sector] = Head(p).content]
  BY DEF WriteSector
<1>2. disk = [x \in Sector |-> disk[x]] /\ Writes(p) /\ FSInv'
  BY WriteSectorPreserves DEF FSInv, FSType
<1>3. Head(p) = p[1] /\ 1 \in DOMAIN p /\ s \in Sector
      /\ Len(p) \in Nat /\ Len(t) = Len(p) - 1 /\ Writes(t)
  BY <1>1, <1>2, FirstWrite
<1>4. After(disk, pending)' = After(disk, pending)
  <2>1. DOMAIN disk = Sector
    BY <1>2
  <2> QED
    BY <1>1, <1>2, <2>1, AfterStep
<1>5. doing.key \in StoredName /\ written = [k \in StoredName |-> written[k]]
  BY <1>1 DEF ReadsInv
<1>6. CASE t = <<>>
  <2>1. doing' = Idle /\ intact' = (intact \/ doing.op = "format") /\ written' = WillBe
    BY <1>6 DEF WriteSector, WillBe
  <2>2. doing'.op = "none" /\ doing'.op # "format" /\ Writing' = {}
    BY <2>1 DEF Idle, Writing
  <2>3. After(disk, pending)' = disk'
    <3>1. disk' = [x \in Sector |-> disk'[x]]
      BY <1>2 DEF FSInv, FSType
    <3> QED
      BY <1>1, <1>6, <3>1, AfterNothing
  <2>4. written' = [k \in StoredName |-> written'[k]]
    BY <1>5, <2>1, OtherName DEF WillBe
  <2>5. ASSUME intact' PROVE DiskHolds(disk', written', {})
    <3>1. CASE intact
      BY <1>1, <1>4, <2>1, <2>3, <3>1 DEF ReadsInv
    <3>2. CASE doing.op = "format"
      <4>1. Used(disk') = {}
        BY <1>4, <2>3, <3>2 DEF ReadsInv
      <4> QED
        BY <4>1 DEF DiskHolds
    <3> QED
      BY <2>1, <2>5, <3>1, <3>2
  <2>6. pending' = <<>>
    BY <1>1, <1>6
  <2> QED
    BY <2>2, <2>4, <2>5, <2>6 DEF ReadsInv
<1>7. CASE t # <<>>
  <2>1. doing' = doing /\ intact' = intact /\ written' = written /\ pending' # <<>>
    BY <1>1, <1>7 DEF WriteSector
  <2>2. Writing' = Writing /\ WillBe' = WillBe
    BY <2>1 DEF Writing, WillBe
  <2>3. ASSUME intact, ~InWindow' PROVE DiskHolds(disk', written, Writing)
    <3>1. Len(t) \in Nat /\ Len(t) >= 1
      <4>1. Len(t) \in Nat /\ DOMAIN t = 1 .. Len(t) /\ 1 \in DOMAIN t
        BY <1>3, <1>7, FirstWrite
      <4> HIDE DEF t
      <4> QED
        BY SMTT(60), <4>1
    <3>2. Progress
      BY <1>1, <2>3 DEF FSInv
    <3>3. doing.op # "remove" /\ (doing.op = "create" => Len(p) = 4 /\ s \notin MapOf(disk))
      <4>1. Len(t) \notin 1 .. 2 \/ doing.op \notin {"create", "remove"}
        BY <1>1, <2>1, <2>3 DEF InWindow
      <4>2. /\ doing.op = "create" => Len(p) <= 4 /\ (Len(p) = 4 => s \notin MapOf(disk))
            /\ doing.op = "remove" => Len(p) <= 3
        BY <3>2 DEF Progress
      <4>3. doing.op # "remove"
        <5> SUFFICES ASSUME doing.op = "remove" PROVE FALSE
          OBVIOUS
        <5>1. Len(t) \notin 1 .. 2 /\ Len(p) <= 3
          BY <4>1, <4>2
        <5> HIDE DEF p, t
        <5> QED
          BY <1>3, <3>1, <5>1, OneFewer
      <4>4. ASSUME doing.op = "create" PROVE Len(p) = 4
        <5>1. Len(t) \notin 1 .. 2 /\ Len(p) <= 4
          BY <4>1, <4>2, <4>4
        <5> HIDE DEF p, t
        <5> QED
          BY <1>3, <3>1, <5>1, OneFewer
      <4> QED
        BY <4>2, <4>3, <4>4
    <3>4. ~InWindow
      <4>1. 4 \notin 1 .. 2
        BY SMTT(60)
      <4> QED
        BY <3>3, <4>1 DEF InWindow
    <3>5. Consistent(disk) /\ DiskHolds(disk, written, Writing)
      BY <2>3, <3>4 DEF FSInv, ReadsInv
    <3>6. \A x \in Sector : x # s => disk'[x] = disk[x]
      BY <1>1, <1>2, <1>3
    <3>7. /\ s \notin System /\ (\A e \in Used(disk) : s # DirOf(disk)[e].sector)
          /\ \A e \in Used(disk) : DirOf(disk)[e].name \notin Writing => s \notin FileSectors(HdrOf(disk, e))
      <4>1. CASE doing.op = "create"
        <5>1. s \notin MapOf(disk)
          BY <3>3, <4>1
        <5>2. \A e \in Used(disk) : s \notin Owned(disk, e)
          BY <3>5, <5>1, FileFacts
        <5> QED
          BY <3>5, <5>1, <5>2 DEF Consistent, Owned
      <4>2. CASE doing.op = "write"
        <5>1. PICK e \in Used(disk) : /\ DirOf(disk)[e].name = doing.key
                                      /\ \A i \in DOMAIN p : p[i].sector \in FileSectors(HdrOf(disk, e))
          BY <3>2, <4>2 DEF Progress
        <5>2. s \in FileSectors(HdrOf(disk, e))
          BY <1>3, <5>1
        <5>3. s \notin System /\ \A f \in Used(disk) : s # DirOf(disk)[f].sector
          BY <3>5, <5>2, FileFacts
        <5>4. ASSUME NEW f \in Used(disk), DirOf(disk)[f].name \notin Writing
              PROVE  s \notin FileSectors(HdrOf(disk, f))
          <6>1. f # e
            BY <4>2, <5>1, <5>4 DEF Writing
          <6>2. Owned(disk, e) \cap Owned(disk, f) = {}
            BY <3>5, <6>1 DEF Consistent
          <6> QED
            BY <5>2, <6>2 DEF Owned
        <5> QED
          BY <5>3, <5>4
      <4> QED
        BY <3>2, <3>3, <4>1, <4>2 DEF Progress
    <3> HIDE DEF s
    <3>8. /\ DirOf(disk') = DirOf(disk) /\ Used(disk') = Used(disk)
          /\ \A e \in Used(disk) : HdrOf(disk', e) = HdrOf(disk, e)
      BY <1>3, <3>5, <3>6, <3>7, OneDataSector
    <3>9. \A e \in Used(disk) : DirOf(disk)[e].name \notin Writing =>
            \A x \in FileSectors(HdrOf(disk, e)) : disk'[x] = disk[x]
      BY <3>5, <3>6, <3>7, FileFacts
    <3> QED
      BY <3>5, <3>8, <3>9, FilesHeld
  <2> QED
    BY <1>1, <1>4, <1>5, <2>1, <2>2, <2>3 DEF ReadsInv
<1> QED
  BY <1>6, <1>7

(* FileSystem::Create: the new file's bytes are unknown, the others' are untouched. *)
LEMMA CreateReads ==
  ASSUME FSInv, ReadsInv, NEW n \in PathName, NEW size \in Size, Create(n, size)
  PROVE  ReadsInv'
<1> DEFINE A == After(disk, pending')
           key == Stored[n]
           after == [i \in 1 .. size |-> Garbage]
           w == [written EXCEPT ![key] = after]
<1>1. /\ intact /\ ~InWindow /\ Consistent(disk) /\ pending = <<>>
      /\ UNCHANGED <<disk, intact, written>> /\ doing'.op = "create" /\ doing'.key = key
      /\ doing'.after = after
  BY Quiet DEF Create, Start
<1>2. pending' # <<>> /\ \E s, hdr : CreateFacts(n, size, s, hdr, A)
  BY CreateWrites
<1>3. PICK s, hdr : CreateFacts(n, size, s, hdr, A)
  BY <1>2
<1>4. key \in StoredName /\ written = [k \in StoredName |-> written[k]]
  BY DEF StoredName, ReadsInv
<1>5. Writing = {} /\ Writing' = {}
  BY <1>1 DEF Writing, ReadsInv
<1>6. DiskHolds(disk, written, {})
  BY <1>1, <1>5 DEF ReadsInv
<1>7. w[key] = after /\ \A k \in StoredName : k # key => w[k] = written[k]
  BY SMTT(60), <1>4, OtherName
<1>8. DOMAIN after = 1 .. size /\ \A i \in 1 .. size : after[i] = Garbage
  OBVIOUS
<1> HIDE DEF A, key, after, w
<1>9. ASSUME NEW e \in Used(A)
      PROVE  LET k == DirOf(A)[e].name
             IN  /\ DOMAIN w[k] = 1 .. HdrOf(A, e).bytes
                 /\ Holds(A, HdrOf(A, e), w[k])
  <2>1. CASE e \in Used(disk)
    <3>1. /\ DirOf(A)[e] = DirOf(disk)[e] /\ HdrOf(A, e) = HdrOf(disk, e) /\ DirOf(disk)[e].name # key
      BY <1>3, <2>1 DEF CreateFacts, key
    <3>2. \A x \in FileSectors(HdrOf(disk, e)) : x \in Sector /\ x \notin {s, MapData, DirData1, DirData2}
      <4>1. \A x \in FileSectors(HdrOf(disk, e)) : x \in Sector /\ x \notin System /\ x \in MapOf(disk)
        BY <1>1, <2>1, FileFacts DEF Owned
      <4>2. s \notin MapOf(disk)
        BY <1>3 DEF CreateFacts
      <4> QED
        BY <4>1, <4>2 DEF System
    <3>3. \A x \in FileSectors(HdrOf(disk, e)) : A[x] = disk[x]
      BY <1>3, <3>2 DEF CreateFacts
    <3>4. SameFile(disk, A, e)
      BY <2>1, <3>1, <3>3 DEF SameFile
    <3>5. /\ DOMAIN written[DirOf(A)[e].name] = 1 .. HdrOf(A, e).bytes
          /\ Holds(A, HdrOf(A, e), written[DirOf(A)[e].name])
      <4>1. HeldAt(A, e, written, {})
        BY <1>1, <1>6, <3>4, FileHeld
      <4> QED
        BY <4>1 DEF HeldAt
    <3>6. DirOf(A)[e].name \in StoredName /\ DirOf(A)[e].name # key
      BY <1>1, <2>1, <3>1, FileFacts DEF DirEntry
    <3>7. w[DirOf(A)[e].name] = written[DirOf(A)[e].name]
      BY <1>7, <3>6
    <3> QED
      BY <3>5, <3>7
  <2>2. CASE e \notin Used(disk)
    <3>1. DirOf(A)[e].name = key /\ HdrOf(A, e) = hdr /\ hdr.bytes = size
      BY <1>3, <2>2 DEF CreateFacts, key
    <3>2. Holds(A, hdr, after)
      BY <1>8, <3>1, HoldsGarbage
    <3> QED
      BY <1>7, <1>8, <3>1, <3>2
  <2> QED
    BY <2>1, <2>2
<1>10. DiskHolds(A, w, {})
  BY <1>9 DEF DiskHolds
<1>11. After(disk, pending)' = A /\ WillBe' = w
  BY <1>1 DEF A, WillBe, w
<1>12. doing'.op # "format"
  BY <1>1
<1>13. written' = [k \in StoredName |-> written'[k]]
  BY <1>1, <1>4
<1> QED
  BY <1>1, <1>2, <1>4, <1>5, <1>6, <1>10, <1>11, <1>12, <1>13 DEF ReadsInv

(* FileSystem::Remove: the other files' bytes are untouched. *)
LEMMA RemoveReads ==
  ASSUME FSInv, ReadsInv, NEW n \in PathName, RemoveFile(n)
  PROVE  ReadsInv'
<1> DEFINE A == After(disk, pending')
           key == Stored[n]
           w == [written EXCEPT ![key] = <<>>]
<1>1. /\ intact /\ ~InWindow /\ Consistent(disk) /\ pending = <<>>
      /\ UNCHANGED <<disk, intact, written>> /\ doing'.op = "remove" /\ doing'.key = key
      /\ doing'.after = <<>>
  BY Quiet DEF RemoveFile, Start
<1>2. pending' # <<>> /\ RemoveResult(key, A)
  BY RemoveWrites
<1>3. key \in StoredName /\ written = [k \in StoredName |-> written[k]]
  BY DEF StoredName, ReadsInv
<1>4. Writing = {} /\ Writing' = {}
  BY <1>1 DEF Writing, ReadsInv
<1>5. DiskHolds(disk, written, {})
  BY <1>1, <1>4 DEF ReadsInv
<1>6. \A k \in StoredName : k # key => w[k] = written[k]
  BY SMTT(60), <1>3, OtherName
<1> HIDE DEF A, key, w
<1>7. ASSUME NEW e \in Used(A)
      PROVE  LET k == DirOf(A)[e].name
             IN  /\ DOMAIN w[k] = 1 .. HdrOf(A, e).bytes
                 /\ Holds(A, HdrOf(A, e), w[k])
  <2>1. /\ e \in Used(disk) /\ DirOf(A)[e] = DirOf(disk)[e] /\ HdrOf(A, e) = HdrOf(disk, e)
        /\ DirOf(disk)[e].name # key
    BY <1>2 DEF RemoveResult
  <2>2. \A x \in FileSectors(HdrOf(disk, e)) : x \in Sector /\ x \notin {MapData, DirData1, DirData2}
    BY <1>1, <2>1, FileFacts DEF System
  <2>3. \A x \in FileSectors(HdrOf(disk, e)) : A[x] = disk[x]
    BY <1>2, <2>2 DEF RemoveResult
  <2>4. SameFile(disk, A, e)
    BY <2>1, <2>3 DEF SameFile
  <2>5. /\ DOMAIN written[DirOf(A)[e].name] = 1 .. HdrOf(A, e).bytes
        /\ Holds(A, HdrOf(A, e), written[DirOf(A)[e].name])
    <3>1. HeldAt(A, e, written, {})
      BY <1>1, <1>5, <2>4, FileHeld
    <3> QED
      BY <3>1 DEF HeldAt
  <2>6. DirOf(A)[e].name \in StoredName /\ DirOf(A)[e].name # key
    BY <1>1, <2>1, FileFacts DEF DirEntry
  <2>7. w[DirOf(A)[e].name] = written[DirOf(A)[e].name]
    BY <1>6, <2>6
  <2> QED
    BY <2>5, <2>7
<1>8. DiskHolds(A, w, {})
  BY <1>7 DEF DiskHolds
<1>9. After(disk, pending)' = A /\ WillBe' = w
  BY <1>1 DEF A, WillBe, w
<1>10. doing'.op # "format"
  BY <1>1
<1>11. written' = [k \in StoredName |-> written'[k]]
  BY <1>1, <1>3
<1> QED
  BY <1>1, <1>2, <1>3, <1>4, <1>5, <1>8, <1>9, <1>10, <1>11 DEF ReadsInv

(* Each write ends up on the disk. *)
Lands(d, p, i) == After(d, p)[p[i].sector] = p[i].content

(* When no sector is written twice, every call lands. *)
LEMMA AllLand ==
  ASSUME NEW d, NEW p, Writes(p)
  PROVE  \A i \in DOMAIN p : Lands(d, p, i)
  BY SMTT(60), AfterWrites DEF Lands

(* What ReadSector copies from a sector of file data. *)
LEMMA ViewData ==
  ASSUME NEW b
  PROVE  View([kind |-> "data", bytes |-> b]) = b
  BY DEF View

(* The writes p of a request: each to its sector of the file, what the buffer holds of it *)
WritesRequest(p, hdr, from, n, pos) ==
  /\ Writes(p) /\ DOMAIN p = 1 .. WriteSpan(pos, n)
  /\ \A k \in DOMAIN p :
       /\ (pos \div SectorSize) + k \in DOMAIN hdr.data
       /\ p[k].sector = hdr.data[(pos \div SectorSize) + k]
       /\ p[k].content = [kind |-> "data", bytes |-> BufferPart(ByteView, hdr, from, n, pos, k)]

(* Byte i after the request. *)
Overwritten(old, from, n, pos, i) == IF i - pos \in 1 .. n THEN from[i - pos] ELSE old[i]

(* After the writes of a request the file reads what was written over what it read before. *)
NewContents(new, old, hdr, from, n, pos) ==
  \A i \in 1 .. hdr.bytes : new[i] = Overwritten(old, from, n, pos, i)

(* OpenFile::WriteAt makes the file hold the old bytes outside the request and the caller's inside it. *)
LEMMA RequestHolds ==
  ASSUME Consistent(disk), NEW e \in Used(disk), NEW hdr, hdr = HdrOf(disk, e),
         NEW from, NEW pos \in Nat, NEW n \in Nat, n > 0, pos + n <= hdr.bytes,
         NEW p, WritesRequest(p, hdr, from, n, pos),
         NEW old, Holds(disk, hdr, old),
         NEW new, NewContents(new, old, hdr, from, n, pos)
  PROVE  Holds(After(disk, p), hdr, new)
<1>0. \A i \in 1 .. hdr.bytes : new[i] = Overwritten(old, from, n, pos, i)
  BY DEF NewContents
<1> DEFINE A == After(disk, p)
<1>1. IsHeader(hdr) /\ \A s \in FileSectors(hdr) : s \in Sector
  BY FileFacts
<1> SUFFICES ASSUME NEW i \in 1 .. hdr.bytes
             PROVE  new[i] \in {ByteOf(A, hdr, i), Garbage}
  BY DEF Holds
<1> DEFINE a == i - 1
           q == a \div SectorSize
           r == a % SectorSize
           first == pos \div SectorSize
           w == WriteSpan(pos, n)
           s == hdr.data[q + 1]
<1>2. a \in Nat /\ a < hdr.bytes /\ q + 1 \in DOMAIN hdr.data /\ s \in FileSectors(hdr) /\ s \in Sector
  BY <1>1, ByteInFile
<1>3. q \in Nat /\ r \in 0 .. SectorSize - 1 /\ a = (q * SectorSize) + r
  <2> HIDE DEF a
  <2> QED
    BY <1>2, Divide
<1>4. ByteOf(A, hdr, i) = View(A[s])[r + 1] /\ ByteOf(disk, hdr, i) = View(disk[s])[r + 1]
  BY DEF ByteOf
<1>5. new[i] = Overwritten(old, from, n, pos, i) /\ old[i] \in {ByteOf(disk, hdr, i), Garbage}
  BY <1>0 DEF Holds
<1>6. /\ a \in pos .. pos + n - 1 => new[i] = from[a - pos + 1]
      /\ a \notin pos .. pos + n - 1 => new[i] = old[i]
  <2>1. (a \in pos .. pos + n - 1 <=> i - pos \in 1 .. n) /\ a - pos + 1 = i - pos
    <3>1. i \in Nat
      BY SMTT(60), <1>1 DEF IsHeader
    <3> QED
      BY SMTT(60), <3>1
  <2> HIDE DEF a
  <2> QED
    BY <1>5, <2>1 DEF Overwritten
<1> HIDE DEF A, a, q, r, s
<1>7. /\ first \in Nat /\ LastSector(pos, n) \in Nat /\ w \in Nat
      /\ LastSector(pos, n) - first + 1 = w
  <2>1. first = FirstSector(pos)
    BY DEF FirstSector
  <2>2. first \in Nat
    BY Divide
  <2>3. LastSector(pos, n) \in Nat /\ LastSector(pos, n) - FirstSector(pos) + 1 = w /\ w \in Nat
    BY <1>1, SpanFacts
  <2> QED
    BY <2>1, <2>2, <2>3
<1>8. Writes(p) /\ DOMAIN p = 1 .. w
  BY DEF WritesRequest
<1> HIDE DEF first, w
<1>9. CASE q - first + 1 \in 1 .. w
  <2> DEFINE k == q - first + 1
  <2>1. k \in 1 .. w /\ first + k = q + 1 /\ q = first + k - 1
    BY SMTT(60), <1>3, <1>7, <1>9
  <2> HIDE DEF k
  <2>2. p[k].sector = s /\ p[k].content = [kind |-> "data", bytes |-> BufferPart(ByteView, hdr, from, n, pos, k)]
    BY <1>8, <2>1 DEF WritesRequest, s, first
  <2>3. A[s] = p[k].content
    <3>1. k \in DOMAIN p
      BY <1>8, <2>1
    <3>2. Lands(disk, p, k)
      BY <1>8, <3>1, AllLand
    <3> QED
      BY <2>2, <3>2 DEF A, Lands
  <2>4. View(A[s]) = BufferPart(ByteView, hdr, from, n, pos, k)
    <3> DEFINE b == BufferPart(ByteView, hdr, from, n, pos, k)
    <3>0. A[s] = [kind |-> "data", bytes |-> b]
      BY <2>2, <2>3
    <3> HIDE DEF b
    <3>1. View([kind |-> "data", bytes |-> b]) = b
      BY ViewData
    <3>2. View(A[s]) = b
      BY <3>0, <3>1
    <3> QED
      BY <3>2 DEF b
  <2>5. NewByte(BufferPart(ByteView, hdr, from, n, pos, k)[r + 1], ByteView, hdr, from, n, pos, q, r, a)
    BY <1>1, <1>3, <2>1, BufferByte DEF first, w
  <2>6. ByteView[s] = View(disk[s])
    BY <1>2, ViewOf
  <2>7. CASE a \in pos .. pos + n - 1
    BY <1>4, <1>6, <2>4, <2>5, <2>7 DEF NewByte
  <2>8. CASE a \notin pos .. pos + n - 1
    <3>1. ByteOf(A, hdr, i) = ByteOf(disk, hdr, i)
      BY <1>2, <1>4, <2>4, <2>5, <2>6, <2>8 DEF s, NewByte
    <3> QED
      BY <1>5, <1>6, <2>8, <3>1
  <2> QED
    BY <2>7, <2>8
<1>10. CASE q - first + 1 \notin 1 .. w
  <2>1. \A k \in DOMAIN p : p[k].sector # s
    <3> SUFFICES ASSUME NEW k \in DOMAIN p, p[k].sector = s PROVE FALSE
      OBVIOUS
    <3>1. first + k \in DOMAIN hdr.data /\ hdr.data[first + k] = hdr.data[q + 1]
      BY DEF WritesRequest, s, first
    <3>2. first + k = q + 1
      BY <1>1, <1>2, <3>1 DEF IsHeader
    <3>3. k \in 1 .. w
      BY <1>8
    <3> QED
      BY SMTT(60), <1>3, <1>7, <1>10, <3>2, <3>3
  <2>2. A[s] = disk[s]
    BY <1>2, <2>1, AfterKeeps DEF A
  <2>3. a \notin pos .. pos + n - 1
    <3> SUFFICES ASSUME a \in pos .. pos + n - 1 PROVE FALSE
      OBVIOUS
    <3> DEFINE m == pos + n - 1
    <3>1. pos <= a /\ a <= m /\ m \in Nat
      BY SMTT(60), <1>2
    <3> HIDE DEF m
    <3>2. pos \div SectorSize <= a \div SectorSize /\ a \div SectorSize <= m \div SectorSize
      BY <1>2, <3>1, DivideMonotonic
    <3>3. first <= q /\ q <= LastSector(pos, n)
      BY <3>2 DEF first, q, m, LastSector
    <3> QED
      BY SMTT(60), <1>3, <1>7, <1>10, <3>3
  <2> QED
    BY <1>4, <1>5, <1>6, <2>2, <2>3
<1> QED
  BY <1>9, <1>10 DEF A

(* OpenFile::Write: the sectors on their way will make the file hold the bytes the caller gave, and *)
(* no other file changes.                                                                           *)
LEMMA WriteReads ==
  ASSUME FSInv, ReadsInv, NEW h \in Handle, NEW from \in Data, Write(h, from)
  PROVE  ReadsInv'
<1> DEFINE hdr == open[h].hdr
           pos == open[h].pos
           key == open[h].key
           n == Transfer(hdr, Len(from), pos)
           p == pending'
           A == After(disk, p)
           after == doing'.after
           w == [written EXCEPT ![key] = after]
<1>1. /\ intact /\ ~InWindow /\ Consistent(disk) /\ Handles(open, disk) /\ HandleType(open)
      /\ UNCHANGED <<disk, written>> /\ doing'.op = "write" /\ doing'.key = key
      /\ intact' = open[h].fresh /\ IsOpen(h)
      /\ after = [i \in 1 .. hdr.bytes |-> IF i - pos \in 1 .. n THEN from[i - pos]
                                           ELSE IF open[h].fresh THEN written[key][i] ELSE Garbage]
  BY Quiet DEF Write, Start, FSInv, FSType, Damage
<1>2. /\ IsHeader(hdr) /\ pos \in Nat /\ n \in Nat /\ n > 0 /\ pos + n <= hdr.bytes
      /\ p # <<>> /\ WritesRequest(p, hdr, from, n, pos)
  BY WriteWrites DEF WritesRequest
<1>3. key \in StoredName /\ written = [k \in StoredName |-> written[k]]
  BY <1>1 DEF HandleType, ReadsInv
<1>4. Writing = {} /\ Writing' = {key}
  <2>1. doing.op = "none"
    BY DEF ReadsInv, Write, Ready
  <2> QED
    BY <1>1, <2>1 DEF Writing
<1>5. DiskHolds(disk, written, {})
  BY <1>1, <1>4 DEF ReadsInv
<1>6. DiskHolds(disk, written, {key})
  BY <1>5 DEF DiskHolds
<1>7. w[key] = after /\ \A k \in StoredName : k # key => w[k] = written[k]
  <2> HIDE DEF after, key
  <2> QED
    BY SMTT(60), <1>3, OtherName
<1>8. ASSUME intact' PROVE DiskHolds(A, w, {})
  <2>1. \E e \in Used(disk) : DirOf(disk)[e].name = key /\ hdr = HdrOf(disk, e)
    BY <1>1, <1>8 DEF Handles, IsOpen
  <2>2. PICK e \in Used(disk) : DirOf(disk)[e].name = key /\ hdr = HdrOf(disk, e)
    BY <2>1
  <2>3. /\ DOMAIN after = 1 .. hdr.bytes
        /\ NewContents(after, written[key], hdr, from, n, pos)
    BY <1>1, <1>8 DEF Overwritten, NewContents
  <2> HIDE DEF hdr, pos, key, n, p, A, after, w
  <2>4. Holds(disk, hdr, written[key])
    BY <1>5, <2>2 DEF DiskHolds
  <2>5. Holds(A, hdr, after)
    BY <1>1, <1>2, <2>2, <2>3, <2>4, RequestHolds DEF A
  <2>6. \A k \in DOMAIN p : p[k].sector \in FileSectors(HdrOf(disk, e))
    BY <1>2, <2>2 DEF WritesRequest, FileSectors
  <2>7. /\ DirOf(A) = DirOf(disk) /\ Used(A) = Used(disk)
        /\ \A f \in Used(disk) : HdrOf(A, f) = HdrOf(disk, f)
    BY <1>1, <2>6, DataOnly DEF A
  <2> SUFFICES ASSUME NEW f \in Used(A)
               PROVE  LET k == DirOf(A)[f].name
                      IN  /\ DOMAIN w[k] = 1 .. HdrOf(A, f).bytes
                          /\ Holds(A, HdrOf(A, f), w[k])
    BY DEF DiskHolds
  <2>8. f \in Used(disk) /\ DirOf(A)[f] = DirOf(disk)[f] /\ HdrOf(A, f) = HdrOf(disk, f)
    BY <2>7
  <2>9. CASE f = e
    BY <1>7, <2>2, <2>3, <2>5, <2>8, <2>9
  <2>10. CASE f # e
    <3>1. Owned(disk, e) \cap Owned(disk, f) = {} /\ DirOf(disk)[f].name # key
      BY <1>1, <2>2, <2>8, <2>10 DEF Consistent
    <3>2. \A x \in FileSectors(HdrOf(disk, f)) : x \in Sector /\ \A k \in DOMAIN p : p[k].sector # x
      BY <1>1, <2>6, <2>8, <3>1, FileFacts DEF Owned
    <3>3. \A x \in FileSectors(HdrOf(disk, f)) : A[x] = disk[x]
      BY <3>2, AfterKeeps DEF A
    <3>4. SameFile(disk, A, f)
      BY <2>8, <3>3 DEF SameFile
    <3>5. /\ DOMAIN written[DirOf(A)[f].name] = 1 .. HdrOf(A, f).bytes
          /\ Holds(A, HdrOf(A, f), written[DirOf(A)[f].name])
      <4>1. HeldAt(A, f, written, {})
        BY <1>1, <1>5, <3>4, FileHeld
      <4> QED
        BY <4>1 DEF HeldAt
    <3>6. DirOf(A)[f].name \in StoredName /\ DirOf(A)[f].name # key
      BY <1>1, <2>8, <3>1, FileFacts DEF DirEntry
    <3>7. w[DirOf(A)[f].name] = written[DirOf(A)[f].name]
      BY <1>7, <3>6
    <3> QED
      BY <3>5, <3>7
  <2> QED
    BY <2>9, <2>10
<1>9. After(disk, pending)' = A /\ WillBe' = w
  BY <1>1 DEF WillBe
<1>10. doing'.op # "format"
  BY <1>1
<1>11. written' = [k \in StoredName |-> written'[k]]
  BY <1>1, <1>3
<1> HIDE DEF A, w
<1> QED
  BY <1>1, <1>2, <1>3, <1>4, <1>6, <1>8, <1>9, <1>10, <1>11 DEF ReadsInv

(* the theorem's property *)
LEMMA ReadsProperty == FSInv /\ ReadsInv => ReadsWhatWasWritten
<1> SUFFICES ASSUME FSInv, ReadsInv, intact, up, pending = <<>>, NEW h \in Handle, IsOpen(h), open[h].fresh,
                    NEW p \in 0 .. open[h].hdr.bytes, NEW m \in 0 .. open[h].hdr.bytes + 1
             PROVE  LET got == ReadAt(ByteView, open[h].hdr, m, p)
                    IN  /\ Len(got) = Min({m, open[h].hdr.bytes - p})
                        /\ \A i \in DOMAIN got : written[open[h].key][p + i] \in {got[i], Garbage}
  BY DEF ReadsWhatWasWritten
<1> DEFINE hdr == open[h].hdr
           key == open[h].key
           got == ReadAt(ByteView, hdr, m, p)
           n == Transfer(hdr, m, p)
<1>1. Consistent(disk) /\ Handles(open, disk) /\ ~InWindow
  BY Quiet DEF Ready
<1>2. PICK e \in Used(disk) : DirOf(disk)[e].name = key /\ hdr = HdrOf(disk, e)
  BY <1>1 DEF Handles, IsOpen
<1>3. IsHeader(hdr)
  BY <1>1, <1>2, FileFacts
<1>4. Writing = {}
  BY DEF ReadsInv, Writing
<1>5. Holds(disk, hdr, written[key])
  <2>1. DiskHolds(disk, written, {})
    BY <1>1, <1>4 DEF ReadsInv
  <2> QED
    BY <1>2, <2>1 DEF DiskHolds
<1> HIDE DEF hdr, key
<1>6. hdr.bytes \in Nat /\ p \in Nat /\ m \in Nat /\ p <= hdr.bytes
  <2>1. hdr.bytes \in Nat /\ p \in 0 .. hdr.bytes /\ m \in 0 .. hdr.bytes + 1
    BY <1>3 DEF hdr, IsHeader
  <2> QED
    BY SMTT(60), <2>1
<1>7. n = Min({m, hdr.bytes - p})
  <2>1. n = IF m <= hdr.bytes - p THEN m ELSE hdr.bytes - p
    BY SMTT(60), <1>6 DEF Transfer
  <2>2. hdr.bytes - p \in Nat
    BY SMTT(60), <1>6
  <2>3. Min({m, hdr.bytes - p}) = IF m <= hdr.bytes - p THEN m ELSE hdr.bytes - p
    <3> DEFINE u == hdr.bytes - p
    <3> HIDE DEF u
    <3>1. m \in Nat /\ u \in Nat
      BY <1>6, <2>2 DEF u
    <3>2. Min({m, u}) = IF m <= u THEN m ELSE u
      BY SMTT(60), <3>1 DEF Min
    <3> QED
      BY <3>2 DEF u
  <2> HIDE DEF n
  <2> QED
    BY SMTT(60), <2>1, <2>3
<1>8. /\ n \in Nat /\ DOMAIN got = 1 .. n /\ Len(got) = n
      /\ \A i \in 1 .. n : got[i] =
           ByteView[hdr.data[((p + i - 1) \div SectorSize) + 1]][((p + i - 1) % SectorSize) + 1]
  <2>1. AreBytes(got, ByteView, hdr, p, n)
    BY <1>3, <1>6, ReadAtFacts
  <2> HIDE DEF n, got
  <2> QED
    BY <2>1 DEF AreBytes
<1>9. n > 0 => p + n <= hdr.bytes
  BY <1>3, <1>6, TransferFacts
<1> HIDE DEF n, got
<1>10. ASSUME NEW i \in 1 .. n PROVE written[key][p + i] \in {got[i], Garbage}
  <2>1. p + i \in 1 .. hdr.bytes /\ (p + i) - 1 = p + i - 1
    BY SMTT(60), <1>6, <1>8, <1>9
  <2>2. written[key][p + i] \in {ByteOf(disk, hdr, p + i), Garbage}
    BY <1>5, <2>1 DEF Holds
  <2>3. hdr.data[((p + i - 1) \div SectorSize) + 1] \in Sector
    <3>1. hdr.data[(((p + i) - 1) \div SectorSize) + 1] \in FileSectors(hdr)
      BY <1>3, <2>1, ByteInFile
    <3>2. \A s \in FileSectors(hdr) : s \in Sector
      BY <1>1, <1>2, FileFacts
    <3> QED
      BY <2>1, <3>1, <3>2
  <2>4. ByteOf(disk, hdr, p + i) = got[i]
    BY <1>1, <1>8, <2>1, <2>3, ViewOf DEF ByteOf
  <2> QED
    BY <2>2, <2>4
<1> QED
  BY <1>7, <1>8, <1>10 DEF got, hdr, key

(* Every step keeps what the reads rest on. *)
LEMMA ReadsStep == FSInv /\ ReadsInv /\ [FSNext]_fsvars => ReadsInv'
<1> SUFFICES ASSUME FSInv, ReadsInv, [FSNext]_fsvars PROVE ReadsInv'
  OBVIOUS
<1>1. CASE Format
  BY <1>1, FormatReads
<1>2. CASE Restart
  BY <1>2, ReadsUnchanged DEF Restart
<1>3. CASE WriteSector
  BY <1>3, WriteSectorReads
<1>4. CASE Stop
  BY <1>4, StopReads
<1>5. ASSUME NEW n \in PathName, RemoveFile(n) PROVE ReadsInv'
  BY <1>5, RemoveReads
<1>6. ASSUME NEW n \in PathName, NEW size \in Size, Create(n, size) PROVE ReadsInv'
  BY <1>6, CreateReads
<1>7. ASSUME NEW h \in Handle, Close(h) PROVE ReadsInv'
  BY <1>7, ReadsUnchanged DEF Close
<1>8. ASSUME NEW h \in Handle, NEW n \in PathName, Open(h, n) PROVE ReadsInv'
  BY <1>8, ReadsUnchanged DEF Open
<1>9. ASSUME NEW h \in Handle, NEW p \in SeekTo, Seek(h, p) PROVE ReadsInv'
  BY <1>9, ReadsUnchanged DEF Seek
<1>10. ASSUME NEW h \in Handle, NEW from \in Data, Read(h, Len(from)) PROVE ReadsInv'
  BY <1>10, ReadsUnchanged DEF Read
<1>11. ASSUME NEW h \in Handle, NEW from \in Data, Write(h, from) PROVE ReadsInv'
  BY <1>11, WriteReads
<1>12. CASE UNCHANGED fsvars
  BY <1>12, ReadsUnchanged DEF fsvars
<1> QED
  BY <1>1, <1>2, <1>3, <1>4, <1>5, <1>6, <1>7, <1>8, <1>9, <1>10, <1>11, <1>12 DEF FSNext

(* OpenFile::Read returns the bytes last written: whatever Create, Remove, Write, Seek and Close calls *)
(* came between, on any disk, and after any restart outside the window, an open file reads back what   *)
(* was written to it (ReadsWhatWasWritten).                                                            *)
THEOREM FilesRead == FSSpec => []ReadsWhatWasWritten
<1>1. FSInit => FSInv /\ ReadsInv
  BY FSInitial, ReadsInitial
<1>2. FSInv /\ ReadsInv /\ [FSNext]_fsvars => FSInv' /\ ReadsInv'
  BY FSStep, ReadsStep
<1>3. FSInv /\ ReadsInv => ReadsWhatWasWritten
  BY ReadsProperty
<1> QED
  BY <1>1, <1>2, <1>3, PTL DEF FSSpec
=============================================================================
