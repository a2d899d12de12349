------------------------------ MODULE OpenFile ------------------------------
(***************************************************************************)
(* Reading and writing the bytes of a Nachos file through its header:      *)
(* filesys/openfile.cc and filesys/filehdr.cc.  A sector is a sequence of  *)
(* SectorSize bytes; the disk only transfers whole sectors.                *)
(***************************************************************************)
EXTENDS Integers, Sequences

CONSTANTS
  SectorSize, \* bytes in a sector
  Garbage     \* a byte nobody wrote: uninitialized memory, or part of another structure

DivRoundUp(n, s) == n \div s + (IF n % s > 0 THEN 1 ELSE 0)

ByteToSector(hdr, offset) == hdr.data[offset \div SectorSize + 1]

(* The check of the request that ReadAt and WriteAt start with: how many bytes move. *)
Transfer(hdr, numBytes, position) ==
  IF numBytes <= 0 \/ position >= hdr.bytes THEN 0
  ELSE IF position + numBytes > hdr.bytes THEN hdr.bytes - position ELSE numBytes

FirstSector(position) == position \div SectorSize
LastSector(position, n) == (position + n - 1) \div SectorSize

(* The byte at an offset of the sectors first, first + 1, ... read into one buffer. *)
Buffered(disk, hdr, first, i) ==
  disk[ByteToSector(hdr, first * SectorSize + i)][(i % SectorSize) + 1]

(* OpenFile::ReadAt: the bytes copied to the caller. *)
ReadAt(disk, hdr, numBytes, position) ==
  LET n == Transfer(hdr, numBytes, position)
      first == FirstSector(position)
  IN  [i \in 1 .. n |-> Buffered(disk, hdr, first, position - first * SectorSize + i - 1)]

(* Mutant: a request that starts inside a sector does not read the sector in first. *)
BufferUnread(disk, hdr, from, n, position) ==
  LET first == FirstSector(position)
      last == LastSector(position, n)
  IN  [i \in 0 .. (last - first + 1) * SectorSize - 1 |->
        LET p == first * SectorSize + i
        IN  IF p \in position .. position + n - 1 THEN from[p - position + 1] ELSE Garbage]

(***************************************************************************)
(* The buffer WriteAt builds: the first and the last sector are read in    *)
(* when the request covers only a part of them (and the file has that      *)
(* part), the bytes of the caller overwrite their place, the rest is as    *)
(* new char[] left it.                                                     *)
(***************************************************************************)
WriteBuffer(disk, hdr, from, n, position) ==
  LET first == FirstSector(position)
      last == LastSector(position, n)
      firstAligned == position = first * SectorSize
      lastAligned == position + n = (last + 1) * SectorSize
      readIn == {s \in {first} : ~firstAligned}
                \cup {s \in {last} : ~lastAligned /\ (first # last \/ firstAligned)}
      Old(s) == ReadAt(disk, hdr, SectorSize, s * SectorSize)
  IN  [i \in 0 .. (last - first + 1) * SectorSize - 1 |->
        LET p == first * SectorSize + i
            s == FirstSector(p)
        IN  IF p \in position .. position + n - 1 THEN from[p - position + 1]
            ELSE IF s \in readIn /\ p < hdr.bytes THEN Old(s)[(p % SectorSize) + 1]
            ELSE Garbage]

(* OpenFile::WriteAt: the WriteSector calls it makes, in order. *)
WriteAt(disk, hdr, from, position) ==
  LET n == Transfer(hdr, Len(from), position)
      first == FirstSector(position)
      buf == WriteBuffer(disk, hdr, from, n, position)
  IN  IF n = 0 THEN <<>>
      ELSE [k \in 1 .. LastSector(position, n) - first + 1 |->
             [sector |-> ByteToSector(hdr, (first + k - 1) * SectorSize),
              content |-> [i \in 1 .. SectorSize |-> buf[(k - 1) * SectorSize + i - 1]]]]
=============================================================================
