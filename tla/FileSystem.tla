----------------------------- MODULE FileSystem -----------------------------
(***************************************************************************)
(* The Nachos file system of filesys/: a disk whose sectors hold file      *)
(* headers, the free map, a flat directory and file data.  An operation    *)
(* reads what it needs, works on copies in memory and then writes whole    *)
(* sectors back, one SynchDisk::WriteSector at a time; the machine may     *)
(* stop between two of them.  The code assumes one client at a time.       *)
(* It is compiled when FILESYS_STUB is not defined.                        *)
(***************************************************************************)
EXTENDS OpenFile, FiniteSets, FiniteSetsExt

CONSTANTS
  PathName,      \* the names callers pass
  Stored,        \* what strncpy and strncmp keep of a name: its first FileNameMaxLen characters
  NumSectors,    \* sectors of the disk
  NumDirEntries, \* entries of the directory
  Split,         \* the entry that lies across the two sectors of the directory
  Size,          \* the sizes callers ask Create for, at most MaxFileSize
  Handle,        \* the OpenFile objects callers can hold
  SeekTo,        \* the positions callers seek to
  Data,          \* the byte sequences callers write
  NoHdr          \* the header of a handle that is not open

(* Format asserts that the two headers, the map and the directory fit. *)
ASSUME FileSystemAssumption ==
  /\ NumSectors \in Nat /\ NumSectors >= 5
  /\ PathName # {}
  /\ NumDirEntries \in Nat /\ SectorSize \in Nat \ {0}
  /\ Split \in 0 .. NumDirEntries - 1
  /\ Size \subseteq Nat /\ SeekTo \subseteq Nat
  /\ Garbage \in Int /\ Data \subseteq Seq(Int)

FreeMapSector == 0
DirectorySector == 1

Sector == 0 .. NumSectors - 1
Entry == 0 .. NumDirEntries - 1
StoredName == {Stored[n] : n \in PathName}
FreeMapFileSize == SectorSize
DirectoryFileSize == 2 * SectorSize

VARIABLES
  disk,     \* the contents of each sector
  pending,  \* the WriteSector calls the operation in progress has still to make
  doing,    \* the operation in progress, and the name it is for
  open,     \* Handle -> [hdr, pos, key, fresh]: the OpenFile objects
  up,       \* the kernel runs
  intact,   \* history: see Damage
  written   \* history: what the bytes of each file should read

fsvars == <<disk, pending, doing, open, up, intact, written>>

(* What a sector can hold.  A header is [bytes, data], the free map a set of marked   *)
(* sectors; of the directory one sector holds the entries before Split and the inUse  *)
(* and sector fields of Split, the other the name of Split and the entries after it.  *)
Blank == [kind |-> "data", bytes |-> [i \in 1 .. SectorSize |-> Garbage]]
HeaderSector(hdr) == [kind |-> "header", hdr |-> hdr]
MapSector(map) == [kind |-> "map", map |-> map]
DirectorySectors(dir) ==
  <<[kind |-> "dir1", ent |-> [e \in 0 .. Split - 1 |-> dir[e]],
     inUse |-> dir[Split].inUse, sector |-> dir[Split].sector],
    [kind |-> "dir2", ent |-> [e \in Split + 1 .. NumDirEntries - 1 |-> dir[e]],
     name |-> dir[Split].name]>>

(* The directory the two sectors say. *)
ReadDirectory(d1, d2) ==
  [e \in Entry |-> CASE e < Split -> d1.ent[e]
                     [] e > Split -> d2.ent[e]
                     [] OTHER -> [inUse |-> d1.inUse, sector |-> d1.sector, name |-> d2.name]]

NotInUse == [inUse |-> FALSE, sector |-> 0, name |-> CHOOSE k \in StoredName : TRUE]

-----------------------------------------------------------------------------
(* The bitmap of free sectors: FindAndSet, NumClear. *)
FreeSectors(map) == Sector \ map
FindAndSet(map) == IF FreeSectors(map) = {} THEN -1 ELSE Min(FreeSectors(map))

(* The sectors FindAndSet returns when it is called n times: each is the lowest that is    *)
(* clear and not yet taken, so there are i - 1 clear sectors below the i-th.               *)
FirstClear(map, n) ==
  [i \in 1 .. n |-> CHOOSE s \in FreeSectors(map) :
                      Cardinality({r \in FreeSectors(map) : r < s}) = i - 1]

SectorsFor(fileSize) == DivRoundUp(fileSize, SectorSize)

(* FileHeader::Allocate: it fails when the free sectors are too few; otherwise the     *)
(* header, and the map with its data sectors marked.                                   *)
CanAllocate(map, fileSize) == Cardinality(FreeSectors(map)) >= SectorsFor(fileSize)
Allocate(map, fileSize) == [bytes |-> fileSize, data |-> FirstClear(map, SectorsFor(fileSize))]

Marked(map, hdr) == map \cup {hdr.data[i] : i \in DOMAIN hdr.data}

(* FileHeader::Deallocate: every data sector ought to be marked, and is cleared. *)
Deallocated(map, hdr) == map \ {hdr.data[i] : i \in DOMAIN hdr.data}

(* Directory::FindIndex, Find, Add and Remove. *)
FindIndex(dir, key) ==
  LET found == {e \in Entry : dir[e].inUse /\ dir[e].name = key}
  IN  IF found = {} THEN -1 ELSE Min(found)

Find(dir, key) == IF FindIndex(dir, key) = -1 THEN -1 ELSE dir[FindIndex(dir, key)].sector

HasRoom(dir) == \E e \in Entry : ~dir[e].inUse

Add(dir, key, sector) ==
  [dir EXCEPT ![Min({e \in Entry : ~dir[e].inUse})] =
     [inUse |-> TRUE, sector |-> sector, name |-> key]]

RemoveEntry(dir, key) == [dir EXCEPT ![FindIndex(dir, key)].inUse = FALSE]

-----------------------------------------------------------------------------
(* What the files of the map and of the directory hold.  Both have headers in fixed  *)
(* sectors; FileSystem keeps them open, so their headers never change.               *)
MapFile == disk[FreeMapSector].hdr
DirFile == disk[DirectorySector].hdr
FreeMap == disk[MapFile.data[1]].map
Dir == ReadDirectory(disk[DirFile.data[1]], disk[DirFile.data[2]])

WriteMap(map) == <<[sector |-> MapFile.data[1], content |-> MapSector(map)]>>
WriteDir(dir) ==
  [i \in 1 .. 2 |-> [sector |-> DirFile.data[i], content |-> DirectorySectors(dir)[i]]]

(* The bytes of a sector: another structure is garbage to one who reads it as data. *)
ByteView ==
  [s \in Sector |-> IF disk[s].kind = "data" THEN disk[s].bytes ELSE Blank.bytes]

Idle == [op |-> "none", key |-> CHOOSE k \in StoredName : TRUE]
Ready == up /\ intact /\ pending = <<>>

ClosedHandle == [hdr |-> NoHdr, pos |-> 0, key |-> CHOOSE k \in StoredName : TRUE, fresh |-> TRUE]
IsOpen(h) == open[h].hdr # NoHdr

(* The machine stopped while the directory and the map on disk disagree: after the    *)
(* first of the two structures is written, before the second is complete.             *)
InWindow == doing.op \in {"create", "remove"} /\ Len(pending) \in 1 .. 2

FSInit ==
  /\ disk = [s \in Sector |-> Blank]
  /\ pending = <<>>
  /\ doing = Idle
  /\ open = [h \in Handle |-> ClosedHandle]
  /\ up = FALSE
  /\ intact = FALSE
  /\ written = [k \in StoredName |-> <<>>]

Start(op, key, writes, after) ==
  /\ pending' = writes
  /\ doing' = [op |-> op, key |-> key, after |-> after]

(* FileSystem(TRUE): the headers, then the map and the directory. *)
Format ==
  LET mapHdr == Allocate({FreeMapSector, DirectorySector}, FreeMapFileSize)
      map == Marked({FreeMapSector, DirectorySector}, mapHdr)
      dirHdr == Allocate(map, DirectoryFileSize)
      dir == DirectorySectors([e \in Entry |-> NotInUse])
  IN  /\ ~up
      /\ up' = TRUE
      /\ intact' = FALSE
      /\ Start("format", Idle.key,
               <<[sector |-> FreeMapSector, content |-> HeaderSector(mapHdr)],
                 [sector |-> DirectorySector, content |-> HeaderSector(dirHdr)],
                 [sector |-> mapHdr.data[1], content |-> MapSector(Marked(map, dirHdr))],
                 [sector |-> dirHdr.data[1], content |-> dir[1]],
                 [sector |-> dirHdr.data[2], content |-> dir[2]]>>, <<>>)
      /\ written' = [k \in StoredName |-> <<>>]
      /\ UNCHANGED <<disk, open>>

(* FileSystem(FALSE): the two files are opened from the disk. *)
Restart ==
  /\ ~up
  /\ intact
  /\ up' = TRUE
  /\ UNCHANGED <<disk, pending, doing, open, intact, written>>

(* FileSystem::Create when it succeeds; when it does not, only copies in memory change. *)
Create(n, size) ==
  LET key == Stored[n]
      sector == FindAndSet(FreeMap)
      map == FreeMap \cup {sector}
      hdr == Allocate(map, size)
  IN  /\ Ready
      /\ Find(Dir, key) = -1
      /\ sector # -1
      /\ HasRoom(Dir)
      /\ CanAllocate(map, size)
      /\ Start("create", key,
               <<[sector |-> sector, content |-> HeaderSector(hdr)]>>
                 \o WriteDir(Add(Dir, key, sector)) \o WriteMap(Marked(map, hdr)),
               [i \in 1 .. size |-> Garbage])
      /\ UNCHANGED <<disk, open, up, intact, written>>

(* Mutant: the sector of the header is not given back. *)
RemoveKeepsHeader(n) ==
  LET key == Stored[n]
      hdr == disk[Find(Dir, key)].hdr
  IN  /\ Ready
      /\ Find(Dir, key) # -1
      /\ Start("remove", key,
               WriteMap(Deallocated(FreeMap, hdr)) \o WriteDir(RemoveEntry(Dir, key)), <<>>)
      /\ open' = [h \in Handle |-> [open[h] EXCEPT !.fresh = @ /\ (IsOpen(h) => open[h].key # key)]]
      /\ UNCHANGED <<disk, up, intact, written>>

(* FileSystem::Remove when the name is found.  Nobody asks whether the file is open. *)
RemoveFile(n) ==
  LET key == Stored[n]
      sector == Find(Dir, key)
      hdr == disk[sector].hdr
  IN  /\ Ready
      /\ sector # -1
      /\ Start("remove", key,
               WriteMap(Deallocated(FreeMap, hdr) \ {sector}) \o WriteDir(RemoveEntry(Dir, key)),
               <<>>)
      /\ open' = [h \in Handle |-> [open[h] EXCEPT !.fresh = @ /\ (IsOpen(h) => open[h].key # key)]]
      /\ UNCHANGED <<disk, up, intact, written>>

(* FileSystem::Open and OpenFile::OpenFile: the header is copied into memory. *)
Open(h, n) ==
  /\ Ready
  /\ ~IsOpen(h)
  /\ Find(Dir, Stored[n]) # -1
  /\ open' = [open EXCEPT ![h] =
       [hdr |-> disk[Find(Dir, Stored[n])].hdr, pos |-> 0, key |-> Stored[n], fresh |-> TRUE]]
  /\ UNCHANGED <<disk, pending, doing, up, intact, written>>

Close(h) ==
  /\ Ready
  /\ IsOpen(h)
  /\ open' = [open EXCEPT ![h] = ClosedHandle]
  /\ UNCHANGED <<disk, pending, doing, up, intact, written>>

Seek(h, position) ==
  /\ Ready
  /\ IsOpen(h)
  /\ open' = [open EXCEPT ![h].pos = position]
  /\ UNCHANGED <<disk, pending, doing, up, intact, written>>

(* OpenFile::Read moves the position by what ReadAt returned. *)
Read(h, numBytes) ==
  /\ Ready
  /\ IsOpen(h)
  /\ open' = [open EXCEPT ![h].pos =
       @ + Len(ReadAt(ByteView, open[h].hdr, numBytes, open[h].pos))]
  /\ UNCHANGED <<disk, pending, doing, up, intact, written>>

(***************************************************************************)
(* OpenFile::Write.  Through a handle whose file was removed the sectors   *)
(* of whoever has them now are overwritten: what the disk says from then   *)
(* on is anybody's guess, so the model only lets the disk be formatted.    *)
(***************************************************************************)
Damage(h) == intact' = open[h].fresh

Write(h, from) ==
  LET file == open[h]
      writes == WriteAt(ByteView, file.hdr, from, file.pos)
      n == Transfer(file.hdr, Len(from), file.pos)
  IN  /\ Ready
      /\ IsOpen(h)
      /\ n > 0
      /\ open' = [open EXCEPT ![h].pos = @ + n]
      /\ Start("write", file.key,
               [i \in DOMAIN writes |-> [sector |-> writes[i].sector,
                  content |-> [kind |-> "data", bytes |-> writes[i].content]]],
               [i \in 1 .. file.hdr.bytes |->
                  IF i - file.pos \in 1 .. n THEN from[i - file.pos]
                  ELSE IF file.fresh THEN written[file.key][i] ELSE Garbage])
      /\ Damage(h)
      /\ UNCHANGED <<disk, up, written>>

(* SynchDisk::WriteSector returns: one more sector of the operation is on the disk. *)
WriteSector ==
  /\ up
  /\ pending # <<>>
  /\ disk' = [disk EXCEPT ![Head(pending).sector] = Head(pending).content]
  /\ pending' = Tail(pending)
  /\ IF Tail(pending) = <<>>
     THEN /\ doing' = Idle
          /\ written' = [written EXCEPT ![doing.key] = doing.after]
          /\ intact' = (intact \/ doing.op = "format")
     ELSE UNCHANGED <<doing, written, intact>>
  /\ UNCHANGED <<open, up>>

(* The machine stops: everything in memory is lost. *)
Stop ==
  /\ up
  /\ up' = FALSE
  /\ pending' = <<>>
  /\ doing' = Idle
  /\ open' = [h \in Handle |-> ClosedHandle]
  /\ intact' = (intact /\ ~InWindow)
  /\ written' = [k \in StoredName |-> IF doing.op = "write" /\ doing.key = k
                               THEN [i \in DOMAIN written[k] |-> Garbage] ELSE written[k]]
  /\ UNCHANGED disk

FSNext ==
  \/ Format \/ Restart \/ WriteSector \/ Stop
  \/ \E n \in PathName : RemoveFile(n) \/ \E size \in Size : Create(n, size)
  \/ \E h \in Handle :
       \/ Close(h)
       \/ \E n \in PathName : Open(h, n)
       \/ \E p \in SeekTo : Seek(h, p)
       \/ \E from \in Data : Read(h, Len(from)) \/ Write(h, from)

FSSpec == FSInit /\ [][FSNext]_fsvars

-----------------------------------------------------------------------------
InUse == {e \in Entry : Dir[e].inUse}
FileSectors(hdr) == {hdr.data[i] : i \in DOMAIN hdr.data}
SystemSectors == {FreeMapSector, DirectorySector} \cup FileSectors(MapFile) \cup FileSectors(DirFile)

(***************************************************************************)
(* The structures on disk agree: no two directory entries have the same    *)
(* name, every entry points at a header, no sector serves two purposes,    *)
(* and the free map marks exactly the sectors in use, so no file can be    *)
(* given a sector of another (filehdr.cc:71 asserts half of this) and no   *)
(* sector is lost.  It holds whenever an operation is not between its      *)
(* write of the directory and its write of the map, whatever stops of the  *)
(* machine came before, as long as none of them fell into that window.     *)
(***************************************************************************)
MetadataConsistent ==
  intact /\ ~InWindow =>
    LET Sectors(e) == {Dir[e].sector} \cup FileSectors(disk[Dir[e].sector].hdr)
    IN  /\ \A e \in InUse : /\ disk[Dir[e].sector].kind = "header"
                            /\ Dir[e].sector \notin FileSectors(disk[Dir[e].sector].hdr)
                            /\ Sectors(e) \cap SystemSectors = {}
        /\ \A e, f \in InUse : e # f => /\ Dir[e].name # Dir[f].name
                                        /\ Sectors(e) \cap Sectors(f) = {}
        /\ FreeMap = SystemSectors \cup UNION {Sectors(e) : e \in InUse}

(* What was written to a file is what reading it through any handle returns, at every   *)
(* position and length: no write, creation or removal of another file, and no stop of   *)
(* the machine during one, changes it (OpenFile::ReadAt, WriteAt; filesys.cc).          *)
ReadsWhatWasWritten ==
  intact /\ up /\ pending = <<>> =>
    \A h \in Handle : IsOpen(h) /\ open[h].fresh =>
      LET hdr == open[h].hdr
          should == written[open[h].key]
      IN  \A p \in 0 .. hdr.bytes, n \in 0 .. hdr.bytes + 1 :
            LET got == ReadAt(ByteView, hdr, n, p)
            IN  /\ Len(got) = Min({n, hdr.bytes - p})
                /\ \A i \in DOMAIN got : should[p + i] \in {got[i], Garbage}
=============================================================================
