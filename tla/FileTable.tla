----------------------------- MODULE FileTable -----------------------------
(***************************************************************************)
(* Open files and sockets of user programs: the descriptors of             *)
(* userprog/FileDescriptors.h, the file and socket system calls of         *)
(* userprog/ksyscall.h and the stub FileSystem and OpenFile that call the  *)
(* host.  One table serves all programs.  A call runs without a tick (the  *)
(* console is not part of this module), so it is one action, and it does   *)
(* not matter which program makes it.                                      *)
(***************************************************************************)
EXTENDS Integers, FiniteSets, FiniteSetsExt

CONSTANTS
  Name,       \* the non-empty strings programs pass as file names
  Fold,       \* what strcasecmp makes of a name: equal for names it equates
  Creatable,  \* the names the host lets open(O_CREAT) succeed for
  NoName,     \* the NULL of a char pointer
  Capacity,   \* Table::_capacity
  HostFd,     \* the file descriptors the host can hand out
  Position,   \* the positions programs pass to Seek
  MaxLength   \* bound: no Write that would make a file longer

Slot == 2 .. Capacity - 1

ASSUME FileAssumption ==
  /\ Capacity \in Nat
  /\ Creatable \subseteq Name
  /\ NoName \notin Name
  /\ HostFd \subseteq {fd \in Nat : fd > 2}
  /\ IsFiniteSet(HostFd)
  /\ Position \subseteq Int
  /\ MaxLength \in Nat

ReadWriteFile == 0
ReadFile == 1
Socket_Mode == 2

VARIABLES
  desc,     \* Table::_table, see Descriptor
  length,   \* host: the length of each file, -1 if there is none
  hostOpen, \* host: the descriptors that are open, with the file or socket behind them
  result,   \* register 2: what the last call returned
  outcome,  \* how the machine stopped
  careful   \* history: programs have made only calls that the code can answer, see Use

tvars == <<desc, length, hostOpen, result, outcome, careful>>

(* OpenFile::currentOffset: Seek and a size of -1 take it below zero. *)
Offsets == {p \in Position : p < 0} \cup -1 .. MaxLength

(* The fields of FileDescriptor, and OpenFile::currentOffset; hasFile is _file # NULL. *)
Descriptor ==
  [mode : {-1, ReadWriteFile, ReadFile, Socket_Mode}, id : HostFd \cup {-1},
   name : Name \cup {NoName}, hasFile : BOOLEAN,
   offset : Offsets]

Unused == [mode |-> -1, id |-> -1, name |-> NoName, hasFile |-> FALSE, offset |-> 0]

Outcomes == {"none", "null id", "null name", "lseek", "create", "buffer"}

TypeInv ==
  /\ desc \in [Slot -> Descriptor]
  /\ length \in [Name -> -1 .. MaxLength]
  /\ DOMAIN hostOpen \subseteq HostFd
  /\ \A fd \in DOMAIN hostOpen : hostOpen[fd] \in Name \cup {NoName}
  /\ result \in Int
  /\ outcome \in Outcomes
  /\ careful \in BOOLEAN

FInit ==
  /\ desc = [s \in Slot |-> Unused]
  /\ length = [n \in Name |-> -1]
  /\ hostOpen = [fd \in {} |-> NoName]
  /\ result = 0
  /\ outcome = "none"
  /\ careful = TRUE

-----------------------------------------------------------------------------
Running == outcome = "none"

Return(x) == result' = x

(* The call follows a NULL pointer or fails an ASSERT. *)
Crash(why) ==
  /\ outcome' = why
  /\ UNCHANGED <<desc, length, hostOpen, result>>

(* Table::FindFreeSlot and Table::IsOpening: the first match, or -1. *)
First(slots) == IF slots = {} THEN -1 ELSE Min(slots)

(* Mutant: the last slot, free or not. *)
LastSlot == Max(Slot)

FindFreeSlot == First({s \in Slot : desc[s].mode = -1})

IsOpening(id) == First({s \in Slot : desc[s].id = id})

(* Opening and closing on the host: a new number is one that is not open. *)
HostOpened(fd, n) == [f \in DOMAIN hostOpen \cup {fd} |-> IF f = fd THEN n ELSE hostOpen[f]]
HostClosed(fd) == [f \in DOMAIN hostOpen \ {fd} |-> hostOpen[f]]

(***************************************************************************)
(* The code can answer calls that pass the number of an open file to Read, *)
(* Write and Seek, read, write, send and receive no negative number of     *)
(* bytes, seek to no negative position but -1, remove a file only while no *)
(* socket is open, and create only what the host lets them create and      *)
(* nobody has open.  A call is made anyway; careful records it.            *)
(***************************************************************************)
Use(condition) == careful' = (careful /\ condition)

OpenFileIds == {desc[s].id : s \in {x \in Slot : desc[x].mode \in {ReadWriteFile, ReadFile}}}
OpenSocketIds == {desc[s].id : s \in {x \in Slot : desc[x].mode = Socket_Mode}}

(* The numbers programs pass: descriptors, and the -1 of a failed call. *)
Id == HostFd \cup {-1}

(* The sizes programs pass.  The code treats all below -1 alike. *)
ByteCount == -2 .. MaxLength

-----------------------------------------------------------------------------
(* SysCreate: open(O_CREAT | O_TRUNC) and close on the host. *)
SysCreate(n) ==
  /\ Running
  /\ Use(n \in Creatable /\ \A s \in Slot : desc[s].mode # -1 => desc[s].name # n)
  /\ \/ /\ n \in Creatable
        /\ length' = [length EXCEPT ![n] = 0]
        /\ Return(0)
        /\ UNCHANGED <<desc, hostOpen, outcome>>
     \/ /\ n \notin Creatable
        /\ Crash("create")

Fail ==
  /\ Return(-1)
  /\ UNCHANGED <<desc, length, hostOpen, outcome>>

(* The calls that return -1 and do nothing: an empty name, a bad type, a negative   *)
(* id, a socket the host refuses or the table has no room for.                      *)
Refused == Running /\ Fail /\ UNCHANGED careful

(* SysOpen when the table is full or the host has no such file. *)
OpenFails(n) ==
  /\ Running
  /\ FindFreeSlot = -1 \/ length[n] = -1
  /\ desc' = IF FindFreeSlot = -1 THEN desc
             ELSE [desc EXCEPT ![FindFreeSlot].hasFile = FALSE]
  /\ Return(-1)
  /\ UNCHANGED <<length, hostOpen, outcome, careful>>

(* What Open_File and SocketTCP make of a descriptor; fd is the number the host gives. *)
OpenedFile(n, type, fd) ==
  [mode |-> type, id |-> fd, name |-> n, hasFile |-> TRUE, offset |-> 0]
OpenedSocket(fd) ==
  [mode |-> Socket_Mode, id |-> fd, name |-> NoName, hasFile |-> FALSE, offset |-> 0]

(* SysOpen, Table::Open and Open_File. *)
SysOpen(n, type, fd) ==
  /\ Running
  /\ FindFreeSlot # -1
  /\ length[n] # -1
  /\ fd \notin DOMAIN hostOpen
  /\ hostOpen' = HostOpened(fd, n)
  /\ desc' = [desc EXCEPT ![FindFreeSlot] = OpenedFile(n, type, fd)]
  /\ Return(fd)
  /\ UNCHANGED <<length, outcome, careful>>

(* SysSocketTCP and Table::SocketTCP, when there is room; Refused is the rest. *)
SysSocketTCP(fd) ==
  /\ Running
  /\ FindFreeSlot # -1
  /\ fd \notin DOMAIN hostOpen
  /\ hostOpen' = HostOpened(fd, NoName)
  /\ desc' = [desc EXCEPT ![FindFreeSlot] = OpenedSocket(fd)]
  /\ Return(fd)
  /\ UNCHANGED <<length, outcome, careful>>

(* Close(_id) in Close_File and close(_id) in Close_Socket. *)
Closed(fd) == HostClosed(fd)

(* Table::Close and Close_Socket find a descriptor; -1 finds an unused one, if any, whose  *)
(* Close_File and Close_Socket return -1.                                                  *)
InTable(id) == id # -1 /\ IsOpening(id) # -1

(* Close_File; Close_Socket leaves _file and _name behind. *)
CloseFile(s) == [desc EXCEPT ![s] = Unused]
CloseSocket(s) == [desc EXCEPT ![s].mode = -1, ![s].id = -1]

(* SysClose: Close_File whatever the descriptor is; -1 if it is not open. *)
SysClose(id) ==
  /\ Running
  /\ IF ~InTable(id)
     THEN Return(-1) /\ UNCHANGED <<desc, hostOpen>>
     ELSE /\ hostOpen' = Closed(id)
          /\ desc' = CloseFile(IsOpening(id))
          /\ Return(0)
  /\ UNCHANGED <<length, outcome, careful>>

(* SysCloseSocket *)
SysCloseSocket(id) ==
  /\ Running
  /\ IF ~InTable(id)
     THEN Return(-1) /\ UNCHANGED <<desc, hostOpen>>
     ELSE /\ hostOpen' = Closed(id)
          /\ desc' = CloseSocket(IsOpening(id))
          /\ Return(1)
  /\ UNCHANGED <<length, outcome, careful>>

(* What Connect, Send and Receive can return: the host fails them on a file; 1 is  *)
(* a number of bytes, 0 also a message that is "exit".                             *)
HostAnswer(isSocket) == IF isSocket THEN {-1, 0, 1} ELSE {-1}

(* Table::Connect, Send, Receive: -1 for a number that is not open. *)
SocketAnswer(id) == IF InTable(id) THEN HostAnswer(id \in OpenSocketIds) ELSE {-1}

(* User2System: "new char[limit + 1]" throws when the limit is below -1, and nothing  *)
(* catches it.                                                                        *)
NoBuffer(limit) == limit < -1

(* SysSend and SysReceive of n bytes, and SysConnect, whose limit is fixed: they leave *)
(* the table alone.                                                                    *)
SocketCall(id, n) ==
  /\ Running
  /\ Use(n >= 0)
  /\ \/ NoBuffer(n) /\ Crash("buffer")
     \/ /\ ~NoBuffer(n)
        /\ \E answer \in SocketAnswer(id) : Return(answer)
        /\ UNCHANGED <<desc, length, hostOpen, outcome>>

(* IsOpeningWithName: the open descriptors with this name, as strcasecmp sees it. *)
OpenWithName(n) ==
  {s \in Slot : /\ desc[s].mode # -1
                /\ desc[s].name # NoName
                /\ Fold[desc[s].name] = Fold[n]}

(* The scan of IsOpeningWithName meets a socket, whose _name is NULL. *)
NullName(n) ==
  \E s \in Slot :
    /\ desc[s].mode # -1 /\ desc[s].name = NoName
    /\ \A x \in OpenWithName(n) : s < x

(* SysRemove *)
SysRemove(n) ==
  /\ Running
  /\ Use(OpenSocketIds = {})
  /\ \/ NullName(n) /\ Crash("null name")
     \/ /\ ~NullName(n)
        /\ IF OpenWithName(n) # {} \/ length[n] = -1
           THEN Return(-1) /\ UNCHANGED length
           ELSE length' = [length EXCEPT ![n] = -1] /\ Return(0)
        /\ UNCHANGED <<desc, hostOpen, outcome>>

(* SysRemove of an empty name: the search is made, and unlink("") fails. *)
RemoveNoName ==
  /\ Running
  /\ Use(OpenSocketIds = {})
  /\ \/ OpenSocketIds # {} /\ Crash("null name")
     \/ OpenSocketIds = {} /\ Fail

-----------------------------------------------------------------------------
(***************************************************************************)
(* The test "!table.IsOpening(id)" of SysRead, SysWrite and SysSeek is     *)
(* never true, since IsOpening returns a slot or -1 and no slot is 0.  So  *)
(* GetFileDescriptor returns NULL for a number that is not open, and       *)
(* _file is NULL for a socket; both are followed.                          *)
(***************************************************************************)
NoFile(id) == IsOpening(id) # -1 => ~desc[IsOpening(id)].hasFile

File(id) == desc[IsOpening(id)].name
Offset(id) == desc[IsOpening(id)].offset
Advance(id, n) == desc' = [desc EXCEPT ![IsOpening(id)].offset = @ + n]

(* What read() returns: the bytes there are up to the end; -1 for a size of -1, which the *)
(* host is taken to refuse, as write() does.                                               *)
ReadPartial(id, n) == IF n < 0 THEN -1 ELSE Max({0, Min({n, length[File(id)] - Offset(id)})})

(* SysRead of n bytes; Lseek ASSERTs that the position is not negative. *)
SysRead(id, n) ==
  /\ Running
  /\ Use(id \in OpenFileIds /\ n >= 0)
  /\ id # -1
  /\ \/ NoBuffer(n) /\ Crash("buffer")
     \/ ~NoBuffer(n) /\ NoFile(id) /\ Crash("null id")
     \/ ~NoBuffer(n) /\ ~NoFile(id) /\ Offset(id) < 0 /\ Crash("lseek")
     \/ /\ ~NoBuffer(n) /\ ~NoFile(id) /\ Offset(id) >= 0
        /\ Advance(id, ReadPartial(id, n))
        /\ Return(ReadPartial(id, n))
        /\ UNCHANGED <<length, hostOpen, outcome>>

(* WriteFile at a position: write() of no bytes, or of -1, leaves the file as it is, and *)
(* for -1 it returns the -1 that the ASSERT compares it with.                            *)
WriteFile(id, n) ==
  length' = IF n > 0 THEN [length EXCEPT ![File(id)] = Max({@, Offset(id) + n})] ELSE length

(* FileDescriptor::Write: only a file opened for reading and writing; no socket. *)
Writable(id) == desc[IsOpening(id)].mode = ReadWriteFile

(* SysWrite of n bytes *)
SysWrite(id, n) ==
  /\ Running
  /\ Use(id \in OpenFileIds /\ n >= 0)
  /\ id # -1
  /\ \/ NoBuffer(n) /\ Crash("buffer")
     \/ ~NoBuffer(n) /\ IsOpening(id) = -1 /\ Crash("null id")
     \/ ~NoBuffer(n) /\ IsOpening(id) # -1 /\ ~Writable(id) /\ Fail
     \/ ~NoBuffer(n) /\ IsOpening(id) # -1 /\ Writable(id) /\ Offset(id) < 0 /\ Crash("lseek")
     \/ /\ ~NoBuffer(n) /\ IsOpening(id) # -1 /\ Writable(id) /\ Offset(id) >= 0
        /\ Offset(id) + n <= MaxLength
        /\ WriteFile(id, n)
        /\ Advance(id, n)
        /\ Return(n)
        /\ UNCHANGED <<hostOpen, outcome>>

(* FileDescriptor::Seek: -1 stands for the end of the file. *)
Target(len, p) == IF p = -1 THEN len ELSE p

(* Mutant: a position after the end is accepted. *)
NeverTooFar(len, p) == FALSE

(* FileDescriptor::Seek: a position at or after the end is refused. *)
TooFar(len, p) == p >= len

(* SysSeek *)
SysSeek(id, p) ==
  /\ Running
  /\ Use(id \in OpenFileIds /\ p >= -1)
  /\ id # -1
  /\ \/ NoFile(id) /\ Crash("null id")
     \/ /\ ~NoFile(id)
        /\ IF TooFar(length[File(id)], p)
           THEN Return(-1) /\ UNCHANGED desc
           ELSE /\ desc' = [desc EXCEPT ![IsOpening(id)].offset = Target(length[File(id)], p)]
                /\ Return(Target(length[File(id)], p))
        /\ UNCHANGED <<length, hostOpen, outcome>>

-----------------------------------------------------------------------------
FNext ==
  \/ Refused
  \/ RemoveNoName
  \/ \E n \in Name : SysCreate(n) \/ OpenFails(n) \/ SysRemove(n)
  \/ \E n \in Name, type \in {ReadWriteFile, ReadFile}, fd \in HostFd : SysOpen(n, type, fd)
  \/ \E fd \in HostFd : SysSocketTCP(fd)
  \/ \E id \in Id : SysClose(id) \/ SysCloseSocket(id)
  \/ \E id \in Id, n \in ByteCount : SocketCall(id, n) \/ SysRead(id, n) \/ SysWrite(id, n)
  \/ \E id \in Id, p \in Position : SysSeek(id, p)

FSpec == FInit /\ [][FNext]_tvars

-----------------------------------------------------------------------------
OpenSlot == {s \in Slot : desc[s].mode # -1}

(***************************************************************************)
(* FileDescriptors.h: the table and the host agree.  The descriptors in    *)
(* use hold exactly the numbers the host has open, each number once, with  *)
(* the file it was opened for, whatever mix of Close and Close_Socket      *)
(* releases them: none is lost, and none answers for another file.         *)
(***************************************************************************)
TableMatchesHost ==
  /\ {desc[s].id : s \in OpenSlot} = DOMAIN hostOpen
  /\ \A s, x \in OpenSlot : desc[s].id = desc[x].id => s = x
  /\ \A s \in Slot : desc[s].mode = -1 <=> desc[s].id = -1
  /\ \A s \in OpenSlot : desc[s].id \in DOMAIN hostOpen => hostOpen[desc[s].id] = desc[s].name

(* SysRemove: no descriptor in use is for a file that has been removed. *)
OpenFileNotRemoved ==
  \A s \in OpenSlot : desc[s].mode # Socket_Mode => length[desc[s].name] # -1

(***************************************************************************)
(* OpenFile: however descriptors of one file read, write and seek, each    *)
(* stays between the start and the end of the file, unless a program       *)
(* creates the file again, seeks to a negative position or passes a        *)
(* negative size.                                                          *)
(***************************************************************************)
OffsetWithinFile ==
  careful => \A s \in OpenSlot :
    desc[s].mode # Socket_Mode => desc[s].offset \in 0 .. length[desc[s].name]

(* No call follows a NULL, asks for a buffer of negative size or fails an ASSERT of      *)
(* sysdep.cc, if all so far could be answered.                                            *)
NoCrash == careful => outcome = "none"

(***************************************************************************)
(* ksyscall.h tests for a number that is not open, to answer "File is not  *)
(* opening" and -1: no call follows the NULL that stands for it.           *)
(***************************************************************************)
UnopenedIdRefused == outcome # "null id"
=============================================================================
