----------------------------- MODULE SynchDisk ------------------------------
(***************************************************************************)
(* The simulated disk of machine/disk.cc (its seeks, its rotation and its  *)
(* track buffer) and the synchronous access of filesys/synchdisk.cc, used  *)
(* by several threads.  A request moves its data at once and interrupts    *)
(* after the latency; FileSystem.tla builds on that.  What the sectors     *)
(* hold is not kept here.                                                  *)
(***************************************************************************)
EXTENDS Integers

CONSTANTS
  Client,           \* the threads that use the disk
  SectorsPerTrack, NumTracks,
  SeekTime, RotationTime,
  MaxTicks          \* bound on the clock

Sector == 0 .. SectorsPerTrack * NumTracks - 1
NoClient == "no client"

ASSUME DiskAssumption ==
  /\ NoClient \notin Client
  /\ SectorsPerTrack \in Nat \ {0} /\ NumTracks \in Nat \ {0}
  /\ SeekTime \in Nat \ {0} /\ RotationTime \in Nat \ {0}
  /\ MaxTicks \in Nat

NoRequest == [sector |-> 0, asked |-> 0, writing |-> FALSE, seek |-> 0, loaded |-> 0, latency |-> 0]

VARIABLES
  now,         \* stats->totalTicks
  lastSector, bufferInit, active,   \* of Disk
  diskLock, diskSem,                \* SynchDisk::lock, semaphore
  doing,       \* Client -> where the thread is
  request      \* the last request, and the head and buffer when it was made

dvars == <<now, lastSector, bufferInit, active, diskLock, diskSem, doing, request>>

DInit ==
  /\ now = 0
  /\ lastSector = 0 /\ bufferInit = 0 /\ active = FALSE
  /\ diskLock = NoClient /\ diskSem = 0
  /\ doing = [c \in Client |-> "other"]
  /\ request = NoRequest

-----------------------------------------------------------------------------
Distance(a, b) == IF a > b THEN a - b ELSE b - a

(* Disk::TimeToSeek: the seek, and what it returns through rotation. *)
TimeToSeek(newSector) ==
  SeekTime * Distance(newSector \div SectorsPerTrack, lastSector \div SectorsPerTrack)

RotationAfter(seek) ==
  LET over == (now + seek) % RotationTime
  IN  IF over > 0 THEN RotationTime - over ELSE 0

ModuloDiff(to, from) ==
  (((to % SectorsPerTrack) - (from % SectorsPerTrack)) + SectorsPerTrack) % SectorsPerTrack

(* Mutant: the buffer is taken to hold the sector the head is just reading. *)
LatencyEager(newSector, writing) ==
  LET seek == TimeToSeek(newSector)
      rotation == RotationAfter(seek)
      timeAfter == now + seek + rotation
  IN  IF /\ ~writing /\ seek = 0
         /\ (timeAfter - bufferInit) \div RotationTime
              >= ModuloDiff(newSector, bufferInit \div RotationTime)
      THEN RotationTime
      ELSE seek + rotation + ModuloDiff(newSector, timeAfter \div RotationTime) * RotationTime
             + RotationTime

ComputeLatency(newSector, writing) ==
  LET seek == TimeToSeek(newSector)
      rotation == RotationAfter(seek)
      timeAfter == now + seek + rotation
  IN  IF /\ ~writing /\ seek = 0
         /\ (timeAfter - bufferInit) \div RotationTime
              > ModuloDiff(newSector, bufferInit \div RotationTime)
      THEN RotationTime
      ELSE seek + rotation + ModuloDiff(newSector, timeAfter \div RotationTime) * RotationTime
             + RotationTime

(* Disk::UpdateLast *)
UpdateLast(newSector) ==
  LET seek == TimeToSeek(newSector)
  IN  /\ bufferInit' = IF seek # 0 THEN now + seek + RotationAfter(seek) ELSE bufferInit
      /\ lastSector' = newSector

(* SynchDisk::ReadSector or WriteSector: lock->Acquire(). *)
DiskAcquire(c) ==
  /\ doing[c] = "other"
  /\ diskLock = NoClient
  /\ diskLock' = c
  /\ doing' = [doing EXCEPT ![c] = "request"]
  /\ UNCHANGED <<now, lastSector, bufferInit, active, diskSem, request>>

(* Disk::ReadRequest, WriteRequest: the asserts are in DiskDiscipline. *)
DiskRequest(c) ==
  /\ doing[c] = "request"
  /\ \E s \in Sector, writing \in BOOLEAN :
       LET latency == ComputeLatency(s, writing)
       IN  /\ now + latency <= MaxTicks
           /\ request' = [sector |-> s, asked |-> now, writing |-> writing,
                          seek |-> TimeToSeek(s), loaded |-> bufferInit, latency |-> latency]
           /\ UpdateLast(s)
  /\ active' = TRUE
  /\ doing' = [doing EXCEPT ![c] = "wait"]
  /\ UNCHANGED <<now, diskLock, diskSem>>

(* Disk::CallBack when the request is due, and SynchDisk::CallBack. *)
DiskInterrupt ==
  /\ active
  /\ now = request.asked + request.latency
  /\ active' = FALSE
  /\ diskSem' = diskSem + 1
  /\ UNCHANGED <<now, lastSector, bufferInit, diskLock, doing, request>>

(* Mutant: the lock is released before the interrupt is waited for. *)
ReleaseEarly(c) ==
  /\ doing[c] = "wait"
  /\ diskSem' = IF diskSem > 0 THEN diskSem - 1 ELSE diskSem
  /\ diskLock' = NoClient
  /\ doing' = [doing EXCEPT ![c] = "other"]
  /\ UNCHANGED <<now, lastSector, bufferInit, active, request>>

(* semaphore->P(), lock->Release(), and the sector's user goes on. *)
DiskReturn(c) ==
  /\ doing[c] = "wait"
  /\ diskSem > 0
  /\ diskSem' = diskSem - 1
  /\ diskLock' = NoClient
  /\ doing' = [doing EXCEPT ![c] = "other"]
  /\ request' = NoRequest
  /\ UNCHANGED <<now, lastSector, bufferInit, active>>

(* Time passes, and an interrupt is never late (InterruptsOnTime). *)
DiskTick ==
  /\ now < MaxTicks
  /\ ~(active /\ now = request.asked + request.latency)
  /\ now' = now + 1
  /\ UNCHANGED <<lastSector, bufferInit, active, diskLock, diskSem, doing, request>>

DNext ==
  \/ DiskInterrupt \/ DiskTick
  \/ \E c \in Client : DiskAcquire(c) \/ DiskRequest(c) \/ DiskReturn(c)

DSpec == DInit /\ [][DNext]_dvars

-----------------------------------------------------------------------------
(* One request at a time (the asserts of disk.cc:118 and 138), and a thread returns from  *)
(* ReadSector or WriteSector only when the interrupt of its own request has come.         *)
DiskDiscipline ==
  /\ \A c \in Client : doing[c] = "request" => ~active /\ diskSem = 0
  /\ active => diskSem = 0 /\ \E c \in Client : doing[c] = "wait" /\ diskLock = c
  /\ \A c, d \in Client : doing[c] # "other" /\ doing[d] # "other" => c = d

(***************************************************************************)
(* The latency is what the mechanics give, with angles in ticks from the   *)
(* start of sector 0.  Without the buffer the request ends when the head   *)
(* has gone over the whole sector after the seek, and for the first time;  *)
(* with it, the sector has gone under the head since the buffer began to   *)
(* load, and the head has not left the track.                              *)
(***************************************************************************)
LatencyIsMechanical ==
  active =>
    LET turn == SectorsPerTrack * RotationTime
        begins == (request.sector % SectorsPerTrack) * RotationTime
        ends == request.asked + request.latency
        Over(from, to) == \E t \in from .. to - RotationTime : t % turn = begins
        arrives == request.asked + request.seek
    IN  \/ Over(arrives, ends) /\ ~Over(arrives, ends - 1)
        \/ /\ ~request.writing /\ request.seek = 0
           /\ request.latency = RotationTime
           /\ Over(request.loaded, ends)
=============================================================================
