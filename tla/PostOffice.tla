----------------------------- MODULE PostOffice -----------------------------
(***************************************************************************)
(* Machines that exchange mail: the simulated network of                   *)
(* machine/network.cc over the host's datagram sockets (lib/sysdep.cc) and *)
(* the post office of network/post.cc, used by threads that run            *)
(* Kernel::NetworkTest and by one that only sends a message. Packets are   *)
(* lost on the network; a machine may start late and may stop. Locks,      *)
(* semaphores and the SynchList of a mailbox are what Monitor.tla,         *)
(* Threads.tla and SynchList.tla show them to promise. While a machine     *)
(* waits in SendToSocket nothing else happens on it: the host process      *)
(* sleeps.                                                                 *)
(***************************************************************************)
EXTENDS Integers, Sequences, FiniteSets

CONSTANTS
  Busy,      \* machines with a second thread that only sends
  MaxTries,  \* attempts of SendToSocket
  NumBoxes,  \* mailboxes of a post office; NetworkTest uses 0 and 1
  MayHalt    \* machines that may stop

ASSUME PostOfficeAssumption ==
  /\ Busy \subseteq {0, 1} /\ MayHalt \subseteq {0, 1}
  /\ MaxTries \in Nat \ {0} /\ NumBoxes \in Nat \ {0, 1}

Host == {0, 1}
Correspondent == (Host \X {1}) \cup (Busy \X {2})
Other(h) == 1 - h
None == [n |-> 0]

VARIABLES
  reliability,  \* chanceToWork: 0, 1, or between
  power,        \* Host -> "off", "on" or "halted"
  wire,         \* Host -> the packets in its socket
  inHdr,        \* Host -> the packet the device has buffered, or None
  avail,        \* Host -> messageAvailable
  worker,       \* Host -> PostalDelivery: what it does, and the packet in its hand
  boxes,        \* Host -> mailbox -> packets
  sendLock, sent,  \* Host -> of PostOfficeOutput
  sendInt,      \* Host -> a NetworkSendInt is pending
  retrying,     \* Host -> [pkt, tries] in SendToSocket, or None
  stage,        \* Correspondent -> the step of NetworkTest
  reply,        \* Correspondent -> the message it acknowledges
  count,        \* Host -> packets it has sent
  carried, delivered, got,   \* history, Host -> packets put into its socket,
                             \* put into its mailboxes, received by its threads
  lost          \* history: a packet was lost

machineState == <<inHdr, avail, worker, boxes>>
senderState == <<sendLock, sendInt, sent, count>>
history == <<carried, delivered, got>>
pvars == <<reliability, power, wire, machineState, senderState, retrying, stage, reply, history, lost>>

PInit ==
  /\ reliability \in {"none", "some", "full"}
  /\ power = [h \in Host |-> "off"]
  /\ wire = [h \in Host |-> <<>>]
  /\ inHdr = [h \in Host |-> None]
  /\ avail = [h \in Host |-> 0]
  /\ worker = [h \in Host |-> [does |-> "wait", pkt |-> None]]
  /\ boxes = [h \in Host |-> [b \in 0 .. NumBoxes - 1 |-> <<>>]]
  /\ sendLock = [h \in Host |-> 0]
  /\ sendInt = [h \in Host |-> FALSE]
  /\ sent = [h \in Host |-> 0]
  /\ retrying = [h \in Host |-> None]
  /\ stage = [c \in Correspondent |-> "send"]
  /\ reply = [c \in Correspondent |-> None]
  /\ count = [h \in Host |-> 0]
  /\ carried = [h \in Host |-> <<>>]
  /\ delivered = [h \in Host |-> <<>>]
  /\ got = [h \in Host |-> <<>>]
  /\ lost = FALSE

(* The machine is on and not held in the host's sendto. *)
Running(h) == power[h] = "on" /\ retrying[h] = None

(* Binding the socket to its name, which makes it known to the other machine, and taking the *)
(* name away.                                                                                *)
AssignNameToSocket(h) == power' = [power EXCEPT ![h] = "on"]
DeAssignNameToSocket(h) == power' = [power EXCEPT ![h] = "halted"]

(* PollSocket, that is PollFile: is there something to read now? *)
PollFile(waiting) == waiting # <<>>
PollSocket(h) == PollFile(wire[h])

(* ReadFromSocket takes one packet, the oldest. *)
ReadFromSocket(h) ==
  /\ inHdr' = [inHdr EXCEPT ![h] = Head(wire[h])]
  /\ wire' = [wire EXCEPT ![h] = Tail(@)]

(* NetworkInput::NetworkInput: the socket exists from here on. *)
PowerOn(h) ==
  /\ power[h] = "off"
  /\ AssignNameToSocket(h)
  /\ UNCHANGED <<reliability, wire, machineState, senderState, retrying, stage, reply, history, lost>>

(* The machine stops for good, and its socket is gone. *)
HaltHost(h) ==
  /\ h \in MayHalt
  /\ power[h] = "on"
  /\ DeAssignNameToSocket(h)
  /\ UNCHANGED <<reliability, wire, machineState, senderState, retrying, stage, reply, history, lost>>

-----------------------------------------------------------------------------
(* Mutant: the device takes a packet though one is still buffered. *)
RecvOverwrites(h) ==
  /\ Running(h)
  /\ PollSocket(h)
  /\ ReadFromSocket(h)
  /\ avail' = [avail EXCEPT ![h] = @ + 1]
  /\ UNCHANGED <<reliability, power, worker, boxes, senderState, retrying, stage, reply, history, lost>>

(* Mutant: the postal worker is not told. *)
RecvUnannounced(h) ==
  /\ Running(h)
  /\ inHdr[h] = None
  /\ PollSocket(h)
  /\ ReadFromSocket(h)
  /\ UNCHANGED <<reliability, power, avail, worker, boxes, senderState, retrying, stage, reply, history, lost>>

(* NetworkInput::CallBack when there is a packet and room for it, and              *)
(* PostOfficeInput::CallBack; otherwise it only polls again.                       *)
RecvInterrupt(h) ==
  /\ Running(h)
  /\ inHdr[h] = None
  /\ PollSocket(h)
  /\ ReadFromSocket(h)
  /\ avail' = [avail EXCEPT ![h] = @ + 1]
  /\ UNCHANGED <<reliability, power, worker, boxes, senderState, retrying, stage, reply, history, lost>>

(* PostalDelivery: P, then Receive, then Put, with a tick after P and in Put. *)
WorkerWaits(h) ==
  /\ Running(h)
  /\ worker[h].does = "wait"
  /\ avail[h] > 0
  /\ avail' = [avail EXCEPT ![h] = @ - 1]
  /\ worker' = [worker EXCEPT ![h].does = "receive"]
  /\ UNCHANGED <<reliability, power, wire, inHdr, boxes, senderState, retrying, stage, reply, history, lost>>

(* NetworkInput::Receive *)
WorkerReceives(h) ==
  /\ Running(h)
  /\ worker[h].does = "receive"
  /\ worker' = [worker EXCEPT ![h] = [does |-> "put", pkt |-> inHdr[h]]]
  /\ inHdr' = [inHdr EXCEPT ![h] = None]
  /\ UNCHANGED <<reliability, power, wire, avail, boxes, senderState, retrying, stage, reply, history, lost>>

(* MailBox::Put into the mailbox the header names. *)
WorkerPuts(h) ==
  LET pkt == worker[h].pkt
  IN  /\ Running(h)
      /\ worker[h].does = "put"
      /\ boxes' = [boxes EXCEPT ![h][pkt.box] = Append(@, pkt)]
      /\ delivered' = [delivered EXCEPT ![h] = Append(@, pkt)]
      /\ worker' = [worker EXCEPT ![h] = [does |-> "wait", pkt |-> None]]
      /\ UNCHANGED <<reliability, power, wire, inHdr, avail, senderState, retrying, stage, reply, carried, got, lost>>

-----------------------------------------------------------------------------
(* Mutant: each thread has a mailbox of its own at the other end. *)
MailOfByThread(c) ==
  LET h == c[1]
  IN  IF stage[c] = "locked"
      THEN [from |-> h, to |-> Other(h), box |-> c[2] - 1, replyTo |-> 1, n |-> count[h] + 1]
      ELSE [from |-> h, to |-> reply[c].from, box |-> reply[c].replyTo, replyTo |-> 1, n |-> count[h] + 1]

(* What NetworkTest sends: the message, to mailbox 0 with replies to mailbox 1; the   *)
(* acknowledgement, to where the message came from.  count numbers the packets.       *)
MailOf(c) ==
  LET h == c[1]
  IN  IF stage[c] = "locked"
      THEN [from |-> h, to |-> Other(h), box |-> 0, replyTo |-> 1, n |-> count[h] + 1]
      ELSE [from |-> h, to |-> reply[c].from, box |-> reply[c].replyTo, replyTo |-> 1, n |-> count[h] + 1]

(* PostOfficeOutput::Send: sendLock->Acquire(). *)
SendAcquire(c) ==
  LET h == c[1]
  IN  /\ Running(h)
      /\ stage[c] \in {"send", "send ack"}
      /\ sendLock[h] = 0
      /\ sendLock' = [sendLock EXCEPT ![h] = c[2]]
      /\ stage' = [stage EXCEPT ![c] = IF @ = "send" THEN "locked" ELSE "locked ack"]
      /\ UNCHANGED <<reliability, power, wire, machineState, sendInt, sent, count, retrying, reply, history, lost>>

(* NetworkOutput::Send: the interrupt is scheduled whether or not the packet is lost.  Its *)
(* own field sendBusy, which the ASSERT tests, is never set.                               *)
NetSend(c) ==
  LET h == c[1]
  IN  /\ Running(h)
      /\ stage[c] \in {"locked", "locked ack"}
      /\ sendInt' = [sendInt EXCEPT ![h] = TRUE]
      /\ count' = [count EXCEPT ![h] = @ + 1]
      /\ \/ /\ reliability # "full"
            /\ lost' = TRUE
            /\ UNCHANGED retrying
         \/ /\ reliability # "none"
            /\ retrying' = [retrying EXCEPT ![h] = [n |-> MaxTries, pkt |-> MailOf(c)]]
            /\ UNCHANGED lost
      /\ stage' = [stage EXCEPT ![c] = IF @ = "locked" THEN "sending" ELSE "sending ack"]
      /\ UNCHANGED <<reliability, power, wire, machineState, sendLock, sent, reply, history>>

(* Mutant: tries once more after the packet has gone out. *)
TransmitTwice(h) ==
  /\ power[h] = "on"
  /\ retrying[h] # None
  /\ LET to == retrying[h].pkt.to
     IN  IF power[to] = "on"
         THEN /\ wire' = [wire EXCEPT ![to] = Append(@, retrying[h].pkt)]
              /\ carried' = [carried EXCEPT ![to] = Append(@, retrying[h].pkt)]
              /\ retrying' = [retrying EXCEPT ![h] = IF @.n = 1 THEN None ELSE [n |-> @.n - 1, pkt |-> @.pkt]]
              /\ UNCHANGED lost
         ELSE /\ retrying' = [retrying EXCEPT ![h] = IF @.n = 1 THEN None ELSE [n |-> @.n - 1, pkt |-> @.pkt]]
              /\ lost' = (lost \/ retrying[h].n = 1)
              /\ UNCHANGED <<wire, carried>>
  /\ UNCHANGED <<reliability, power, machineState, senderState, stage, reply, delivered, got>>

(* One attempt of SendToSocket: it reaches a socket that exists; after the last that    *)
(* does not the packet is dropped.                                                      *)
Transmit(h) ==
  /\ power[h] = "on"
  /\ retrying[h] # None
  /\ LET to == retrying[h].pkt.to
     IN  IF power[to] = "on"
         THEN /\ wire' = [wire EXCEPT ![to] = Append(@, retrying[h].pkt)]
              /\ carried' = [carried EXCEPT ![to] = Append(@, retrying[h].pkt)]
              /\ retrying' = [retrying EXCEPT ![h] = None]
              /\ UNCHANGED lost
         ELSE /\ retrying' = [retrying EXCEPT ![h] = IF @.n = 1 THEN None ELSE [n |-> @.n - 1, pkt |-> @.pkt]]
              /\ lost' = (lost \/ retrying[h].n = 1)
              /\ UNCHANGED <<wire, carried>>
  /\ UNCHANGED <<reliability, power, machineState, senderState, stage, reply, delivered, got>>

(* NetworkOutput::CallBack, PostOfficeOutput::CallBack *)
SendInterrupt(h) ==
  /\ Running(h)
  /\ sendInt[h]
  /\ sendInt' = [sendInt EXCEPT ![h] = FALSE]
  /\ sent' = [sent EXCEPT ![h] = @ + 1]
  /\ UNCHANGED <<reliability, power, wire, machineState, sendLock, count, retrying, stage, reply, history, lost>>

(* messageSent->P(), sendLock->Release() *)
SendReturns(c) ==
  LET h == c[1]
  IN  /\ Running(h)
      /\ stage[c] \in {"sending", "sending ack"}
      /\ sent[h] > 0
      /\ sent' = [sent EXCEPT ![h] = @ - 1]
      /\ sendLock' = [sendLock EXCEPT ![h] = 0]
      /\ stage' = [stage EXCEPT ![c] = IF c[2] = 2 THEN "done"
                                        ELSE IF @ = "sending" THEN "receive" ELSE "receive ack"]
      /\ UNCHANGED <<reliability, power, wire, machineState, sendInt, count, retrying, reply, history, lost>>

(* PostOfficeInput::Receive, MailBox::Get: from mailbox 0, later from mailbox 1. *)
ReceiveMail(c) ==
  LET h == c[1]
      b == IF stage[c] = "receive" THEN 0 ELSE 1
  IN  /\ Running(h)
      /\ stage[c] \in {"receive", "receive ack"}
      /\ boxes[h][b] # <<>>
      /\ boxes' = [boxes EXCEPT ![h][b] = Tail(@)]
      /\ got' = [got EXCEPT ![h] = Append(@, Head(boxes[h][b]))]
      /\ reply' = [reply EXCEPT ![c] = Head(boxes[h][b])]
      /\ stage' = [stage EXCEPT ![c] = IF @ = "receive" THEN "send ack" ELSE "done"]
      /\ UNCHANGED <<reliability, power, wire, inHdr, avail, worker, senderState, retrying, carried, delivered, lost>>

PNext ==
  \/ \E h \in Host : \/ PowerOn(h) \/ HaltHost(h) \/ RecvInterrupt(h)
                     \/ WorkerWaits(h) \/ WorkerReceives(h) \/ WorkerPuts(h)
                     \/ Transmit(h) \/ SendInterrupt(h)
  \/ \E c \in Correspondent : \/ SendAcquire(c) \/ NetSend(c) \/ SendReturns(c) \/ ReceiveMail(c)

(* Machines are started and run; locks and mailboxes serve their waiters in turn. *)
PFairness ==
  /\ \A h \in Host : /\ WF_pvars(PowerOn(h)) /\ WF_pvars(RecvInterrupt(h))
                     /\ WF_pvars(WorkerWaits(h) \/ WorkerReceives(h) \/ WorkerPuts(h))
                     /\ WF_pvars(Transmit(h)) /\ WF_pvars(SendInterrupt(h))
  /\ \A c \in Correspondent : /\ WF_pvars(NetSend(c) \/ SendReturns(c))
                              /\ SF_pvars(SendAcquire(c)) /\ SF_pvars(ReceiveMail(c))

PSpec == PInit /\ [][PNext]_pvars /\ PFairness

-----------------------------------------------------------------------------
Held(x) == IF x = None THEN <<>> ELSE <<x>>

(* Mail that got onto a machine's socket is in a mailbox, in the worker's hand, in the   *)
(* device or still in the socket, once, in the order sent: interrupts that find the      *)
(* device full and a worker that is slow lose, double and overtake nothing.              *)
NothingLostOnReceipt ==
  \A h \in Host :
    carried[h] = delivered[h] \o Held(worker[h].pkt) \o Held(inHdr[h]) \o wire[h]

(* In order but unreliably: what arrives from a machine is what it sent, each packet at   *)
(* most once and none before an earlier one (network.h:44).                               *)
InOrderAtMostOnce ==
  \A h \in Host : \A i, j \in DOMAIN delivered[h] :
    i < j /\ delivered[h][i].from = delivered[h][j].from => delivered[h][i].n < delivered[h][j].n

(* An acknowledgement means that the message was received: a machine never has more of   *)
(* them than its messages that some thread of the other has got (NetworkTest).           *)
AckMeansReceived ==
  \A h \in Host :
    Cardinality({i \in DOMAIN got[h] : got[h][i].box = 1})
      <= Cardinality({i \in DOMAIN got[Other(h)] : got[Other(h)][i].box = 0})

(* NetworkTest comes to its end on both machines when no packet is lost and no machine     *)
(* halts.  Nothing is sent again: after a loss its receiver waits for good.                *)
NetworkTestEnds ==
  <>(\/ \A c \in Correspondent : stage[c] = "done"
     \/ lost
     \/ \E h \in Host : power[h] = "halted")
=============================================================================
