-------------------------- MODULE PostOfficeProofs --------------------------
(***************************************************************************)
(* Proofs about PostOffice, for any number of mailboxes and attempts, and  *)
(* whichever machines have a second sender and may stop.                   *)
(***************************************************************************)
EXTENDS PostOffice, FiniteSetTheorems, TLAPS

(* Zenon proves the leaves that name no prover; those with arithmetic or   *)
(* sequences name the SMT solver.                                          *)
USE ZenonT(60)

(* The packets sent to machine h. *)
Mail(h) == [from : {Other(h)}, to : {h}, box : {0, 1}, replyTo : {1}, n : Nat \ {0}]

FirstStages == {"send", "locked", "sending"}
ReplyStages == {"send ack", "locked ack", "sending ack", "receive ack"}
Stages == FirstStages \cup {"receive"} \cup ReplyStages \cup {"done"}

MailAt(h) ==
  /\ inHdr[h] \in Mail(h) \cup {None}
  /\ worker[h] \in [does : {"wait", "receive", "put"}, pkt : Mail(h) \cup {None}]
  /\ wire[h] \in Seq(Mail(h)) /\ carried[h] \in Seq(Mail(h)) /\ delivered[h] \in Seq(Mail(h))
  /\ got[h] \in Seq(Mail(h))
  /\ boxes[h] \in [0 .. NumBoxes - 1 -> Seq(Mail(h))]
  /\ retrying[h] \in [n : Nat \ {0}, pkt : Mail(Other(h))] \cup {None}
  /\ avail[h] \in Nat /\ count[h] \in Nat

MailTypes ==
  /\ \A h \in Host : MailAt(h)
  /\ \A c \in Correspondent : reply[c] \in Mail(c[1]) \cup {None}
  /\ stage \in [Correspondent -> Stages]
  /\ DOMAIN inHdr = Host /\ DOMAIN worker = Host /\ DOMAIN wire = Host /\ DOMAIN carried = Host
  /\ DOMAIN delivered = Host /\ DOMAIN got = Host /\ DOMAIN boxes = Host
  /\ DOMAIN retrying = Host /\ DOMAIN avail = Host /\ DOMAIN count = Host
  /\ DOMAIN reply = Correspondent

(***************************************************************************)
(* The handshake of the device and the postal worker: a buffered packet    *)
(* has one unit of messageAvailable, or a worker on its way to take it.    *)
(***************************************************************************)
Handshake(h) ==
  /\ worker[h].does = "put" <=> worker[h].pkt # None
  /\ inHdr[h] = None => avail[h] = 0 /\ worker[h].does # "receive"
  /\ inHdr[h] # None => \/ avail[h] = 1 /\ worker[h].does # "receive"
                        \/ avail[h] = 0 /\ worker[h].does = "receive"

(* The conjunct of NothingLostOnReceipt for one machine. *)
AllThere(h) == carried[h] = delivered[h] \o Held(worker[h].pkt) \o Held(inHdr[h]) \o wire[h]

(* Packets are numbered in the order they get onto a socket; one that is tried is the last. *)
Numbered(h) ==
  /\ \A i, j \in 1 .. Len(carried[h]) : i < j => carried[h][i].n < carried[h][j].n
  /\ \A i \in 1 .. Len(carried[h]) :
       /\ carried[h][i].n <= count[Other(h)]
       /\ retrying[Other(h)] # None => carried[h][i].n < count[Other(h)]
  /\ retrying[h] # None => retrying[h].pkt.n = count[h]

(* An acknowledgement is sent by a thread that has received a message. *)
AckStages == {"sending ack", "receive ack", "done"}
Acked(p) == p.box = 1 => stage[<<p.from, 1>>] \in AckStages

AckedAt(h) ==
  /\ inHdr[h] # None => Acked(inHdr[h])
  /\ worker[h].pkt # None => Acked(worker[h].pkt)
  /\ retrying[h] # None => Acked(retrying[h].pkt)
  /\ \A i \in 1 .. Len(wire[h]) : Acked(wire[h][i])
  /\ \A i \in 1 .. Len(got[h]) : Acked(got[h][i])
  /\ \A b \in 0 .. NumBoxes - 1 : \A i \in 1 .. Len(boxes[h][b]) :
       boxes[h][b][i].box = b /\ Acked(boxes[h][b][i])

(* What the first thread of a machine has received at each stage of NetworkTest. *)
GotAt(h) ==
  LET s == stage[<<h, 1>>] IN
  /\ s \in FirstStages \cup {"receive"} => got[h] = <<>>
  /\ s \in ReplyStages => Len(got[h]) = 1 /\ got[h][1].box = 0 /\ reply[<<h, 1>>] # None
  /\ s = "done" => Len(got[h]) = 2 /\ got[h][1].box = 0 /\ got[h][2].box = 1
  /\ h \in Busy => stage[<<h, 2>>] \in FirstStages \cup {"done"}

(* The inductive invariant. *)
MailInv ==
  /\ MailTypes
  /\ \A h \in Host : Handshake(h) /\ AllThere(h) /\ Numbered(h) /\ AckedAt(h) /\ GotAt(h)

-----------------------------------------------------------------------------
(* The two machines, and the two threads. *)
LEMMA Hosts ==
  /\ \A h \in Host : Other(h) \in Host /\ Other(Other(h)) = h /\ Other(h) # h
  /\ \A h \in Host : <<h, 1>> \in Correspondent
  /\ \A c \in Correspondent : /\ c[1] \in Host
                              /\ c = <<c[1], 1>> \/ (c = <<c[1], 2>> /\ c[1] \in Busy)
  /\ {0, 1} \subseteq 0 .. NumBoxes - 1
<1>1. \A h \in Host : Other(h) \in Host /\ Other(Other(h)) = h /\ Other(h) # h
  BY SMTT(60) DEF Host, Other
<1>2. \A h \in Host : <<h, 1>> \in Correspondent
  BY DEF Correspondent
<1>3. ASSUME NEW c \in Correspondent
      PROVE  c[1] \in Host /\ (c = <<c[1], 1>> \/ (c = <<c[1], 2>> /\ c[1] \in Busy))
  <2>1. CASE c \in Host \X {1}
    BY SMTT(60), <2>1
  <2>2. CASE c \in Busy \X {2}
    <3>1. c[1] \in Busy /\ c = <<c[1], 2>>
      BY SMTT(60), <2>2
    <3>2. Busy \subseteq Host
      BY PostOfficeAssumption DEF Host
    <3> QED
      BY <3>1, <3>2
  <2> QED
    BY <2>1, <2>2 DEF Correspondent
<1>4. {0, 1} \subseteq 0 .. NumBoxes - 1
  BY SMTT(60), PostOfficeAssumption
<1> QED
  BY <1>1, <1>2, <1>3, <1>4

(* A packet is not None. *)
LEMMA MailIsSome ==
  ASSUME NEW h, NEW p \in Mail(h)
  PROVE  p # None
  BY SMTT(60) DEF Mail, None

LEMMA TakeFirst ==
  ASSUME NEW S, NEW s \in Seq(S), s # <<>>
  PROVE  Head(s) \in S /\ Tail(s) \in Seq(S) /\ s = <<Head(s)>> \o Tail(s)
<1>1. Head(s) \in S /\ Tail(s) \in Seq(S)
  BY SMTT(60)
<1> QED
  BY SMTT(60), <1>1

(* Two sequences put together, and an element of one. *)
LEMMA Joined ==
  ASSUME NEW S, NEW a \in Seq(S), NEW b \in Seq(S)
  PROVE  a \o b \in Seq(S)
  BY SMTT(60)

LEMMA Element ==
  ASSUME NEW S, NEW s \in Seq(S), NEW i \in 1 .. Len(s)
  PROVE  s[i] \in S
  BY SMTT(60)

(* A packet between two sequences, and one at the end of them. *)
LEMMA Shift ==
  ASSUME NEW S, NEW a \in Seq(S), NEW b \in Seq(S), NEW x \in S
  PROVE  /\ a \o (<<x>> \o b) = (a \o <<x>>) \o b
         /\ a \o Append(b, x) = Append(a \o b, x)
         /\ a \o <<x>> = Append(a, x)
<1>1. <<x>> \in Seq(S)
  BY SMTT(60)
<1>2. a \o (<<x>> \o b) = (a \o <<x>>) \o b
  BY SMTT(60), <1>1
<1>3. a \o (b \o <<x>>) = (a \o b) \o <<x>>
  BY SMTT(60), <1>1
<1>4. a \o b \in Seq(S)
  BY SMTT(60)
<1> QED
  BY SMTT(60), <1>2, <1>3, <1>4

(* A packet with a higher number than all before it keeps them numbered in order. *)
LEMMA NumberedAppend ==
  ASSUME NEW S, NEW s \in Seq(S), NEW x \in S, \A y \in S : y.n \in Nat,
         \A i, j \in 1 .. Len(s) : i < j => s[i].n < s[j].n,
         \A i \in 1 .. Len(s) : s[i].n < x.n
  PROVE  LET z == Append(s, x) IN
         /\ \A i, j \in 1 .. Len(z) : i < j => z[i].n < z[j].n
         /\ \A i \in 1 .. Len(z) : z[i].n <= x.n
<1> DEFINE z == Append(s, x)
<1>1. /\ Len(s) \in Nat /\ Len(z) = Len(s) + 1 /\ z[Len(s) + 1] = x
      /\ \A i \in 1 .. Len(s) : z[i] = s[i]
  BY SMTT(60)
<1>2. \A i \in 1 .. Len(s) : s[i].n \in Nat
  BY SMTT(60)
<1>3. x.n \in Nat
  OBVIOUS
<1> HIDE DEF z
<1>4. ASSUME NEW i \in 1 .. Len(z), NEW j \in 1 .. Len(z), i < j
      PROVE  z[i].n < z[j].n
  <2>1. PICK m \in Nat : m = Len(s) /\ Len(z) = m + 1
    BY <1>1
  <2>2. i \in 1 .. m /\ (j \in 1 .. m \/ j = m + 1)
    BY SMTT(60), <1>4, <2>1
  <2> QED
    BY <1>1, <1>4, <2>1, <2>2
<1>5. ASSUME NEW i \in 1 .. Len(z) PROVE z[i].n <= x.n
  <2>1. i \in 1 .. Len(s) \/ i = Len(s) + 1
    BY SMTT(60), <1>1
  <2> QED
    BY SMTT(60), <1>1, <1>2, <1>3, <2>1
<1> QED
  BY <1>4, <1>5 DEF z

LEMMA HeldSeq ==
  ASSUME NEW S, NEW x \in S \cup {None}
  PROVE  /\ Held(x) \in Seq(S)
         /\ x = None => Held(x) = <<>>
         /\ x # None => Held(x) = <<x>>
  BY SMTT(60) DEF Held

LEMMA InitMail == PInit => MailInv
<1> SUFFICES ASSUME PInit PROVE MailInv
  OBVIOUS
<1>1. MailTypes
  BY SMTT(60), Hosts DEF PInit, MailTypes, MailAt, Stages, FirstStages
<1>2. ASSUME NEW h \in Host
      PROVE  Handshake(h) /\ Numbered(h) /\ AckedAt(h)
  BY SMTT(60), <1>2, Hosts DEF PInit, Handshake, Numbered, AckedAt
<1>3. ASSUME NEW h \in Host
      PROVE  AllThere(h)
  BY SMTT(60), <1>3 DEF PInit, AllThere, Held
<1>4. ASSUME NEW h \in Host
      PROVE  GotAt(h)
  <2>1. h \in Busy => <<h, 2>> \in Correspondent
    BY PostOfficeAssumption DEF Correspondent
  <2> QED
    BY <1>4, <2>1, Hosts, PostOfficeAssumption DEF PInit, GotAt, FirstStages, ReplyStages
<1> QED
  BY <1>1, <1>2, <1>3, <1>4 DEF MailInv

(* The device takes a packet from the socket when its buffer is empty. *)
LEMMA RecvMail ==
  ASSUME MailInv, NEW h \in Host, RecvInterrupt(h)
  PROVE  MailInv'
<1>1. MailTypes /\ MailAt(h) /\ Handshake(h) /\ AllThere(h) /\ AckedAt(h)
  BY DEF MailInv, MailTypes
<1>2. /\ wire[h] \in Seq(Mail(h)) /\ wire[h] # <<>> /\ inHdr[h] = None
  BY <1>1 DEF MailAt, RecvInterrupt, PollSocket, PollFile
<1>3. PICK x \in Mail(h) : /\ x = Head(wire[h]) /\ wire[h] = <<x>> \o Tail(wire[h])
                           /\ Tail(wire[h]) \in Seq(Mail(h)) /\ x # None
  BY <1>2, TakeFirst, MailIsSome
<1>4. /\ UNCHANGED <<worker, boxes, count, retrying, stage, reply, carried, delivered, got>>
      /\ inHdr' = [inHdr EXCEPT ![h] = x] /\ wire' = [wire EXCEPT ![h] = Tail(wire[h])]
      /\ avail' = [avail EXCEPT ![h] = avail[h] + 1]
  BY <1>3 DEF RecvInterrupt, ReadFromSocket, senderState, history
<1>5. /\ inHdr'[h] = x /\ wire'[h] = Tail(wire[h]) /\ avail'[h] = avail[h] + 1
      /\ \A k \in Host : k # h => inHdr'[k] = inHdr[k] /\ wire'[k] = wire[k] /\ avail'[k] = avail[k]
      /\ DOMAIN inHdr' = Host /\ DOMAIN wire' = Host /\ DOMAIN avail' = Host
  BY <1>1, <1>4 DEF MailTypes
<1>6. MailTypes'
  <2>1. ASSUME NEW k \in Host PROVE MailAt(k)'
    BY SMTT(60), <1>1, <1>3, <1>4, <1>5 DEF MailTypes, MailAt
  <2> QED
    BY <1>1, <1>4, <1>5, <2>1 DEF MailTypes
<1>7. AllThere(h)'
  <2>1. PICK d \in Seq(Mail(h)) : d = delivered[h] \o Held(worker[h].pkt)
    <3>1. delivered[h] \in Seq(Mail(h)) /\ Held(worker[h].pkt) \in Seq(Mail(h))
      BY <1>1, HeldSeq DEF MailAt
    <3> QED
      BY <3>1, Joined
  <2>2. d \o Held(inHdr[h]) = d
    BY SMTT(60), <1>2, <2>1 DEF Held
  <2>3. <<x>> \in Seq(Mail(h)) /\ Held(x) = <<x>>
    BY SMTT(60), <1>3 DEF Held
  <2>4. PICK w \in Seq(Mail(h)) : w = Tail(wire[h])
    BY <1>3
  <2>5. d \o (<<x>> \o w) = (d \o <<x>>) \o w
    BY SMTT(60), Shift
  <2> QED
    BY <1>1, <1>3, <1>4, <1>5, <2>1, <2>2, <2>3, <2>4, <2>5 DEF AllThere
<1>8. ASSUME NEW k \in Host
      PROVE  Handshake(k)' /\ AllThere(k)' /\ Numbered(k)' /\ GotAt(k)'
  <2>1. Handshake(k)'
    BY SMTT(60), <1>1, <1>2, <1>3, <1>4, <1>5 DEF MailInv, Handshake
  <2>2. AllThere(k)'
    BY <1>4, <1>5, <1>7 DEF MailInv, AllThere
  <2>3. Numbered(k)' /\ GotAt(k)'
    BY <1>4 DEF MailInv, Numbered, GotAt
  <2> QED
    BY <2>1, <2>2, <2>3
<1>9. ASSUME NEW k \in Host PROVE AckedAt(k)'
  <2>1. \A p : Acked(p)' <=> Acked(p)
    BY <1>4 DEF Acked
  <2>2. Len(wire[h]) \in Nat /\ 1 \in 1 .. Len(wire[h])
    BY SMTT(60), <1>2
  <2>3. Acked(x)
    BY SMTT(60), <1>1, <1>2, <1>3, <2>2 DEF AckedAt
  <2>4. ASSUME NEW i \in 1 .. Len(wire'[h]) PROVE Acked(wire'[h][i])
    <3>1. Len(wire'[h]) = Len(wire[h]) - 1 /\ wire'[h][i] = wire[h][i + 1]
      BY SMTT(60), <1>2, <1>5
    <3> QED
      BY SMTT(60), <1>1, <2>2, <3>1 DEF AckedAt
  <2> QED
    BY SMTT(60), <1>4, <1>5, <2>1, <2>3, <2>4 DEF MailInv, AckedAt
<1> QED
  BY <1>6, <1>8, <1>9 DEF MailInv

(* PostalDelivery takes a unit of messageAvailable. *)
LEMMA WaitMail ==
  ASSUME MailInv, NEW h \in Host, WorkerWaits(h)
  PROVE  MailInv'
<1>1. MailTypes /\ MailAt(h) /\ Handshake(h)
  BY DEF MailInv, MailTypes
<1>2. /\ UNCHANGED <<wire, inHdr, boxes, count, retrying, stage, reply, carried, delivered, got>>
      /\ worker[h].does = "wait" /\ avail[h] > 0
      /\ avail' = [avail EXCEPT ![h] = avail[h] - 1]
      /\ worker' = [worker EXCEPT ![h].does = "receive"]
  BY DEF WorkerWaits, senderState, history
<1>3. /\ worker'[h].does = "receive" /\ worker'[h].pkt = worker[h].pkt
      /\ worker'[h] \in [does : {"wait", "receive", "put"}, pkt : Mail(h) \cup {None}]
      /\ avail'[h] = avail[h] - 1 /\ avail[h] = 1 /\ inHdr[h] # None
      /\ \A k \in Host : k # h => worker'[k] = worker[k] /\ avail'[k] = avail[k]
      /\ DOMAIN worker' = Host /\ DOMAIN avail' = Host
  <2>1. worker'[h] = [worker[h] EXCEPT !.does = "receive"]
    BY <1>1, <1>2 DEF MailTypes
  <2>2. worker[h] \in [does : {"wait", "receive", "put"}, pkt : Mail(h) \cup {None}]
    BY <1>1 DEF MailAt
  <2>3. worker'[h] = [does |-> "receive", pkt |-> worker[h].pkt]
    BY <2>1, <2>2
  <2>4. avail'[h] = avail[h] - 1 /\ avail[h] = 1 /\ inHdr[h] # None
    BY SMTT(60), <1>1, <1>2 DEF MailTypes, MailAt, Handshake
  <2>5. /\ \A k \in Host : k # h => worker'[k] = worker[k] /\ avail'[k] = avail[k]
        /\ DOMAIN worker' = Host /\ DOMAIN avail' = Host
    BY <1>1, <1>2 DEF MailTypes
  <2>6. worker'[h] \in [does : {"wait", "receive", "put"}, pkt : Mail(h) \cup {None}]
    BY SMTT(60), <2>2, <2>3
  <2> QED
    BY SMTT(60), <2>3, <2>4, <2>5, <2>6
<1>4. MailTypes'
  <2>1. ASSUME NEW k \in Host PROVE MailAt(k)'
    BY SMTT(60), <1>1, <1>2, <1>3 DEF MailTypes, MailAt
  <2> QED
    BY <1>1, <1>2, <1>3, <2>1 DEF MailTypes
<1>5. \A k \in Host : worker'[k].pkt = worker[k].pkt
  BY <1>3
<1>6. ASSUME NEW k \in Host
      PROVE  Handshake(k)' /\ AllThere(k)' /\ Numbered(k)' /\ AckedAt(k)' /\ GotAt(k)'
  <2>1. Handshake(k)'
    BY SMTT(60), <1>1, <1>2, <1>3 DEF MailInv, Handshake
  <2>2. AllThere(k)' /\ Numbered(k)' /\ GotAt(k)'
    BY <1>2, <1>5 DEF MailInv, AllThere, Numbered, GotAt
  <2>3. AckedAt(k)'
    <3>1. \A p : Acked(p)' <=> Acked(p)
      BY <1>2 DEF Acked
    <3> QED
      BY SMTT(60), <1>2, <1>5, <3>1 DEF MailInv, AckedAt
  <2> QED
    BY <2>1, <2>2, <2>3
<1> QED
  BY <1>4, <1>6 DEF MailInv

(* NetworkInput::Receive empties the buffer of the device. *)
LEMMA ReceiveFromDevice ==
  ASSUME MailInv, NEW h \in Host, WorkerReceives(h)
  PROVE  MailInv'
<1>1. MailTypes /\ MailAt(h) /\ Handshake(h) /\ AllThere(h) /\ AckedAt(h)
  BY DEF MailInv, MailTypes
<1>2. PICK x \in Mail(h) : x = inHdr[h] /\ x # None
  BY <1>1 DEF MailAt, Handshake, WorkerReceives
<1>3. /\ UNCHANGED <<wire, avail, boxes, count, retrying, stage, reply, carried, delivered, got>>
      /\ worker[h].does = "receive" /\ worker[h].pkt = None /\ avail[h] = 0
      /\ inHdr' = [inHdr EXCEPT ![h] = None]
      /\ worker' = [worker EXCEPT ![h] = [does |-> "put", pkt |-> x]]
  BY <1>1, <1>2 DEF WorkerReceives, senderState, history, Handshake
<1>4. /\ worker'[h] = [does |-> "put", pkt |-> x] /\ worker'[h].does = "put" /\ worker'[h].pkt = x
      /\ inHdr'[h] = None
      /\ \A k \in Host : k # h => worker'[k] = worker[k] /\ inHdr'[k] = inHdr[k]
      /\ DOMAIN worker' = Host /\ DOMAIN inHdr' = Host
  BY <1>1, <1>3 DEF MailTypes
<1>5. MailTypes'
  <2>1. ASSUME NEW k \in Host PROVE MailAt(k)'
    BY <1>1, <1>2, <1>3, <1>4 DEF MailTypes, MailAt
  <2> QED
    BY <1>1, <1>3, <1>4, <2>1 DEF MailTypes
<1>6. AllThere(h)'
  <2>1. delivered[h] \in Seq(Mail(h)) /\ <<x>> \in Seq(Mail(h))
    BY SMTT(60), <1>1, <1>2 DEF MailAt
  <2>2. delivered[h] \o <<>> = delivered[h] /\ (delivered[h] \o <<x>>) \o <<>> = delivered[h] \o <<x>>
    BY SMTT(60), <2>1
  <2>3. Held(x) = <<x>> /\ Held(None) = <<>>
    BY <1>2 DEF Held
  <2>4. delivered[h] \o Held(worker[h].pkt) \o Held(inHdr[h]) = delivered[h] \o <<x>>
    BY <1>2, <1>3, <2>2, <2>3
  <2>5. delivered[h] \o Held(worker'[h].pkt) \o Held(inHdr'[h]) = delivered[h] \o <<x>>
    BY <1>4, <2>2, <2>3
  <2> QED
    BY <1>1, <1>3, <2>4, <2>5 DEF AllThere, Held
<1>7. ASSUME NEW k \in Host
      PROVE  Handshake(k)' /\ AllThere(k)' /\ Numbered(k)' /\ AckedAt(k)' /\ GotAt(k)'
  <2>1. Handshake(k)'
    BY <1>1, <1>2, <1>3, <1>4 DEF MailInv, Handshake
  <2>2. /\ AllThere(k)'
        /\ Numbered(k)'
        /\ GotAt(k)'
    <3>1. AllThere(k)'
      BY <1>3, <1>4, <1>6 DEF MailInv, AllThere
    <3>2. Numbered(k)'
      BY <1>3, <1>4 DEF MailInv, Numbered
    <3>3. GotAt(k)'
      BY <1>3, <1>4 DEF MailInv, GotAt
    <3> QED
      BY <3>1, <3>2, <3>3
  <2>3. AckedAt(k)'
    <3>1. \A p : Acked(p)' <=> Acked(p)
      BY <1>3 DEF Acked
    <3> QED
      BY SMTT(60), <1>1, <1>2, <1>3, <1>4, <3>1 DEF MailInv, AckedAt
  <2> QED
    BY <2>1, <2>2, <2>3
<1> QED
  BY <1>5, <1>7 DEF MailInv

(* MailBox::Put *)
LEMMA PutMail ==
  ASSUME MailInv, NEW h \in Host, WorkerPuts(h)
  PROVE  MailInv'
<1>1. MailTypes /\ MailAt(h) /\ Handshake(h) /\ AllThere(h) /\ AckedAt(h)
  BY DEF MailInv, MailTypes
<1>2. PICK x \in Mail(h) : x = worker[h].pkt /\ x # None
  BY <1>1 DEF MailAt, Handshake, WorkerPuts
<1>3. PICK b \in 0 .. NumBoxes - 1 : b = x.box /\ boxes[h][b] \in Seq(Mail(h))
  BY <1>1, <1>2, Hosts DEF Mail, MailAt
<1>4. /\ UNCHANGED <<wire, inHdr, avail, count, retrying, stage, reply, carried, got>>
      /\ worker[h].does = "put"
      /\ boxes' = [boxes EXCEPT ![h] = [boxes[h] EXCEPT ![b] = Append(boxes[h][b], x)]]
      /\ delivered' = [delivered EXCEPT ![h] = Append(delivered[h], x)]
      /\ worker' = [worker EXCEPT ![h] = [does |-> "wait", pkt |-> None]]
  BY <1>2, <1>3 DEF WorkerPuts, senderState
<1>5. /\ worker'[h] = [does |-> "wait", pkt |-> None]
      /\ delivered'[h] = Append(delivered[h], x)
      /\ boxes'[h] = [boxes[h] EXCEPT ![b] = Append(boxes[h][b], x)]
      /\ \A k \in Host : k # h => /\ worker'[k] = worker[k] /\ delivered'[k] = delivered[k]
                                  /\ boxes'[k] = boxes[k]
      /\ DOMAIN worker' = Host /\ DOMAIN delivered' = Host /\ DOMAIN boxes' = Host
  BY <1>1, <1>4 DEF MailTypes
<1>6. Append(boxes[h][b], x) \in Seq(Mail(h)) /\ Append(delivered[h], x) \in Seq(Mail(h))
  BY SMTT(60), <1>1, <1>3 DEF MailAt
<1>7. MailTypes'
  <2>1. ASSUME NEW k \in Host PROVE MailAt(k)'
    BY <1>1, <1>4, <1>5, <1>6 DEF MailTypes, MailAt
  <2> QED
    BY <1>1, <1>4, <1>5, <2>1 DEF MailTypes
<1>8. AllThere(h)'
  <2>1. delivered[h] \in Seq(Mail(h))
    BY <1>1 DEF MailAt
  <2>2. Held(x) = <<x>> /\ Held(None) = <<>>
    BY <1>2 DEF Held
  <2>3. delivered[h] \o <<x>> = Append(delivered[h], x) /\ Append(delivered[h], x) \o <<>> = Append(delivered[h], x)
    BY SMTT(60), <1>6, <2>1
  <2>4. delivered[h] \o Held(worker[h].pkt) = delivered'[h] \o Held(worker'[h].pkt)
    BY SMTT(60), <1>2, <1>5, <2>2, <2>3
  <2> QED
    BY <1>1, <1>4, <2>4 DEF AllThere, Held
<1>9. ASSUME NEW k \in Host
      PROVE  Handshake(k)' /\ AllThere(k)' /\ Numbered(k)' /\ GotAt(k)'
  <2>1. Handshake(k)'
    BY <1>1, <1>4, <1>5 DEF MailInv, Handshake
  <2>2. AllThere(k)' /\ Numbered(k)' /\ GotAt(k)'
    BY <1>4, <1>5, <1>8 DEF MailInv, AllThere, Numbered, GotAt
  <2> QED
    BY <2>1, <2>2
<1>10. ASSUME NEW k \in Host PROVE AckedAt(k)'
  <2>1. \A p : Acked(p)' <=> Acked(p)
    BY <1>4 DEF Acked
  <2>2. Acked(x)
    BY <1>1, <1>2 DEF AckedAt
  <2>3. ASSUME k = h, NEW a \in 0 .. NumBoxes - 1, NEW i \in 1 .. Len(boxes'[h][a])
        PROVE  boxes'[h][a][i].box = a /\ Acked(boxes'[h][a][i])
    <3>1. CASE a # b
      <4>1. boxes'[h][a] = boxes[h][a]
        BY <1>1, <1>5, <3>1 DEF MailAt
      <4> QED
        BY <1>1, <2>3, <4>1 DEF AckedAt
    <3>2. CASE a = b
      <4>1. boxes'[h][a] = Append(boxes[h][b], x)
        BY <1>1, <1>5, <3>2 DEF MailAt
      <4>2. \/ i \in 1 .. Len(boxes[h][b]) /\ boxes'[h][a][i] = boxes[h][b][i]
            \/ boxes'[h][a][i] = x
        BY SMTT(60), <1>3, <2>3, <4>1
      <4> QED
        BY <1>1, <1>3, <2>2, <3>2, <4>2 DEF AckedAt
    <3> QED
      BY <3>1, <3>2
  <2> QED
    BY SMTT(60), <1>4, <1>5, <2>1, <2>3 DEF MailInv, AckedAt
<1> QED
  BY <1>7, <1>9, <1>10 DEF MailInv

(* SendToSocket *)
LEMMA TransmitMail ==
  ASSUME MailInv, NEW g \in Host, Transmit(g)
  PROVE  MailInv'
<1>1. PICK h \in Host : h = Other(g) /\ Other(h) = g /\ h # g
  BY Hosts
<1>2. MailTypes /\ MailAt(g) /\ MailAt(h) /\ AllThere(h) /\ AckedAt(h) /\ AckedAt(g) /\ Numbered(h) /\ Numbered(g)
  BY DEF MailInv, MailTypes
<1>3. PICK r \in [n : Nat \ {0}, pkt : Mail(h)] : r = retrying[g] /\ r # None /\ r.pkt.to = h
  BY <1>1, <1>2 DEF MailAt, Transmit, Mail
<1>4. UNCHANGED <<inHdr, worker, avail, boxes, count, stage, reply, delivered, got>>
  BY DEF Transmit, machineState, senderState
<1>5. \A p : Acked(p)' <=> Acked(p)
  BY <1>4 DEF Acked
<1>6. CASE power[h] = "on"
  <2>1. PICK x \in Mail(h) : x = r.pkt
    BY <1>3
  <2>2. /\ wire' = [wire EXCEPT ![h] = Append(wire[h], x)]
        /\ carried' = [carried EXCEPT ![h] = Append(carried[h], x)]
        /\ retrying' = [retrying EXCEPT ![g] = None]
    BY <1>3, <1>6, <2>1 DEF Transmit
  <2>3. /\ wire'[h] = Append(wire[h], x) /\ carried'[h] = Append(carried[h], x)
        /\ retrying'[g] = None
        /\ \A k \in Host : k # h => wire'[k] = wire[k] /\ carried'[k] = carried[k]
        /\ \A k \in Host : k # g => retrying'[k] = retrying[k]
        /\ DOMAIN wire' = Host /\ DOMAIN carried' = Host /\ DOMAIN retrying' = Host
    BY <1>2, <2>2 DEF MailTypes
  <2>4. Append(wire[h], x) \in Seq(Mail(h)) /\ Append(carried[h], x) \in Seq(Mail(h))
    BY SMTT(60), <1>2, <2>1 DEF MailAt
  <2>5. MailTypes'
    <3>1. ASSUME NEW k \in Host PROVE MailAt(k)'
      BY <1>2, <1>4, <2>3, <2>4 DEF MailTypes, MailAt
    <3> QED
      BY <1>2, <1>4, <2>3, <3>1 DEF MailTypes
  <2>6. AllThere(h)'
    <3>1. PICK d \in Seq(Mail(h)) : d = delivered[h] \o Held(worker[h].pkt) \o Held(inHdr[h])
      <4>1. /\ delivered[h] \in Seq(Mail(h)) /\ Held(worker[h].pkt) \in Seq(Mail(h))
            /\ Held(inHdr[h]) \in Seq(Mail(h))
        BY <1>2, HeldSeq DEF MailAt
      <4> QED
        BY <4>1, Joined
    <3>2. PICK w \in Seq(Mail(h)) : w = wire[h]
      BY <1>2 DEF MailAt
    <3>3. Append(d \o w, x) = d \o Append(w, x)
      BY SMTT(60), Shift
    <3> QED
      BY <1>2, <1>4, <2>3, <3>1, <3>2, <3>3 DEF AllThere, Held
  <2>7. Numbered(h)'
    <3>1. PICK s \in Seq(Mail(h)) : s = carried[h]
      BY <1>2 DEF MailAt
    <3>2. x.n = count[g] /\ count[g] \in Nat
      BY <1>2, <1>3, <2>1 DEF Numbered, MailAt
    <3>3. /\ \A i, j \in 1 .. Len(s) : i < j => s[i].n < s[j].n
          /\ \A i \in 1 .. Len(s) : s[i].n < x.n
      BY <1>1, <1>2, <1>3, <3>1, <3>2 DEF Numbered
    <3>4. \A y \in Mail(h) : y.n \in Nat
      BY DEF Mail
    <3>5. LET z == Append(s, x) IN
          /\ \A i, j \in 1 .. Len(z) : i < j => z[i].n < z[j].n
          /\ \A i \in 1 .. Len(z) : z[i].n <= x.n
      BY <3>3, <3>4, NumberedAppend
    <3> QED
      BY SMTT(60), <1>1, <1>2, <1>4, <2>3, <3>1, <3>2, <3>5 DEF Numbered
  <2>8. Numbered(g)'
    BY <1>1, <1>2, <1>4, <2>3 DEF Numbered
  <2>9. AckedAt(h)'
    <3>1. Acked(x)
      BY <1>2, <1>3, <2>1 DEF AckedAt
    <3>2. ASSUME NEW i \in 1 .. Len(wire'[h]) PROVE Acked(wire'[h][i])
      <4>1. \/ i \in 1 .. Len(wire[h]) /\ wire'[h][i] = wire[h][i]
            \/ wire'[h][i] = x
        BY SMTT(60), <1>2, <2>1, <2>3, <3>2 DEF MailAt
      <4> QED
        BY <1>2, <3>1, <4>1 DEF AckedAt
    <3> QED
      BY SMTT(60), <1>1, <1>2, <1>4, <1>5, <2>3, <3>2 DEF AckedAt
  <2>10. AckedAt(g)'
    BY <1>1, <1>2, <1>4, <1>5, <2>3 DEF AckedAt
  <2>11. ASSUME NEW k \in Host
         PROVE  Handshake(k)' /\ AllThere(k)' /\ GotAt(k)'
    <3>1. Handshake(k)' /\ AllThere(k)'
      BY <1>4, <2>3, <2>6 DEF MailInv, Handshake, AllThere
    <3>2. GotAt(k)'
      BY <1>4, <2>3 DEF MailInv, GotAt
    <3> QED
      BY <3>1, <3>2
  <2>12. \A k \in Host : k = g \/ k = h
    BY <1>1 DEF Host, Other
  <2> QED
    BY <2>5, <2>7, <2>8, <2>9, <2>10, <2>11, <2>12 DEF MailInv
<1>7. CASE power[h] # "on"
  <2>1. UNCHANGED <<wire, carried>>
    BY <1>3, <1>7 DEF Transmit
  <2>2. PICK q \in [n : Nat \ {0}, pkt : Mail(h)] \cup {None} :
          retrying' = [retrying EXCEPT ![g] = q] /\ (q # None => q.pkt = r.pkt)
    <3>1. retrying' = [retrying EXCEPT ![g] = IF r.n = 1 THEN None ELSE [n |-> r.n - 1, pkt |-> r.pkt]]
      BY <1>3, <1>7 DEF Transmit
    <3>2. r.n # 1 => [n |-> r.n - 1, pkt |-> r.pkt] \in [n : Nat \ {0}, pkt : Mail(h)]
      BY SMTT(60), <1>3
    <3>3. CASE r.n = 1
      BY <3>1, <3>3
    <3>4. CASE r.n # 1
      <4>1. PICK v \in [n : Nat \ {0}, pkt : Mail(h)] : v = [n |-> r.n - 1, pkt |-> r.pkt] /\ v.pkt = r.pkt
        BY <3>2, <3>4
      <4>2. retrying' = [retrying EXCEPT ![g] = v]
        BY <3>1, <3>4, <4>1
      <4> QED
        BY <4>1, <4>2
    <3> QED
      BY <3>3, <3>4
  <2>3. /\ retrying'[g] = q /\ \A k \in Host : k # g => retrying'[k] = retrying[k]
        /\ DOMAIN retrying' = Host
    BY <1>2, <2>2 DEF MailTypes
  <2>4. MailTypes'
    <3>1. ASSUME NEW k \in Host PROVE MailAt(k)'
      BY <1>1, <1>2, <1>4, <2>1, <2>2, <2>3 DEF MailTypes, MailAt
    <3> QED
      BY <1>2, <1>4, <2>1, <2>3, <3>1 DEF MailTypes
  <2>5. \A k \in Host : retrying'[k] # None => retrying[k] # None /\ retrying'[k].pkt = retrying[k].pkt
    BY <1>3, <2>2, <2>3
  <2>6. ASSUME NEW k \in Host
        PROVE  Handshake(k)' /\ AllThere(k)' /\ GotAt(k)'
    BY <1>4, <2>1 DEF MailInv, Handshake, AllThere, GotAt
  <2>7. ASSUME NEW k \in Host
        PROVE  Numbered(k)' /\ AckedAt(k)'
    <3>1. Numbered(k)'
      BY <1>4, <2>1, <2>5, Hosts DEF MailInv, Numbered
    <3>2. AckedAt(k)'
      BY SMTT(60), <1>4, <1>5, <2>1, <2>5 DEF MailInv, AckedAt
    <3> QED
      BY <3>1, <3>2
  <2> QED
    BY <2>4, <2>6, <2>7 DEF MailInv
<1> QED
  BY <1>6, <1>7

(* A thread that has acknowledged a message has done so for good. *)
LEMMA AckedStays ==
  ASSUME MailTypes, NEW c \in Correspondent, NEW s, stage' = [stage EXCEPT ![c] = s],
         stage[c] \in AckStages => s \in AckStages
  PROVE  \A h \in Host : \A p \in Mail(h) : Acked(p) => Acked(p)'
<1>1. ASSUME NEW h \in Host, NEW p \in Mail(h) PROVE <<p.from, 1>> \in Correspondent
  BY Hosts DEF Mail
<1>2. ASSUME NEW d \in Correspondent, stage[d] \in AckStages PROVE stage'[d] \in AckStages
  BY <1>2 DEF MailTypes
<1> QED
  BY <1>1, <1>2 DEF Acked

(* What is known of the mail at a machine stays so while it stays where it is. *)
LEMMA AckedMoves ==
  ASSUME MailInv, NEW h \in Host,
         \A k \in Host : \A p \in Mail(k) : Acked(p) => Acked(p)',
         UNCHANGED <<inHdr[h], worker[h], wire[h]>>
  PROVE  /\ (inHdr[h] # None => Acked(inHdr[h]))'
         /\ (worker[h].pkt # None => Acked(worker[h].pkt))'
         /\ (\A i \in 1 .. Len(wire[h]) : Acked(wire[h][i]))'
<1>1. MailAt(h) /\ AckedAt(h)
  BY DEF MailInv, MailTypes
<1>2. (inHdr[h] # None => Acked(inHdr[h]))'
  <2>1. ASSUME inHdr[h] # None PROVE Acked(inHdr[h])'
    <3>1. PICK p \in Mail(h) : p = inHdr[h] /\ p = inHdr'[h]
      BY <1>1, <2>1 DEF MailAt
    <3>2. Acked(p)'
      BY <1>1, <2>1, <3>1 DEF AckedAt
    <3> QED
      BY <3>1, <3>2 DEF Acked
  <2> QED
    BY <2>1
<1>3. (worker[h].pkt # None => Acked(worker[h].pkt))'
  <2>1. ASSUME worker[h].pkt # None PROVE Acked(worker[h].pkt)'
    <3>1. PICK p \in Mail(h) : p = worker[h].pkt /\ p = worker'[h].pkt
      BY <1>1, <2>1 DEF MailAt
    <3>2. Acked(p)'
      BY <1>1, <2>1, <3>1 DEF AckedAt
    <3> QED
      BY <3>1, <3>2 DEF Acked
  <2> QED
    BY <2>1
<1>4. (\A i \in 1 .. Len(wire[h]) : Acked(wire[h][i]))'
  <2>1. ASSUME NEW i \in 1 .. Len(wire[h]) PROVE Acked(wire[h][i])'
    <3>1. PICK p \in Mail(h) : p = wire[h][i] /\ p = wire'[h][i]
      BY SMTT(60), <1>1 DEF MailAt
    <3>2. Acked(p)'
      BY <1>1, <3>1 DEF AckedAt
    <3> QED
      BY <3>1, <3>2 DEF Acked
  <2> QED
    BY <2>1
<1> QED
  BY <1>2, <1>3, <1>4

LEMMA AckedKept ==
  ASSUME MailInv, NEW h \in Host,
         \A k \in Host : \A p \in Mail(k) : Acked(p) => Acked(p)',
         UNCHANGED <<got[h], boxes[h]>>
  PROVE  /\ (\A i \in 1 .. Len(got[h]) : Acked(got[h][i]))'
         /\ (\A b \in 0 .. NumBoxes - 1 : \A i \in 1 .. Len(boxes[h][b]) :
               boxes[h][b][i].box = b /\ Acked(boxes[h][b][i]))'
<1>1. MailAt(h) /\ AckedAt(h)
  BY DEF MailInv, MailTypes
<1>2. (\A i \in 1 .. Len(got[h]) : Acked(got[h][i]))'
  <2>1. ASSUME NEW i \in 1 .. Len(got[h]) PROVE Acked(got[h][i])'
    <3>1. PICK p \in Mail(h) : p = got[h][i] /\ p = got'[h][i]
      BY SMTT(60), <1>1 DEF MailAt
    <3>2. Acked(p)'
      BY <1>1, <3>1 DEF AckedAt
    <3> QED
      BY <3>1, <3>2 DEF Acked
  <2> QED
    BY <2>1
<1>3. (\A b \in 0 .. NumBoxes - 1 : \A i \in 1 .. Len(boxes[h][b]) :
         boxes[h][b][i].box = b /\ Acked(boxes[h][b][i]))'
  <2>1. ASSUME NEW b \in 0 .. NumBoxes - 1, NEW i \in 1 .. Len(boxes[h][b])
        PROVE  boxes'[h][b][i].box = b /\ Acked(boxes[h][b][i])'
    <3>1. PICK p \in Mail(h) : p = boxes[h][b][i] /\ p = boxes'[h][b][i]
      <4>1. boxes[h][b] \in Seq(Mail(h)) /\ boxes'[h][b] = boxes[h][b]
        BY <1>1 DEF MailAt
      <4> QED
        BY <4>1, Element
    <3>2. p.box = b /\ Acked(p)'
      BY <1>1, <3>1 DEF AckedAt
    <3> QED
      BY <3>1, <3>2 DEF Acked
  <2> QED
    BY <2>1
<1> QED
  BY <1>2, <1>3

LEMMA AckedRetried ==
  ASSUME MailInv, NEW h \in Host,
         \A k \in Host : \A p \in Mail(k) : Acked(p) => Acked(p)',
         UNCHANGED <<retrying[h]>>
  PROVE  (retrying[h] # None => Acked(retrying[h].pkt))'
<1>1. MailAt(h) /\ AckedAt(h)
  BY DEF MailInv, MailTypes
<1>2. ASSUME retrying[h] # None PROVE Acked(retrying[h].pkt)'
  <2>1. PICK p \in Mail(Other(h)) : p = retrying[h].pkt /\ p = retrying'[h].pkt
    BY <1>1, <1>2 DEF MailAt
  <2>2. Acked(p)'
    BY <1>1, <1>2, <2>1, Hosts DEF AckedAt
  <2> QED
    BY <2>1, <2>2 DEF Acked
<1> QED
  BY <1>2

(* A step of a thread that neither sends nor takes a packet. *)
LEMMA StageMail ==
  ASSUME MailInv, NEW c \in Correspondent, NEW s \in Stages, stage' = [stage EXCEPT ![c] = s],
         stage[c] \in AckStages => s \in AckStages, GotAt(c[1])',
         UNCHANGED <<wire, inHdr, worker, avail, boxes, count, retrying, reply, carried, delivered, got>>
  PROVE  MailInv'
<1>1. MailTypes
  BY DEF MailInv
<1>2. stage' \in [Correspondent -> Stages]
  BY <1>1 DEF MailTypes
<1>3. MailTypes'
  BY <1>1, <1>2 DEF MailTypes, MailAt
<1>4. ASSUME NEW h \in Host
      PROVE  Handshake(h)' /\ AllThere(h)' /\ Numbered(h)'
  BY DEF MailInv, Handshake, AllThere, Numbered
<1>5. ASSUME NEW h \in Host PROVE AckedAt(h)'
  <2>1. \A k \in Host : \A p \in Mail(k) : Acked(p) => Acked(p)'
    BY <1>1, AckedStays
  <2> QED
    BY <2>1, AckedMoves, AckedKept, AckedRetried DEF AckedAt
<1>6. ASSUME NEW h \in Host PROVE GotAt(h)'
  <2>1. CASE h = c[1]
    BY <2>1
  <2>2. CASE h # c[1]
    <3>1. <<h, 1>> \in Correspondent /\ <<h, 1>> # c /\ <<h, 2>> # c
      BY SMTT(60), <2>2, Hosts
    <3>2. stage'[<<h, 1>>] = stage[<<h, 1>>]
      BY <1>1, <3>1 DEF MailTypes
    <3>3. h \in Busy => stage'[<<h, 2>>] = stage[<<h, 2>>]
      BY <1>1, <3>1 DEF MailTypes, Correspondent
    <3> QED
      BY <3>2, <3>3 DEF MailInv, GotAt
  <2> QED
    BY <2>1, <2>2
<1> QED
  BY <1>3, <1>4, <1>5, <1>6 DEF MailInv

(* A step of a thread changes nothing for the other thread of its machine. *)
LEMMA StageOfFirst ==
  ASSUME MailTypes, NEW g \in Host, NEW s, stage' = [stage EXCEPT ![<<g, 1>>] = s]
  PROVE  stage'[<<g, 1>>] = s /\ (g \in Busy => stage'[<<g, 2>>] = stage[<<g, 2>>])
<1>1. <<g, 1>> \in Correspondent /\ (g \in Busy => <<g, 2>> \in Correspondent) /\ <<g, 1>> # <<g, 2>>
  BY SMTT(60) DEF Correspondent
<1> QED
  BY <1>1 DEF MailTypes

LEMMA StageOfSecond ==
  ASSUME MailTypes, NEW g \in Host, g \in Busy, NEW s, stage' = [stage EXCEPT ![<<g, 2>>] = s]
  PROVE  stage'[<<g, 2>>] = s /\ stage'[<<g, 1>>] = stage[<<g, 1>>]
<1>1. <<g, 1>> \in Correspondent /\ <<g, 2>> \in Correspondent /\ <<g, 1>> # <<g, 2>>
  BY SMTT(60) DEF Correspondent
<1> QED
  BY <1>1 DEF MailTypes

(* Steps within a half of NetworkTest leave what has been received alone. *)
LEMMA GotStays ==
  ASSUME NEW g \in Host, GotAt(g), UNCHANGED <<got, reply>>,
         g \in Busy => stage'[<<g, 2>>] \in FirstStages \cup {"done"},
         \/ stage'[<<g, 1>>] = stage[<<g, 1>>]
         \/ stage[<<g, 1>>] \in FirstStages /\ stage'[<<g, 1>>] \in FirstStages \cup {"receive"}
         \/ stage[<<g, 1>>] \in ReplyStages /\ stage'[<<g, 1>>] \in ReplyStages
  PROVE  GotAt(g)'
<1>1. CASE stage'[<<g, 1>>] = stage[<<g, 1>>]
  BY <1>1 DEF GotAt
<1>2. CASE stage[<<g, 1>>] \in FirstStages /\ stage'[<<g, 1>>] \in FirstStages \cup {"receive"}
  BY <1>2 DEF GotAt, FirstStages, ReplyStages
<1>3. CASE stage[<<g, 1>>] \in ReplyStages /\ stage'[<<g, 1>>] \in ReplyStages
  BY <1>3 DEF GotAt, FirstStages, ReplyStages
<1> QED
  BY <1>1, <1>2, <1>3

LEMMA SendAcquireMail ==
  ASSUME MailInv, NEW c \in Correspondent, SendAcquire(c)
  PROVE  MailInv'
<1>1. PICK g \in Host : /\ g = c[1] /\ (c = <<g, 1>> \/ (c = <<g, 2>> /\ g \in Busy))
                        /\ MailTypes /\ GotAt(g)
  BY Hosts DEF MailInv
<1>2. PICK s \in Stages : s = IF stage[c] = "send" THEN "locked" ELSE "locked ack"
  BY DEF Stages, FirstStages, ReplyStages
<1>3. /\ stage' = [stage EXCEPT ![c] = s] /\ stage[c] \in {"send", "send ack"}
      /\ UNCHANGED <<wire, inHdr, worker, avail, boxes, count, retrying, reply, carried, delivered, got>>
  BY <1>2 DEF SendAcquire, machineState, history
<1>4. stage[c] \notin AckStages
  BY <1>3 DEF AckStages
<1>5. GotAt(g)'
  <2>1. CASE c = <<g, 1>>
    <3>1. stage' = [stage EXCEPT ![<<g, 1>>] = s] /\ stage[<<g, 1>>] = stage[c]
      BY <1>3, <2>1
    <3>2. stage'[<<g, 1>>] = s /\ (g \in Busy => stage'[<<g, 2>>] = stage[<<g, 2>>])
      BY <1>1, <3>1, StageOfFirst
    <3>3. g \in Busy => stage'[<<g, 2>>] \in FirstStages \cup {"done"}
      BY <1>1, <3>2 DEF GotAt
    <3>4. \/ stage[<<g, 1>>] \in FirstStages /\ s \in FirstStages
          \/ stage[<<g, 1>>] \in ReplyStages /\ s \in ReplyStages
      BY <1>2, <1>3, <3>1 DEF FirstStages, ReplyStages
    <3> QED
      BY <1>3, <1>1, <3>2, <3>3, <3>4, GotStays
  <2>2. CASE c = <<g, 2>> /\ g \in Busy
    <3>1. stage' = [stage EXCEPT ![<<g, 2>>] = s] /\ stage[<<g, 2>>] = stage[c]
      BY <1>3, <2>2
    <3>2. stage'[<<g, 2>>] = s /\ stage'[<<g, 1>>] = stage[<<g, 1>>]
      BY <1>1, <2>2, <3>1, StageOfSecond
    <3>3. s \in FirstStages
      BY <1>1, <1>2, <1>3, <2>2, <3>1 DEF GotAt, FirstStages
    <3> QED
      BY <1>3, <1>1, <3>2, <3>3, GotStays
  <2> QED
    BY <1>1, <2>1, <2>2
<1> QED
  BY <1>1, <1>3, <1>4, <1>5, StageMail

LEMMA SendReturnsMail ==
  ASSUME MailInv, NEW c \in Correspondent, SendReturns(c)
  PROVE  MailInv'
<1>1. PICK g \in Host : /\ g = c[1] /\ (c = <<g, 1>> \/ (c = <<g, 2>> /\ g \in Busy))
                        /\ MailTypes /\ GotAt(g)
  BY Hosts DEF MailInv
<1>2. stage[c] \in {"sending", "sending ack"}
  BY DEF SendReturns
<1>3. UNCHANGED <<wire, inHdr, worker, avail, boxes, count, retrying, reply, carried, delivered, got>>
  BY DEF SendReturns, machineState, history
<1>4. CASE c = <<g, 1>>
  <2>1. PICK s \in Stages : s = IF stage[c] = "sending" THEN "receive" ELSE "receive ack"
    BY DEF Stages, ReplyStages
  <2>2. stage' = [stage EXCEPT ![c] = s]
    <3>1. c[2] # 2
      BY SMTT(60), <1>4
    <3>2. stage' = [stage EXCEPT ![c] = IF c[2] = 2 THEN "done"
                                        ELSE IF stage[c] = "sending" THEN "receive" ELSE "receive ack"]
      BY DEF SendReturns
    <3>3. s = IF c[2] = 2 THEN "done" ELSE IF stage[c] = "sending" THEN "receive" ELSE "receive ack"
      BY <2>1, <3>1
    <3> QED
      BY <3>2, <3>3
  <2>3. stage[c] \in AckStages => s \in AckStages
    BY <1>2, <2>1 DEF AckStages
  <2>4. GotAt(g)'
    <3>1. stage' = [stage EXCEPT ![<<g, 1>>] = s] /\ stage[<<g, 1>>] = stage[c]
      BY <1>4, <2>2
    <3>2. stage'[<<g, 1>>] = s /\ (g \in Busy => stage'[<<g, 2>>] = stage[<<g, 2>>])
      BY <1>1, <3>1, StageOfFirst
    <3>3. g \in Busy => stage'[<<g, 2>>] \in FirstStages \cup {"done"}
      BY <1>1, <3>2 DEF GotAt
    <3>4. \/ stage[<<g, 1>>] \in FirstStages /\ s = "receive"
          \/ stage[<<g, 1>>] \in ReplyStages /\ s \in ReplyStages
      BY <1>2, <2>1, <3>1 DEF FirstStages, ReplyStages
    <3> QED
      BY <1>1, <1>3, <3>2, <3>3, <3>4, GotStays
  <2> QED
    BY <1>1, <1>3, <2>2, <2>3, <2>4, StageMail
<1>5. CASE c = <<g, 2>> /\ g \in Busy
  <2>1. c[2] = 2
    BY <1>5
  <2>2. stage' = [stage EXCEPT ![c] = "done"]
    BY <1>2, <2>1 DEF SendReturns
  <2>3. "done" \in Stages /\ "done" \in AckStages
    BY DEF Stages, AckStages
  <2>4. GotAt(g)'
    <3>1. stage' = [stage EXCEPT ![<<g, 2>>] = "done"]
      BY <1>5, <2>2
    <3>2. stage'[<<g, 2>>] = "done" /\ stage'[<<g, 1>>] = stage[<<g, 1>>]
      <4>1. g \in Busy
        BY <1>5
      <4> QED
        BY <1>1, <3>1, <4>1, StageOfSecond
    <3> QED
      BY <1>1, <1>3, <3>2, GotStays
  <2> QED
    BY <1>1, <1>3, <2>2, <2>3, <2>4, StageMail
<1> QED
  BY <1>1, <1>4, <1>5

LEMMA Successor == \A k \in Nat : k + 1 \in Nat \ {0}
  BY SMTT(60)

(* What NetworkTest sends is mail for the other machine; an acknowledgement is sent by the first thread. *)
LEMMA MailOfIsMail ==
  ASSUME MailInv, NEW c \in Correspondent, stage[c] \in {"locked", "locked ack"}
  PROVE  /\ MailOf(c) \in Mail(Other(c[1])) /\ MailOf(c).n = count[c[1]] + 1
         /\ MailOf(c).from = c[1]
         /\ MailOf(c).box = 1 => c = <<c[1], 1>> /\ stage[c] = "locked ack"
<1>1. MailTypes /\ c[1] \in Host /\ MailAt(c[1]) /\ GotAt(c[1])
  BY Hosts DEF MailInv, MailTypes
<1>2. count[c[1]] + 1 \in Nat \ {0} /\ Other(Other(c[1])) = c[1]
  <2>1. PICK k \in Nat : k = count[c[1]]
    BY <1>1 DEF MailAt
  <2>2. Other(Other(c[1])) = c[1]
    BY <1>1, Hosts
  <2> QED
    BY <2>1, <2>2, Successor
<1>3. CASE stage[c] = "locked"
  BY SMTT(60), <1>2, <1>3 DEF MailOf, Mail
<1>4. CASE stage[c] = "locked ack"
  <2>1. c = <<c[1], 1>>
    BY <1>1, <1>4, Hosts DEF GotAt, FirstStages
  <2>2. reply[c] # None
    BY <1>1, <1>4, <2>1 DEF GotAt, ReplyStages
  <2>3. reply[c] \in Mail(c[1])
    BY <1>1, <2>2 DEF MailTypes
  <2>4. reply[c].from = Other(c[1]) /\ reply[c].replyTo = 1
    BY <2>3 DEF Mail
  <2> QED
    BY <1>2, <1>4, <2>1, <2>4 DEF MailOf, Mail
<1> QED
  BY <1>3, <1>4

(* NetworkOutput::Send *)
LEMMA NetSendMail ==
  ASSUME MailInv, NEW c \in Correspondent, NetSend(c)
  PROVE  MailInv'
<1>1. PICK g \in Host, h \in Host : g = c[1] /\ h = Other(g) /\ Other(h) = g /\ h # g
  BY Hosts
<1>2. MailTypes /\ MailAt(g) /\ Numbered(g) /\ Numbered(h) /\ GotAt(g) /\ retrying[g] = None
  BY <1>1 DEF MailInv, MailTypes, NetSend, Running
<1>3. stage[c] \in {"locked", "locked ack"}
  BY DEF NetSend
<1>4. PICK s \in Stages : s = IF stage[c] = "locked" THEN "sending" ELSE "sending ack"
  BY DEF Stages, FirstStages, ReplyStages
<1>5. PICK x \in Mail(h) : /\ x = MailOf(c) /\ x.n = count[g] + 1 /\ x.from = g
                           /\ x.box = 1 => c = <<g, 1>> /\ stage[c] = "locked ack"
  BY <1>1, <1>3, MailOfIsMail
<1>6. PICK r \in [n : Nat \ {0}, pkt : Mail(h)] \cup {None} :
        /\ r # None => r.pkt = x
        /\ retrying'[g] = r /\ DOMAIN retrying' = Host
        /\ \A k \in Host : k # g => retrying'[k] = retrying[k]
  <2>1. CASE retrying' = retrying
    BY <1>2, <2>1 DEF MailTypes
  <2>2. CASE retrying' = [retrying EXCEPT ![g] = [n |-> MaxTries, pkt |-> x]]
    <3>1. MaxTries \in Nat \ {0}
      BY PostOfficeAssumption
    <3>2. [n |-> MaxTries, pkt |-> x] \in [n : Nat \ {0}, pkt : Mail(h)]
      BY <3>1
    <3>3. PICK v \in [n : Nat \ {0}, pkt : Mail(h)] : v = [n |-> MaxTries, pkt |-> x]
      BY <3>2
    <3>4. v.pkt = x
      BY <3>3
    <3>5. /\ retrying'[g] = v /\ DOMAIN retrying' = Host
          /\ \A k \in Host : k # g => retrying'[k] = retrying[k]
      BY <1>2, <2>2, <3>3 DEF MailTypes
    <3> QED
      BY <3>4, <3>5
  <2> QED
    BY <1>1, <1>5, <2>1, <2>2 DEF NetSend
<1>7. /\ stage' = [stage EXCEPT ![c] = s] /\ count' = [count EXCEPT ![g] = count[g] + 1]
      /\ UNCHANGED <<wire, inHdr, worker, avail, boxes, reply, carried, delivered, got>>
  BY <1>1, <1>4 DEF NetSend, machineState, history
<1>8. /\ count'[g] = count[g] + 1 /\ stage'[c] = s
      /\ \A k \in Host : k # g => count'[k] = count[k]
      /\ \A d \in Correspondent : d # c => stage'[d] = stage[d]
      /\ DOMAIN count' = Host
  BY <1>2, <1>7 DEF MailTypes
<1>9. MailTypes'
  <2>1. count'[g] \in Nat
    BY SMTT(60), <1>2, <1>8 DEF MailAt
  <2>2. ASSUME NEW k \in Host PROVE MailAt(k)'
    BY <1>1, <1>2, <1>6, <1>7, <1>8, <2>1 DEF MailTypes, MailAt
  <2>3. stage' \in [Correspondent -> Stages]
    BY <1>2, <1>7 DEF MailTypes
  <2> QED
    BY <1>2, <1>6, <1>7, <1>8, <2>2, <2>3 DEF MailTypes
<1>10. ASSUME NEW k \in Host PROVE Handshake(k)' /\ AllThere(k)'
  BY <1>7 DEF MailInv, Handshake, AllThere
<1>11. \A k \in Host : k = g \/ k = h
  BY <1>1 DEF Host, Other
<1>12. Numbered(h)'
  <2>1. \A i \in 1 .. Len(carried[h]) : carried[h][i].n \in Nat
    <3>1. carried[h] \in Seq(Mail(h))
      BY <1>2 DEF MailTypes, MailAt
    <3>2. \A i \in 1 .. Len(carried[h]) : carried[h][i] \in Mail(h)
      BY SMTT(60), <3>1
    <3> QED
      BY <3>2 DEF Mail
  <2>2. count[g] \in Nat
    BY <1>2 DEF MailAt
  <2>3. \A i \in 1 .. Len(carried[h]) : carried[h][i].n < count'[g]
    <3>1. \A i \in 1 .. Len(carried[h]) : carried[h][i].n <= count[g]
      BY <1>1, <1>2 DEF Numbered
    <3>2. count'[g] = count[g] + 1
      BY <1>8
    <3> QED
      BY SMTT(60), <2>1, <2>2, <3>1, <3>2
  <2>4. \A i \in 1 .. Len(carried[h]) : carried[h][i].n <= count'[g]
    BY SMTT(60), <1>8, <2>1, <2>2, <2>3
  <2> QED
    BY SMTT(60), <1>1, <1>2, <1>6, <1>7, <1>8, <2>3, <2>4 DEF Numbered
<1>13. Numbered(g)'
  <2>1. r # None => r.pkt.n = count[g] + 1
    BY <1>5, <1>6
  <2> QED
    BY SMTT(60), <1>1, <1>2, <1>6, <1>7, <1>8, <2>1 DEF Numbered
<1>14. ASSUME NEW k \in Host PROVE AckedAt(k)'
  <2>1. stage[c] \notin AckStages
    BY <1>3 DEF AckStages
  <2>2. \A j \in Host : \A p \in Mail(j) : Acked(p) => Acked(p)'
    BY <1>2, <1>7, <2>1, AckedStays
  <2>3. Acked(x)'
    BY <1>4, <1>5, <1>8 DEF Acked, AckStages
  <2>4. (retrying[k] # None => Acked(retrying[k].pkt))'
    <3>1. CASE k = g
      BY <1>6, <2>3, <3>1 DEF Acked
    <3>2. CASE k # g
      BY <1>6, <2>2, <3>2, AckedRetried
    <3> QED
      BY <3>1, <3>2
  <2> QED
    BY <1>7, <2>2, <2>4, AckedMoves, AckedKept DEF AckedAt
<1>15. GotAt(g)'
  <2>1. CASE c = <<g, 1>>
    <3>1. stage' = [stage EXCEPT ![<<g, 1>>] = s] /\ stage[<<g, 1>>] = stage[c]
      BY <1>7, <2>1
    <3>2. stage'[<<g, 1>>] = s /\ (g \in Busy => stage'[<<g, 2>>] = stage[<<g, 2>>])
      BY <1>2, <3>1, StageOfFirst
    <3>3. g \in Busy => stage'[<<g, 2>>] \in FirstStages \cup {"done"}
      BY <1>2, <3>2 DEF GotAt
    <3>4. \/ stage[<<g, 1>>] \in FirstStages /\ s \in FirstStages
          \/ stage[<<g, 1>>] \in ReplyStages /\ s \in ReplyStages
      BY <1>3, <1>4, <3>1 DEF FirstStages, ReplyStages
    <3> QED
      BY <1>7, <1>2, <3>2, <3>3, <3>4, GotStays
  <2>2. CASE c = <<g, 2>> /\ g \in Busy
    <3>1. stage' = [stage EXCEPT ![<<g, 2>>] = s] /\ stage[<<g, 2>>] = stage[c]
      BY <1>7, <2>2
    <3>2. stage'[<<g, 2>>] = s /\ stage'[<<g, 1>>] = stage[<<g, 1>>]
      BY <1>2, <2>2, <3>1, StageOfSecond
    <3>3. s \in FirstStages
      BY <1>2, <1>3, <1>4, <2>2, <3>1 DEF GotAt, FirstStages
    <3> QED
      BY <1>7, <1>2, <3>2, <3>3, GotStays
  <2> QED
    BY <1>1, <2>1, <2>2, Hosts
<1>16. GotAt(h)'
  <2>1. stage'[<<h, 1>>] = stage[<<h, 1>>] /\ (h \in Busy => stage'[<<h, 2>>] = stage[<<h, 2>>])
    BY SMTT(60), <1>1, <1>8, Hosts DEF Correspondent
  <2> QED
    BY <1>7, <2>1 DEF MailInv, GotAt
<1> QED
  BY <1>9, <1>10, <1>11, <1>12, <1>13, <1>14, <1>15, <1>16 DEF MailInv

(* PostOfficeInput::Receive *)
LEMMA ReceiveMailMail ==
  ASSUME MailInv, NEW c \in Correspondent, ReceiveMail(c)
  PROVE  MailInv'
<1>1. PICK g \in Host : g = c[1] /\ MailTypes /\ MailAt(g) /\ GotAt(g) /\ AckedAt(g)
  BY Hosts DEF MailInv, MailTypes
<1>2. stage[c] \in {"receive", "receive ack"}
  BY DEF ReceiveMail
<1>3. c = <<g, 1>>
  BY <1>1, <1>2, Hosts DEF GotAt, FirstStages
<1>4. PICK b \in {0, 1} : b = (IF stage[c] = "receive" THEN 0 ELSE 1)
  OBVIOUS
<1>5. b \in 0 .. NumBoxes - 1 /\ boxes[g][b] \in Seq(Mail(g)) /\ boxes[g][b] # <<>>
  BY <1>1, <1>4, Hosts DEF MailAt, ReceiveMail
<1>6. PICK q \in Seq(Mail(g)) : q = boxes[g][b] /\ q # <<>>
  BY <1>5
<1>7. PICK x \in Mail(g) : x = Head(q) /\ Tail(q) \in Seq(Mail(g)) /\ x # None
  BY <1>6, TakeFirst, MailIsSome
<1>8. PICK s \in Stages : s = IF stage[c] = "receive" THEN "send ack" ELSE "done"
  BY DEF Stages, ReplyStages
<1>9. /\ boxes' = [boxes EXCEPT ![g] = [boxes[g] EXCEPT ![b] = Tail(q)]]
      /\ got' = [got EXCEPT ![g] = Append(got[g], x)]
      /\ reply' = [reply EXCEPT ![c] = x]
      /\ stage' = [stage EXCEPT ![c] = s]
      /\ UNCHANGED <<wire, inHdr, worker, avail, count, retrying, carried, delivered>>
  BY <1>1, <1>4, <1>6, <1>7, <1>8 DEF ReceiveMail, senderState
<1>10. /\ boxes'[g] = [boxes[g] EXCEPT ![b] = Tail(q)] /\ got'[g] = Append(got[g], x)
       /\ \A k \in Host : k # g => boxes'[k] = boxes[k] /\ got'[k] = got[k]
       /\ reply'[c] = x /\ \A d \in Correspondent : d # c => reply'[d] = reply[d]
       /\ DOMAIN boxes' = Host /\ DOMAIN got' = Host /\ DOMAIN reply' = Correspondent
  BY <1>1, <1>9 DEF MailTypes
<1>11. MailTypes'
  <2>1. Append(got[g], x) \in Seq(Mail(g))
    BY SMTT(60), <1>1 DEF MailAt
  <2>2. boxes'[g] \in [0 .. NumBoxes - 1 -> Seq(Mail(g))]
    <3>1. boxes[g] \in [0 .. NumBoxes - 1 -> Seq(Mail(g))] /\ Tail(q) \in Seq(Mail(g))
      BY <1>1, <1>7 DEF MailAt
    <3> QED
      BY <1>10, <3>1
  <2>3. ASSUME NEW k \in Host PROVE MailAt(k)'
    BY <1>1, <1>9, <1>10, <2>1, <2>2 DEF MailTypes, MailAt
  <2>4. ASSUME NEW d \in Correspondent PROVE reply'[d] \in Mail(d[1]) \cup {None}
    BY <1>1, <1>10 DEF MailTypes
  <2>5. stage' \in [Correspondent -> Stages]
    BY <1>1, <1>9 DEF MailTypes
  <2> QED
    BY <1>1, <1>9, <1>10, <2>3, <2>4, <2>5 DEF MailTypes
<1>12. ASSUME NEW h \in Host
       PROVE  Handshake(h)' /\ AllThere(h)' /\ Numbered(h)'
  BY <1>9 DEF MailInv, Handshake, AllThere, Numbered
<1>13. /\ Len(q) \in Nat \ {0} /\ x = q[1] /\ Len(Tail(q)) = Len(q) - 1
       /\ \A i \in 1 .. Len(Tail(q)) : i + 1 \in 1 .. Len(q) /\ Tail(q)[i] = q[i + 1]
  <2>1. Len(q) \in Nat \ {0} /\ Head(q) = q[1]
    BY SMTT(60), <1>6
  <2>2. Len(Tail(q)) = Len(q) - 1 /\ \A i \in 1 .. Len(Tail(q)) : Tail(q)[i] = q[i + 1]
    BY SMTT(60), <1>6
  <2> QED
    BY SMTT(60), <1>7, <2>1, <2>2
<1>14. \A k \in Host : \A p \in Mail(k) : Acked(p) => Acked(p)'
  <2>1. stage[c] \in AckStages => s \in AckStages
    BY <1>2, <1>8 DEF AckStages
  <2> QED
    BY <1>1, <1>9, <2>1, AckedStays
<1>15. \A i \in 1 .. Len(q) : q[i] \in Mail(g) /\ q[i].box = b /\ Acked(q[i])
  <2>1. \A i \in 1 .. Len(q) : q[i] \in Mail(g)
    BY SMTT(60)
  <2>2. \A i \in 1 .. Len(q) : q[i].box = b /\ Acked(q[i])
    BY <1>1, <1>5, <1>6 DEF AckedAt
  <2> QED
    BY <2>1, <2>2
<1>16. x.box = b /\ Acked(x)
  BY SMTT(60), <1>13, <1>15
<1>17. ASSUME NEW k \in Host PROVE AckedAt(k)'
  <2>1. (retrying[k] # None => Acked(retrying[k].pkt))'
    BY <1>9, <1>14, AckedRetried
  <2>2. /\ (inHdr[k] # None => Acked(inHdr[k]))'
        /\ (worker[k].pkt # None => Acked(worker[k].pkt))'
        /\ (\A i \in 1 .. Len(wire[k]) : Acked(wire[k][i]))'
    BY <1>9, <1>14, AckedMoves
  <2>3. CASE k # g
    BY <1>10, <1>14, <2>1, <2>2, <2>3, AckedKept DEF AckedAt
  <2>4. CASE k = g
    <3>1. ASSUME NEW i \in 1 .. Len(got'[g]) PROVE Acked(got[g][i])'
      <4>1. PICK y \in Seq(Mail(g)) : y = got[g] /\ got'[g] = Append(y, x)
        BY <1>1, <1>10 DEF MailAt
      <4>2. \/ i \in 1 .. Len(y) /\ got'[g][i] = y[i]
            \/ got'[g][i] = x
        BY SMTT(60), <4>1
      <4>3. CASE i \in 1 .. Len(y) /\ got'[g][i] = y[i]
        <5>1. PICK p \in Mail(g) : p = y[i]
          BY SMTT(60), <4>3
        <5>2. Acked(p)'
          BY <1>1, <1>14, <4>1, <4>3, <5>1 DEF AckedAt
        <5> QED
          BY <4>3, <5>1, <5>2 DEF Acked
      <4>4. CASE got'[g][i] = x
        <5>1. Acked(x)'
          BY <1>14, <1>16
        <5> QED
          BY <4>4, <5>1 DEF Acked
      <4> QED
        BY <4>2, <4>3, <4>4
    <3>2. ASSUME NEW a \in 0 .. NumBoxes - 1, NEW i \in 1 .. Len(boxes'[g][a])
          PROVE  boxes'[g][a][i].box = a /\ Acked(boxes[g][a][i])'
      <4>1. boxes[g] \in [0 .. NumBoxes - 1 -> Seq(Mail(g))]
        BY <1>1 DEF MailAt
      <4>2. CASE a # b
        <5>1. boxes'[g][a] = boxes[g][a]
          BY <1>10, <4>1, <4>2
        <5>2. PICK p \in Mail(g) : p = boxes[g][a][i] /\ p = boxes'[g][a][i]
          <6>1. boxes[g][a] \in Seq(Mail(g)) /\ i \in 1 .. Len(boxes[g][a])
            BY <4>1, <5>1
          <6> QED
            BY <5>1, <6>1, Element
        <5>3. p.box = a /\ Acked(p)
          BY SMTT(60), <1>1, <5>1, <5>2 DEF AckedAt
        <5>4. Acked(p)'
          BY <1>14, <5>3
        <5> QED
          BY <5>2, <5>3, <5>4 DEF Acked
      <4>3. CASE a = b
        <5>1. boxes'[g][a] = Tail(q)
          BY <1>5, <1>10, <4>1, <4>3
        <5>2. PICK j \in 1 .. Len(q) : boxes'[g][a][i] = q[j]
          BY <1>13, <5>1
        <5>3. PICK p \in Mail(g) : p = q[j] /\ p.box = b /\ Acked(p)
          BY <1>15
        <5>4. Acked(p)'
          BY <1>14, <5>3
        <5> QED
          BY <4>3, <5>2, <5>3, <5>4 DEF Acked
      <4> QED
        BY <4>2, <4>3
    <3> QED
      BY <2>1, <2>2, <2>4, <3>1, <3>2 DEF AckedAt
  <2> QED
    BY <2>3, <2>4
<1>18. stage' = [stage EXCEPT ![<<g, 1>>] = s] /\ stage[<<g, 1>>] = stage[c]
  BY <1>3, <1>9
<1>19. stage'[<<g, 1>>] = s /\ (g \in Busy => stage'[<<g, 2>>] = stage[<<g, 2>>])
  BY <1>1, <1>18, StageOfFirst
<1>20. GotAt(g)'
  <2>1. PICK y \in Seq(Mail(g)) : y = got[g] /\ got'[g] = Append(y, x)
    BY <1>1, <1>10 DEF MailAt
  <2>2. /\ Len(Append(y, x)) = Len(y) + 1 /\ Append(y, x)[Len(y) + 1] = x
        /\ \A i \in 1 .. Len(y) : Append(y, x)[i] = y[i]
    BY SMTT(60)
  <2>3. reply'[<<g, 1>>] # None
    BY <1>3, <1>7, <1>10
  <2>4. CASE stage[c] = "receive"
    <3>1. Len(y) = 0
      BY <1>1, <1>18, <2>1, <2>4 DEF GotAt
    <3>2. s = "send ack" /\ b = 0
      BY <1>4, <1>8, <2>4
    <3>3. Len(got'[g]) = 1 /\ got'[g][1].box = 0
      <4>1. Len(y) + 1 = 1
        BY SMTT(60), <3>1
      <4>2. Len(Append(y, x)) = 1 /\ Append(y, x)[1] = x
        BY <2>2, <4>1
      <4> QED
        BY <1>16, <2>1, <3>2, <4>2
    <3> QED
      BY <1>1, <1>19, <2>3, <3>2, <3>3 DEF GotAt, FirstStages, ReplyStages
  <2>5. CASE stage[c] = "receive ack"
    <3>1. Len(y) = 1 /\ y[1].box = 0
      BY <1>1, <1>18, <2>1, <2>5 DEF GotAt, ReplyStages
    <3>2. s = "done" /\ b = 1
      BY <1>4, <1>8, <2>5
    <3>3. Len(got'[g]) = 2 /\ got'[g][1].box = 0 /\ got'[g][2].box = 1
      BY SMTT(60), <1>16, <2>1, <2>2, <3>1, <3>2
    <3> QED
      BY <1>1, <1>19, <3>2, <3>3 DEF GotAt, FirstStages, ReplyStages
  <2> QED
    BY <1>2, <2>4, <2>5
<1>21. ASSUME NEW h \in Host, h # g PROVE GotAt(h)'
  <2>1. <<h, 1>> # c /\ <<h, 2>> # c /\ <<h, 1>> \in Correspondent
    BY <1>3, <1>21, Hosts
  <2>2. stage'[<<h, 1>>] = stage[<<h, 1>>] /\ (h \in Busy => stage'[<<h, 2>>] = stage[<<h, 2>>])
    BY <1>1, <1>9, <2>1 DEF MailTypes, Correspondent
  <2> QED
    BY SMTT(60), <1>10, <1>21, <2>1, <2>2 DEF MailInv, GotAt
<1> QED
  BY <1>11, <1>12, <1>17, <1>20, <1>21 DEF MailInv

(* A step that has nothing to do with mail. *)
LEMMA UnchangedMail ==
  ASSUME MailInv,
         UNCHANGED <<wire, machineState, count, retrying, stage, reply, history>>
  PROVE  MailInv'
<1>1. UNCHANGED <<wire, inHdr, worker, avail, boxes, count, retrying, stage, reply, carried, delivered, got>>
  BY DEF machineState, history
<1>2. MailTypes'
  BY <1>1 DEF MailInv, MailTypes, MailAt
<1>3. ASSUME NEW h \in Host
      PROVE  Handshake(h)' /\ AllThere(h)' /\ Numbered(h)' /\ GotAt(h)'
  <2>1. Handshake(h)' /\ AllThere(h)' /\ Numbered(h)'
    BY <1>1 DEF MailInv, Handshake, AllThere, Numbered
  <2>2. GotAt(h)'
    BY <1>1 DEF MailInv, GotAt
  <2> QED
    BY <2>1, <2>2
<1>4. \A p : Acked(p)' <=> Acked(p)
  BY <1>1 DEF Acked
<1>5. ASSUME NEW h \in Host PROVE AckedAt(h)'
  BY SMTT(60), <1>1, <1>4 DEF MailInv, AckedAt
<1> QED
  BY <1>2, <1>3, <1>5 DEF MailInv

LEMMA MailStep == MailInv /\ [PNext]_pvars => MailInv'
<1> SUFFICES ASSUME MailInv, [PNext]_pvars PROVE MailInv'
  OBVIOUS
<1>1. CASE UNCHANGED pvars
  BY <1>1, UnchangedMail DEF pvars, senderState
<1>2. ASSUME NEW h \in Host, PowerOn(h) \/ HaltHost(h) \/ SendInterrupt(h) PROVE MailInv'
  BY <1>2, UnchangedMail DEF PowerOn, HaltHost, SendInterrupt, senderState
<1>3. ASSUME NEW h \in Host, RecvInterrupt(h) PROVE MailInv'
  BY <1>3, RecvMail
<1>4. ASSUME NEW h \in Host, WorkerWaits(h) PROVE MailInv'
  BY <1>4, WaitMail
<1>5. ASSUME NEW h \in Host, WorkerReceives(h) PROVE MailInv'
  BY <1>5, ReceiveFromDevice
<1>6. ASSUME NEW h \in Host, WorkerPuts(h) PROVE MailInv'
  BY <1>6, PutMail
<1>7. ASSUME NEW h \in Host, Transmit(h) PROVE MailInv'
  BY <1>7, TransmitMail
<1>8. ASSUME NEW c \in Correspondent, SendAcquire(c) \/ NetSend(c) \/ SendReturns(c) \/ ReceiveMail(c)
      PROVE  MailInv'
  BY <1>8, SendAcquireMail, NetSendMail, SendReturnsMail, ReceiveMailMail
<1> QED
  BY <1>1, <1>2, <1>3, <1>4, <1>5, <1>6, <1>7, <1>8 DEF PNext


(***************************************************************************)
(* The inductive invariant of the mail system holds throughout: for any    *)
(* number of attempts and mailboxes, whichever machines have a second      *)
(* sender, and whatever the network loses.                                 *)
(***************************************************************************)
THEOREM MailInvariant == PSpec => []MailInv
<1>1. PInit => MailInv
  BY InitMail
<1> QED
  BY <1>1, MailStep, PTL DEF PSpec

(***************************************************************************)
(* The one-packet buffer of NetworkInput, the semaphore messageAvailable   *)
(* and PostalDelivery lose, double and reorder no packet that reached the  *)
(* socket.                                                                 *)
(***************************************************************************)
THEOREM NothingEverLostOnReceipt == PSpec => []NothingLostOnReceipt
<1>1. MailInv => NothingLostOnReceipt
  BY DEF MailInv, AllThere, NothingLostOnReceipt
<1> QED
  BY <1>1, MailInvariant, PTL

(***************************************************************************)
(* The network is unreliable but ordered, and so is what PostalDelivery    *)
(* puts into the mailboxes: each packet at most once, none before an       *)
(* earlier one.                                                            *)
(***************************************************************************)
THEOREM AlwaysInOrder == PSpec => []InOrderAtMostOnce
<1>1. ASSUME MailInv PROVE InOrderAtMostOnce
  <2>1. SUFFICES ASSUME NEW h \in Host, NEW i \in DOMAIN delivered[h], NEW j \in DOMAIN delivered[h], i < j
                 PROVE  delivered[h][i].n < delivered[h][j].n
    BY DEF InOrderAtMostOnce
  <2>2. MailAt(h) /\ AllThere(h) /\ Numbered(h)
    BY <1>1 DEF MailInv, MailTypes
  <2>3. PICK d \in Seq(Mail(h)) : d = delivered[h]
    BY <2>2 DEF MailAt
  <2>4. PICK e \in Seq(Mail(h)) : carried[h] = d \o e
    <3>1. PICK a \in Seq(Mail(h)), b \in Seq(Mail(h)), w \in Seq(Mail(h)) :
            a = Held(worker[h].pkt) /\ b = Held(inHdr[h]) /\ w = wire[h]
      BY <2>2, HeldSeq DEF MailAt
    <3>2. carried[h] = ((d \o a) \o b) \o w
      BY <2>2, <2>3, <3>1 DEF AllThere
    <3>3. d \o a \in Seq(Mail(h)) /\ a \o b \in Seq(Mail(h)) /\ (a \o b) \o w \in Seq(Mail(h))
      BY SMTT(60)
    <3>4. (d \o a) \o b = d \o (a \o b)
      BY SMTT(60)
    <3>5. (d \o (a \o b)) \o w = d \o ((a \o b) \o w)
      BY SMTT(60), <3>3
    <3> QED
      BY <3>2, <3>3, <3>4, <3>5
  <2>5. i \in 1 .. Len(d) /\ j \in 1 .. Len(d) /\ Len(d) \in Nat
    BY SMTT(60), <2>3
  <2>6. /\ Len(carried[h]) = Len(d) + Len(e) /\ Len(e) \in Nat
        /\ \A k \in 1 .. Len(d) : carried[h][k] = d[k]
    <3>1. \A k \in 1 .. Len(d) + Len(e) : (d \o e)[k] = IF k <= Len(d) THEN d[k] ELSE e[k - Len(d)]
      BY SMTT(60)
    <3>2. Len(d \o e) = Len(d) + Len(e) /\ Len(e) \in Nat
      BY SMTT(60)
    <3> QED
      BY SMTT(60), <2>4, <2>5, <3>1, <3>2
  <2>7. i \in 1 .. Len(carried[h]) /\ j \in 1 .. Len(carried[h])
    BY SMTT(60), <2>5, <2>6
  <2> QED
    BY <2>1, <2>2, <2>3, <2>5, <2>6, <2>7 DEF Numbered
<1> QED
  BY <1>1, MailInvariant, PTL

(* What machine h has got in mailbox b. *)
Got(h, b) == {i \in DOMAIN got[h] : got[h][i].box = b}

(***************************************************************************)
(* In NetworkTest an acknowledgement means that the other machine has got  *)
(* a message: no packet of the second sender, no late one and none that is *)
(* lost makes a machine count more of them.                                *)
(***************************************************************************)
THEOREM AckAlwaysMeansReceived == PSpec => []AckMeansReceived
<1>1. ASSUME MailInv, NEW h \in Host
      PROVE  Cardinality(Got(h, 1)) <= Cardinality(Got(Other(h), 0))
  <2>1. PICK g \in Host : g = Other(h)
    BY Hosts
  <2>3. MailTypes /\ MailAt(h) /\ MailAt(g) /\ GotAt(h) /\ GotAt(g) /\ AckedAt(h)
    BY <1>1 DEF MailInv, MailTypes
  <2>4. PICK B : B = Got(g, 0)
    OBVIOUS
  <2>5. IsFiniteSet(B) /\ Cardinality(B) \in Nat /\ (Cardinality(B) = 0 <=> B = {})
    <3>1. PICK y \in Seq(Mail(g)) : y = got[g]
      BY <2>3 DEF MailAt
    <3>2. IsFiniteSet(1 .. Len(y)) /\ DOMAIN y = 1 .. Len(y)
      BY SMTT(60), FS_Interval
    <3>3. B \subseteq 1 .. Len(y)
      BY <2>4, <3>1, <3>2 DEF Got
    <3>4. IsFiniteSet(B)
      BY <3>2, <3>3, FS_Subset
    <3> QED
      BY <3>4, FS_CardinalityType, FS_EmptySet
  <2>6. stage[<<h, 1>>] \in Stages /\ stage[<<g, 1>>] \in Stages
    BY <2>3, Hosts DEF MailTypes
  <2>7. CASE stage[<<h, 1>>] = "done"
    <3>1. PICK y \in Seq(Mail(h)) : y = got[h] /\ Len(y) = 2 /\ y[1].box = 0 /\ y[2].box = 1
      BY <2>3, <2>7 DEF MailAt, GotAt
    <3>2. DOMAIN y = {1, 2}
      BY SMTT(60), <3>1
    <3>3. Got(h, 1) = {2}
      BY <3>1, <3>2 DEF Got
    <3>4. y[2].from = g /\ Acked(y[2])
      <4>1. y[2] \in Mail(h)
        BY SMTT(60), <3>1
      <4> QED
        BY SMTT(60), <2>1, <2>3, <3>1, <4>1 DEF AckedAt, Mail
    <3>5. stage[<<g, 1>>] \in AckStages
      BY <3>1, <3>4 DEF Acked
    <3>6. PICK z \in Seq(Mail(g)) : z = got[g] /\ Len(z) \in {1, 2} /\ z[1].box = 0
      BY <2>3, <3>5 DEF MailAt, GotAt, AckStages, ReplyStages
    <3>7. 1 \in B
      BY SMTT(60), <2>4, <3>6 DEF Got
    <3>8. Cardinality(B) >= 1
      BY SMTT(60), <2>5, <3>7
    <3>9. Cardinality({2}) = 1
      BY FS_Singleton
    <3> QED
      BY <2>1, <2>4, <2>5, <3>3, <3>8, <3>9
  <2>8. CASE stage[<<h, 1>>] # "done"
    <3>1. PICK y \in Seq(Mail(h)) : y = got[h] /\ (Len(y) = 0 \/ (Len(y) = 1 /\ y[1].box = 0))
      BY <2>3, <2>6, <2>8 DEF MailAt, GotAt, Stages
    <3>2. DOMAIN y = 1 .. Len(y)
      BY SMTT(60)
    <3>3. Got(h, 1) = {}
      BY SMTT(60), <3>1, <3>2 DEF Got
    <3>4. Cardinality({}) = 0
      BY FS_EmptySet
    <3>5. Cardinality(B) >= 0
      BY SMTT(60), <2>5
    <3> QED
      BY <2>1, <2>4, <3>3, <3>4, <3>5
  <2> QED
    BY <2>7, <2>8
<1>2. ASSUME MailInv PROVE AckMeansReceived
  <2>1. \A h \in Host : Cardinality(Got(h, 1)) <= Cardinality(Got(Other(h), 0))
    BY <1>1, <1>2
  <2> QED
    BY <2>1 DEF AckMeansReceived, Got
<1> QED
  BY <1>2, MailInvariant, PTL
=============================================================================
