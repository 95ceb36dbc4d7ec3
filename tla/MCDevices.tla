------------------------------ MODULE MCDevices ------------------------------
(* The drivers: queues of disks, the floppy and the disc, the scan of the buses,
   the rings of the network cards, USB and its rings, keyboard and mouse.  They
   share no state, so a behaviour runs one of them, chosen at the start. *)
EXTENDS Integers, Sequences, SequencesExt, FiniteSetTheorems, SequenceTheorems, WellFoundedInduction, TLAPS

CONSTANTS
  Parts,                                                          (* the parts a run explores *)
  None,
  Drivers, Late, DiskBlocks, Ring,                                (* of Queues   *)
  Media, Spt, Heads, Cyls,                                        (* of Floppy   *)
  Positions, SataPorts, Targets, Controllers, MaxSata, MaxScsi, MaxNvme, (* of Buses *)
  Cards, Desc, SendSlots, Words, Kind, Sizes, Frames, Sends,      (* of NicRing  *)
  Hosts, UsbPorts, MaxDevs, MaxInt, Speeds, UsbPlugs, Sticks, Flaky, Racing, (* of Usb *)
  Size, EventPlaces, Requests, Patient,                           (* of XhciRing *)
  Plugs, Queue, Fits, Far                                         (* of Input    *)

VARIABLES part, disk, dev, drv, told, unit, medium, head, fd, track, faults,
          world, found, st, known, card, rx, tx, stack, seen,
          hc, port, devs, intr, act, req, evt, call, pc, kb, ms, hw, sent, out

diskVars == <<disk, dev, drv, told>>
driveVars == <<unit, medium, head, fd, track, faults>>
busVars == <<world, found, st, known>>
nicVars == <<card, rx, tx, stack, seen>>
usbVars == <<hc, port, devs, intr, act>>
ringVars == <<req, evt, call>>
inputVars == <<pc, kb, ms, hw, sent, out>>

Que == INSTANCE Queues WITH kind <- disk, Kinds <- Drivers, Lba <- DiskBlocks
Drive == INSTANCE Floppy WITH req <- track, Kinds <- Media
Bus == INSTANCE Buses WITH Ports <- SataPorts
Nic == INSTANCE NicRing WITH Slots <- SendSlots
Bus2 == INSTANCE Usb WITH kind <- hc, Kinds <- Hosts, Ports <- UsbPorts, Plugs <- UsbPlugs
Xhci == INSTANCE XhciRing WITH Events <- EventPlaces, Parts <- Requests
In == INSTANCE Input

ASSUME InstancesOK ==
  /\ Que!ConstantsOK /\ Drive!ConstantsOK /\ Bus!ConstantsOK /\ Nic!ConstantsOK
  /\ Bus2!ConstantsOK /\ Xhci!ConstantsOK /\ In!ConstantsOK

(* The parts that do not run start in one state and not in each. *)
Init ==
  /\ part \in Parts
  /\ Que!Init   /\ (part # "disk" => disk = "ata")
  /\ Drive!Init /\ (part # "drive" => unit = "cd" /\ head = 0)
  /\ Nic!Init   /\ (part # "nic" => card = "e1000")
  /\ Bus2!Init  /\ (part # "usb" => hc = "ohci")
  /\ Xhci!Init
  /\ In!Init    /\ (part # "input" => hw.plug = {"kbd", "aux"})
  /\ Bus!Init   /\ (part # "bus" => \A p \in DOMAIN world : world[p] = "none")

InDisk(A) == part = "disk" /\ A /\ UNCHANGED <<part, driveVars, busVars, nicVars, usbVars, ringVars, inputVars>>
InDrive(A) == part = "drive" /\ A /\ UNCHANGED <<part, diskVars, busVars, nicVars, usbVars, ringVars, inputVars>>
InBus(A) == part = "bus" /\ A /\ UNCHANGED <<part, diskVars, driveVars, nicVars, usbVars, ringVars, inputVars>>
InNic(A) == part = "nic" /\ A /\ UNCHANGED <<part, diskVars, driveVars, busVars, usbVars, ringVars, inputVars>>
InUsb(A) == part = "usb" /\ A /\ UNCHANGED <<part, diskVars, driveVars, busVars, nicVars, ringVars, inputVars>>
InRing(A) == part = "ring" /\ A /\ UNCHANGED <<part, diskVars, driveVars, busVars, nicVars, usbVars, inputVars>>
InInput(A) == part = "input" /\ A /\ UNCHANGED <<part, diskVars, driveVars, busVars, nicVars, usbVars, ringVars>>

Next ==
  \/ InDisk(Que!Next) \/ InDrive(Drive!Next) \/ InBus(Bus!Next) \/ InNic(Nic!Next)
  \/ InUsb(Bus2!Next) \/ InRing(Xhci!Next) \/ InInput(In!Next)

vars == <<part, diskVars, driveVars, busVars, nicVars, usbVars, ringVars, inputVars>>
Spec == Init /\ [][Next]_vars

(* The properties; each named part of them is stated, with the code it is about, in the
   module it comes from.  The types of the state of every part. *)
TypeOK ==
  /\ part = "disk" => Que!TypeOK
  /\ part = "drive" => Drive!TypeOK
  /\ part = "bus" => Bus!TypeOK
  /\ part = "nic" => Nic!TypeOK
  /\ part = "usb" => Bus2!TypeOK
  /\ part = "ring" => Xhci!TypeOK
  /\ part = "input" => In!TypeOK

(* What a drive was told to keep it keeps where it was told to, whatever failed, was late
   or was swapped in between; and a drive keeps its number and its one driver. *)
DrivesKeep ==
  /\ part = "disk" => Que!Survives /\ Que!AtHome
  /\ part = "drive" => Drive!BufferTrue /\ Drive!FindsPlace
  /\ part = "bus" => Bus!KeepsItsNumber /\ Bus!OneDoor

(* Rings that both ends move around agree on what is new in them, over any number of laps,
   and a port that devices come to and go from is used by the one that is in it. *)
RingsAgree ==
  /\ part = "nic" => Nic!NotWedged /\ Nic!AnswersFirst
  /\ part = "usb" => Bus2!Noticed /\ Bus2!OneUser
  /\ part = "ring" => Xhci!LapsAgree /\ Xhci!AnsweredItself

(* Bytes that keyboard and mouse share are taken for what they are: packets stay framed,
   the pointer does not drift and no key repeats after it was let go. *)
InputTrue == part = "input" => In!Framed /\ In!NoDrift /\ In!RepeatStops

(* Steps: a call takes the answer to its own command; frames leave and are receipted as
   they were; a report goes to its own device; each key counts once. *)
AnswersMatch ==
  /\ Que!ReadTrue /\ Que!OwnAnswer
  /\ Nic!InOrder /\ Nic!ReceiptIsTrue
  /\ Bus2!OwnReports
  /\ In!TypedAsPressed /\ In!PressedOnce

(* The ATA driver alone: what its comment says of a write that it calls a success. *)
AtaSaysSo == part = "disk" => Que!WriteSaysSo

-----------------------------------------------------------------------------
(* A component's library operators are its own to the provers, and the same. *)
LEMMA BusCounts == \A S : Bus!Cardinality(S) = Cardinality(S)
  BY DEF Bus!Cardinality, Cardinality
LEMMA HandCounts == \A S : In!Cardinality(S) = Cardinality(S)
  BY DEF In!Cardinality, Cardinality
-----------------------------------------------------------------------------
(* Queues of disks.  What the properties rest on, and the proof that every step keeps it. *)

(* Devices that answer after the driver gave up are those whose drivers cope with it. *)
Coped == Late \subseteq {"ata", "ahci"}

Commands == [cmd : {"read", "write", "flush"}, lba : DiskBlocks, val : Que!Datum \cup {None}, mine : BOOLEAN]
Completions == [phase : {0, 1}, ok : BOOLEAN, mine : BOOLEAN]
Replies == [ok : BOOLEAN, mine : BOOLEAN, sent : BOOLEAN]
Devices == [sec : [DiskBlocks -> Que!Datum], safe : [DiskBlocks -> Que!Datum], dead : BOOLEAN, outs : Seq(Commands),
            cq : [0 .. Ring - 1 -> Completions], tail : 0 .. Ring - 1, phase : {0, 1}, replies : Seq(Replies)]
QueueCalls == [pc : {"idle", "send", "wait"}, op : {"none", "read", "write"}, cmd : {"none", "read", "write", "flush"},
          lba : DiskBlocks \cup {None}, val : Que!Datum \cup {None}, tries : 0 .. 3, buf : Que!Datum \cup {None},
          head : 0 .. Ring - 1, phase : {0, 1}, res : {"none", "ok", "failed"}, deaf : BOOLEAN]
QueueTypes == disk \in Drivers /\ dev \in Devices /\ drv \in QueueCalls /\ told \in [DiskBlocks -> Que!Datum \cup {None}]

(* The call: what a write has to write belongs to its sector and is not yet believed. *)
Calling ==
  /\ drv.pc = "idle" <=> drv.op = "none"
  /\ drv.pc # "idle" => drv.lba \in DiskBlocks
  /\ drv.op = "read" => drv.cmd = "read"
  /\ drv.op = "write" =>
       /\ drv.cmd \in {"write", "flush"} /\ drv.val \in Que!Datum /\ drv.val[1] = drv.lba
       /\ told[drv.lba] = None /\ (disk # "ata" => drv.buf = drv.val)
  /\ drv.op = "write" /\ drv.cmd = "flush" => dev.sec[drv.lba] = drv.val \/ drv.deaf

(* Entries of the ring before the head are of this lap, the others of the last one. *)
Lapped(h, p, more) ==
  /\ dev.tail = IF more THEN (h + 1) % Ring ELSE h
  /\ dev.phase = IF more /\ h = Ring - 1 THEN 1 - p ELSE p
  /\ \A i \in 0 .. Ring - 1 : dev.cq[i].phase = IF i < h \/ (more /\ i = h) THEN p ELSE 1 - p

(* Nothing, or the answer to the driver's own command, waits to be read. *)
Unread(more) ==
  IF disk = "nvme" THEN Lapped(drv.head, drv.phase, more) /\ (more => dev.cq[drv.head].mine)
  ELSE IF more THEN Len(dev.replies) = 1 /\ dev.replies[1].mine ELSE dev.replies = <<>>

Own == [cmd |-> drv.cmd, lba |-> drv.lba, val |-> drv.val, mine |-> TRUE]

(* An answer that says so is true. *)
Truthful ==
  /\ drv.cmd = "read" => drv.buf = dev.sec[drv.lba]
  /\ drv.cmd = "write" => dev.sec[drv.lba] = drv.val
  /\ drv.cmd = "flush" /\ disk # "mpt" => dev.safe[drv.lba] = drv.val \/ drv.deaf

(* While the driver waits its command is on its way, or answered, or lost; else the
   device has nothing of it, but an ATA device that was given up. *)
Waiting ==
  drv.pc = "wait" =>
    \/ dev.outs = <<Own>> /\ Unread(FALSE)
    \/ dev.outs = <<>> /\ Unread(TRUE) /\ (Que!Answer.ok => Truthful)
    \/ dev.outs = <<>> /\ Unread(FALSE) /\ dev.dead
QueueQuiet ==
  /\ drv.pc # "wait" /\ disk # "ata" => dev.outs = <<>> /\ Unread(FALSE)
  /\ dev.dead /\ disk \in {"nvme", "mpt"} => dev.outs = <<>>
Leftover ==
  disk = "ata" =>
    /\ Len(dev.outs) <= 1 /\ (drv.pc = "send" /\ drv.cmd = "flush" => dev.outs = <<>>)
    /\ \A i \in DOMAIN dev.outs : dev.outs[i].cmd = "write" =>
         dev.outs[i].val \in Que!Datum /\ dev.outs[i].val[1] = dev.outs[i].lba /\ told[dev.outs[i].lba] = None

(* What the driver was told is so. *)
Believed ==
  \A l \in DiskBlocks : told[l] # None => dev.sec[l] = told[l] /\ (disk # "mpt" => dev.safe[l] = told[l])

QueueInv == QueueTypes /\ Calling /\ Waiting /\ QueueQuiet /\ Leftover /\ Believed /\ Que!AtHome

LEMMA QueueInitInv == ASSUME Que!ConstantsOK, Que!Init PROVE QueueInv
<1> DEFINE blank == [l \in DiskBlocks |-> Que!Zero(l)]
<1>1. /\ dev = [sec |-> blank, safe |-> blank, dead |-> FALSE, outs |-> <<>>,
                cq |-> [i \in 0 .. Ring - 1 |-> Que!Blank], tail |-> 0, phase |-> 1, replies |-> <<>>]
      /\ drv = Que!Fresh /\ told = blank /\ disk \in Drivers
  BY DEF Que!Init, Que!Reset
<1>2. blank \in [DiskBlocks -> Que!Datum] /\ \A l \in DiskBlocks : blank[l] = <<l, 0>>
  BY DEF Que!Zero, Que!Datum
<1> HIDE DEF blank
<1>3. Ring \in Nat /\ Ring >= 2 /\ Que!Blank \in Completions
  BY DEF Que!ConstantsOK, Que!Blank, Completions
<1>4. dev \in Devices
  BY <1>1, <1>2, <1>3 DEF Devices
<1>5. drv \in QueueCalls
  BY <1>1, <1>3 DEF Que!Fresh, QueueCalls
<1>6. Unread(FALSE)
  BY <1>1, <1>3 DEF Unread, Lapped, Que!Fresh, Que!Blank
<1> QED
  <2>1. drv.pc = "idle" /\ drv.op = "none" /\ dev.outs = <<>> /\ dev.sec = blank /\ dev.safe = blank
    BY <1>1 DEF Que!Fresh
  <2>2. QueueTypes
    BY <1>1, <1>2, <1>4, <1>5 DEF QueueTypes
  <2>3. Calling /\ Waiting /\ QueueQuiet /\ Leftover
    <3>1. Calling
      BY <2>1 DEF Calling
    <3>2. Waiting /\ QueueQuiet
      BY <1>6, <2>1 DEF Waiting, QueueQuiet
    <3>3. Leftover
      BY <2>1 DEF Leftover
    <3> QED
      BY <3>1, <3>2, <3>3
  <2>4. Believed /\ Que!AtHome
    BY <1>1, <1>2, <2>1 DEF Believed, Que!AtHome
  <2> QED
    BY <2>2, <2>3, <2>4 DEF QueueInv

LEMMA CallInv ==
  ASSUME Que!ConstantsOK, QueueInv, NEW op \in {"read", "write"}, NEW l \in DiskBlocks, NEW v \in Que!Datum \cup {None},
         op = "write" => v \in Que!Datum /\ v[1] = l, Que!Call(op, l, v)
  PROVE  QueueInv'
<1>1. dev \in Devices /\ drv \in QueueCalls /\ told \in [DiskBlocks -> Que!Datum \cup {None}] /\ disk \in Drivers /\ drv.pc = "idle"
      /\ disk' = disk /\ dev' = dev
  BY DEF QueueInv, QueueTypes, Que!Call
<1>2. /\ drv'.pc = "send" /\ drv'.op = op /\ drv'.cmd = op /\ drv'.lba = l /\ drv'.val = v
      /\ drv'.buf = (IF op = "write" THEN v ELSE drv.buf) /\ drv'.head = drv.head /\ drv'.phase = drv.phase
      /\ drv' \in QueueCalls
  <2>1. drv' = [drv EXCEPT !.pc = "send", !.op = op, !.cmd = op, !.lba = l, !.val = v, !.tries = 0, !.res = "none", !.deaf = FALSE,
                           !.buf = IF op = "write" THEN v ELSE @]
    BY DEF Que!Call
  <2> DEFINE b == IF op = "write" THEN v ELSE drv.buf
  <2>2. b \in Que!Datum \cup {None}
    BY <1>1 DEF QueueCalls
  <2>3. drv' = [drv EXCEPT !.pc = "send", !.op = op, !.cmd = op, !.lba = l, !.val = v, !.tries = 0, !.res = "none", !.deaf = FALSE, !.buf = b]
    BY <2>1
  <2> HIDE DEF b
  <2>4. drv' \in QueueCalls
    <3>1. drv.head \in 0 .. Ring - 1 /\ drv.phase \in {0, 1}
      BY <1>1 DEF QueueCalls
    <3>2. drv' = [pc |-> "send", op |-> op, cmd |-> op, lba |-> l, val |-> v, tries |-> 0, buf |-> b,
                  head |-> drv.head, phase |-> drv.phase, res |-> "none", deaf |-> FALSE]
      BY <1>1, <2>3 DEF QueueCalls
    <3> QED
      BY <2>2, <3>1, <3>2 DEF QueueCalls
  <2>5. drv'.buf = b /\ drv'.pc = "send" /\ drv'.op = op /\ drv'.cmd = op /\ drv'.lba = l /\ drv'.val = v
        /\ drv'.head = drv.head /\ drv'.phase = drv.phase
    BY <1>1, <2>3 DEF QueueCalls
  <2> QED
    BY <2>4, <2>5 DEF b
<1>3. /\ told' \in [DiskBlocks -> Que!Datum \cup {None}]
      /\ \A k \in DiskBlocks : told'[k] = IF op = "write" /\ k = l THEN None ELSE told[k]
  BY <1>1 DEF Que!Call
<1>4. None \notin Que!Datum
  BY DEF Que!ConstantsOK, Que!Datum
<1>5. QueueTypes'
  BY <1>1, <1>2, <1>3 DEF QueueTypes
<1>6. Calling'
  BY <1>1, <1>2, <1>3 DEF Calling
<1>7. Waiting'
  BY <1>2 DEF Waiting
<1>8. QueueQuiet'
  BY <1>1, <1>2 DEF QueueInv, QueueQuiet, Unread, Lapped
<1>9. Leftover' /\ Believed'
  <2>1. dev.outs \in Seq(Commands)
    BY <1>1 DEF Devices
  <2>2. \A i \in DOMAIN dev.outs : dev.outs[i].lba \in DiskBlocks
    <3>1. \A i \in DOMAIN dev.outs : dev.outs[i] \in Commands
      BY <2>1
    <3> QED
      BY <3>1 DEF Commands
  <2>3. Leftover'
    <3>1. ~ (drv'.pc = "send" /\ drv'.cmd = "flush")
      BY <1>2
    <3> QED
      BY <1>1, <1>3, <2>2, <3>1 DEF QueueInv, Leftover
  <2>4. Believed'
    BY <1>1, <1>3 DEF QueueInv, Believed
  <2> QED
    BY <2>3, <2>4
<1> QED
  BY <1>1, <1>5, <1>6, <1>7, <1>8, <1>9 DEF QueueInv, Que!AtHome

(* What is disowned stays what it is. *)
LEMMA DisownedIs ==
  ASSUME Que!ConstantsOK, dev \in Devices
  PROVE  /\ Que!Disowned(dev) \in Devices
         /\ Que!Disowned(dev).sec = dev.sec /\ Que!Disowned(dev).safe = dev.safe /\ Que!Disowned(dev).dead = dev.dead
         /\ Que!Disowned(dev).tail = dev.tail /\ Que!Disowned(dev).phase = dev.phase
         /\ Len(Que!Disowned(dev).outs) = Len(dev.outs) /\ Len(Que!Disowned(dev).replies) = Len(dev.replies)
         /\ \A i \in 0 .. Ring - 1 : Que!Disowned(dev).cq[i].phase = dev.cq[i].phase
<1> DEFINE o == [i \in DOMAIN dev.outs |-> [dev.outs[i] EXCEPT !.mine = FALSE]]
           c == [i \in DOMAIN dev.cq |-> [dev.cq[i] EXCEPT !.mine = FALSE]]
           r == [i \in DOMAIN dev.replies |-> [dev.replies[i] EXCEPT !.mine = FALSE]]
<1>1. dev.outs \in Seq(Commands) /\ dev.cq \in [0 .. Ring - 1 -> Completions] /\ dev.replies \in Seq(Replies)
  BY DEF Devices
<1>2. o \in Seq(Commands) /\ Len(o) = Len(dev.outs)
  <2>1. \A i \in 1 .. Len(dev.outs) : [dev.outs[i] EXCEPT !.mine = FALSE] \in Commands
    <3>1. \A i \in 1 .. Len(dev.outs) : dev.outs[i] \in Commands
      BY <1>1
    <3> QED
      BY <3>1 DEF Commands
  <2>2. Len(dev.outs) \in Nat /\ DOMAIN dev.outs = 1 .. Len(dev.outs)
    BY <1>1
  <2> QED
    BY <2>1, <2>2
<1>3. c \in [0 .. Ring - 1 -> Completions] /\ \A i \in 0 .. Ring - 1 : c[i].phase = dev.cq[i].phase
  <2>1. \A i \in 0 .. Ring - 1 : dev.cq[i] \in Completions
    BY <1>1
  <2>2. \A i \in 0 .. Ring - 1 : [dev.cq[i] EXCEPT !.mine = FALSE] \in Completions /\ [dev.cq[i] EXCEPT !.mine = FALSE].phase = dev.cq[i].phase
    BY <2>1 DEF Completions
  <2> QED
    BY <1>1, <2>2
<1>4. r \in Seq(Replies) /\ Len(r) = Len(dev.replies)
  <2>1. \A i \in 1 .. Len(dev.replies) : [dev.replies[i] EXCEPT !.mine = FALSE] \in Replies
    <3>1. \A i \in 1 .. Len(dev.replies) : dev.replies[i] \in Replies
      BY <1>1
    <3> QED
      BY <3>1 DEF Replies
  <2>2. Len(dev.replies) \in Nat /\ DOMAIN dev.replies = 1 .. Len(dev.replies)
    BY <1>1
  <2> QED
    BY <2>1, <2>2
<1>5. Que!Disowned(dev) = [dev EXCEPT !.outs = o, !.cq = c, !.replies = r]
  BY DEF Que!Disowned
<1> HIDE DEF o, c, r
<1>6. /\ Que!Disowned(dev).outs = o /\ Que!Disowned(dev).cq = c /\ Que!Disowned(dev).replies = r
      /\ Que!Disowned(dev).sec = dev.sec /\ Que!Disowned(dev).safe = dev.safe /\ Que!Disowned(dev).dead = dev.dead
      /\ Que!Disowned(dev).tail = dev.tail /\ Que!Disowned(dev).phase = dev.phase
      /\ Que!Disowned(dev) \in Devices
  BY <1>2, <1>3, <1>4, <1>5 DEF Devices
<1> QED
  BY <1>2, <1>3, <1>4, <1>6

LEMMA ReturnedIs ==
  ASSUME NEW d \in QueueCalls, NEW res \in {"ok", "failed"}, NEW a, a = Que!Returned(d, res)
  PROVE  a \in QueueCalls /\ a.pc = "idle" /\ a.op = "none" /\ a.res = res /\ a.head = d.head /\ a.phase = d.phase /\ a.buf = d.buf
<1>1. a = [d EXCEPT !.pc = "idle", !.op = "none", !.val = None, !.tries = 0, !.res = res, !.deaf = FALSE]
  BY DEF Que!Returned
<1>2. a = [pc |-> "idle", op |-> "none", cmd |-> d.cmd, lba |-> d.lba, val |-> None, tries |-> 0,
           buf |-> d.buf, head |-> d.head, phase |-> d.phase, res |-> res, deaf |-> FALSE]
  BY <1>1 DEF QueueCalls
<1>3. /\ d.cmd \in {"none", "read", "write", "flush"} /\ d.lba \in DiskBlocks \cup {None} /\ d.buf \in Que!Datum \cup {None}
      /\ d.head \in 0 .. Ring - 1 /\ d.phase \in {0, 1}
  BY DEF QueueCalls
<1>4. a \in QueueCalls
  BY <1>2, <1>3 DEF QueueCalls
<1> QED
  BY <1>2, <1>4

(* The state of the call that tries again, or goes on. *)
QueueSends(d, c, n) == [d EXCEPT !.pc = "send", !.cmd = c, !.tries = n]
LEMMA SendsIs ==
  ASSUME NEW d \in QueueCalls, NEW c \in {"read", "write", "flush"}, NEW n \in 0 .. 3, NEW a, a = QueueSends(d, c, n)
  PROVE  /\ a \in QueueCalls /\ a.pc = "send" /\ a.op = d.op /\ a.cmd = c /\ a.lba = d.lba /\ a.val = d.val
         /\ a.buf = d.buf /\ a.head = d.head /\ a.phase = d.phase /\ a.deaf = d.deaf
<1>1. a = [pc |-> "send", op |-> d.op, cmd |-> c, lba |-> d.lba, val |-> d.val, tries |-> n,
           buf |-> d.buf, head |-> d.head, phase |-> d.phase, res |-> d.res, deaf |-> d.deaf]
  BY DEF QueueCalls, QueueSends
<1>2. /\ d.op \in {"none", "read", "write"} /\ d.lba \in DiskBlocks \cup {None} /\ d.val \in Que!Datum \cup {None} /\ d.buf \in Que!Datum \cup {None}
      /\ d.head \in 0 .. Ring - 1 /\ d.phase \in {0, 1} /\ d.res \in {"none", "ok", "failed"} /\ d.deaf \in BOOLEAN
  BY DEF QueueCalls
<1>3. a \in QueueCalls
  BY <1>1, <1>2 DEF QueueCalls
<1> QED
  BY <1>1, <1>3

(* What the driver does with an answer: it returns, tries a read again, or goes on to
   the flush of a write. *)
LEMMA QueueAnsweredIs ==
  ASSUME NEW d \in QueueCalls, NEW ok \in BOOLEAN, NEW a, a = Que!Answered(d, ok), d.op \in {"read", "write"},
         d.op = "read" => d.cmd = "read", d.op = "write" => d.cmd \in {"write", "flush"}
  PROVE  /\ a \in QueueCalls /\ a.head = d.head /\ a.phase = d.phase /\ a.buf = d.buf
         /\ \/ /\ a.pc = "idle" /\ a.op = "none"
               /\ a.res = "ok" => (d.op = "read" /\ ok) \/ (d.op = "write" /\ d.cmd = "flush" /\ (ok \/ disk = "mpt"))
            \/ a.pc = "send" /\ a.op = "read" /\ d.op = "read" /\ a.cmd = "read" /\ a.lba = d.lba /\ a.val = d.val
            \/ a.pc = "send" /\ a.op = "write" /\ d.op = "write" /\ d.cmd = "write" /\ ok /\ a.cmd = "flush"
               /\ a.lba = d.lba /\ a.val = d.val /\ a.deaf = d.deaf
<1>1. d.tries \in 0 .. 3 /\ Que!Tries \in {1, 2}
  BY DEF QueueCalls, Que!Tries
<1>2. CASE a = Que!Again(d) /\ d.op = "read" /\ d.tries < 3
  <2>1. a = QueueSends(d, "read", d.tries + 1)
    BY <1>1, <1>2 DEF Que!Again, QueueCalls, QueueSends
  <2>2. d.tries + 1 \in 0 .. 3
    BY <1>1, <1>2
  <2> QED
    BY <1>2, <2>1, <2>2, SendsIs
<1>3. CASE a = Que!Returned(d, "ok") /\ ((d.op = "read" /\ ok) \/ (d.op = "write" /\ d.cmd = "flush" /\ (ok \/ disk = "mpt")))
  <2> QED
    BY <1>3, ReturnedIs
<1>4. CASE a = Que!Returned(d, "failed")
  <2> QED
    BY <1>4, ReturnedIs
<1>5. CASE a = [d EXCEPT !.cmd = "flush", !.pc = "send"] /\ d.op = "write" /\ d.cmd = "write" /\ ok
  <2>1. a = QueueSends(d, "flush", d.tries)
    BY <1>1, <1>5 DEF QueueCalls, QueueSends
  <2>2. /\ a \in QueueCalls /\ a.pc = "send" /\ a.op = d.op /\ a.cmd = "flush" /\ a.lba = d.lba /\ a.val = d.val
        /\ a.buf = d.buf /\ a.head = d.head /\ a.phase = d.phase /\ a.deaf = d.deaf
    BY <1>1, <2>1, SendsIs
  <2> QED
    BY <1>5, <2>2
<1>6. CASE d.op = "read"
  <2>1. CASE ok
    <3>1. a = IF Que!LooksEmpty(d) THEN Que!Again(d) ELSE Que!Returned(d, "ok")
      BY <1>6, <2>1 DEF Que!Answered
    <3> QED
      BY <1>2, <1>3, <1>6, <2>1, <3>1 DEF Que!LooksEmpty
  <2>2. CASE ~ ok
    <3>1. a = IF d.tries + 1 < Que!Tries THEN Que!Again(d) ELSE Que!Returned(d, "failed")
      BY <1>6, <2>2 DEF Que!Answered
    <3> QED
      BY <1>1, <1>2, <1>4, <1>6, <3>1
  <2> QED
    BY <2>1, <2>2
<1>7. CASE d.op = "write"
  <2>1. a = IF d.cmd = "write" /\ ok THEN [d EXCEPT !.cmd = "flush", !.pc = "send"]
            ELSE IF d.cmd = "flush" /\ disk = "mpt" THEN Que!Returned(d, "ok")
            ELSE Que!Returned(d, IF ok THEN "ok" ELSE "failed")
    BY <1>7 DEF Que!Answered
  <2>2. CASE d.cmd = "write" /\ ok
    BY <1>5, <1>7, <2>1, <2>2
  <2>3. CASE d.cmd = "flush" /\ (ok \/ disk = "mpt")
    BY <1>3, <1>7, <2>1, <2>3
  <2>4. CASE ~ ok /\ ~ (d.cmd = "flush" /\ disk = "mpt")
    BY <1>4, <2>1, <2>4
  <2> QED
    BY <1>7, <2>2, <2>3, <2>4
<1> QED
  BY <1>6, <1>7

(* What the driver concludes from an answer, or from none, leaves all in order. *)
LEMMA LearnsInv ==
  ASSUME Que!ConstantsOK, QueueInv, NEW d \in QueueCalls, NEW ok \in BOOLEAN, drv.pc = "wait", Que!Learns(Que!Answered(d, ok)), disk' = disk,
         d.op = drv.op, d.cmd = drv.cmd, d.lba = drv.lba, d.val = drv.val, d.buf = drv.buf,
         dev' \in Devices, dev'.sec = dev.sec, dev'.safe = dev.safe, drv.deaf => d.deaf,
         ok => Truthful \/ (d.deaf /\ drv.cmd = "write"),
         disk # "ata" => dev'.outs = <<>> /\ Unread(FALSE)',
         disk = "ata" => dev'.outs = <<>> \/ (~ ok /\ dev'.outs = <<Own>>)
  PROVE  QueueInv' /\ drv'.head = d.head /\ drv'.phase = d.phase
         /\ (drv.op = "read" /\ drv'.pc = "idle" /\ drv'.res = "ok" => drv'.buf = dev.sec[drv.lba])
<1>1. /\ drv \in QueueCalls /\ dev \in Devices /\ told \in [DiskBlocks -> Que!Datum \cup {None}] /\ disk \in Drivers
      /\ drv' = Que!Answered(d, ok)
      /\ told' = IF drv'.pc = "idle" /\ drv.op = "write" /\ drv'.res = "ok" /\ ~ drv.deaf THEN [told EXCEPT ![drv.lba] = drv.val] ELSE told
  BY DEF QueueInv, QueueTypes, Que!Learns
<1>2. /\ drv.op \in {"read", "write"} /\ drv.lba \in DiskBlocks
      /\ drv.op = "read" => drv.cmd = "read"
      /\ drv.op = "write" => drv.cmd \in {"write", "flush"} /\ drv.val \in Que!Datum /\ drv.val[1] = drv.lba
                             /\ told[drv.lba] = None /\ (disk # "ata" => drv.buf = drv.val)
      /\ drv.op = "write" /\ drv.cmd = "flush" => dev.sec[drv.lba] = drv.val \/ drv.deaf
  BY <1>1 DEF QueueInv, Calling, QueueCalls
<1>3. /\ drv' \in QueueCalls /\ drv'.head = d.head /\ drv'.phase = d.phase /\ drv'.buf = drv.buf
      /\ \/ /\ drv'.pc = "idle" /\ drv'.op = "none"
            /\ drv'.res = "ok" => (drv.op = "read" /\ ok) \/ (drv.op = "write" /\ drv.cmd = "flush" /\ (ok \/ disk = "mpt"))
         \/ drv'.pc = "send" /\ drv'.op = "read" /\ drv.op = "read" /\ drv'.cmd = "read" /\ drv'.lba = drv.lba
         \/ drv'.pc = "send" /\ drv'.op = "write" /\ drv.op = "write" /\ drv.cmd = "write" /\ ok /\ drv'.cmd = "flush"
            /\ drv'.lba = drv.lba /\ drv'.val = drv.val /\ drv'.deaf = d.deaf
  BY <1>1, <1>2, QueueAnsweredIs
<1>4. /\ told' \in [DiskBlocks -> Que!Datum \cup {None}]
      /\ \A l \in DiskBlocks : told'[l] = told[l] \/ (l = drv.lba /\ told'[l] = drv.val /\ drv.op = "write" /\ drv'.pc = "idle" /\ drv'.res = "ok" /\ ~ drv.deaf)
  BY <1>1, <1>2
<1>5. QueueTypes'
  BY <1>1, <1>3, <1>4 DEF QueueTypes
<1>6. Calling'
  <2>1. drv'.pc # "idle" => told' = told
    BY <1>1
  <2>2. drv.cmd = "write" /\ ok => dev.sec[drv.lba] = drv.val \/ d.deaf
    BY DEF Truthful
  <2> QED
    BY <1>2, <1>3, <2>1, <2>2 DEF Calling
<1>7. Waiting'
  BY <1>3 DEF Waiting
<1>8. QueueQuiet'
  BY DEF QueueQuiet
<1>9. Leftover'
  <2>1. CASE dev'.outs = <<>>
    BY <2>1 DEF Leftover
  <2>2. CASE disk = "ata" /\ ~ ok /\ dev'.outs = <<Own>>
    <3>1. Len(dev'.outs) = 1 /\ DOMAIN dev'.outs = {1} /\ dev'.outs[1].cmd = drv.cmd /\ dev'.outs[1].lba = drv.lba /\ dev'.outs[1].val = drv.val
      BY <2>2 DEF Own
    <3>2. ~ (drv'.pc = "send" /\ drv'.cmd = "flush")
      BY <1>3, <2>2
    <3>3. drv.cmd = "write" => drv.op = "write" /\ told' = told
      BY <1>1, <1>2, <1>3, <2>2
    <3> QED
      BY <1>2, <3>1, <3>2, <3>3 DEF Leftover
  <2>3. CASE disk # "ata"
    BY <2>3 DEF Leftover
  <2> QED
    BY <2>1, <2>2, <2>3
<1>10. Believed' /\ Que!AtHome'
  <2>1. drv'.pc = "idle" /\ drv'.res = "ok" /\ drv.op = "write" /\ ~ drv.deaf =>
          dev.sec[drv.lba] = drv.val /\ (disk # "mpt" => dev.safe[drv.lba] = drv.val)
    BY <1>2, <1>3 DEF Truthful
  <2>2. Believed'
    BY <1>4, <2>1 DEF QueueInv, Believed
  <2> QED
    BY <2>2 DEF QueueInv, Que!AtHome
<1>11. drv.op = "read" /\ drv'.pc = "idle" /\ drv'.res = "ok" => drv'.buf = dev.sec[drv.lba]
  BY <1>2, <1>3 DEF Truthful
<1> QED
  BY <1>3, <1>5, <1>6, <1>7, <1>8, <1>9, <1>10, <1>11 DEF QueueInv

(* Empty queues are of the device's types and hold nothing. *)
LEMMA ResetIs ==
  ASSUME Que!ConstantsOK, NEW d \in Devices, NEW r, r = Que!Reset(d)
  PROVE  /\ r \in Devices /\ r.sec = d.sec /\ r.safe = d.safe /\ r.dead = d.dead /\ r.outs = <<>> /\ r.replies = <<>>
         /\ r.tail = 0 /\ r.phase = 1 /\ \A i \in 0 .. Ring - 1 : r.cq[i].phase = 0
<1> DEFINE c == [i \in 0 .. Ring - 1 |-> Que!Blank]
<1>1. c \in [0 .. Ring - 1 -> Completions] /\ \A i \in 0 .. Ring - 1 : c[i].phase = 0
  BY DEF Que!Blank, Completions
<1>2. r = [d EXCEPT !.outs = <<>>, !.cq = c, !.tail = 0, !.phase = 1, !.replies = <<>>]
  BY DEF Que!Reset
<1> HIDE DEF c
<1>3. r = [sec |-> d.sec, safe |-> d.safe, dead |-> d.dead, outs |-> <<>>, cq |-> c, tail |-> 0, phase |-> 1, replies |-> <<>>]
  BY <1>2 DEF Devices
<1>4. d.sec \in [DiskBlocks -> Que!Datum] /\ d.safe \in [DiskBlocks -> Que!Datum] /\ d.dead \in BOOLEAN /\ 0 \in 0 .. Ring - 1
  BY DEF Devices, Que!ConstantsOK
<1>5. r \in Devices
  BY <1>1, <1>3, <1>4 DEF Devices
<1> QED
  BY <1>1, <1>3, <1>5

(* An unread answer is seen, and nothing else is. *)
LEMMA SeenIs ==
  ASSUME Que!ConstantsOK, QueueTypes
  PROVE  (Unread(FALSE) => ~ Que!Seen) /\ (Unread(TRUE) => Que!Seen /\ Que!Answer.mine)
<1>1. Ring \in Nat \ {0, 1} /\ drv.head \in 0 .. Ring - 1 /\ drv.phase \in {0, 1} /\ dev.replies \in Seq(Replies)
  BY DEF QueueTypes, QueueCalls, Devices, Que!ConstantsOK
<1>2. CASE disk = "nvme"
  BY <1>1, <1>2 DEF Unread, Lapped, Que!Seen, Que!Answer
<1>3. CASE disk # "nvme"
  BY <1>1, <1>3 DEF Unread, Que!Seen, Que!Answer
<1> QED
  BY <1>2, <1>3

LEMMA DieInv == ASSUME Que!ConstantsOK, QueueInv, Que!Die PROVE QueueInv'
<1>1. dev \in Devices /\ drv \in QueueCalls /\ told \in [DiskBlocks -> Que!Datum \cup {None}] /\ disk \in Drivers
      /\ disk' = disk /\ drv' = drv /\ told' = told /\ drv.pc = "wait" /\ ~ dev.dead /\ dev' = [dev EXCEPT !.dead = TRUE, !.outs = <<>>]
  BY DEF QueueInv, QueueTypes, Que!Die
<1>2. /\ dev' \in Devices /\ dev'.sec = dev.sec /\ dev'.safe = dev.safe /\ dev'.outs = <<>> /\ dev'.dead
      /\ dev'.cq = dev.cq /\ dev'.tail = dev.tail /\ dev'.phase = dev.phase /\ dev'.replies = dev.replies
  <2>1. dev' = [sec |-> dev.sec, safe |-> dev.safe, dead |-> TRUE, outs |-> <<>>, cq |-> dev.cq, tail |-> dev.tail,
                phase |-> dev.phase, replies |-> dev.replies]
    BY <1>1 DEF Devices
  <2>2. /\ dev.sec \in [DiskBlocks -> Que!Datum] /\ dev.safe \in [DiskBlocks -> Que!Datum] /\ dev.cq \in [0 .. Ring - 1 -> Completions]
        /\ dev.tail \in 0 .. Ring - 1 /\ dev.phase \in {0, 1} /\ dev.replies \in Seq(Replies)
    BY <1>1 DEF Devices
  <2> QED
    BY <2>1, <2>2 DEF Devices
<1>3. /\ Unread(FALSE) => Unread(FALSE)'
      /\ Unread(TRUE) => Unread(TRUE)'
  <2>1. CASE disk = "nvme"
    BY <1>1, <1>2, <2>1 DEF Unread, Lapped
  <2>2. CASE disk # "nvme"
    BY <1>1, <1>2, <2>2 DEF Unread
  <2> QED
    BY <2>1, <2>2
<1>4. (Que!Answer.ok => Truthful) => (Que!Answer.ok => Truthful)'
  BY <1>1, <1>2 DEF Que!Answer, Truthful
<1>5. Waiting'
  BY <1>1, <1>2, <1>3, <1>4 DEF QueueInv, Waiting
<1>6. QueueTypes' /\ Calling'
  BY <1>1, <1>2 DEF QueueInv, QueueTypes, Calling
<1>7. QueueQuiet' /\ Leftover'
  BY <1>1, <1>2 DEF QueueQuiet, Leftover
<1>8. Believed' /\ Que!AtHome'
  BY <1>1, <1>2 DEF QueueInv, Believed, Que!AtHome
<1> QED
  BY <1>5, <1>6, <1>7, <1>8 DEF QueueInv

LEMMA TailIs == ASSUME NEW S, NEW s \in Seq(S), Len(s) = 1 PROVE Tail(s) \in Seq(S) /\ Len(Tail(s)) = 0
  OBVIOUS
LEMMA EmptyIs == ASSUME NEW S, NEW s \in Seq(S), Len(s) = 0 PROVE s = <<>>
  OBVIOUS

LEMMA CollectInv ==
  ASSUME Que!ConstantsOK, QueueInv, Que!Collect
  PROVE  QueueInv' /\ Que!Answer.mine /\ (drv.op = "read" /\ drv'.pc = "idle" /\ drv'.res = "ok" => drv'.buf = dev.sec[drv.lba])
<1>1. dev \in Devices /\ drv \in QueueCalls /\ disk \in Drivers /\ disk' = disk /\ drv.pc = "wait" /\ Que!Seen /\ QueueTypes
  BY DEF QueueInv, QueueTypes, Que!Collect
<1>2. dev.outs = <<>> /\ Unread(TRUE) /\ (Que!Answer.ok => Truthful)
  BY <1>1, SeenIs DEF QueueInv, Waiting
<1>3. Ring \in Nat \ {0, 1} /\ drv.head \in 0 .. Ring - 1 /\ drv.phase \in {0, 1}
  BY <1>1 DEF Que!ConstantsOK, QueueCalls
<1> DEFINE d == Que!Taken(drv)
           r == IF disk = "nvme" THEN dev.replies ELSE Tail(dev.replies)
<1>4. Que!Answer.ok \in BOOLEAN
  <2>1. CASE disk = "nvme"
    <3>1. dev.cq[drv.head] \in Completions
      BY <1>1, <1>3 DEF Devices
    <3> QED
      BY <2>1, <3>1 DEF Que!Answer, Completions
  <2>2. CASE disk # "nvme"
    <3>1. dev.replies \in Seq(Replies) /\ Len(dev.replies) = 1
      BY <1>1, <1>2, <2>2 DEF Devices, Unread
    <3>2. Head(dev.replies) \in Replies
      BY <3>1
    <3> QED
      BY <2>2, <3>2 DEF Que!Answer, Replies
  <2> QED
    BY <2>1, <2>2
<1>5. r \in Seq(Replies) /\ (disk # "nvme" => r = <<>>)
  <2>1. dev.replies \in Seq(Replies)
    BY <1>1 DEF Devices
  <2>2. CASE disk = "nvme"
    BY <2>1, <2>2
  <2>3. CASE disk # "nvme"
    <3>1. Len(dev.replies) = 1
      BY <1>2, <2>3 DEF Unread
    <3>2. Tail(dev.replies) \in Seq(Replies) /\ Len(Tail(dev.replies)) = 0
      BY <2>1, <3>1, TailIs
    <3>3. Tail(dev.replies) = <<>>
      BY <3>2, EmptyIs
    <3> QED
      BY <2>3, <3>2, <3>3
  <2> QED
    BY <2>2, <2>3
<1>6. dev' = [dev EXCEPT !.replies = r]
  BY DEF Que!Collect
<1> HIDE DEF r
<1>7. /\ dev' \in Devices /\ dev'.sec = dev.sec /\ dev'.safe = dev.safe /\ dev'.outs = <<>> /\ dev'.replies = r
      /\ dev'.cq = dev.cq /\ dev'.tail = dev.tail /\ dev'.phase = dev.phase
  BY <1>1, <1>2, <1>5, <1>6 DEF Devices
<1>8. /\ d \in QueueCalls /\ d.op = drv.op /\ d.cmd = drv.cmd /\ d.lba = drv.lba /\ d.val = drv.val /\ d.buf = drv.buf
      /\ disk = "nvme" => d.head = (drv.head + 1) % Ring /\ d.phase = IF drv.head = Ring - 1 THEN 1 - drv.phase ELSE drv.phase
  <2>1. CASE disk = "nvme"
    <3>1. (drv.head + 1) % Ring \in 0 .. Ring - 1 /\ (IF drv.head = Ring - 1 THEN 1 - drv.phase ELSE drv.phase) \in {0, 1}
      BY <1>3
    <3>2. d = [drv EXCEPT !.head = (drv.head + 1) % Ring, !.phase = IF drv.head = Ring - 1 THEN 1 - drv.phase ELSE drv.phase]
      BY <1>1, <2>1 DEF Que!Taken, QueueCalls
    <3> HIDE DEF d
    <3> DEFINE h == (drv.head + 1) % Ring
               p == IF drv.head = Ring - 1 THEN 1 - drv.phase ELSE drv.phase
    <3>3. d = [drv EXCEPT !.head = h, !.phase = p] /\ h \in 0 .. Ring - 1 /\ p \in {0, 1}
      BY <3>1, <3>2
    <3> HIDE DEF h, p
    <3>4. d \in QueueCalls /\ d.op = drv.op /\ d.cmd = drv.cmd /\ d.lba = drv.lba /\ d.val = drv.val /\ d.buf = drv.buf
          /\ d.head = h /\ d.phase = p
      BY <1>1, <3>3 DEF QueueCalls
    <3> QED
      BY <3>4 DEF h, p
  <2>2. CASE disk # "nvme"
    BY <1>1, <2>2 DEF Que!Taken
  <2> QED
    BY <2>1, <2>2
<1>9. Que!Learns(Que!Answered(Que!Noted(d), Que!Hears))
  BY DEF Que!Collect
<1> HIDE DEF d
<1> DEFINE ok == Que!Hears
           n == Que!Noted(d)
<1>10. ok \in BOOLEAN /\ (ok => Que!Answer.ok \/ (disk = "ata" /\ drv.cmd = "write"))
  BY <1>4 DEF Que!Hears
<1> HIDE DEF ok
<1>11. /\ n \in QueueCalls /\ n.op = drv.op /\ n.cmd = drv.cmd /\ n.lba = drv.lba /\ n.val = drv.val /\ n.buf = drv.buf
       /\ n.head = d.head /\ n.phase = d.phase /\ (drv.deaf => n.deaf)
       /\ ok => Truthful \/ (n.deaf /\ drv.cmd = "write")
  <2>1. d.deaf = drv.deaf /\ d.deaf \in BOOLEAN
    BY <1>1, <1>8 DEF d, Que!Taken, QueueCalls
  <2> DEFINE f == d.deaf \/ (ok /\ ~ Que!Answer.ok)
  <2>2. n = [d EXCEPT !.deaf = f] /\ f \in BOOLEAN
    BY <1>8 DEF Que!Noted, QueueCalls, ok
  <2>3. (d.deaf => f) /\ (ok /\ ~ Que!Answer.ok => f)
    OBVIOUS
  <2> HIDE DEF f, n
  <2>4. n \in QueueCalls /\ n.deaf = f /\ n.op = d.op /\ n.cmd = d.cmd /\ n.lba = d.lba /\ n.val = d.val /\ n.buf = d.buf
        /\ n.head = d.head /\ n.phase = d.phase
    BY <1>8, <2>2 DEF QueueCalls
  <2> QED
    BY <1>2, <1>8, <1>10, <2>1, <2>3, <2>4
<1>12. Que!Learns(Que!Answered(n, ok))
  BY <1>9 DEF ok
<1> HIDE DEF n
<1>13. drv'.head = d.head /\ drv'.phase = d.phase
  <2>1. drv.op \in {"read", "write"} /\ (drv.op = "read" => drv.cmd = "read") /\ (drv.op = "write" => drv.cmd \in {"write", "flush"})
    BY <1>1 DEF QueueInv, Calling, QueueCalls
  <2> QED
    BY <1>10, <1>11, <1>12, <2>1, QueueAnsweredIs DEF Que!Learns
<1>14. Unread(FALSE)'
  <2>1. CASE disk = "nvme"
    <3>1. Lapped(drv.head, drv.phase, TRUE)
      BY <1>2, <2>1 DEF Unread
    <3>2. CASE drv.head = Ring - 1
      <4>1. drv'.head = 0 /\ drv'.phase = 1 - drv.phase
        BY <1>3, <1>8, <1>13, <2>1, <3>2
      <4> QED
        BY <1>1, <1>3, <1>7, <2>1, <3>1, <3>2, <4>1 DEF Unread, Lapped
    <3>3. CASE drv.head # Ring - 1
      <4>1. drv'.head = drv.head + 1 /\ drv'.phase = drv.phase /\ (drv.head + 1) % Ring = drv.head + 1
        BY <1>3, <1>8, <1>13, <2>1, <3>3
      <4> QED
        BY <1>1, <1>3, <1>7, <2>1, <3>1, <3>3, <4>1 DEF Unread, Lapped
    <3> QED
      BY <3>2, <3>3
  <2>2. CASE disk # "nvme"
    BY <1>1, <1>5, <1>7, <2>2 DEF Unread
  <2> QED
    BY <2>1, <2>2
<1> QED
  BY <1>1, <1>2, <1>7, <1>10, <1>11, <1>12, <1>14, SeenIs, LearnsInv

LEMMA GiveUpInv ==
  ASSUME Que!ConstantsOK, Coped, QueueInv, NEW late \in BOOLEAN, Que!GiveUp(late)
  PROVE  QueueInv' /\ (drv.op = "read" /\ drv'.pc = "idle" /\ drv'.res = "ok" => drv'.buf = dev.sec[drv.lba])
<1>1. /\ dev \in Devices /\ drv \in QueueCalls /\ disk \in Drivers /\ disk' = disk /\ drv.pc = "wait" /\ ~ Que!Seen /\ QueueTypes
      /\ dev.dead \/ disk \in {"ata", "ahci"}
      /\ late \/ disk = "ata"
      /\ dev' = IF late THEN Que!Restarted(dev) ELSE [dev EXCEPT !.outs = <<>>]
      /\ Que!Learns(Que!Answered(drv, FALSE))
  BY DEF QueueInv, QueueTypes, Que!GiveUp, Coped
<1>2. (dev.outs = <<Own>> \/ dev.outs = <<>>) /\ Unread(FALSE)
  BY <1>1, SeenIs DEF QueueInv, Waiting
<1>3. disk \in {"nvme", "mpt"} => dev.outs = <<>>
  BY <1>1 DEF QueueInv, QueueQuiet
<1>4. disk \in {"ata", "ahci", "nvme", "mpt"} /\ drv' = Que!Answered(drv, FALSE)
  BY <1>1 DEF Que!ConstantsOK, Que!Learns
<1>5. drv'.head = drv.head /\ drv'.phase = drv.phase
  <2>1. drv.op \in {"read", "write"} /\ (drv.op = "read" => drv.cmd = "read") /\ (drv.op = "write" => drv.cmd \in {"write", "flush"})
    BY <1>1 DEF QueueInv, Calling, QueueCalls
  <2> QED
    BY <1>1, <1>4, <2>1, QueueAnsweredIs
<1>6. CASE ~ late
  <2>1. disk = "ata" /\ dev' = [dev EXCEPT !.outs = <<>>]
    BY <1>1, <1>6
  <2>2. dev' \in Devices /\ dev'.sec = dev.sec /\ dev'.safe = dev.safe /\ dev'.outs = <<>>
    <3>1. dev' = [sec |-> dev.sec, safe |-> dev.safe, dead |-> dev.dead, outs |-> <<>>, cq |-> dev.cq, tail |-> dev.tail,
                  phase |-> dev.phase, replies |-> dev.replies]
      BY <1>1, <2>1 DEF Devices
    <3>2. /\ dev.sec \in [DiskBlocks -> Que!Datum] /\ dev.safe \in [DiskBlocks -> Que!Datum] /\ dev.cq \in [0 .. Ring - 1 -> Completions]
          /\ dev.dead \in BOOLEAN /\ dev.tail \in 0 .. Ring - 1 /\ dev.phase \in {0, 1} /\ dev.replies \in Seq(Replies)
      BY <1>1 DEF Devices
    <3> QED
      BY <3>1, <3>2 DEF Devices
  <2> QED
    BY <1>1, <2>1, <2>2, LearnsInv
<1>7. CASE late /\ disk = "ahci"
  <2>1. dev' = Que!Reset(dev)
    BY <1>1, <1>7 DEF Que!Restarted
  <2>2. dev' \in Devices /\ dev'.sec = dev.sec /\ dev'.safe = dev.safe /\ dev'.outs = <<>> /\ dev'.replies = <<>>
    BY <1>1, <2>1, ResetIs
  <2>3. Unread(FALSE)'
    BY <1>1, <1>7, <2>2 DEF Unread
  <2> QED
    BY <1>1, <1>7, <2>2, <2>3, LearnsInv
<1>8. CASE late /\ disk # "ahci"
  <2>1. dev' = dev
    BY <1>1, <1>8 DEF Que!Restarted
  <2>2. Unread(FALSE)'
    BY <1>1, <1>2, <1>5, <2>1 DEF Unread, Lapped
  <2> QED
    BY <1>1, <1>2, <1>3, <1>4, <1>8, <2>1, <2>2, LearnsInv
<1> QED
  BY <1>6, <1>7, <1>8

LEMMA PowerCutInv == ASSUME Que!ConstantsOK, QueueInv, Que!PowerCut PROVE QueueInv'
<1> DEFINE r == Que!Reset(dev)
<1>1. /\ dev \in Devices /\ drv \in QueueCalls /\ told \in [DiskBlocks -> Que!Datum \cup {None}] /\ disk \in Drivers /\ disk' = disk
      /\ dev' = [r EXCEPT !.sec = dev.safe, !.dead = FALSE] /\ drv' = Que!Fresh
      /\ told' = [l \in DiskBlocks |-> IF disk = "mpt" \/ (drv.pc # "idle" /\ drv.op = "write" /\ drv.lba = l) THEN None ELSE told[l]]
  BY DEF QueueInv, QueueTypes, Que!PowerCut
<1>2. /\ r \in Devices /\ r.sec = dev.sec /\ r.safe = dev.safe /\ r.outs = <<>> /\ r.replies = <<>>
      /\ r.tail = 0 /\ r.phase = 1 /\ \A i \in 0 .. Ring - 1 : r.cq[i].phase = 0
  BY <1>1, ResetIs
<1> HIDE DEF r
<1>3. dev.safe \in [DiskBlocks -> Que!Datum]
  BY <1>1 DEF Devices
<1>4. /\ dev' \in Devices /\ dev'.sec = dev.safe /\ dev'.safe = dev.safe /\ dev'.outs = <<>> /\ dev'.replies = <<>>
      /\ ~ dev'.dead /\ dev'.tail = 0 /\ dev'.phase = 1 /\ dev'.cq = r.cq
  BY <1>1, <1>2, <1>3 DEF Devices
<1>5. drv' \in QueueCalls /\ drv'.pc = "idle" /\ drv'.op = "none" /\ drv'.head = 0 /\ drv'.phase = 1
  <2>1. 0 \in 0 .. Ring - 1
    BY DEF Que!ConstantsOK
  <2> QED
    BY <1>1, <2>1 DEF Que!Fresh, QueueCalls
<1>6. /\ told' \in [DiskBlocks -> Que!Datum \cup {None}]
      /\ \A l \in DiskBlocks : told'[l] # None => disk # "mpt" /\ told'[l] = told[l]
  BY <1>1
<1>7. Unread(FALSE)'
  <2>1. Ring \in Nat \ {0, 1}
    BY DEF Que!ConstantsOK
  <2> QED
    BY <1>2, <1>4, <1>5, <2>1 DEF Unread, Lapped
<1>8. QueueTypes' /\ Calling' /\ Waiting'
  BY <1>1, <1>4, <1>5, <1>6 DEF QueueTypes, Calling, Waiting
<1>9. QueueQuiet' /\ Leftover'
  <2>1. QueueQuiet'
    BY <1>4, <1>7 DEF QueueQuiet
  <2>2. Leftover'
    BY <1>4 DEF Leftover
  <2> QED
    BY <2>1, <2>2
<1>10. Believed' /\ Que!AtHome'
  BY <1>1, <1>4, <1>6 DEF QueueInv, Believed, Que!AtHome
<1> QED
  BY <1>8, <1>9, <1>10 DEF QueueInv

LEMMA SubmitInv == ASSUME Que!ConstantsOK, QueueInv, Que!Submit PROVE QueueInv'
<1>1. dev \in Devices /\ drv \in QueueCalls /\ told \in [DiskBlocks -> Que!Datum \cup {None}] /\ disk \in Drivers /\ disk' = disk /\ drv.pc = "send"
  BY DEF QueueInv, QueueTypes, Que!Submit, Que!Learns
<1>2. /\ drv.op \in {"read", "write"} /\ drv.lba \in DiskBlocks
      /\ drv.op = "read" => drv.cmd = "read"
      /\ drv.op = "write" => drv.cmd \in {"write", "flush"} /\ drv.val \in Que!Datum /\ drv.val[1] = drv.lba
                             /\ told[drv.lba] = None /\ (disk # "ata" => drv.buf = drv.val)
      /\ drv.op = "write" /\ drv.cmd = "flush" => dev.sec[drv.lba] = drv.val \/ drv.deaf
  BY <1>1 DEF QueueInv, Calling, QueueCalls
<1>3. CASE disk = "ata" /\ dev.outs # <<>>
  <2>1. drv' = Que!Returned(drv, "failed") /\ dev' = dev
    BY <1>3 DEF Que!Submit, Que!Learns
  <2>2. drv' \in QueueCalls /\ drv'.pc = "idle" /\ drv'.op = "none" /\ drv'.res = "failed"
    BY <1>1, <2>1, ReturnedIs
  <2>3. told' = told
    <3>1. told' = IF drv'.pc = "idle" /\ drv.op = "write" /\ drv'.res = "ok" /\ ~ drv.deaf THEN [told EXCEPT ![drv.lba] = drv.val] ELSE told
      BY <1>3, <2>1 DEF Que!Submit, Que!Learns
    <3> QED
      BY <2>2, <3>1
  <2>4. QueueTypes' /\ Calling' /\ Waiting'
    BY <1>1, <2>1, <2>2, <2>3 DEF QueueTypes, Calling, Waiting
  <2>5. QueueQuiet'
    BY <1>1, <1>3, <2>1, <2>2 DEF QueueQuiet
  <2>6. Leftover'
    BY <1>1, <2>1, <2>2, <2>3 DEF QueueInv, Leftover
  <2>7. Believed' /\ Que!AtHome'
    BY <1>1, <2>1, <2>3 DEF QueueInv, Believed, Que!AtHome
  <2> QED
    BY <2>4, <2>5, <2>6, <2>7 DEF QueueInv
<1>4. CASE ~ (disk = "ata" /\ dev.outs # <<>>)
  <2> DEFINE d == Que!Disowned(dev)
             o == IF disk \in {"nvme", "mpt"} /\ dev.dead THEN <<>> ELSE <<Own>>
             r == IF disk \in {"ata", "ahci"} THEN <<>> ELSE d.replies
  <2>1. dev.outs = <<>> /\ (disk # "ata" => Unread(FALSE))
    BY <1>1, <1>4 DEF QueueInv, QueueQuiet
  <2>2. /\ d \in Devices /\ d.sec = dev.sec /\ d.safe = dev.safe /\ d.dead = dev.dead /\ d.tail = dev.tail /\ d.phase = dev.phase
        /\ Len(d.outs) = 0 /\ Len(d.replies) = Len(dev.replies)
        /\ \A i \in 0 .. Ring - 1 : d.cq[i].phase = dev.cq[i].phase
    BY <1>1, <2>1, DisownedIs
  <2>3. drv' = [drv EXCEPT !.pc = "wait"] /\ told' = told
    BY <1>4 DEF Que!Submit
  <2>4. Own \in Commands
    <3>1. drv.val \in Que!Datum \cup {None} /\ drv.cmd \in {"read", "write", "flush"}
      BY <1>1, <1>2 DEF QueueCalls
    <3> QED
      BY <1>2, <3>1 DEF Own, Commands
  <2>5. dev' = [d EXCEPT !.outs = o, !.replies = r]
    <3>1. d.outs = <<>> /\ Append(d.outs, Own) = <<Own>> /\ disk \in {"ata", "ahci", "nvme", "mpt"}
      <4>1. d.outs \in Seq(Commands)
        BY <2>2 DEF Devices
      <4>2. d.outs = <<>>
        BY <2>2, <4>1
      <4> QED
        BY <1>1, <4>2 DEF Que!ConstantsOK
    <3>2. dev' = IF disk \in {"ata", "ahci"} THEN [d EXCEPT !.outs = <<Own>>, !.replies = <<>>]
                 ELSE IF dev.dead THEN d ELSE [d EXCEPT !.outs = Append(@, Own)]
      BY <1>4 DEF Que!Submit, Own
    <3> HIDE DEF d
    <3>3. CASE disk \in {"ata", "ahci"}
      BY <3>2, <3>3
    <3>4. CASE disk \in {"nvme", "mpt"} /\ dev.dead
      <4>1. dev' = d /\ o = d.outs /\ r = d.replies
        BY <3>1, <3>2, <3>4
      <4> HIDE DEF o, r
      <4> QED
        BY <2>2, <4>1 DEF Devices
    <3>5. CASE disk \in {"nvme", "mpt"} /\ ~ dev.dead
      <4>1. dev' = [d EXCEPT !.outs = o] /\ r = d.replies
        <5>1. dev' = [d EXCEPT !.outs = Append(d.outs, Own)]
          BY <2>2, <3>2, <3>5 DEF Devices
        <5> QED
          BY <3>1, <3>5, <5>1
      <4> HIDE DEF o, r
      <4> QED
        BY <2>2, <4>1 DEF Devices
    <3> QED
      BY <3>1, <3>3, <3>4, <3>5
  <2>6. o \in Seq(Commands) /\ r \in Seq(Replies) /\ (o = <<Own>> \/ (o = <<>> /\ dev.dead /\ disk # "ata")) /\ (disk \in {"nvme", "mpt"} /\ dev.dead => o = <<>>)
    <3>1. d.replies \in Seq(Replies)
      BY <2>2 DEF Devices
    <3> HIDE DEF d
    <3>2. <<Own>> \in Seq(Commands)
      BY <2>4
    <3> QED
      BY <3>1, <3>2
  <2>7. r = <<>> \/ (disk = "nvme" /\ r = d.replies)
    <3>1. CASE disk = "mpt"
      <4>1. Len(d.replies) = 0 /\ d.replies \in Seq(Replies)
        BY <2>1, <2>2, <3>1 DEF Unread, Devices
      <4> HIDE DEF d
      <4>2. d.replies = <<>>
        BY <4>1
      <4> QED
        BY <3>1, <4>2
    <3>2. CASE disk # "mpt"
      BY <1>1, <3>2 DEF Que!ConstantsOK
    <3> QED
      BY <3>1, <3>2
  <2> HIDE DEF d, o, r
  <2>8. /\ dev' = [sec |-> dev.sec, safe |-> dev.safe, dead |-> dev.dead, outs |-> o, cq |-> d.cq, tail |-> dev.tail, phase |-> dev.phase, replies |-> r]
        /\ dev' \in Devices
    <3>1. dev' = [sec |-> d.sec, safe |-> d.safe, dead |-> d.dead, outs |-> o, cq |-> d.cq, tail |-> d.tail, phase |-> d.phase, replies |-> r]
      BY <2>2, <2>5 DEF Devices
    <3>2. /\ d.sec \in [DiskBlocks -> Que!Datum] /\ d.safe \in [DiskBlocks -> Que!Datum] /\ d.dead \in BOOLEAN /\ d.cq \in [0 .. Ring - 1 -> Completions]
          /\ d.tail \in 0 .. Ring - 1 /\ d.phase \in {0, 1}
      BY <2>2 DEF Devices
    <3>3. dev' \in Devices
      BY <2>6, <3>1, <3>2 DEF Devices
    <3> QED
      BY <2>2, <3>1, <3>3
  <2>9. drv' \in QueueCalls /\ drv'.pc = "wait" /\ drv'.op = drv.op /\ drv'.cmd = drv.cmd /\ drv'.lba = drv.lba /\ drv'.val = drv.val
        /\ drv'.buf = drv.buf /\ drv'.head = drv.head /\ drv'.phase = drv.phase /\ drv'.deaf = drv.deaf
    BY <1>1, <2>3 DEF QueueCalls
  <2>10. Own' = Own /\ dev'.sec = dev.sec /\ dev'.safe = dev.safe /\ dev'.dead = dev.dead /\ dev'.outs = o /\ dev'.replies = r
    BY <2>8, <2>9 DEF Own
  <2>11. Unread(FALSE)'
    <3>1. CASE disk = "nvme"
      BY <1>1, <2>1, <2>2, <2>8, <2>9, <3>1 DEF Unread, Lapped
    <3>2. CASE disk # "nvme"
      BY <1>1, <2>7, <2>10, <3>2 DEF Unread
    <3> QED
      BY <3>1, <3>2
  <2>12. QueueTypes' /\ Calling'
    BY <1>1, <1>2, <2>3, <2>8, <2>9, <2>10 DEF QueueTypes, Calling
  <2>13. Waiting'
    BY <2>6, <2>10, <2>11 DEF Waiting
  <2>14. QueueQuiet'
    BY <1>1, <2>6, <2>9, <2>10 DEF QueueQuiet
  <2>15. Leftover'
    <3>1. CASE disk = "ata"
      <4>1. Len(dev'.outs) = 1 /\ DOMAIN dev'.outs = {1} /\ dev'.outs[1].cmd = drv.cmd /\ dev'.outs[1].lba = drv.lba /\ dev'.outs[1].val = drv.val
        BY <2>6, <2>10, <3>1 DEF Own
      <4>2. drv.cmd = "write" => drv.op = "write"
        BY <1>2
      <4> QED
        BY <1>2, <2>3, <2>9, <4>1, <4>2 DEF Leftover
    <3>2. CASE disk # "ata"
      BY <1>1, <3>2 DEF Leftover
    <3> QED
      BY <3>1, <3>2
  <2>16. Believed' /\ Que!AtHome'
    BY <1>1, <2>3, <2>10 DEF QueueInv, Believed, Que!AtHome
  <2> QED
    BY <2>12, <2>13, <2>14, <2>15, <2>16 DEF QueueInv
<1> QED
  BY <1>3, <1>4

(* What is posted is behind what was: one more reply, or one more entry of the ring. *)
Stands(d, p) ==
  p \in Devices /\ p.sec = d.sec /\ p.safe = d.safe /\ p.outs = d.outs /\ p.dead = d.dead
QueueBehind(d, p, ok, mine, had) ==
  /\ disk # "nvme" => p.replies = Append(d.replies, [ok |-> ok, mine |-> mine, sent |-> had])
  /\ disk = "nvme" => /\ p.tail = (d.tail + 1) % Ring /\ p.phase = IF d.tail = Ring - 1 THEN 1 - d.phase ELSE d.phase
                      /\ \A i \in 0 .. Ring - 1 :
                           p.cq[i] = IF i = d.tail THEN [phase |-> d.phase, ok |-> ok, mine |-> mine] ELSE d.cq[i]
LEMMA PostedIs ==
  ASSUME Que!ConstantsOK, NEW d \in Devices, NEW ok \in BOOLEAN, NEW mine \in BOOLEAN, NEW had \in BOOLEAN,
         NEW p, p = Que!Posted(d, ok, mine, had)
  PROVE  Stands(d, p) /\ QueueBehind(d, p, ok, mine, had)
<1>1. /\ d.sec \in [DiskBlocks -> Que!Datum] /\ d.safe \in [DiskBlocks -> Que!Datum] /\ d.dead \in BOOLEAN /\ d.outs \in Seq(Commands)
      /\ d.cq \in [0 .. Ring - 1 -> Completions] /\ d.tail \in 0 .. Ring - 1 /\ d.phase \in {0, 1} /\ d.replies \in Seq(Replies)
      /\ Ring \in Nat \ {0, 1}
  BY DEF Devices, Que!ConstantsOK
<1>2. CASE disk # "nvme"
  <2> DEFINE q == Append(d.replies, [ok |-> ok, mine |-> mine, sent |-> had])
  <2>1. q \in Seq(Replies)
    <3>1. [ok |-> ok, mine |-> mine, sent |-> had] \in Replies
      BY DEF Replies
    <3> QED
      BY <1>1, <3>1
  <2>2. p = [d EXCEPT !.replies = q]
    BY <1>2 DEF Que!Posted, Devices
  <2> HIDE DEF q
  <2>3. p = [sec |-> d.sec, safe |-> d.safe, dead |-> d.dead, outs |-> d.outs, cq |-> d.cq, tail |-> d.tail, phase |-> d.phase, replies |-> q]
    BY <2>2 DEF Devices
  <2>4. p \in Devices
    BY <1>1, <2>1, <2>3 DEF Devices
  <2>5. p.replies = q
    BY <2>3
  <2>6. QueueBehind(d, p, ok, mine, had)
    BY <1>2, <2>5 DEF q, QueueBehind
  <2> QED
    BY <2>3, <2>4, <2>6 DEF Stands
<1>3. CASE disk = "nvme"
  <2> DEFINE x == [phase |-> d.phase, ok |-> ok, mine |-> mine]
             q == [d.cq EXCEPT ![d.tail] = x]
             t == (d.tail + 1) % Ring
             f == IF d.tail = Ring - 1 THEN 1 - d.phase ELSE d.phase
  <2>1. x \in Completions
    BY <1>1 DEF Completions
  <2>2. p = [d EXCEPT !.cq = q, !.tail = t, !.phase = f]
    BY <1>3 DEF Que!Posted, Devices
  <2>3. t \in 0 .. Ring - 1 /\ f \in {0, 1}
    BY <1>1
  <2>4. t = (d.tail + 1) % Ring /\ f = (IF d.tail = Ring - 1 THEN 1 - d.phase ELSE d.phase) /\ x = [phase |-> d.phase, ok |-> ok, mine |-> mine]
    OBVIOUS
  <2> HIDE DEF x, t, f
  <2>5. q \in [0 .. Ring - 1 -> Completions] /\ \A i \in 0 .. Ring - 1 : q[i] = IF i = d.tail THEN x ELSE d.cq[i]
    BY <1>1, <2>1
  <2> HIDE DEF q
  <2>6. p = [sec |-> d.sec, safe |-> d.safe, dead |-> d.dead, outs |-> d.outs, cq |-> q, tail |-> t, phase |-> f, replies |-> d.replies]
    BY <2>2 DEF Devices
  <2>7. p \in Devices
    BY <1>1, <2>3, <2>5, <2>6 DEF Devices
  <2>8. QueueBehind(d, p, ok, mine, had)
    BY <1>3, <2>4, <2>5, <2>6 DEF QueueBehind
  <2> QED
    BY <2>6, <2>7, <2>8 DEF Stands
<1> QED
  BY <1>2, <1>3

(* What the device does with the command it has. *)
Carries(cmd, l, v, mine) ==
  \E e \in Commands : /\ dev.outs = <<e>> /\ mine = e.mine
                      /\ IF disk = "mpt" THEN cmd = drv.cmd /\ l = drv.lba ELSE cmd = e.cmd /\ l = e.lba
                      /\ v = IF disk = "ata" THEN e.val ELSE drv.buf
Asks(d, c) ==
  c.pc = d.pc /\ c.op = d.op /\ c.cmd = d.cmd /\ c.lba = d.lba /\ c.val = d.val /\ c.head = d.head /\ c.phase = d.phase /\ c.deaf = d.deaf
Executed(ok, landed, had, cmd, l, v, mine) ==
  /\ QueueTypes' /\ Believed' /\ Que!AtHome' /\ dev'.outs = <<>> /\ dev'.dead = dev.dead /\ QueueBehind(dev, dev', ok, mine, had)
  /\ dev'.sec = IF cmd = "write" /\ (ok \/ landed) THEN [dev.sec EXCEPT ![l] = v] ELSE dev.sec
  /\ dev'.safe = IF cmd = "flush" /\ ok THEN dev.sec ELSE dev.safe
  /\ Asks(drv, drv') /\ drv'.buf = IF cmd = "read" /\ ok THEN dev.sec[l] ELSE drv.buf
LEMMA ExecutedIs ==
  ASSUME Que!ConstantsOK, QueueInv, NEW ok \in BOOLEAN, NEW landed \in BOOLEAN, NEW had \in BOOLEAN, Que!Execute(ok, landed, had),
         NEW cmd, NEW l \in DiskBlocks, NEW v, NEW mine \in BOOLEAN, Carries(cmd, l, v, mine),
         cmd = "write" => v \in Que!Datum /\ v[1] = l /\ told[l] = None
  PROVE  Executed(ok, landed, had, cmd, l, v, mine)
<1>1. /\ dev \in Devices /\ drv \in QueueCalls /\ told \in [DiskBlocks -> Que!Datum \cup {None}] /\ disk \in Drivers /\ disk' = disk /\ told' = told
      /\ dev.sec \in [DiskBlocks -> Que!Datum] /\ dev.safe \in [DiskBlocks -> Que!Datum] /\ dev.dead \in BOOLEAN
  BY DEF QueueInv, QueueTypes, Que!Execute, Devices
<1>2. PICK e \in Commands : /\ dev.outs = <<e>> /\ mine = e.mine
                            /\ IF disk = "mpt" THEN cmd = drv.cmd /\ l = drv.lba ELSE cmd = e.cmd /\ l = e.lba
                            /\ v = IF disk = "ata" THEN e.val ELSE drv.buf
  BY DEF Carries
<1>3. Head(dev.outs) = e /\ Tail(dev.outs) = <<>>
  BY <1>2
<1> DEFINE frame == [e EXCEPT !.cmd = drv.cmd, !.lba = drv.lba]
           c == IF disk = "mpt" THEN frame ELSE e
<1>4. c.cmd = cmd /\ c.lba = l
  BY <1>2 DEF Commands
<1> HIDE DEF c
<1> DEFINE s == IF cmd = "write" /\ (ok \/ landed) THEN [dev.sec EXCEPT ![l] = v] ELSE dev.sec
           k == IF cmd = "flush" /\ ok THEN dev.sec ELSE dev.safe
           b == IF cmd = "read" /\ ok THEN dev.sec[l] ELSE drv.buf
           done == [dev EXCEPT !.outs = <<>>, !.sec = s, !.safe = k]
<1>5. dev' = Que!Posted(done, ok, mine, had) /\ drv' = [drv EXCEPT !.buf = b] /\ (landed => cmd = "write" /\ ~ ok)
  <2>1. /\ dev' = Que!Posted([dev EXCEPT !.outs = Tail(@),
                            !.sec = IF c.cmd = "write" /\ (ok \/ landed) THEN [@ EXCEPT ![c.lba] = v] ELSE @,
                            !.safe = IF c.cmd = "flush" /\ ok THEN dev.sec ELSE @], ok, mine, had)
        /\ drv' = [drv EXCEPT !.buf = IF c.cmd = "read" /\ ok THEN dev.sec[c.lba] ELSE @]
        /\ landed => c.cmd = "write" /\ ~ ok
    BY <1>2, <1>3 DEF Que!Execute, c
  <2>2. [dev EXCEPT !.outs = Tail(@),
                    !.sec = IF c.cmd = "write" /\ (ok \/ landed) THEN [@ EXCEPT ![c.lba] = v] ELSE @,
                    !.safe = IF c.cmd = "flush" /\ ok THEN dev.sec ELSE @] = done
    BY <1>1, <1>3, <1>4 DEF Devices
  <2>3. [drv EXCEPT !.buf = IF c.cmd = "read" /\ ok THEN dev.sec[c.lba] ELSE @] = [drv EXCEPT !.buf = b]
    BY <1>1, <1>4 DEF QueueCalls
  <2> HIDE DEF done, b
  <2> QED
    BY <1>4, <2>1, <2>2, <2>3
<1>6. /\ s \in [DiskBlocks -> Que!Datum] /\ k \in [DiskBlocks -> Que!Datum] /\ b \in Que!Datum \cup {None}
      /\ \A m \in DiskBlocks : (s[m] = dev.sec[m] \/ (m = l /\ s[m] = v /\ cmd = "write")) /\ (k[m] = dev.safe[m] \/ (k[m] = dev.sec[m] /\ cmd = "flush"))
  BY <1>1 DEF QueueCalls
<1>7. s = (IF cmd = "write" /\ (ok \/ landed) THEN [dev.sec EXCEPT ![l] = v] ELSE dev.sec)
      /\ k = (IF cmd = "flush" /\ ok THEN dev.sec ELSE dev.safe) /\ b = (IF cmd = "read" /\ ok THEN dev.sec[l] ELSE drv.buf)
  OBVIOUS
<1> HIDE DEF s, k, b
<1>8. /\ done = [sec |-> s, safe |-> k, dead |-> dev.dead, outs |-> <<>>, cq |-> dev.cq, tail |-> dev.tail, phase |-> dev.phase, replies |-> dev.replies]
  <2> HIDE DEF done
  <2>1. done = [dev EXCEPT !.outs = <<>>, !.sec = s, !.safe = k]
    BY DEF done
  <2> QED
    BY <1>1, <2>1 DEF Devices
<1> HIDE DEF done
<1>9. done \in Devices
  <2>1. dev.cq \in [0 .. Ring - 1 -> Completions] /\ dev.tail \in 0 .. Ring - 1 /\ dev.phase \in {0, 1} /\ dev.replies \in Seq(Replies)
    BY <1>1 DEF Devices
  <2> QED
    BY <1>1, <1>6, <1>8, <2>1 DEF Devices
<1>10. Stands(done, dev') /\ QueueBehind(done, dev', ok, mine, had)
  BY <1>5, <1>9, PostedIs
<1>11. dev' \in Devices /\ dev'.sec = s /\ dev'.safe = k /\ dev'.outs = <<>> /\ dev'.dead = dev.dead
  BY <1>8, <1>10 DEF Stands
<1>12. QueueBehind(dev, dev', ok, mine, had)
  <2>1. done.cq = dev.cq /\ done.tail = dev.tail /\ done.phase = dev.phase /\ done.replies = dev.replies
    BY <1>8
  <2> QED
    BY <1>10, <2>1 DEF QueueBehind
<1>13. drv' \in QueueCalls /\ Asks(drv, drv') /\ drv'.buf = b
  BY <1>1, <1>5, <1>6 DEF QueueCalls, Asks
<1>14. QueueTypes'
  BY <1>1, <1>11, <1>13 DEF QueueTypes
<1>15. Believed' /\ Que!AtHome'
  BY <1>1, <1>6, <1>11 DEF QueueInv, Believed, Que!AtHome
<1> QED
  BY <1>7, <1>11, <1>12, <1>13, <1>14, <1>15 DEF Executed

LEMMA QueueExecuteInv == ASSUME Que!ConstantsOK, QueueInv, NEW ok \in BOOLEAN, NEW landed \in BOOLEAN, NEW had \in BOOLEAN, Que!Execute(ok, landed, had) PROVE QueueInv'
<1>1. /\ dev \in Devices /\ drv \in QueueCalls /\ told \in [DiskBlocks -> Que!Datum \cup {None}] /\ disk \in Drivers /\ disk' = disk /\ told' = told
      /\ dev.outs # <<>> /\ ~ dev.dead /\ dev.outs \in Seq(Commands) /\ dev.sec \in [DiskBlocks -> Que!Datum] /\ dev.safe \in [DiskBlocks -> Que!Datum]
      /\ disk \in {"ata", "ahci", "nvme", "mpt"} /\ Ring \in Nat \ {0, 1}
  BY DEF QueueInv, QueueTypes, Que!Execute, Devices, Que!ConstantsOK
<1>2. CASE drv.pc = "wait"
  <2>1. dev.outs = <<Own>> /\ Unread(FALSE)
    BY <1>1, <1>2 DEF QueueInv, Waiting
  <2>2. /\ drv.op \in {"read", "write"} /\ drv.lba \in DiskBlocks
        /\ drv.op = "read" => drv.cmd = "read"
        /\ drv.op = "write" => drv.cmd \in {"write", "flush"} /\ drv.val \in Que!Datum /\ drv.val[1] = drv.lba
                               /\ told[drv.lba] = None /\ (disk # "ata" => drv.buf = drv.val)
        /\ drv.op = "write" /\ drv.cmd = "flush" => dev.sec[drv.lba] = drv.val \/ drv.deaf
    BY <1>1, <1>2 DEF QueueInv, Calling, QueueCalls
  <2>3. Own \in Commands /\ Own.cmd = drv.cmd /\ Own.lba = drv.lba /\ Own.val = drv.val /\ Own.mine /\ Own.mine \in BOOLEAN
    <3>1. drv.val \in Que!Datum \cup {None} /\ drv.cmd \in {"read", "write", "flush"}
      BY <1>1, <2>2 DEF QueueCalls
    <3> QED
      BY <2>2, <3>1 DEF Own, Commands
  <2> DEFINE v == IF disk = "ata" THEN drv.val ELSE drv.buf
  <2>4. drv.op = "write" => v = drv.val
    BY <2>2
  <2>5. Carries(drv.cmd, drv.lba, v, Own.mine)
    BY <2>1, <2>3 DEF Carries
  <2> HIDE DEF v
  <2>6. /\ QueueTypes' /\ Believed' /\ Que!AtHome' /\ dev'.outs = <<>> /\ dev'.dead = dev.dead /\ QueueBehind(dev, dev', ok, Own.mine, had)
        /\ dev'.sec = IF drv.cmd = "write" /\ (ok \/ landed) THEN [dev.sec EXCEPT ![drv.lba] = v] ELSE dev.sec
        /\ dev'.safe = IF drv.cmd = "flush" /\ ok THEN dev.sec ELSE dev.safe
        /\ Asks(drv, drv') /\ drv'.buf = IF drv.cmd = "read" /\ ok THEN dev.sec[drv.lba] ELSE drv.buf
    <3>1. drv.cmd = "write" => v \in Que!Datum /\ v[1] = drv.lba /\ told[drv.lba] = None
      BY <2>2, <2>4
    <3>2. ok \in BOOLEAN /\ landed \in BOOLEAN /\ had \in BOOLEAN /\ Que!Execute(ok, landed, had) /\ drv.lba \in DiskBlocks /\ Own.mine \in BOOLEAN
      BY <2>2, <2>3
    <3>3. Executed(ok, landed, had, drv.cmd, drv.lba, v, Own.mine)
      BY <2>5, <3>1, <3>2, ExecutedIs, ZenonT(30)
    <3> QED
      BY <3>3 DEF Executed
  <2>7. /\ disk # "nvme" => dev'.replies = Append(dev.replies, [ok |-> ok, mine |-> Own.mine, sent |-> had])
        /\ disk = "nvme" => /\ dev'.tail = (dev.tail + 1) % Ring /\ dev'.phase = IF dev.tail = Ring - 1 THEN 1 - dev.phase ELSE dev.phase
                            /\ \A i \in 0 .. Ring - 1 :
                                 dev'.cq[i] = IF i = dev.tail THEN [phase |-> dev.phase, ok |-> ok, mine |-> Own.mine] ELSE dev.cq[i]
    BY <2>6 DEF QueueBehind
  <2>8. drv'.pc = "wait" /\ drv'.op = drv.op /\ drv'.cmd = drv.cmd /\ drv'.lba = drv.lba /\ drv'.val = drv.val
        /\ drv'.head = drv.head /\ drv'.phase = drv.phase /\ drv'.deaf = drv.deaf
        /\ drv'.buf = IF drv.cmd = "read" /\ ok THEN dev.sec[drv.lba] ELSE drv.buf
    BY <1>2, <2>6 DEF Asks
  <2>9. Unread(TRUE)' /\ Que!Answer'.ok = ok
    <3>1. CASE disk = "nvme"
      <4>1. dev.tail = drv.head /\ dev.phase = drv.phase /\ \A i \in 0 .. Ring - 1 : dev.cq[i].phase = IF i < drv.head THEN drv.phase ELSE 1 - drv.phase
        BY <2>1, <3>1 DEF Unread, Lapped
      <4>2. drv.head \in 0 .. Ring - 1 /\ drv.phase \in {0, 1}
        BY <1>1 DEF QueueCalls
      <4>3. dev'.cq[drv.head].ok = ok /\ dev'.cq[drv.head].mine /\ dev'.cq[drv.head].phase = drv.phase
        BY <2>3, <2>7, <3>1, <4>1, <4>2
      <4>4. \A i \in 0 .. Ring - 1 : dev'.cq[i].phase = IF i < drv.head \/ i = drv.head THEN drv.phase ELSE 1 - drv.phase
        BY <2>7, <3>1, <4>1, <4>2
      <4>5. Lapped(drv.head, drv.phase, TRUE)'
        BY <1>1, <2>7, <2>8, <3>1, <4>1, <4>4 DEF Lapped
      <4> QED
        BY <1>1, <2>8, <3>1, <4>3, <4>5 DEF Unread, Que!Answer
    <3>2. CASE disk # "nvme"
      <4>1. dev.replies = <<>> /\ dev'.replies = Append(dev.replies, [ok |-> ok, mine |-> Own.mine, sent |-> had])
        BY <2>1, <2>7, <3>2 DEF Unread
      <4>2. dev'.replies = <<[ok |-> ok, mine |-> Own.mine, sent |-> had]>>
        BY <4>1
      <4> QED
        BY <1>1, <2>3, <3>2, <4>2 DEF Unread, Que!Answer
    <3> QED
      BY <3>1, <3>2
  <2>10. ok => Truthful'
    <3>1. ok /\ drv.cmd = "read" => drv'.buf = dev.sec[drv.lba] /\ dev'.sec = dev.sec
      BY <2>6, <2>8
    <3>2. ok /\ drv.cmd = "write" => dev'.sec[drv.lba] = drv.val
      <4>1. ok /\ drv.cmd = "write" => dev'.sec = [dev.sec EXCEPT ![drv.lba] = v] /\ v = drv.val
        BY <2>2, <2>4, <2>6
      <4> QED
        BY <1>1, <2>2, <4>1
    <3>3. ok /\ drv.cmd = "flush" => dev'.safe[drv.lba] = drv.val \/ drv.deaf
      <4>1. drv.cmd = "flush" => drv.op = "write"
        BY <2>2
      <4> QED
        BY <2>2, <2>6, <2>7, <4>1
    <3> QED
      BY <1>1, <2>8, <3>1, <3>2, <3>3 DEF Truthful
  <2>11. Calling'
    <3>1. drv.cmd # "read" => drv'.buf = drv.buf
      BY <2>8
    <3>2. drv.cmd = "flush" => dev'.sec = dev.sec
      BY <2>6, <2>7
    <3> QED
      BY <1>1, <2>2, <2>8, <3>1, <3>2 DEF Calling
  <2>12. Waiting'
    BY <2>6, <2>9, <2>10 DEF Waiting
  <2>13. QueueQuiet'
    BY <1>1, <2>6, <2>8 DEF QueueQuiet
  <2>14. Leftover'
    BY <2>6 DEF Leftover
  <2> QED
    BY <2>6, <2>11, <2>12, <2>13, <2>14 DEF QueueInv
<1>3. CASE drv.pc # "wait"
  <2>1. disk = "ata" /\ Len(dev.outs) = 1
    <3>1. disk = "ata"
      BY <1>1, <1>3 DEF QueueInv, QueueQuiet
    <3>2. Len(dev.outs) <= 1
      BY <3>1 DEF QueueInv, Leftover
    <3>3. Len(dev.outs) \in Nat /\ Len(dev.outs) # 0
      BY <1>1, EmptyIs
    <3> DEFINE n == Len(dev.outs)
    <3>4. n \in Nat /\ n # 0 /\ n <= 1
      BY <3>2, <3>3
    <3> HIDE DEF n
    <3>5. n = 1
      BY <3>4
    <3> QED
      BY <3>1, <3>5 DEF n
  <2>2. PICK e \in Commands : dev.outs = <<e>>
    <3>1. dev.outs[1] \in Commands /\ dev.outs = <<dev.outs[1]>>
      BY <1>1, <2>1
    <3> QED
      BY <3>1
  <2>3. e.lba \in DiskBlocks /\ e.mine \in BOOLEAN /\ (e.cmd = "write" => e.val \in Que!Datum /\ e.val[1] = e.lba /\ told[e.lba] = None)
    <3>1. 1 \in DOMAIN dev.outs /\ dev.outs[1] = e
      BY <2>2
    <3> QED
      BY <2>1, <3>1 DEF QueueInv, Leftover, Commands
  <2>4. Carries(e.cmd, e.lba, e.val, e.mine)
    BY <2>1, <2>2 DEF Carries
  <2>5. QueueTypes' /\ Believed' /\ Que!AtHome' /\ dev'.outs = <<>> /\ Asks(drv, drv')
    <3>1. ok \in BOOLEAN /\ landed \in BOOLEAN /\ had \in BOOLEAN /\ Que!Execute(ok, landed, had)
      OBVIOUS
    <3>2. Executed(ok, landed, had, e.cmd, e.lba, e.val, e.mine)
      BY <2>3, <2>4, <3>1, ExecutedIs, ZenonT(30)
    <3> QED
      BY <3>2 DEF Executed
  <2>7. drv'.pc = drv.pc /\ drv'.op = drv.op /\ drv'.cmd = drv.cmd /\ drv'.lba = drv.lba /\ drv'.val = drv.val
    BY <2>5 DEF Asks
  <2>8. ~ (drv.op = "write" /\ drv.cmd = "flush")
    <3>1. drv.pc \in {"idle", "send"}
      BY <1>1, <1>3 DEF QueueCalls
    <3> QED
      BY <1>1, <2>1, <3>1 DEF QueueInv, Calling, Leftover
  <2>9. Calling'
    BY <1>1, <2>1, <2>7, <2>8 DEF QueueInv, Calling
  <2>10. Waiting' /\ QueueQuiet'
    BY <1>1, <1>3, <2>1, <2>7 DEF Waiting, QueueQuiet
  <2>11. Leftover'
    BY <2>5 DEF Leftover
  <2> QED
    BY <2>5, <2>9, <2>10, <2>11 DEF QueueInv
<1> QED
  BY <1>2, <1>3

LEMMA QueueNextInv ==
  ASSUME Que!ConstantsOK, Coped, QueueInv, Que!Next
  PROVE  QueueInv' /\ (drv.pc = "wait" /\ Que!Collect => Que!Answer.mine)
         /\ (drv.pc = "wait" /\ drv'.pc = "idle" /\ drv.op = "read" /\ drv'.res = "ok" => drv'.buf = dev.sec[drv.lba])
<1> DEFINE Goal == QueueInv' /\ (drv.pc = "wait" /\ Que!Collect => Que!Answer.mine)
                   /\ (drv.pc = "wait" /\ drv'.pc = "idle" /\ drv.op = "read" /\ drv'.res = "ok" => drv'.buf = dev.sec[drv.lba])
<1>1. Que!Collect => Que!Answer.mine
  BY CollectInv
<1>2. CASE \E l \in DiskBlocks : Que!Call("read", l, None)
  <2>1. PICK l \in DiskBlocks : Que!Call("read", l, None)
    BY <1>2
  <2>2. QueueInv'
    BY <2>1, CallInv
  <2>3. drv.pc = "idle"
    BY <2>1 DEF Que!Call
  <2> QED
    BY <1>1, <2>2, <2>3
<1>3. CASE \E l \in DiskBlocks : \E v \in {0, 1} : Que!Call("write", l, <<l, v>>)
  <2>1. PICK l \in DiskBlocks, v \in {0, 1} : Que!Call("write", l, <<l, v>>)
    BY <1>3
  <2>2. <<l, v>> \in Que!Datum /\ <<l, v>>[1] = l
    BY DEF Que!Datum
  <2>3. QueueInv'
    BY <2>1, <2>2, CallInv
  <2>4. drv.pc = "idle"
    BY <2>1 DEF Que!Call
  <2> QED
    BY <1>1, <2>3, <2>4
<1>4. CASE Que!Submit
  <2>1. drv.pc = "send"
    BY <1>4 DEF Que!Submit
  <2> QED
    BY <1>1, <1>4, <2>1, SubmitInv
<1>5. CASE Que!Collect
  BY <1>1, <1>5, CollectInv
<1>6. CASE Que!Die
  <2>1. drv'.pc = "wait"
    BY <1>6 DEF Que!Die
  <2> QED
    BY <1>1, <1>6, <2>1, DieInv
<1>7. CASE Que!PowerCut
  <2>1. drv'.res = "none"
    BY <1>7 DEF Que!PowerCut, Que!Fresh
  <2> QED
    BY <1>1, <1>7, <2>1, PowerCutInv
<1>8. CASE \E ok, landed, had \in BOOLEAN : Que!Execute(ok, landed, had)
  <2>1. PICK ok \in BOOLEAN, landed \in BOOLEAN, had \in BOOLEAN : Que!Execute(ok, landed, had)
    BY <1>8
  <2>2. drv'.pc = drv.pc
    <3>1. drv \in QueueCalls
      BY DEF QueueInv, QueueTypes
    <3> QED
      BY <2>1, <3>1 DEF Que!Execute, QueueCalls
  <2> QED
    BY <1>1, <2>1, <2>2, QueueExecuteInv
<1>9. CASE \E late \in BOOLEAN : Que!GiveUp(late)
  BY <1>1, <1>9, GiveUpInv
<1> QED
  BY <1>2, <1>3, <1>4, <1>5, <1>6, <1>7, <1>8, <1>9 DEF Que!Next

LEMMA InvHolds == ASSUME Que!ConstantsOK, Coped PROVE Que!Spec => []QueueInv
<1>1. Que!Init => QueueInv
  BY QueueInitInv
<1>2. QueueInv /\ [Que!Next]_(Que!vars) => QueueInv'
  <2>1. CASE Que!Next
    BY <2>1, QueueNextInv
  <2>2. CASE UNCHANGED Que!vars
    BY <2>2 DEF Que!vars, QueueInv, QueueTypes, Calling, Waiting, QueueQuiet, Leftover, Believed, Que!AtHome, Unread, Lapped, Own, Truthful, Que!Answer
  <2> QED
    BY <2>1, <2>2
<1> QED
  BY <1>1, <1>2, PTL DEF Que!Spec

(* A write that a driver acknowledged, and of which the device reported no fault, is not
   lost to a power cut (the fault that the ATA driver does not read is what AtaSaysSo is
   about), and no sector holds another's data, where only the drivers that cope with it
   meet devices that answer late. *)
THEOREM DisksKeep == ASSUME Que!ConstantsOK, Coped PROVE Que!Spec => [](Que!TypeOK /\ Que!Survives /\ Que!AtHome)
<1>1. ASSUME QueueInv PROVE Que!TypeOK /\ Que!Survives /\ Que!AtHome
  <2>1. dev \in Devices /\ drv \in QueueCalls /\ told \in [DiskBlocks -> Que!Datum \cup {None}]
    BY <1>1 DEF QueueInv, QueueTypes
  <2>2. \A i \in DOMAIN dev.outs : dev.outs[i].cmd \in {"read", "write", "flush"}
    <3>1. dev.outs \in Seq(Commands)
      BY <2>1 DEF Devices
    <3>2. \A i \in DOMAIN dev.outs : dev.outs[i] \in Commands
      BY <3>1
    <3> QED
      BY <3>2 DEF Commands
  <2>3. Que!TypeOK
    BY <2>1, <2>2 DEF Que!TypeOK, Devices, QueueCalls
  <2>4. Que!Survives
    BY <1>1 DEF QueueInv, Believed, Que!Survives
  <2> QED
    BY <1>1, <2>3, <2>4 DEF QueueInv
<1> QED
  BY <1>1, InvHolds, PTL

(* A read that succeeds returns what the device holds, and every answer that is taken
   is the one to the driver's own command. *)
THEOREM DisksAnswer == ASSUME Que!ConstantsOK, Coped PROVE Que!Spec => Que!ReadTrue /\ Que!OwnAnswer
<1>1. QueueInv /\ [Que!Next]_(Que!vars) =>
        /\ [drv.pc = "wait" /\ drv'.pc = "idle" /\ drv.op = "read" /\ drv'.res = "ok" => drv'.buf = dev.sec[drv.lba]]_(Que!vars)
        /\ [drv.pc = "wait" /\ Que!Collect => Que!Answer.mine]_(Que!vars)
  BY QueueNextInv
<1> QED
  BY <1>1, InvHolds, PTL DEF Que!Spec, Que!ReadTrue, Que!OwnAnswer

-----------------------------------------------------------------------------
(* The floppy and the disc.  What the properties rest on, and the proof that every step keeps it. *)

Drives == [cyl : -1 .. Cyls - 1, motor : BOOLEAN, track : -1 .. Heads * Cyls - 1, buf : [Drive!Lba -> {None, 0, 1}]]
DriveCalls == [op : {"none", "read", "write"}, lba : Drive!Lba, val : {None, 0, 1}, tries : 0 .. 3, res : {"none", "ok", "failed"}]
DriveTypes ==
  /\ unit \in Media /\ medium \in [Drive!Lba -> 0 .. 1] /\ head \in 0 .. Cyls - 1
  /\ fd \in Drives /\ track \in DriveCalls /\ faults \in [hard : BOOLEAN, slips : 0 .. 1]

(* A call that is under way: a write has its value and its drive, a read has dropped the
   buffer, and the fourth attempt comes only after a fault, for the third finds the place. *)
UnderWay ==
  /\ track.tries \in 0 .. Drive!Attempts - 1 /\ (track.op = "none" => track.tries = 0)
  /\ track.op = "write" => unit = "fd" /\ track.val \in 0 .. 1
  /\ track.op = "read" => fd.track = -1
  /\ track.tries = 3 => faults.hard

(* The buffer is the track but for the sector that is being written. *)
Buffered ==
  fd.track # -1 => \A l \in Drive!Sectors(fd.track) : fd.buf[l] = medium[l] \/ (track.op = "write" /\ l = track.lba)

DriveInv == DriveTypes /\ UnderWay /\ Buffered /\ Drive!FindsPlace

(* Where a sector lies. *)
LEMMA Quotient ==
  ASSUME NEW a \in Nat, NEW b \in Nat \ {0}, NEW c \in Nat, a < b * c
  PROVE  a \div b \in 0 .. c - 1
<1> DEFINE q == a \div b
<1>1. q \in Nat /\ b * q <= a
  BY SMTT(30)
<1>2. b * q < b * c
  BY <1>1
<1> HIDE DEF q
<1>3. ASSUME q >= c PROVE FALSE
  <2>1. b * q >= b * c
    BY <1>1, <1>3, SMTT(30)
  <2> QED
    BY <1>1, <1>2, <2>1
<1>4. q < c
  BY <1>1, <1>3
<1> QED
  BY <1>1, <1>4 DEF q

LEMMA Places ==
  ASSUME Drive!ConstantsOK, NEW l \in Drive!Lba
  PROVE  /\ Drive!TrackOf(l) \in 0 .. Heads * Cyls - 1 /\ Drive!CylOf(Drive!TrackOf(l)) \in 0 .. Cyls - 1
         /\ l \in Drive!Sectors(Drive!TrackOf(l))
<1>1. Spt \in Nat \ {0} /\ Heads \in Nat \ {0} /\ Cyls \in Nat \ {0}
  BY DEF Drive!ConstantsOK
<1> DEFINE n == Heads * Cyls
<1>2. n \in Nat
  BY <1>1
<1>3. Spt * Heads * Cyls = Spt * n
  BY <1>1
<1> HIDE DEF n
<1>4. l \in Nat /\ l < Spt * n
  BY <1>1, <1>2, <1>3 DEF Drive!Lba
<1>5. Drive!TrackOf(l) \in 0 .. n - 1
  BY <1>1, <1>2, <1>4, Quotient DEF Drive!TrackOf
<1>6. Drive!TrackOf(l) \in Nat /\ Drive!TrackOf(l) < Heads * Cyls
  BY <1>2, <1>5 DEF n
<1>7. Drive!CylOf(Drive!TrackOf(l)) \in 0 .. Cyls - 1
  BY <1>1, <1>6, Quotient DEF Drive!CylOf
<1> QED
  BY <1>5, <1>7 DEF Drive!Sectors, n

LEMMA Some == ASSUME Drive!ConstantsOK PROVE 0 \in Drive!Lba /\ Heads * Cyls \in Nat /\ Cyls \in Nat \ {0}
<1>1. Spt \in Nat \ {0} /\ Heads \in Nat \ {0} /\ Cyls \in Nat \ {0}
  BY DEF Drive!ConstantsOK
<1> DEFINE n == Heads * Cyls
<1>2. n \in Nat \ {0}
  BY <1>1, SMTT(30)
<1>3. Spt * n \in Nat \ {0} /\ Spt * Heads * Cyls = Spt * n
  <2>1. Spt * Heads * Cyls = Spt * n
    BY <1>1
  <2> HIDE DEF n
  <2> QED
    BY <1>1, <1>2, <2>1, SMTT(30)
<1> QED
  BY <1>1, <1>2, <1>3 DEF Drive!Lba, n

LEMMA DriveInitInv == ASSUME Drive!ConstantsOK, Drive!Init PROVE DriveInv
<1>1. DriveTypes
  BY Some DEF Drive!Init, DriveTypes, Drives, DriveCalls, Drive!NoReq, Drive!NoBuffer
<1> QED
  BY <1>1, Some DEF Drive!Init, DriveInv, DriveTypes, UnderWay, Buffered, Drive!FindsPlace, Drive!NoReq, Drive!Attempts

LEMMA ReadInv ==
  ASSUME Drive!ConstantsOK, DriveInv, NEW l \in Drive!Lba, Drive!Read(l)
  PROVE  DriveInv'
<1>1. /\ fd \in Drives /\ track \in DriveCalls /\ unit \in Media /\ head \in 0 .. Cyls - 1 /\ medium \in [Drive!Lba -> 0 .. 1]
      /\ faults' = [hard |-> FALSE, slips |-> 0]
      /\ unit' = unit /\ medium' = medium /\ head' = head
  BY DEF DriveInv, DriveTypes, Drive!Read
<1>2. CASE Drive!Cached(l)
  <2>1. fd' = fd /\ track' = Drive!Return("ok") /\ track.op = "none"
    BY <1>2 DEF Drive!Read
  <2>2. track' \in DriveCalls /\ track'.op = "none" /\ track'.tries = 0 /\ track'.res = "ok"
    BY <2>1, Some DEF Drive!Return, Drive!NoReq, DriveCalls
  <2>3. DriveTypes'
    BY <1>1, <2>1, <2>2 DEF DriveTypes
  <2> QED
    BY <1>1, <2>1, <2>2, <2>3 DEF DriveInv, UnderWay, Buffered, Drive!FindsPlace, Drive!Attempts, Drive!Sectors, Drive!TrackOf, DriveCalls
<1>3. CASE ~ Drive!Cached(l)
  <2>1. fd' = [fd EXCEPT !.track = -1, !.motor = TRUE] /\ track' = [Drive!NoReq EXCEPT !.op = "read", !.lba = l] /\ track.op = "none"
    BY <1>3 DEF Drive!Read
  <2>2. track' \in DriveCalls /\ track'.op = "read" /\ track'.tries = 0 /\ track'.res = "none"
    <3>1. track' = [op |-> "read", lba |-> l, val |-> None, tries |-> 0, res |-> "none"]
      BY <2>1 DEF Drive!NoReq
    <3> QED
      BY <3>1 DEF DriveCalls
  <2>3. fd' \in Drives /\ fd'.track = -1
    <3>1. -1 \in -1 .. Heads * Cyls - 1
      BY Some
    <3> QED
      BY <1>1, <2>1, <3>1 DEF Drives
  <2>4. DriveTypes'
    BY <1>1, <2>2, <2>3 DEF DriveTypes
  <2> QED
    BY <1>1, <2>1, <2>2, <2>3, <2>4 DEF DriveInv, UnderWay, Buffered, Drive!FindsPlace, Drive!Attempts, Drive!Sectors, Drive!TrackOf, DriveCalls
<1> QED
  BY <1>2, <1>3

LEMMA WriteInv ==
  ASSUME Drive!ConstantsOK, DriveInv, NEW l \in Drive!Lba, NEW v \in {0, 1}, Drive!Write(l, v)
  PROVE  DriveInv'
<1>1. /\ fd \in Drives /\ track \in DriveCalls /\ unit \in Media /\ head \in 0 .. Cyls - 1 /\ medium \in [Drive!Lba -> 0 .. 1]
      /\ faults' = [hard |-> FALSE, slips |-> 0] /\ track.op = "none" /\ unit = "fd"
      /\ unit' = unit /\ medium' = medium /\ head' = head /\ fd' = [fd EXCEPT !.motor = TRUE]
  BY DEF DriveInv, DriveTypes, Drive!Write
<1>2. track' = [op |-> "write", lba |-> l, val |-> v, tries |-> 0, res |-> "none"]
  BY DEF Drive!Write, Drive!NoReq
<1>3. track' \in DriveCalls
  BY <1>2 DEF DriveCalls
<1>4. fd' \in Drives /\ fd'.track = fd.track /\ fd'.buf = fd.buf
  BY <1>1 DEF Drives
<1>5. DriveTypes'
  BY <1>1, <1>3, <1>4 DEF DriveTypes
<1> QED
  BY <1>1, <1>2, <1>4, <1>5 DEF DriveInv, UnderWay, Buffered, Drive!FindsPlace, Drive!Attempts, Drive!Sectors, Drive!TrackOf

LEMMA SlipInv == ASSUME Drive!ConstantsOK, DriveInv, Drive!Slip PROVE DriveInv'
<1>1. /\ faults \in [hard : BOOLEAN, slips : 0 .. 1] /\ faults' = [faults EXCEPT !.slips = 1]
      /\ head' \in 0 .. Cyls - 1 /\ UNCHANGED <<unit, medium, fd, track>>
  BY DEF DriveInv, DriveTypes, Drive!Slip
<1>2. faults' \in [hard : BOOLEAN, slips : 0 .. 1] /\ faults'.hard = faults.hard
  BY <1>1
<1> QED
  BY <1>1, <1>2 DEF DriveInv, DriveTypes, UnderWay, Buffered, Drive!FindsPlace, Drive!Attempts, Drive!Sectors, Drive!TrackOf

(* The third attempt finds the place. *)
LEMMA SoughtTyped ==
  ASSUME Drive!ConstantsOK, DriveInv, NEW cyl \in 0 .. Cyls - 1, NEW ok \in BOOLEAN
  PROVE  /\ Drive!Sought(cyl, ok).cyl \in -1 .. Cyls - 1 /\ Drive!Sought(cyl, ok).head \in 0 .. Cyls - 1
         /\ track.tries = 2 /\ ok => Drive!Found(Drive!Sought(cyl, ok), cyl)
         /\ track.tries = 2 => Drive!Moves(cyl)
<1>1. Cyls \in Nat \ {0} /\ head \in 0 .. Cyls - 1 /\ fd.cyl \in -1 .. Cyls - 1
  BY Some DEF DriveInv, DriveTypes, Drives
<1>2. Drive!Believed \in -1 .. Cyls - 1 /\ (track.tries = 2 => Drive!Believed = -1)
  BY <1>1 DEF Drive!Believed
<1>3. \A c \in Int : Drive!Stopped(c) \in 0 .. Cyls - 1
  BY <1>1 DEF Drive!Stopped
<1>4. CASE ~ Drive!Moves(cyl)
  BY <1>1, <1>2, <1>4 DEF Drive!Sought, Drive!Moves
<1>5. CASE Drive!Moves(cyl) /\ ok
  <2>1. Drive!Sought(cyl, ok) = [cyl |-> cyl, head |-> IF Drive!Believed = -1 THEN cyl ELSE Drive!Stopped(head + (cyl - Drive!Believed))]
    BY <1>5 DEF Drive!Sought
  <2>2. Drive!Stopped(head + (cyl - Drive!Believed)) \in 0 .. Cyls - 1
    BY <1>1, <1>2, <1>3
  <2> QED
    <3> DEFINE x == IF Drive!Believed = -1 THEN cyl ELSE Drive!Stopped(head + (cyl - Drive!Believed))
    <3>1. Drive!Sought(cyl, ok).cyl = cyl /\ Drive!Sought(cyl, ok).head = x
      BY <2>1
    <3>2. x \in 0 .. Cyls - 1 /\ (track.tries = 2 => x = cyl)
      BY <1>2, <2>2
    <3> HIDE DEF x
    <3>3. cyl \in -1 .. Cyls - 1
      BY <1>1
    <3> QED
      BY <1>5, <3>1, <3>2, <3>3 DEF Drive!Found
<1>6. CASE Drive!Moves(cyl) /\ ~ ok
  BY <1>1, <1>6 DEF Drive!Sought
<1> QED
  BY <1>4, <1>5, <1>6

LEMMA AttemptInv ==
  ASSUME Drive!ConstantsOK, DriveInv, NEW seeks \in BOOLEAN, NEW transfers \in BOOLEAN, NEW landed \in BOOLEAN,
         Drive!Attempt(seeks, transfers, landed)
  PROVE  DriveInv'
<1> DEFINE t == Drive!TrackOf(track.lba)
           cyl == Drive!CylOf(t)
           s == IF unit = "fd" THEN Drive!Sought(cyl, seeks) ELSE [cyl |-> cyl, head |-> cyl]
           ok == transfers /\ Drive!Found(s, cyl)
           last == track.tries + 1 = Drive!Attempts
           moved == [fd EXCEPT !.cyl = IF unit = "fd" THEN s.cyl ELSE @]
           hard == faults.hard \/ (unit = "fd" /\ Drive!Moves(cyl) /\ ~ seeks) \/ ~ transfers
<1>1. /\ fd \in Drives /\ track \in DriveCalls /\ unit \in Media /\ head \in 0 .. Cyls - 1 /\ medium \in [Drive!Lba -> 0 .. 1]
      /\ faults \in [hard : BOOLEAN, slips : 0 .. 1] /\ UnderWay /\ Buffered
      /\ track.lba \in Drive!Lba /\ track.op \in {"read", "write"} /\ track.tries \in 0 .. 3
  BY DEF DriveInv, DriveTypes, Drive!Attempt, DriveCalls
<1>2. t \in 0 .. Heads * Cyls - 1 /\ cyl \in 0 .. Cyls - 1 /\ track.lba \in Drive!Sectors(t)
  BY <1>1, Places
<1>3. /\ unit' = unit
      /\ head' = IF unit = "fd" THEN s.head ELSE head
      /\ faults' = [faults EXCEPT !.hard = hard]
      /\ medium' = IF track.op = "write" /\ (ok \/ landed) THEN [medium EXCEPT ![track.lba] = track.val] ELSE medium
      /\ fd' = IF ok THEN (IF track.op = "read" THEN Drive!Loaded(moved, t) ELSE Drive!Written(moved, track.lba, track.val))
               ELSE IF last /\ track.op = "write" THEN Drive!Dropped(moved) ELSE moved
      /\ track' = IF ok THEN Drive!Return("ok") ELSE IF last THEN Drive!Return("failed") ELSE [track EXCEPT !.tries = @ + 1]
      /\ landed => track.op = "write"
  BY DEF Drive!Attempt
<1>4. /\ s.head \in 0 .. Cyls - 1 \/ unit # "fd"
      /\ s.cyl \in -1 .. Cyls - 1
      /\ unit # "fd" => Drive!Found(s, cyl)
      /\ unit = "fd" /\ track.tries = 2 /\ seeks => Drive!Found(s, cyl)
      /\ unit = "fd" /\ track.tries = 2 => Drive!Moves(cyl)
  BY <1>2, SoughtTyped, Some DEF Drive!Found
<1>5. moved \in Drives /\ moved.track = fd.track /\ moved.buf = fd.buf
  BY <1>1, <1>4 DEF Drives
<1>6. faults' \in [hard : BOOLEAN, slips : 0 .. 1] /\ faults'.hard = hard
  BY <1>1, <1>3
<1>7. medium' \in [Drive!Lba -> 0 .. 1]
  BY <1>1, <1>3 DEF UnderWay
<1>8. head' \in 0 .. Cyls - 1
  BY <1>1, <1>3, <1>4
<1>9. ~ ok /\ last => hard
  BY <1>1, <1>4 DEF UnderWay, Drive!Attempts
<1>10. ~ ok /\ track.tries = 2 => hard
  BY <1>4
<1> HIDE DEF t, cyl, s, ok, last, moved, hard
<1>11. CASE ok /\ track.op = "read"
  <2>1. fd' = [moved EXCEPT !.track = t, !.buf = [l \in Drive!Lba |-> IF l \in Drive!Sectors(t) THEN medium[l] ELSE None]]
    BY <1>3, <1>11 DEF Drive!Loaded
  <2>2. fd' \in Drives /\ fd'.track = t
    <3> DEFINE b == [l \in Drive!Lba |-> IF l \in Drive!Sectors(t) THEN medium[l] ELSE None]
    <3>1. b \in [Drive!Lba -> {None, 0, 1}]
      BY <1>1
    <3>2. t \in -1 .. Heads * Cyls - 1
      BY <1>2, Some
    <3>3. fd' = [moved EXCEPT !.track = t, !.buf = b]
      BY <2>1
    <3> HIDE DEF b
    <3> QED
      BY <1>5, <3>1, <3>2, <3>3 DEF Drives
  <2>3. \A l \in Drive!Sectors(t) : fd'.buf[l] = medium[l]
    <3>1. fd'.buf = [l \in Drive!Lba |-> IF l \in Drive!Sectors(t) THEN medium[l] ELSE None]
      BY <1>5, <2>1 DEF Drives
    <3> QED
      BY <3>1 DEF Drive!Sectors
  <2>4. track' = [op |-> "none", lba |-> 0, val |-> None, tries |-> 0, res |-> "ok"] /\ medium' = medium
    BY <1>1, <1>3, <1>11 DEF Drive!Return, Drive!NoReq
  <2>5. track' \in DriveCalls
    BY <2>4, Some DEF DriveCalls
  <2>6. DriveTypes'
    BY <1>3, <1>6, <1>7, <1>8, <2>2, <2>5, <1>1 DEF DriveTypes
  <2> QED
    BY <1>3, <2>2, <2>3, <2>4, <2>6 DEF DriveInv, UnderWay, Buffered, Drive!FindsPlace, Drive!Attempts, Drive!Sectors, Drive!TrackOf
<1>12. CASE ok /\ track.op = "write"
  <2>1. /\ medium' = [medium EXCEPT ![track.lba] = track.val] /\ track.val \in 0 .. 1
        /\ fd' = IF fd.track = t THEN [moved EXCEPT !.buf[track.lba] = track.val] ELSE moved
    BY <1>1, <1>3, <1>5, <1>12 DEF Drive!Written, UnderWay, t
  <2>2. fd' \in Drives /\ fd'.track = fd.track
        /\ fd'.buf = IF fd.track = t THEN [fd.buf EXCEPT ![track.lba] = track.val] ELSE fd.buf
    BY <1>1, <1>5, <2>1 DEF Drives
  <2>3. track' = [op |-> "none", lba |-> 0, val |-> None, tries |-> 0, res |-> "ok"]
    BY <1>3, <1>12 DEF Drive!Return, Drive!NoReq
  <2>4. track' \in DriveCalls
    BY <2>3, Some DEF DriveCalls
  <2>5. DriveTypes'
    BY <1>1, <1>3, <1>6, <1>7, <1>8, <2>2, <2>4 DEF DriveTypes
  <2>6. ASSUME fd.track # -1, NEW l \in Drive!Sectors(fd.track) PROVE fd'.buf[l] = medium'[l]
    <3>1. l \in Drive!Lba /\ Drive!TrackOf(l) = fd.track /\ (fd.buf[l] = medium[l] \/ l = track.lba)
      BY <1>1, <2>6 DEF Drive!Sectors, Buffered
    <3>2. fd.buf \in [Drive!Lba -> {None, 0, 1}]
      BY <1>1 DEF Drives
    <3> QED
      BY <1>1, <2>1, <2>2, <3>1, <3>2 DEF t
  <2> QED
    BY <1>3, <2>2, <2>3, <2>5, <2>6 DEF DriveInv, UnderWay, Buffered, Drive!FindsPlace, Drive!Attempts, Drive!Sectors, Drive!TrackOf
<1>13. CASE ~ ok /\ last
  <2>1. track' = [op |-> "none", lba |-> 0, val |-> None, tries |-> 0, res |-> "failed"]
    BY <1>3, <1>13 DEF Drive!Return, Drive!NoReq
  <2>2. track' \in DriveCalls
    BY <2>1, Some DEF DriveCalls
  <2>3. /\ fd' \in Drives
        /\ fd'.track = -1 \/ (track.op = "read" /\ fd'.track = fd.track)
    <3>1. -1 \in -1 .. Heads * Cyls - 1 /\ Drive!NoBuffer \in [Drive!Lba -> {None, 0, 1}]
      BY Some DEF Drive!NoBuffer
    <3>2. CASE track.op = "write"
      <4>1. fd' = [moved EXCEPT !.track = -1, !.buf = Drive!NoBuffer]
        BY <1>3, <1>13, <3>2 DEF Drive!Dropped
      <4> QED
        BY <1>5, <3>1, <4>1 DEF Drives
    <3>3. CASE track.op = "read"
      BY <1>3, <1>5, <1>13, <3>3
    <3> QED
      BY <1>1, <3>2, <3>3
  <2>4. DriveTypes'
    BY <1>1, <1>3, <1>6, <1>7, <1>8, <2>2, <2>3 DEF DriveTypes
  <2>5. fd'.track = -1
    BY <1>1, <2>3 DEF UnderWay
  <2>6. faults'.hard
    BY <1>6, <1>9, <1>13
  <2> QED
    BY <1>3, <2>1, <2>4, <2>5, <2>6 DEF DriveInv, UnderWay, Buffered, Drive!FindsPlace, Drive!Attempts
<1>14. CASE ~ ok /\ ~ last
  <2>1. track' = [track EXCEPT !.tries = @ + 1] /\ fd' = moved
    BY <1>3, <1>14
  <2>2. track.tries \in 0 .. Drive!Attempts - 1 /\ track.tries + 1 # Drive!Attempts /\ Drive!Attempts \in {3, 4}
    BY <1>1, <1>14 DEF UnderWay, Drive!Attempts, last
  <2>3. /\ track' \in DriveCalls /\ track'.tries = track.tries + 1 /\ track'.op = track.op /\ track'.lba = track.lba
        /\ track'.val = track.val /\ track'.res = track.res
    BY <1>1, <2>1, <2>2 DEF DriveCalls
  <2>4. DriveTypes'
    BY <1>1, <1>3, <1>5, <1>6, <1>7, <1>8, <2>1, <2>3 DEF DriveTypes
  <2>5. UnderWay'
    <3>1. track'.tries = 3 => faults'.hard
      BY <1>1, <1>6, <1>10, <1>14, <2>2, <2>3 DEF hard
    <3> QED
      BY <1>1, <1>3, <1>5, <2>1, <2>2, <2>3, <3>1 DEF UnderWay, Drive!Attempts
  <2>6. Buffered'
    <3>1. \A l \in Drive!Lba : medium'[l] = medium[l] \/ (track.op = "write" /\ l = track.lba)
      BY <1>1, <1>3, <1>14
    <3> QED
      BY <1>1, <1>5, <2>1, <2>3, <3>1 DEF Buffered, Drive!Sectors, Drive!TrackOf
  <2>7. Drive!FindsPlace'
    <3>1. faults.hard => faults'.hard
      BY <1>1, <1>6 DEF hard
    <3> QED
      BY <2>3, <3>1 DEF DriveInv, Drive!FindsPlace
  <2> QED
    BY <2>4, <2>5, <2>6, <2>7 DEF DriveInv
<1> QED
  BY <1>1, <1>11, <1>12, <1>13, <1>14

LEMMA DriveNextInv == ASSUME Drive!ConstantsOK, DriveInv, [Drive!Next]_(Drive!vars) PROVE DriveInv'
<1>1. CASE UNCHANGED Drive!vars
  BY <1>1 DEF Drive!vars, DriveInv, DriveTypes, UnderWay, Buffered, Drive!FindsPlace, Drive!Attempts, Drive!Sectors, Drive!TrackOf
<1> QED
  BY <1>1, ReadInv, WriteInv, AttemptInv, SlipInv DEF Drive!Next

(* What the drive keeps of a track is the track, and it finds the place again: of
   any geometry. *)
THEOREM TrackStaysTrue == ASSUME Drive!ConstantsOK PROVE Drive!Spec => [](Drive!TypeOK /\ Drive!BufferTrue /\ Drive!FindsPlace)
<1>1. DriveInv => Drive!TypeOK /\ Drive!BufferTrue /\ Drive!FindsPlace
  <2>1. DriveInv => fd \in Drives /\ track \in DriveCalls /\ Buffered /\ UnderWay /\ medium \in [Drive!Lba -> 0 .. 1]
    BY DEF DriveInv, DriveTypes
  <2> QED
    BY <2>1 DEF DriveInv, Drive!TypeOK, Drive!BufferTrue, Buffered, Drives, DriveCalls, UnderWay
<1> QED
  BY <1>1, DriveInitInv, DriveNextInv, PTL DEF Drive!Spec

-----------------------------------------------------------------------------
(* The scan of the buses.  What the properties rest on, and the proof that every scan keeps it. *)

Lists == {"sata", "scsi", "nvme", "fd"}

(* A table lists places of its bus, each once, and no more than it has room for. *)
Tables(f) ==
  /\ f.done \in BOOLEAN
  /\ \A n \in f.cd : n \in 1 .. Positions /\ world[<<"ide", n>>] = "disc"
  /\ \A bus \in Lists : /\ f[bus] \in Seq(1 .. Bus!Count(bus)) /\ Len(f[bus]) <= Bus!Slots(bus)
                         /\ \A k, j \in 1 .. Len(f[bus]) : f[bus][k] = f[bus][j] => k = j

(* The place that a number stands for, if it stands for any. *)
BusPlace(f, i) ==
  IF i[1] \in {"ide", "cd"} THEN <<"ide", i[2]>>
  ELSE IF i[2] \in DOMAIN f[i[1]] THEN <<i[1], f[i[1]][i[2]]>> ELSE Bus!Nowhere

Numbers ==
  /\ st \in [Bus!Index -> Bus!Places \cup {Bus!Nowhere}] /\ known \in [Bus!Index -> Bus!Places \cup {Bus!Nowhere}]
  /\ \A i \in Bus!Index :
       /\ st[i] \in {Bus!Nowhere, known[i]} /\ known[i] \in {Bus!Nowhere, BusPlace(found, i)}
       /\ i[1] = "ide" /\ st[i] # Bus!Nowhere => world[<<"ide", i[2]>>] = "disk"
       /\ i[1] = "cd" /\ st[i] # Bus!Nowhere => world[<<"ide", i[2]>>] = "disc"
       /\ ~ found.done => known[i] = Bus!Nowhere

BusInv == Tables(found) /\ Numbers

Below == {p \in Nat \X Nat : p[1] < p[2]}
LEMMA BelowRel == OpToRel(<, Nat) = Below
  BY DEF OpToRel, Below
(* A set of numbers that is not empty has a least one. *)
LEMMA Least == ASSUME NEW T \in SUBSET Nat, T # {} PROVE \E x \in T : \A y \in T : x <= y
<1>1. IsWellFoundedOn(Below, Nat)
  BY BelowRel, NatLessThanWellFounded
<1>2. PICK x \in T : \A y \in T : ~ (<<y, x>> \in Below)
  BY <1>1, WFMin
<1>3. ASSUME NEW y \in T PROVE x <= y
  <2>1. x \in Nat /\ y \in Nat
    OBVIOUS
  <2>2. <<y, x>> \in Nat \X Nat
    BY <2>1
  <2>3. ~ (y < x)
    BY <1>2, <2>2 DEF Below
  <2> QED
    BY <2>1, <2>3
<1> QED
  BY <1>3

LEMMA Finite ==
  ASSUME NEW N \in Nat, NEW S \in SUBSET (1 .. N)
  PROVE  IsFiniteSet(S) /\ S \in SUBSET Nat /\ Bus!Cardinality(S) \in Nat
<1>1. IsFiniteSet(1 .. N)
  <2>1. 1 \in Int /\ N \in Int
    OBVIOUS
  <2> QED
    BY <2>1, FS_Interval
<1>2. IsFiniteSet(S)
  BY <1>1, FS_Subset
<1>3. S \in SUBSET Nat
  OBVIOUS
<1> QED
  BY <1>2, <1>3, BusCounts, FS_CardinalityType

(* A finite set of numbers has an element of every rank. *)
LEMMA Ranked ==
  ASSUME NEW N \in Nat, NEW S \in SUBSET (1 .. N), NEW k \in 1 .. Bus!Cardinality(S)
  PROVE  \E n \in S : Bus!Cardinality({m \in S : m < n}) = k - 1
<1> DEFINE B(n) == {m \in S : m < n}
           T == {n \in Nat : Bus!Cardinality(B(n)) >= k}
<1>1. IsFiniteSet(S) /\ S \in SUBSET Nat /\ Bus!Cardinality(S) \in Nat
  BY Finite
<1>2. \A n \in Nat : IsFiniteSet(B(n)) /\ Bus!Cardinality(B(n)) \in Nat
  <2> TAKE n \in Nat
  <2>1. B(n) \in SUBSET S
    OBVIOUS
  <2> HIDE DEF B
  <2> QED
    BY <1>1, <2>1, BusCounts, FS_Subset, FS_CardinalityType
<1>3. N + 1 \in T
  <2>1. B(N + 1) = S
    <3>1. \A m \in S : m \in 1 .. N
      OBVIOUS
    <3>2. \A m \in S : m < N + 1
      BY <3>1
    <3> QED
      BY <3>2
  <2> HIDE DEF B
  <2>2. Bus!Cardinality(B(N + 1)) >= k
    BY <1>1, <2>1
  <2> QED
    BY <2>2
<1>4. PICK t \in T : \A y \in T : t <= y
  <2>1. T \in SUBSET Nat /\ T # {}
    BY <1>3
  <2> HIDE DEF T
  <2> QED
    BY <2>1, Least
<1>5. t \in Nat /\ Bus!Cardinality(B(t)) >= k
  OBVIOUS
<1>6. t # 0
  <2>1. B(0) = {}
    <3>1. \A m \in S : ~ (m < 0)
      BY <1>1
    <3> QED
      BY <3>1
  <2> HIDE DEF B
  <2> QED
    BY <1>5, <2>1, BusCounts, FS_EmptySet
<1> DEFINE u == t - 1
<1>7. u \in Nat /\ u + 1 = t
  BY <1>5, <1>6
<1> HIDE DEF u
<1>8. Bus!Cardinality(B(u)) < k
  <2>1. u \notin T
    <3> HIDE DEF T
    <3> QED
      BY <1>4, <1>5, <1>7
  <2>2. ~ (Bus!Cardinality(B(u)) >= k)
    BY <1>7, <2>1
  <2> HIDE DEF B, T
  <2> QED
    BY <1>2, <1>7, <2>2
<1>9. B(t) = IF u \in S THEN B(u) \cup {u} ELSE B(u)
  <2>1. \A m \in S : m < t <=> (m < u \/ m = u)
    BY <1>1, <1>5, <1>7
  <2> QED
    BY <2>1
<1>10. u \notin B(u)
  BY <1>7
<1> HIDE DEF B, T
<1>11. u \in S
  BY <1>2, <1>5, <1>7, <1>8, <1>9
<1>12. Bus!Cardinality(B(t)) = Bus!Cardinality(B(u)) + 1
  BY <1>2, <1>7, <1>9, <1>10, <1>11, BusCounts, FS_AddElement
<1>13. Bus!Cardinality(B(u)) = k - 1
  BY <1>1, <1>2, <1>5, <1>7, <1>8, <1>12
<1> QED
  BY <1>11, <1>13 DEF B

(* A list of the first ones has each of them once. *)
LEMMA ListedOnce ==
  ASSUME NEW N \in Nat, NEW S \in SUBSET (1 .. N), NEW len \in Nat, len <= Bus!Cardinality(S)
  PROVE  /\ Bus!Listed(S, len) \in Seq(1 .. N) /\ Len(Bus!Listed(S, len)) = len
         /\ \A k, j \in 1 .. len : Bus!Listed(S, len)[k] = Bus!Listed(S, len)[j] => k = j
<1>1. Bus!Cardinality(S) \in Nat
  BY Finite
<1> DEFINE x(k) == CHOOSE n \in S : Bus!Cardinality({m \in S : m < n}) = k - 1
<1>2. \A k \in 1 .. len : x(k) \in S /\ Bus!Cardinality({m \in S : m < x(k)}) = k - 1
  <2> TAKE k \in 1 .. len
  <2>1. k \in 1 .. Bus!Cardinality(S)
    BY <1>1
  <2>2. \E n \in S : Bus!Cardinality({m \in S : m < n}) = k - 1
    BY <2>1, Ranked
  <2> QED
    BY <2>2
<1>3. Bus!Listed(S, len) = [k \in 1 .. len |-> x(k)]
  BY DEF Bus!Listed
<1> HIDE DEF x
<1>4. \A k, j \in 1 .. len : x(k) = x(j) => k = j
  <2> TAKE k \in 1 .. len, j \in 1 .. len
  <2>1. x(k) = x(j) => k - 1 = j - 1
    BY <1>2
  <2> QED
    BY <2>1
<1>5. Bus!Listed(S, len) \in [1 .. len -> 1 .. N]
  BY <1>2, <1>3
<1>6. Bus!Listed(S, len) \in Seq(1 .. N) /\ Len(Bus!Listed(S, len)) = len
  BY <1>5
<1> QED
  BY <1>3, <1>4, <1>6

LEMMA SearchTables == ASSUME Bus!ConstantsOK, NEW up, NEW f, f = Bus!Search(up) PROVE Tables(f) /\ f.done
<1>1. /\ f.done = TRUE /\ f.sata = Bus!Disks("sata", up, MaxSata) /\ f.scsi = Bus!Disks("scsi", up, MaxScsi)
      /\ f.nvme = Bus!Disks("nvme", up, MaxNvme) /\ f.fd = Bus!Disks("fd", up, 1) /\ f.cd = {n \in 1 .. Positions : Bus!Optical(n, up)}
  BY DEF Bus!Search
<1>2. \A n \in f.cd : n \in 1 .. Positions /\ world[<<"ide", n>>] = "disc"
  BY <1>1 DEF Bus!Optical
<1>3. ASSUME NEW bus \in Lists, NEW max \in Nat, NEW t, t = Bus!Disks(bus, up, max)
      PROVE  t \in Seq(1 .. Bus!Count(bus)) /\ Len(t) <= max /\ \A k, j \in 1 .. Len(t) : t[k] = t[j] => k = j
  <2> DEFINE S == Bus!Answering(bus, up)
             N == Bus!Count(bus)
             len == IF Bus!Cardinality(S) < max THEN Bus!Cardinality(S) ELSE max
  <2>1. N \in Nat /\ S \in SUBSET (1 .. N)
    BY DEF Bus!ConstantsOK, Bus!Count, Lists, Bus!Answering
  <2>2. t = Bus!Listed(S, len)
    BY <1>3 DEF Bus!Disks
  <2> HIDE DEF S, N
  <2>3. Bus!Cardinality(S) \in Nat
    BY <2>1, Finite
  <2>4. len <= max /\ len \in Nat /\ len <= Bus!Cardinality(S)
    BY <2>3
  <2> HIDE DEF len
  <2>5. t \in Seq(1 .. N) /\ Len(t) = len /\ \A k, j \in 1 .. len : t[k] = t[j] => k = j
    BY <2>1, <2>2, <2>4, ListedOnce
  <2> QED
    BY <2>4, <2>5 DEF N
<1>4. ASSUME NEW bus \in Lists
      PROVE  f[bus] \in Seq(1 .. Bus!Count(bus)) /\ Len(f[bus]) <= Bus!Slots(bus) /\ \A k, j \in 1 .. Len(f[bus]) : f[bus][k] = f[bus][j] => k = j
  <2>1. Bus!Slots(bus) \in Nat /\ f[bus] = Bus!Disks(bus, up, Bus!Slots(bus))
    BY <1>1 DEF Lists, Bus!Slots, Bus!ConstantsOK
  <2> QED
    BY <1>3, <2>1
<1> QED
  BY <1>1, <1>2, <1>4 DEF Tables

LEMMA BusInitInv == ASSUME Bus!ConstantsOK, Bus!Init PROVE BusInv
<1>1. found = Bus!Unsearched /\ st = [i \in Bus!Index |-> Bus!Nowhere] /\ known = st
  BY DEF Bus!Init
<1>2. /\ found.done = FALSE /\ found.cd = {}
      /\ \A bus \in Lists : found[bus] = <<>>
  BY <1>1 DEF Bus!Unsearched, Lists
<1>3. \A bus \in Lists : Bus!Slots(bus) \in Nat
  BY DEF Lists, Bus!Slots, Bus!ConstantsOK
<1>4. \A bus \in Lists : found[bus] \in Seq(1 .. Bus!Count(bus)) /\ Len(found[bus]) = 0
  <2>1. \A S : <<>> \in Seq(S) /\ Len(<<>>) = 0
    OBVIOUS
  <2> QED
    BY <1>2, <2>1
<1>5. Tables(found)
  <2>1. \A bus \in Lists : Len(found[bus]) <= Bus!Slots(bus) /\ \A k, j \in 1 .. Len(found[bus]) : found[bus][k] = found[bus][j] => k = j
    BY <1>3, <1>4
  <2> QED
    BY <1>2, <1>4, <2>1 DEF Tables
<1>6. Numbers
  BY <1>1 DEF Numbers
<1> QED
  BY <1>5, <1>6 DEF BusInv

LEMMA Pairs == \A a, b, n, m : <<a, n>> = <<b, m>> => a = b /\ n = m
  OBVIOUS
LEMMA BusElement == ASSUME NEW S, NEW s \in Seq(S), NEW k \in DOMAIN s PROVE s[k] \in S
  OBVIOUS

(* What st_scan() puts in the table. *)
LEMMA TableIs ==
  ASSUME Bus!ConstantsOK, NEW f, NEW up \in SUBSET Bus!Attached, Tables(f), NEW i \in Bus!Index
  PROVE  /\ Bus!Table(f, up)[i] \in {Bus!Nowhere, BusPlace(f, i)}
         /\ i[1] = "ide" /\ Bus!Table(f, up)[i] # Bus!Nowhere => world[<<"ide", i[2]>>] = "disk"
         /\ i[1] = "cd" /\ Bus!Table(f, up)[i] # Bus!Nowhere => world[<<"ide", i[2]>>] = "disc"
         /\ Bus!Table(f, up)[i] \in Bus!Places \cup {Bus!Nowhere}
<1>1. /\ i \in Bus!Types \X (1 .. Positions + MaxSata + MaxScsi + MaxNvme) /\ i[2] <= Bus!Slots(i[1])
  BY DEF Bus!Index
<1>2. CASE i[1] = "ide"
  <2>1. Bus!Table(f, up)[i] = IF Bus!IdeDisk(i[2], up) THEN <<"ide", i[2]>> ELSE Bus!Nowhere
    BY <1>2 DEF Bus!Table
  <2>2. i[2] \in 1 .. Positions
    BY <1>1, <1>2 DEF Bus!Slots
  <2>3. <<"ide", i[2]>> \in Bus!Places
    BY <2>2 DEF Bus!Places, Bus!Bus, Bus!Count, Bus!ConstantsOK
  <2> QED
    BY <1>2, <2>1, <2>3 DEF BusPlace, Bus!IdeDisk
<1>3. CASE i[1] = "cd"
  <2>1. Bus!Table(f, up)[i] = IF i[2] \in f.cd THEN <<"ide", i[2]>> ELSE Bus!Nowhere
    BY <1>3 DEF Bus!Table
  <2>2. i[2] \in 1 .. Positions
    BY <1>1, <1>3 DEF Bus!Slots
  <2>3. <<"ide", i[2]>> \in Bus!Places
    BY <2>2 DEF Bus!Places, Bus!Bus, Bus!Count, Bus!ConstantsOK
  <2> QED
    BY <1>3, <2>1, <2>3 DEF BusPlace, Tables
<1>4. CASE i[1] \in Lists
  <2>1. i[1] # "ide" /\ i[1] # "cd"
    BY <1>4 DEF Lists
  <2>2. Bus!Table(f, up)[i] = BusPlace(f, i)
    BY <2>1 DEF Bus!Table, BusPlace
  <2>3. ASSUME i[2] \in DOMAIN f[i[1]] PROVE <<i[1], f[i[1]][i[2]]>> \in Bus!Places
    <3>1. f[i[1]] \in Seq(1 .. Bus!Count(i[1]))
      BY <1>4 DEF Tables
    <3>2. f[i[1]][i[2]] \in 1 .. Bus!Count(i[1])
      BY <2>3, <3>1, BusElement
    <3> QED
      BY <1>4, <3>2 DEF Bus!Places, Bus!Bus, Bus!Count, Bus!ConstantsOK, Lists
  <2>4. BusPlace(f, i) \in Bus!Places \cup {Bus!Nowhere}
    BY <2>1, <2>3 DEF BusPlace
  <2> QED
    BY <2>1, <2>2, <2>4
<1> QED
  BY <1>1, <1>2, <1>3, <1>4 DEF Bus!Types, Lists

LEMMA ScanInv == ASSUME Bus!ConstantsOK, BusInv, NEW up \in SUBSET Bus!Attached, Bus!Scan(up) PROVE BusInv'
<1>1. found' = Bus!Searched(up) /\ st' = Bus!Table(found', up) /\ world' = world
      /\ known' = [i \in Bus!Index |-> IF known[i] = Bus!Nowhere THEN st'[i] ELSE known[i]]
  BY DEF Bus!Scan
<1>2. Tables(found') /\ found'.done /\ (found.done => found' = found)
  BY <1>1, SearchTables DEF BusInv, Tables, Bus!Searched
<1>3. Tables(found)'
  BY <1>1, <1>2 DEF Tables
<1>4. \A i \in Bus!Index : /\ st'[i] \in {Bus!Nowhere, BusPlace(found', i)}
                           /\ i[1] = "ide" /\ st'[i] # Bus!Nowhere => world[<<"ide", i[2]>>] = "disk"
                           /\ i[1] = "cd" /\ st'[i] # Bus!Nowhere => world[<<"ide", i[2]>>] = "disc"
                           /\ st'[i] \in Bus!Places \cup {Bus!Nowhere}
  BY <1>1, <1>2, TableIs
<1>5. st' \in [Bus!Index -> Bus!Places \cup {Bus!Nowhere}]
  <2>1. DOMAIN st' = Bus!Index /\ st' = [i \in Bus!Index |-> st'[i]]
    BY <1>1 DEF Bus!Table
  <2> QED
    BY <1>4, <2>1
<1>6. known' \in [Bus!Index -> Bus!Places \cup {Bus!Nowhere}]
  BY <1>1, <1>5 DEF BusInv, Numbers
<1>7. ASSUME NEW i \in Bus!Index
      PROVE  st'[i] \in {Bus!Nowhere, known'[i]} /\ known'[i] \in {Bus!Nowhere, BusPlace(found', i)}
  <2>1. known'[i] = IF known[i] = Bus!Nowhere THEN st'[i] ELSE known[i]
    BY <1>1
  <2>2. known[i] # Bus!Nowhere => found.done /\ known[i] = BusPlace(found, i)
    BY DEF BusInv, Numbers, Tables
  <2> QED
    BY <1>2, <1>4, <2>1, <2>2
<1>8. \A i \in Bus!Index : BusPlace(found, i)' = BusPlace(found', i)
  BY DEF BusPlace, Bus!Nowhere
<1>9. Numbers'
  BY <1>1, <1>2, <1>4, <1>5, <1>6, <1>7, <1>8 DEF Numbers
<1> QED
  BY <1>3, <1>9 DEF BusInv

(* Every number keeps its device for good, and no device gets two. *)
THEOREM NumbersStay == ASSUME Bus!ConstantsOK PROVE Bus!Spec => [](Bus!TypeOK /\ Bus!KeepsItsNumber /\ Bus!OneDoor)
<1>1. ASSUME BusInv PROVE Bus!TypeOK
  <2>1. \A bus \in Lists : Len(found[bus]) <= Bus!Slots(bus)
    BY <1>1 DEF BusInv, Tables
  <2>2. Len(found.sata) <= MaxSata /\ Len(found.scsi) <= MaxScsi /\ Len(found.nvme) <= MaxNvme
    BY <2>1 DEF Lists, Bus!Slots
  <2> QED
    BY <1>1, <2>2 DEF Bus!TypeOK, BusInv, Numbers
<1>2. ASSUME BusInv PROVE Bus!KeepsItsNumber
  BY <1>2 DEF BusInv, Numbers, Bus!KeepsItsNumber
<1>3. ASSUME BusInv PROVE Bus!OneDoor
  <2> SUFFICES ASSUME NEW i \in Bus!Index, NEW j \in Bus!Index, st[i] = st[j], st[i] # Bus!Nowhere PROVE i = j
    BY DEF Bus!OneDoor
  <2>1. st[i] = BusPlace(found, i) /\ st[j] = BusPlace(found, j)
    BY <1>3 DEF BusInv, Numbers
  <2>2. i = <<i[1], i[2]>> /\ j = <<j[1], j[2]>> /\ i[1] \in Bus!Types /\ j[1] \in Bus!Types
    BY DEF Bus!Index
  <2>3. CASE i[1] \in {"ide", "cd"} /\ j[1] \in {"ide", "cd"}
    <3>1. i[2] = j[2]
      <4>1. BusPlace(found, i) = <<"ide", i[2]>> /\ BusPlace(found, j) = <<"ide", j[2]>>
        BY <2>3 DEF BusPlace
      <4>2. <<"ide", i[2]>> = <<"ide", j[2]>>
        BY <2>1, <4>1
      <4> QED
        BY <4>2, Pairs
    <3>2. i[1] = j[1]
      BY <1>3, <2>3, <3>1 DEF BusInv, Numbers
    <3> QED
      BY <2>2, <3>1, <3>2
  <2>4. CASE i[1] \in Lists /\ j[1] \in Lists
    <3>1. /\ i[2] \in DOMAIN found[i[1]] /\ st[i] = <<i[1], found[i[1]][i[2]]>>
          /\ j[2] \in DOMAIN found[j[1]] /\ st[j] = <<j[1], found[j[1]][j[2]]>>
      BY <2>1, <2>4 DEF BusPlace, Lists
    <3>2. i[1] = j[1] /\ found[i[1]][i[2]] = found[i[1]][j[2]]
      <4>1. <<i[1], found[i[1]][i[2]]>> = <<j[1], found[j[1]][j[2]]>>
        BY <3>1
      <4>2. i[1] = j[1] /\ found[i[1]][i[2]] = found[j[1]][j[2]]
        BY <4>1, Pairs
      <4> QED
        BY <4>2
    <3>3. /\ found[i[1]] \in Seq(1 .. Bus!Count(i[1]))
          /\ \A k, m \in 1 .. Len(found[i[1]]) : found[i[1]][k] = found[i[1]][m] => k = m
      BY <1>3, <2>4 DEF BusInv, Tables
    <3>4. i[2] = j[2]
      BY <3>1, <3>2, <3>3
    <3> QED
      BY <2>2, <3>2, <3>4
  <2>5. CASE (i[1] \in Lists /\ j[1] \in {"ide", "cd"}) \/ (j[1] \in Lists /\ i[1] \in {"ide", "cd"})
    <3>1. \A k \in Bus!Index : k[1] \in {"ide", "cd"} /\ st[k] = BusPlace(found, k) => st[k][1] = "ide"
      BY DEF BusPlace
    <3>2. \A k \in Bus!Index : k[1] \in Lists /\ st[k] = BusPlace(found, k) /\ st[k] # Bus!Nowhere => st[k][1] # "ide"
      BY DEF BusPlace, Lists
    <3> QED
      BY <2>1, <2>5, <3>1, <3>2
  <2> QED
    BY <2>2, <2>3, <2>4, <2>5 DEF Bus!Types, Lists
<1>4. BusInv /\ [Bus!Next]_(Bus!vars) => BusInv'
  <2>1. CASE Bus!Next
    BY <2>1, ScanInv DEF Bus!Next
  <2>2. CASE UNCHANGED Bus!vars
    BY <2>2 DEF Bus!vars, BusInv, Tables, Numbers, BusPlace, Bus!Nowhere
  <2> QED
    BY <2>1, <2>2
<1> QED
  BY <1>1, <1>2, <1>3, <1>4, BusInitInv, PTL DEF Bus!Spec

-----------------------------------------------------------------------------
(* The rings of the network cards.  What the properties rest on, and the proof that every step keeps it. *)

Cells == {f \in [id : Nat, size : Nat, kind : Kind \cup {"bad"}] : f.id # 0 => f.size \in Sizes}
Rxs == [mem : [Nic!Memory -> Cells], put : Nic!Memory, cur : Nic!Memory, over : BOOLEAN, free : Nic!Memory]
TxSlot == [id : 0 .. Sends, own : BOOLEAN, done : {"no", "sent", "abort"}]
CardPlace == 0 .. SendSlots - 1
Txs == [slots : [CardPlace -> TxSlot], next : CardPlace, slot : CardPlace, head : CardPlace, tail : CardPlace, fly : 0 .. Sends]
Stacks == [pc : {"loop", "drain", "sending", "timers"}, then : {"loop", "drain", "timers"}, listeners : {<<"dns", "dhcp">>}, ready : BOOLEAN]
Seens == [came : Nat, last : Nat, mark : Nat, sent : 0 .. Sends, left : Nat, owed : Nat, odd : BOOLEAN]
CardShapes ==
  /\ card \in Cards /\ rx \in Rxs /\ tx \in Txs /\ stack \in Stacks /\ seen \in Seens
  /\ seen.last <= seen.came /\ seen.mark <= seen.came

(* The ring as the driver sees it: places from its pointer on, up to the card's. *)
Width(c) == IF c = "e1000" THEN Desc ELSE Words
Long(c, f) == IF c = "e1000" THEN 1 ELSE f.size
Ahead(c, r) == IF r.cur <= r.put THEN r.put - r.cur ELSE r.put - r.cur + Width(c)
At(c, r, j) == IF r.cur + j < Width(c) THEN r.cur + j ELSE r.cur + j - Width(c)
(* What is stored hangs together: behind a frame that makes sense the next one begins, and its
   number is greater. *)
Chained(c, r, h) ==
  /\ h \subseteq 0 .. Ahead(c, r) /\ 0 \in h /\ Ahead(c, r) \in h
  /\ \A j \in h : j < Ahead(c, r) /\ r.mem[At(c, r, j)].id # 0 => j + Long(c, r.mem[At(c, r, j)]) \in h
  /\ \A i, j \in h : /\ i < j /\ j < Ahead(c, r)
                     /\ r.mem[At(c, r, i)].id # 0 /\ r.mem[At(c, r, j)].id # 0
                     => r.mem[At(c, r, i)].id < r.mem[At(c, r, j)].id
(* It came after what was handed up, and, when timers run, after the poll began. *)
CardWaits(s) == s.pc = "timers" \/ (s.pc = "sending" /\ s.then = "timers")
Fresh(c, r, s, e, h) ==
  \A j \in h : j < Ahead(c, r) =>
    /\ r.mem[At(c, r, j)].id = 0 => c = "rtl8139" /\ e.odd
    /\ r.mem[At(c, r, j)].id # 0 => /\ e.last < r.mem[At(c, r, j)].id /\ r.mem[At(c, r, j)].id <= e.came
                                    /\ CardWaits(s) => e.mark < r.mem[At(c, r, j)].id
Ends(c, r) ==
  /\ r.put < Width(c) /\ r.cur < Width(c)
  /\ c = "rtl8139" => r.free = r.cur
  /\ c = "e1000" => /\ r.free = (IF r.cur = 0 THEN Desc - 1 ELSE r.cur - 1) /\ ~ r.over
                    /\ \A j \in Ahead(c, r) .. Desc - 1 : r.mem[At(c, r, j)].id = 0
Receives == Ends(card, rx) /\ \E h \in SUBSET Nat : Chained(card, rx, h) /\ Fresh(card, rx, stack, seen, h)

(* The slots from the card's head to the driver's next one are those of frames that did not
   leave, and no more than were given up on end. *)
Queued(t) == IF t.head <= t.next THEN t.next - t.head ELSE t.next - t.head + SendSlots
SlotAt(t, j) == IF t.head + j < SendSlots THEN t.head + j ELSE t.head + j - SendSlots
Transmits(t, s, e) ==
  /\ t.tail = t.next
  /\ e.owed < SendSlots - 1 =>
       /\ Queued(t) <= e.owed + (IF s.pc = "sending" THEN 1 ELSE 0)
       /\ \A j \in CardPlace : IF j < Queued(t) THEN t.slots[SlotAt(t, j)].own /\ t.slots[SlotAt(t, j)].done = "no"
                           ELSE ~ t.slots[SlotAt(t, j)].own
       /\ t.fly # 0 => Queued(t) # 0 /\ t.fly = t.slots[t.head].id
       /\ s.pc = "sending" => /\ t.next = (t.slot + 1) % SendSlots
                              /\ Queued(t) = 0 => (t.slots[t.slot].done = "sent" => e.left = t.slots[t.slot].id)

CardInv == CardShapes /\ Receives /\ Transmits(tx, stack, seen)

LEMMA Wraps ==
  ASSUME NEW R \in Nat \ {0}, NEW h \in 0 .. R - 1, NEW i \in 0 .. R
  PROVE  (h + i) % R = IF h + i < R THEN h + i ELSE h + i - R
<1>1. CASE h + i < R
  <2>1. (h + i) % R = h + i
    BY <1>1
  <2> QED
    BY <1>1, <2>1
<1>2. CASE ~ (h + i < R)
  <2>1. (h + i) % R = h + i - R
    BY <1>2
  <2> QED
    BY <1>2, <2>1
<1> QED
  BY <1>1, <1>2

(* There is a largest size, and the memory has room for the ring. *)
LEMMA SizesAre ==
  ASSUME Nic!ConstantsOK
  PROVE  /\ Desc \in Nat \ {0} /\ SendSlots \in Nat \ {0} /\ Words \in Nat \ {0} /\ Sizes \subseteq 2 .. Words \div 2
         /\ Nic!Largest \in Sizes /\ \A s \in Sizes : s <= Nic!Largest /\ s \in Nat /\ s >= 2 /\ s < Words
<1>1. /\ Desc \in Nat \ {0} /\ SendSlots \in Nat \ {0} /\ Words \in Nat \ {0} /\ Sizes \subseteq 2 .. Words \div 2 /\ Sizes # {}
  BY DEF Nic!ConstantsOK
<1>2. \A s \in Sizes : s \in Nat /\ s >= 2 /\ s < Words
  <2> DEFINE w == Words \div 2
  <2>1. w \in Nat /\ w < Words
    BY <1>1
  <2> HIDE DEF w
  <2> QED
    BY <1>1, <2>1 DEF w
<1> DEFINE T == {Words - s : s \in Sizes}
<1>3. T \in SUBSET Nat /\ T # {}
  <2>1. ASSUME NEW s \in Sizes PROVE Words - s \in Nat
    BY <1>1, <1>2
  <2> QED
    BY <1>1, <2>1
<1> HIDE DEF T
<1>4. PICK x \in T : \A y \in T : x <= y
  BY <1>3, Least
<1>5. PICK m \in Sizes : x = Words - m
  BY DEF T
<1>6. \A s \in Sizes : s <= m
  <2>1. ASSUME NEW s \in Sizes PROVE s <= m
    <3>1. Words - s \in T
      BY DEF T
    <3> QED
      BY <1>1, <1>2, <1>4, <1>5, <3>1
  <2> QED
    BY <2>1
<1>7. Nic!Largest \in Sizes /\ \A s \in Sizes : s <= Nic!Largest
  BY <1>6 DEF Nic!Largest
<1> QED
  BY <1>1, <1>2, <1>7
(* A frame that is stored goes behind the others. *)
LEMMA Joins ==
  ASSUME NEW c, Width(c) \in Nat \ {0}, NEW r, NEW q, NEW h \in SUBSET Nat, NEW s \in Nat \ {0}, NEW f,
         r.put \in 0 .. Width(c) - 1, r.cur \in 0 .. Width(c) - 1, Ahead(c, r) + s < Width(c),
         Chained(c, r, h), q.cur = r.cur, q.put = (r.put + s) % Width(c), q.mem[r.put] = f,
         \A j \in 0 .. Ahead(c, r) - 1 : q.mem[At(c, r, j)] = r.mem[At(c, r, j)],
         f.id # 0 => s = Long(c, f),
         \A j \in h : j < Ahead(c, r) /\ r.mem[At(c, r, j)].id # 0 /\ f.id # 0 => r.mem[At(c, r, j)].id < f.id
  PROVE  /\ Ahead(c, q) = Ahead(c, r) + s /\ \A j \in Nat : At(c, q, j) = At(c, r, j)
         /\ At(c, r, Ahead(c, r)) = r.put /\ q.put \in 0 .. Width(c) - 1
         /\ Chained(c, q, h \cup {Ahead(c, q)})
<1> DEFINE w == Width(c)
<1> DEFINE n == Ahead(c, r)
<1> DEFINE a == r.cur
<1> DEFINE p == r.put
<1>1. w \in Nat \ {0} /\ p \in 0 .. w - 1 /\ a \in 0 .. w - 1 /\ n + s < w /\ n = IF a <= p THEN p - a ELSE p - a + w
  BY DEF Ahead
<1>2. n \in 0 .. w - 1
  <2> HIDE DEF w, n, a, p
  <2> QED
    BY <1>1
<1>3. q.put = IF p + s < w THEN p + s ELSE p + s - w
  <2>1. s \in 0 .. w
    <3> HIDE DEF w, n, a, p
    <3> QED
      BY <1>1, <1>2
  <2>2. q.put = (p + s) % w
    OBVIOUS
  <2> HIDE DEF w, n, a, p
  <2> QED
    BY <1>1, <2>1, <2>2, Wraps
<1>4. q.put \in 0 .. w - 1
  <2> HIDE DEF w, n, a, p
  <2> QED
    BY <1>1, <1>2, <1>3
<1>5. Ahead(c, q) = n + s
  <2>1. Ahead(c, q) = IF a <= q.put THEN q.put - a ELSE q.put - a + w
    BY DEF Ahead
  <2> HIDE DEF w, n, a, p
  <2> QED
    BY <1>1, <1>2, <1>3, <2>1
<1>6. \A j \in Nat : At(c, q, j) = At(c, r, j)
  BY DEF At
<1>7. At(c, r, n) = p
  <2>1. At(c, r, n) = IF a + n < w THEN a + n ELSE a + n - w
    BY DEF At
  <2> HIDE DEF w, n, a, p
  <2> QED
    BY <1>1, <1>2, <2>1
<1> DEFINE g == h \cup {n + s}
<1>8. h \subseteq 0 .. n /\ 0 \in h /\ n \in h
  BY DEF Chained
<1> DEFINE x(j) == r.mem[At(c, r, j)]
<1> DEFINE y(j) == q.mem[At(c, q, j)]
<1>9. /\ \A j \in 0 .. n - 1 : y(j) = x(j)
      /\ y(n) = f
  <2>1. \A j \in 0 .. n - 1 : y(j) = x(j)
    BY <1>6
  <2>2. y(n) = f
    BY <1>2, <1>6, <1>7
  <2> QED
    BY <2>1, <2>2
<1>10. /\ \A j \in h : j < n /\ x(j).id # 0 => j + Long(c, x(j)) \in h
       /\ \A i, j \in h : i < j /\ j < n /\ x(i).id # 0 /\ x(j).id # 0 => x(i).id < x(j).id
       /\ \A j \in h : j < n /\ x(j).id # 0 /\ f.id # 0 => x(j).id < f.id
  BY DEF Chained
<1> HIDE DEF w, n, a, p, x, y
<1>11. \A j \in h : j \in Nat /\ (j = n \/ (j < n /\ j \in 0 .. n - 1))
  BY <1>2, <1>8
<1>12. g \subseteq 0 .. n + s /\ 0 \in g /\ n + s \in g
  BY <1>2, <1>8
<1>13. ASSUME NEW j \in g, j < n + s, y(j).id # 0 PROVE j + Long(c, y(j)) \in g
  <2>1. j \in h
    BY <1>2, <1>13
  <2>2. CASE j < n
    BY <1>9, <1>10, <1>11, <1>13, <2>1, <2>2
  <2>3. CASE j = n
    BY <1>9, <1>13, <2>3
  <2> QED
    BY <1>11, <2>1, <2>2, <2>3
<1>14. ASSUME NEW i \in g, NEW j \in g, i < j, j < n + s, y(i).id # 0, y(j).id # 0 PROVE y(i).id < y(j).id
  <2>1. i \in h /\ j \in h
    <3>1. i \in Nat /\ j \in Nat
      BY <1>2, <1>11
    <3>2. i # n + s /\ j # n + s
      BY <1>2, <1>14, <3>1
    <3> QED
      BY <3>2
  <2>2. i < n
    BY <1>2, <1>11, <1>14, <2>1
  <2>3. y(i) = x(i)
    BY <1>9, <1>11, <2>1, <2>2
  <2>4. CASE j < n
    BY <1>9, <1>10, <1>11, <1>14, <2>1, <2>3, <2>4
  <2>5. CASE j = n
    BY <1>9, <1>10, <1>14, <2>1, <2>2, <2>3, <2>5
  <2> QED
    BY <1>11, <2>1, <2>4, <2>5
<1>15. Chained(c, q, g)
  <2>1. /\ g \subseteq 0 .. Ahead(c, q) /\ 0 \in g /\ Ahead(c, q) \in g
        /\ \A j \in g : j < Ahead(c, q) /\ y(j).id # 0 => j + Long(c, y(j)) \in g
        /\ \A i, j \in g : i < j /\ j < Ahead(c, q) /\ y(i).id # 0 /\ y(j).id # 0 => y(i).id < y(j).id
    BY <1>5, <1>12, <1>13, <1>14
  <2> HIDE DEF g
  <2> QED
    BY <2>1 DEF Chained, y
<1> QED
  BY <1>4, <1>5, <1>6, <1>7, <1>15 DEF n, p, w

Kept(c, r, q) == \A j \in 1 .. Ahead(c, r) - 1 : q.mem[At(c, r, j)] = r.mem[At(c, r, j)]
Sized(c, r) == \A j \in 0 .. Ahead(c, r) - 1 : Long(c, r.mem[At(c, r, j)]) \in Nat
Rest(c, q, h, s) == {j \in 0 .. Ahead(c, q) : j + s \in h}

(* A frame that is handed up leaves the others as they were. *)
LEMMA Leaves ==
  ASSUME NEW c, Width(c) \in Nat \ {0}, NEW r, NEW q, NEW h \in SUBSET Nat, NEW s \in Nat \ {0},
         r.put \in 0 .. Width(c) - 1, r.cur \in 0 .. Width(c) - 1, Ahead(c, r) # 0, Chained(c, r, h),
         r.mem[r.cur].id # 0, s = Long(c, r.mem[r.cur]), q.put = r.put, q.cur = (r.cur + s) % Width(c),
         Kept(c, r, q), Sized(c, r)
  PROVE  /\ s <= Ahead(c, r) /\ Ahead(c, q) = Ahead(c, r) - s /\ 0 \in h /\ At(c, r, 0) = r.cur
         /\ \A j \in 0 .. Width(c) - 1 - s : At(c, q, j) = At(c, r, j + s)
         /\ \A j \in 0 .. Ahead(c, q) - 1 : q.mem[At(c, q, j)] = r.mem[At(c, r, j + s)]
         /\ Chained(c, q, Rest(c, q, h, s)) /\ q.cur \in 0 .. Width(c) - 1
<1> DEFINE w == Width(c)
<1> DEFINE n == Ahead(c, r)
<1> DEFINE a == r.cur
<1> DEFINE p == r.put
<1>1. w \in Nat \ {0} /\ p \in 0 .. w - 1 /\ a \in 0 .. w - 1 /\ n = IF a <= p THEN p - a ELSE p - a + w
  BY DEF Ahead
<1>2. n \in 1 .. w - 1
  <2>1. n # 0
    OBVIOUS
  <2> HIDE DEF w, n, a, p
  <2> QED
    BY <1>1, <2>1
<1>3. At(c, r, 0) = a
  BY <1>1 DEF At
<1> DEFINE x(j) == r.mem[At(c, r, j)]
<1> DEFINE y(j) == q.mem[At(c, q, j)]
<1>4. /\ h \subseteq 0 .. n /\ 0 \in h /\ n \in h
      /\ \A j \in h : j < n /\ x(j).id # 0 => j + Long(c, x(j)) \in h
      /\ \A i, j \in h : i < j /\ j < n /\ x(i).id # 0 /\ x(j).id # 0 => x(i).id < x(j).id
  BY DEF Chained
<1>5. s \in h /\ s <= n
  <2>1. x(0) = r.mem[a] /\ x(0).id # 0 /\ s = Long(c, x(0))
    BY <1>3
  <2> HIDE DEF w, n, a, p, x, y
  <2>2. 0 + s \in h
    BY <1>2, <1>4, <2>1
  <2> QED
    BY <1>2, <1>4, <2>2
<1>6. q.cur = IF a + s < w THEN a + s ELSE a + s - w
  <2>1. s \in 0 .. w
    <3> HIDE DEF w, n, a, p, x, y
    <3> QED
      BY <1>1, <1>2, <1>5
  <2>2. q.cur = (a + s) % w
    OBVIOUS
  <2> HIDE DEF w, n, a, p, x, y
  <2> QED
    BY <1>1, <2>1, <2>2, Wraps
<1>7. q.cur \in 0 .. w - 1
  <2> HIDE DEF w, n, a, p, x, y
  <2> QED
    BY <1>1, <1>2, <1>5, <1>6
<1>8. Ahead(c, q) = n - s
  <2>1. Ahead(c, q) = IF q.cur <= p THEN p - q.cur ELSE p - q.cur + w
    BY DEF Ahead
  <2> HIDE DEF w, n, a, p, x, y
  <2> QED
    BY <1>1, <1>2, <1>5, <1>6, <2>1
<1>9. ASSUME NEW j \in 0 .. w - 1 - s PROVE At(c, q, j) = At(c, r, j + s)
  <2>1. At(c, q, j) = IF q.cur + j < w THEN q.cur + j ELSE q.cur + j - w
    BY DEF At
  <2>2. At(c, r, j + s) = IF a + (j + s) < w THEN a + (j + s) ELSE a + (j + s) - w
    BY DEF At
  <2>3. j \in 0 .. w - 1 - s
    BY <1>9
  <2> HIDE DEF w, n, a, p, x, y
  <2> QED
    BY <1>1, <1>2, <1>5, <1>6, <2>1, <2>2, <2>3
<1>10. ASSUME NEW j \in 0 .. n - s - 1 PROVE y(j) = x(j + s)
  <2>1. j \in 0 .. w - 1 - s /\ j + s \in 1 .. n - 1
    <3> HIDE DEF w, n, a, p, x, y
    <3> QED
      BY <1>1, <1>2, <1>5, <1>10
  <2> QED
    BY <1>9, <2>1 DEF Kept
<1> DEFINE g == {j \in 0 .. n - s : j + s \in h}
<1> DEFINE k == Rest(c, q, h, s)
<1>0. k = g
  BY <1>8 DEF Rest
<1> HIDE DEF k
<1> HIDE DEF w, n, a, p, x, y
<1>11. g \subseteq 0 .. n - s /\ 0 \in g /\ n - s \in g
  <2>1. 0 + s \in h /\ (n - s) + s \in h /\ 0 \in 0 .. n - s /\ n - s \in 0 .. n - s
    BY <1>2, <1>4, <1>5
  <2> QED
    BY <2>1
<1>12. ASSUME NEW j \in g, j < n - s, y(j).id # 0 PROVE j + Long(c, y(j)) \in g
  <2>1. j \in 0 .. n - s - 1 /\ j + s \in h /\ j + s < n
    BY <1>2, <1>5, <1>12
  <2>2. y(j) = x(j + s)
    BY <1>10, <2>1
  <2> DEFINE l == Long(c, y(j))
  <2>3. (j + s) + l \in h
    BY <1>4, <1>12, <2>1, <2>2
  <2> HIDE DEF l
  <2>4. (j + s) + l \in 0 .. n
    BY <1>4, <2>3
  <2>5. l \in Nat
    <3>1. j + s \in 0 .. n - 1
      BY <1>2, <1>5, <2>1
    <3>2. \A i \in 0 .. n - 1 : Long(c, x(i)) \in Nat
      BY DEF n, x, Sized
    <3> QED
      BY <2>2, <3>1, <3>2 DEF l
  <2>6. j + l \in 0 .. n - s /\ (j + l) + s \in h
    <3>1. (j + l) + s = (j + s) + l
      BY <2>1, <2>5
    <3>2. j + l \in 0 .. n - s
      BY <1>2, <1>5, <2>1, <2>4, <2>5
    <3> QED
      BY <2>3, <3>1, <3>2
  <2> QED
    BY <2>6 DEF l
<1>13. ASSUME NEW i \in g, NEW j \in g, i < j, j < n - s, y(i).id # 0, y(j).id # 0 PROVE y(i).id < y(j).id
  <2>1. i \in 0 .. n - s - 1 /\ j \in 0 .. n - s - 1 /\ i + s \in h /\ j + s \in h /\ i + s < j + s /\ j + s < n
    BY <1>2, <1>5, <1>13
  <2>2. y(j) = x(j + s) /\ y(i) = x(i + s)
    BY <1>10, <2>1
  <2> QED
    BY <1>4, <1>13, <2>1, <2>2
<1>14. Chained(c, q, g)
  <2>1. /\ g \subseteq 0 .. Ahead(c, q) /\ 0 \in g /\ Ahead(c, q) \in g
        /\ \A j \in g : j < Ahead(c, q) /\ y(j).id # 0 => j + Long(c, y(j)) \in g
        /\ \A i, j \in g : i < j /\ j < Ahead(c, q) /\ y(i).id # 0 /\ y(j).id # 0 => y(i).id < y(j).id
    BY <1>8, <1>11, <1>12, <1>13
  <2> HIDE DEF g
  <2> QED
    BY <2>1 DEF Chained, y
<1> QED
  BY <1>0, <1>3, <1>4, <1>5, <1>7, <1>8, <1>9, <1>10, <1>14 DEF n, p, w, a, x, y, k
LEMMA TypesAre ==
  ASSUME Nic!ConstantsOK, CardShapes
  PROVE  /\ card \in {"e1000", "rtl8139"} /\ Width(card) \in Nat \ {0} /\ Desc \in Nat \ {0} /\ SendSlots \in Nat \ {0} /\ Words \in Nat \ {0}
         /\ 0 .. Width(card) - 1 \subseteq Nic!Memory /\ Nic!Largest \in Nat
         /\ (card = "e1000" => Width(card) = Desc) /\ (card = "rtl8139" => Width(card) = Words)
         /\ \A f \in Cells : f.id # 0 => Long(card, f) \in Nat \ {0} /\ (card = "rtl8139" => f.size \in Sizes)
<1>1. /\ Desc \in Nat \ {0} /\ SendSlots \in Nat \ {0} /\ Words \in Nat \ {0} /\ Sizes \subseteq 2 .. Words \div 2
      /\ Nic!Largest \in Sizes /\ \A s \in Sizes : s <= Nic!Largest /\ s \in Nat /\ s >= 2 /\ s < Words
  BY SizesAre
<1>2. card \in {"e1000", "rtl8139"}
  BY DEF CardShapes, Nic!ConstantsOK
<1>3. Nic!Largest \in Nat /\ Nic!Largest >= 2
  BY <1>1
<1> HIDE DEF CardShapes
<1>4. 0 .. Width(card) - 1 \subseteq Nic!Memory
  <2>1. CASE card = "e1000"
    BY <2>1 DEF Width, Nic!Memory
  <2>2. CASE card = "rtl8139"
    BY <1>1, <1>3, <2>2 DEF Width, Nic!Memory
  <2> QED
    BY <1>2, <2>1, <2>2
<1>5. ASSUME NEW f \in Cells, f.id # 0 PROVE Long(card, f) \in Nat \ {0} /\ (card = "rtl8139" => f.size \in Sizes)
  <2>1. f.size \in Sizes
    BY <1>5 DEF Cells
  <2>2. f.size \in Nat \ {0}
    <3>1. \A s \in Sizes : s \in Nat \ {0}
      BY <1>1
    <3> QED
      BY <2>1, <3>1
  <2> QED
    BY <2>1, <2>2 DEF Long
<1> QED
  BY <1>1, <1>2, <1>3, <1>4, <1>5 DEF Width

LEMMA CardPartsAre ==
  ASSUME CardShapes
  PROVE  /\ rx.mem \in [Nic!Memory -> Cells] /\ rx.put \in Nic!Memory /\ rx.cur \in Nic!Memory /\ rx.over \in BOOLEAN /\ rx.free \in Nic!Memory
         /\ tx.slots \in [CardPlace -> TxSlot] /\ tx.next \in CardPlace /\ tx.slot \in CardPlace /\ tx.head \in CardPlace /\ tx.tail \in CardPlace /\ tx.fly \in 0 .. Sends
         /\ seen.came \in Nat /\ seen.last \in Nat /\ seen.mark \in Nat /\ seen.sent \in 0 .. Sends /\ seen.left \in Nat /\ seen.owed \in Nat
         /\ seen.odd \in BOOLEAN /\ seen.last <= seen.came /\ seen.mark <= seen.came
         /\ stack.pc \in {"loop", "drain", "sending", "timers"} /\ stack.then \in {"loop", "drain", "timers"}
<1>1. rx.mem \in [Nic!Memory -> Cells] /\ rx.put \in Nic!Memory /\ rx.cur \in Nic!Memory /\ rx.over \in BOOLEAN /\ rx.free \in Nic!Memory
  BY DEF CardShapes, Rxs
<1>2. /\ tx.slots \in [CardPlace -> TxSlot] /\ tx.next \in CardPlace /\ tx.slot \in CardPlace /\ tx.head \in CardPlace /\ tx.tail \in CardPlace /\ tx.fly \in 0 .. Sends
  BY DEF CardShapes, Txs
<1>3. /\ seen.came \in Nat /\ seen.last \in Nat /\ seen.mark \in Nat /\ seen.sent \in 0 .. Sends /\ seen.left \in Nat /\ seen.owed \in Nat
      /\ seen.odd \in BOOLEAN /\ seen.last <= seen.came /\ seen.mark <= seen.came
  BY DEF CardShapes, Seens
<1>4. stack.pc \in {"loop", "drain", "sending", "timers"} /\ stack.then \in {"loop", "drain", "timers"}
  BY DEF CardShapes, Stacks
<1> QED
  BY <1>1, <1>2, <1>3, <1>4

LEMMA CardInitInv == Nic!ConstantsOK /\ Nic!Init => CardInv
<1> SUFFICES ASSUME Nic!ConstantsOK, Nic!Init PROVE CardInv
  OBVIOUS
<1>1. /\ Desc \in Nat \ {0} /\ SendSlots \in Nat \ {0} /\ Words \in Nat \ {0} /\ Sizes \subseteq 2 .. Words \div 2
      /\ Nic!Largest \in Sizes /\ \A s \in Sizes : s <= Nic!Largest /\ s \in Nat /\ s >= 2 /\ s < Words
  BY SizesAre
<1>2. card \in Cards /\ card \in {"e1000", "rtl8139"} /\ Sends \in Nat
  BY DEF Nic!Init, Nic!ConstantsOK
<1> DEFINE full == IF card = "e1000" THEN Desc - 1 ELSE 0
<1>3. 0 \in Nic!Memory /\ full \in Nic!Memory
  BY <1>1, <1>2 DEF Nic!Memory
<1>4. rx = [mem |-> [i \in Nic!Memory |-> Nic!Nothing], put |-> 0, cur |-> 0, over |-> FALSE, free |-> full]
  BY DEF Nic!Init
<1>5. [i \in Nic!Memory |-> Nic!Nothing] \in [Nic!Memory -> Cells]
  <2>1. Nic!Nothing \in Cells
    BY DEF Nic!Nothing, Cells
  <2> QED
    BY <2>1
<1> HIDE DEF full
<1>6. rx \in Rxs
  BY <1>3, <1>4, <1>5 DEF Rxs
<1>7. tx \in Txs
  <2>1. Nic!NoSlot \in TxSlot
    BY <1>2 DEF Nic!NoSlot, TxSlot
  <2>2. 0 \in CardPlace
    BY <1>1 DEF CardPlace
  <2>3. [i \in 0 .. SendSlots - 1 |-> Nic!NoSlot] \in [CardPlace -> TxSlot]
    BY <2>1 DEF CardPlace
  <2> QED
    BY <1>2, <2>2, <2>3 DEF Nic!Init, Txs
<1>8. stack \in Stacks
  BY DEF Nic!Init, Stacks
<1>9. seen \in Seens /\ seen.last <= seen.came /\ seen.mark <= seen.came
  BY <1>2 DEF Nic!Init, Seens
<1>10. CardShapes
  BY <1>2, <1>6, <1>7, <1>8, <1>9 DEF CardShapes
<1>11. Receives
  <2>1. rx.put = 0 /\ rx.cur = 0 /\ rx.free = full /\ ~ rx.over /\ \A i \in Nic!Memory : rx.mem[i].id = 0
    BY <1>4 DEF Nic!Nothing
  <2>2. Width(card) \in Nat \ {0} /\ Ahead(card, rx) = 0
    BY <1>1, <2>1 DEF Width, Ahead
  <2>3. card = "e1000" => \A j \in 0 .. Desc - 1 : rx.mem[At(card, rx, j)].id = 0
    <3>1. ASSUME card = "e1000", NEW j \in 0 .. Desc - 1 PROVE rx.mem[At(card, rx, j)].id = 0
      <4>1. At(card, rx, j) \in Nic!Memory
        BY <1>1, <2>1, <3>1 DEF At, Width, Nic!Memory
      <4> QED
        BY <2>1, <4>1
    <3> QED
      BY <3>1
  <2>4. Ends(card, rx)
    BY <1>2, <2>1, <2>2, <2>3 DEF Ends, full
  <2>5. Chained(card, rx, {0})
    BY <2>2 DEF Chained
  <2>6. Fresh(card, rx, stack, seen, {0})
    BY <2>2 DEF Fresh
  <2> QED
    BY <2>4, <2>5, <2>6 DEF Receives
<1>12. Transmits(tx, stack, seen)
  <2>1. tx.head = 0 /\ tx.next = 0 /\ tx.tail = 0 /\ tx.fly = 0 /\ stack.pc # "sending" /\ seen.owed = 0
    BY DEF Nic!Init
  <2>2. \A j \in CardPlace : tx.slots[j] = Nic!NoSlot
    BY DEF Nic!Init, CardPlace
  <2>3. Queued(tx) = 0
    BY <2>1 DEF Queued
  <2>4. \A j \in CardPlace : SlotAt(tx, j) = j /\ ~ (j < 0)
    BY <1>1, <2>1 DEF SlotAt, CardPlace
  <2>5. \A j \in CardPlace : ~ tx.slots[SlotAt(tx, j)].own
    BY <2>2, <2>4 DEF Nic!NoSlot
  <2> QED
    BY <2>1, <2>3, <2>4, <2>5 DEF Transmits
<1> QED
  BY <1>10, <1>11, <1>12 DEF CardInv
(* Places of the ring that a stored frame does not touch. *)
LEMMA AtOther ==
  ASSUME NEW c, NEW r, Width(c) \in Nat \ {0}, r.put \in 0 .. Width(c) - 1, r.cur \in 0 .. Width(c) - 1,
         NEW s \in Nat \ {0}, Ahead(c, r) + s < Width(c), NEW j \in 0 .. Width(c) - 1,
         j < Ahead(c, r) \/ j >= Ahead(c, r) + s
  PROVE  At(c, r, j) \in 0 .. Width(c) - 1 /\ At(c, r, j) \notin r.put .. r.put + s - 1
<1> DEFINE w == Width(c)
<1> DEFINE n == Ahead(c, r)
<1> DEFINE a == r.cur
<1> DEFINE p == r.put
<1> DEFINE z == At(c, r, j)
<1>1. /\ w \in Nat \ {0} /\ p \in 0 .. w - 1 /\ a \in 0 .. w - 1 /\ n + s < w /\ n = IF a <= p THEN p - a ELSE p - a + w
      /\ j \in 0 .. w - 1 /\ (j < n \/ j >= n + s) /\ z = IF a + j < w THEN a + j ELSE a + j - w
  BY DEF Ahead, At
<1> HIDE DEF w, n, a, p, z
<1>2. z \in 0 .. w - 1 /\ ~ (z >= p /\ z <= p + s - 1)
  BY <1>1
<1> QED
  BY <1>1, <1>2 DEF z, w, p

LEMMA AheadIs ==
  ASSUME NEW c, NEW r, Width(c) \in Nat \ {0}, r.put \in 0 .. Width(c) - 1, r.cur \in 0 .. Width(c) - 1
  PROVE  Ahead(c, r) \in 0 .. Width(c) - 1 /\ (Ahead(c, r) = 0 <=> r.put = r.cur)
<1> DEFINE w == Width(c)
<1> DEFINE a == r.cur
<1> DEFINE p == r.put
<1>1. /\ w \in Nat \ {0} /\ p \in 0 .. w - 1 /\ a \in 0 .. w - 1
  OBVIOUS
<1>2. Ahead(c, r) = IF a <= p THEN p - a ELSE p - a + w
  BY DEF Ahead
<1> HIDE DEF w, a, p
<1>3. Ahead(c, r) \in 0 .. w - 1 /\ (Ahead(c, r) = 0 <=> p = a)
  BY <1>1, <1>2
<1> QED
  BY <1>3 DEF w, a, p

(* Where the ring's places are. *)
LEMMA InsideIs ==
  ASSUME Nic!ConstantsOK, CardShapes, Ends(card, rx), NEW j \in 0 .. Width(card) - 1
  PROVE  At(card, rx, j) \in Nic!Memory /\ At(card, rx, j) \in 0 .. Width(card) - 1 /\ rx.mem[At(card, rx, j)] \in Cells /\ rx.mem[At(card, rx, j)].id \in Nat
<1> DEFINE w == Width(card)
<1> DEFINE a == rx.cur
<1> DEFINE z == At(card, rx, j)
<1>1. w \in Nat \ {0} /\ 0 .. w - 1 \subseteq Nic!Memory
  BY TypesAre
<1>2. a \in Nat /\ a < w
  <2>1. a \in Nic!Memory
    BY CardPartsAre
  <2>2. Nic!Memory \subseteq Nat
    BY TypesAre DEF Nic!Memory
  <2> QED
    BY <2>1, <2>2 DEF Ends
<1>3. z = IF a + j < w THEN a + j ELSE a + j - w
  BY DEF At
<1>4. j \in 0 .. w - 1
  OBVIOUS
<1> HIDE DEF w, a, z
<1>5. z \in 0 .. w - 1
  BY <1>1, <1>2, <1>3, <1>4
<1>6. z \in Nic!Memory
  BY <1>1, <1>5
<1>7. rx.mem[z] \in Cells
  BY <1>6, CardPartsAre
<1>8. rx.mem[z].id \in Nat
  BY <1>7 DEF Cells
<1> QED
  BY <1>5, <1>6, <1>7, <1>8 DEF z, w
LEMMA EndsAre ==
  ASSUME Nic!ConstantsOK, CardShapes, Ends(card, rx)
  PROVE  rx.put \in 0 .. Width(card) - 1 /\ rx.cur \in 0 .. Width(card) - 1 /\ Ahead(card, rx) \in 0 .. Width(card) - 1
<1>1. Nic!Memory \subseteq Nat /\ Width(card) \in Nat \ {0}
  BY TypesAre DEF Nic!Memory
<1>2. rx.put \in Nat /\ rx.cur \in Nat
  BY <1>1, CardPartsAre
<1>3. rx.put \in 0 .. Width(card) - 1 /\ rx.cur \in 0 .. Width(card) - 1
  BY <1>1, <1>2 DEF Ends
<1> QED
  BY <1>1, <1>3, AheadIs

(* What is stored stays in order when nothing is stored, handed up or waited for. *)
LEMMA ReceivesSame ==
  ASSUME Nic!ConstantsOK, CardInv, card' = card, rx'.mem = rx.mem, rx'.put = rx.put, rx'.cur = rx.cur, rx'.free = rx.free,
         card = "e1000" => rx'.over = rx.over,
         seen'.last = seen.last, seen'.came \in Nat, seen.came <= seen'.came, seen.odd => seen'.odd,
         CardWaits(stack') => CardWaits(stack) /\ seen'.mark = seen.mark
  PROVE  Receives'
<1>1. PICK h \in SUBSET Nat : Ends(card, rx) /\ Chained(card, rx, h) /\ Fresh(card, rx, stack, seen, h)
  BY DEF CardInv, Receives
<1>2. Ahead(card', rx') = Ahead(card, rx) /\ \A j : At(card', rx', j) = At(card, rx, j)
  BY DEF Ahead, At
<1>3. Ends(card', rx')
  BY <1>1, <1>2 DEF Ends
<1>4. Chained(card', rx', h)
  BY <1>1, <1>2 DEF Chained
<1> DEFINE x(j) == rx.mem[At(card, rx, j)]
<1>5. ASSUME NEW j \in h, j < Ahead(card, rx)
      PROVE  /\ x(j).id = 0 => card = "rtl8139" /\ seen'.odd
             /\ x(j).id # 0 => /\ seen'.last < x(j).id /\ x(j).id <= seen'.came
                               /\ CardWaits(stack') => seen'.mark < x(j).id
  <2>1. /\ x(j).id = 0 => card = "rtl8139" /\ seen.odd
        /\ x(j).id # 0 => /\ seen.last < x(j).id /\ x(j).id <= seen.came
                          /\ CardWaits(stack) => seen.mark < x(j).id
    BY <1>1, <1>5 DEF Fresh
  <2>2. j \in 0 .. Width(card) - 1
    <3>1. h \subseteq 0 .. Ahead(card, rx) /\ Ahead(card, rx) \in 0 .. Width(card) - 1 /\ Width(card) \in Nat
      BY <1>1, EndsAre, TypesAre DEF Chained, CardInv
    <3> QED
      BY <3>1
  <2>3. x(j).id # 0 => x(j).id <= seen'.came
    <3>1. seen.came \in Nat
      BY CardPartsAre DEF CardInv
    <3>2. x(j).id \in Nat
      BY <1>1, <2>2, InsideIs DEF CardInv
    <3> DEFINE i == x(j).id
    <3> HIDE DEF x, i
    <3>3. i # 0 => i \in Int /\ i <= seen.came
      BY <2>1, <3>2 DEF i
    <3>4. i # 0 => i <= seen'.came
      BY <3>1, <3>3
    <3> QED
      BY <3>4 DEF i
  <2> QED
    BY <2>1, <2>3
<1>6. Fresh(card', rx', stack', seen', h)
  BY <1>2, <1>5 DEF Fresh
<1> QED
  BY <1>3, <1>4, <1>6 DEF Receives
(* The card stores a frame. *)
LEMMA Stored ==
  ASSUME Nic!ConstantsOK, CardInv, NEW s \in Nat \ {0}, NEW f \in Cells, card' = card, Ahead(card, rx) + s < Width(card),
         rx'.put = (rx.put + s) % Width(card), rx'.cur = rx.cur, rx'.free = rx.free, rx'.over = rx.over,
         rx'.mem[rx.put] = f, \A i \in Nic!Memory : i \notin rx.put .. rx.put + s - 1 => rx'.mem[i] = rx.mem[i],
         f.id \in {0, seen.came + 1}, f.id # 0 => s = Long(card, f),
         f.id = 0 => card = "rtl8139" /\ seen'.odd, stack' = stack,
         seen'.last = seen.last, seen'.mark = seen.mark, seen'.came = seen.came + 1, seen.odd => seen'.odd
  PROVE  Receives'
<1> DEFINE n == Ahead(card, rx)
<1> DEFINE w == Width(card)
<1>1. PICK h \in SUBSET Nat : Ends(card, rx) /\ Chained(card, rx, h) /\ Fresh(card, rx, stack, seen, h)
  BY DEF CardInv, Receives
<1>2. rx.put \in 0 .. w - 1 /\ rx.cur \in 0 .. w - 1 /\ n \in 0 .. w - 1 /\ w \in Nat \ {0} /\ n + s < w
  BY <1>1, EndsAre, TypesAre DEF CardInv
<1>3. seen.came \in Nat /\ seen.last \in Nat /\ seen.last <= seen.came /\ seen.mark \in Nat /\ seen.mark <= seen.came
  BY CardPartsAre DEF CardInv
<1>4. ASSUME NEW j \in 0 .. w - 1, j < n \/ j >= n + s PROVE rx'.mem[At(card, rx, j)] = rx.mem[At(card, rx, j)]
  <2>1. At(card, rx, j) \notin rx.put .. rx.put + s - 1
    BY <1>2, <1>4, AtOther
  <2>2. At(card, rx, j) \in Nic!Memory
    BY <1>1, <1>4, InsideIs DEF CardInv
  <2> QED
    BY <2>1, <2>2
<1>5. \A j \in 0 .. n - 1 : rx'.mem[At(card, rx, j)] = rx.mem[At(card, rx, j)]
  <2>1. \A j \in 0 .. n - 1 : j \in 0 .. w - 1 /\ j < n
    BY <1>2
  <2> HIDE DEF n, w
  <2> QED
    BY <1>4, <2>1
<1> DEFINE x(j) == rx.mem[At(card, rx, j)]
<1>6. ASSUME NEW j \in h, j < n
      PROVE  /\ j \in 0 .. w - 1 /\ x(j).id \in Nat
             /\ x(j).id = 0 => card = "rtl8139" /\ seen.odd
             /\ x(j).id # 0 => /\ seen.last < x(j).id /\ x(j).id <= seen.came
                               /\ CardWaits(stack) => seen.mark < x(j).id
  <2>1. j \in 0 .. w - 1
    <3>1. h \subseteq 0 .. n
      BY <1>1 DEF Chained
    <3> HIDE DEF n, w
    <3> QED
      BY <1>2, <3>1
  <2>2. x(j).id \in Nat
    BY <1>1, <2>1, InsideIs DEF CardInv
  <2> QED
    BY <1>1, <1>6, <2>1, <2>2 DEF Fresh
<1>7. \A j \in h : j < n /\ x(j).id # 0 /\ f.id # 0 => x(j).id < f.id
  <2>1. f.id # 0 => f.id = seen.came + 1
    OBVIOUS
  <2> HIDE DEF x, n
  <2>2. ASSUME NEW j \in h, j < n, x(j).id # 0 PROVE x(j).id <= seen.came /\ x(j).id \in Nat
    BY <1>6, <2>2
  <2> QED
    BY <1>3, <2>1, <2>2
<1>8. /\ Ahead(card, rx') = n + s /\ \A j \in Nat : At(card, rx', j) = At(card, rx, j)
      /\ At(card, rx, n) = rx.put /\ rx'.put \in 0 .. w - 1
      /\ Chained(card, rx', h \cup {Ahead(card, rx')})
  BY <1>1, <1>2, <1>5, <1>7, Joins
<1> DEFINE g == h \cup {n + s}
<1>9. Chained(card', rx', g) /\ g \in SUBSET Nat
  <2>1. g = h \cup {Ahead(card, rx')} /\ Chained(card, rx', h \cup {Ahead(card, rx')})
    BY <1>8
  <2>2. n + s \in Nat
    BY <1>2
  <2> HIDE DEF n
  <2>3. g \in SUBSET Nat
    BY <2>2
  <2> HIDE DEF g
  <2> QED
    BY <2>1, <2>3
<1>10. Ends(card', rx')
  <2>1. rx'.put < w /\ rx'.cur < w
    BY <1>2, <1>8
  <2>2. card = "rtl8139" => rx'.free = rx'.cur
    BY <1>1 DEF Ends
  <2>3. card = "e1000" => rx'.free = (IF rx'.cur = 0 THEN Desc - 1 ELSE rx'.cur - 1) /\ ~ rx'.over
    BY <1>1 DEF Ends
  <2>4. ASSUME card = "e1000", NEW j \in n + s .. Desc - 1 PROVE rx'.mem[At(card, rx', j)].id = 0
    <3>1. Desc = w
      BY <2>4 DEF Width
    <3>2. j \in 0 .. w - 1 /\ j >= n + s /\ j \in n .. Desc - 1
      <4> HIDE DEF n, w
      <4> QED
        BY <1>2, <3>1, <2>4
    <3>3. rx.mem[At(card, rx, j)].id = 0
      BY <1>1, <2>4, <3>2 DEF Ends
    <3>4. At(card, rx', j) = At(card, rx, j)
      BY <1>8, <3>2
    <3> QED
      BY <1>4, <3>2, <3>3, <3>4
  <2> QED
    BY <1>8, <2>1, <2>2, <2>3, <2>4 DEF Ends
<1> DEFINE y(j) == rx'.mem[At(card, rx', j)]
<1>11. ASSUME NEW j \in g, j < n + s
       PROVE  /\ y(j).id = 0 => card = "rtl8139" /\ seen'.odd
              /\ y(j).id # 0 => /\ seen'.last < y(j).id /\ y(j).id <= seen'.came
                                /\ CardWaits(stack') => seen'.mark < y(j).id
  <2>1. CASE j = n
    <3>1. y(j) = f
      BY <1>2, <1>8, <2>1
    <3>2. f.id # 0 => f.id = seen.came + 1
      OBVIOUS
    <3>3. f.id # 0 => seen'.last < f.id /\ f.id <= seen'.came /\ seen'.mark < f.id
      BY <1>3, <3>2
    <3> QED
      BY <3>1, <3>3
  <2>2. CASE j < n
    <3>1. j \in h
      <4> HIDE DEF n
      <4> QED
        BY <1>2, <1>11, <2>2
    <3>2. j \in 0 .. w - 1 /\ j \in Nat
      BY <1>6, <2>2, <3>1
    <3>3. y(j) = x(j)
      BY <1>4, <1>8, <2>2, <3>2
    <3>4. /\ x(j).id \in Nat
          /\ x(j).id = 0 => card = "rtl8139" /\ seen.odd
          /\ x(j).id # 0 => /\ seen.last < x(j).id /\ x(j).id <= seen.came
                            /\ CardWaits(stack) => seen.mark < x(j).id
      BY <1>6, <2>2, <3>1
    <3> DEFINE v == x(j).id
    <3>5. v \in Nat /\ (v # 0 => v <= seen.came)
      BY <3>4
    <3> HIDE DEF v
    <3>6. v # 0 => v <= seen'.came
      BY <1>3, <3>5
    <3> HIDE DEF x, y
    <3> QED
      BY <3>3, <3>4, <3>6 DEF v
  <2>3. j = n \/ j < n
    <3>1. h \subseteq 0 .. n
      BY <1>1 DEF Chained
    <3> HIDE DEF n, w
    <3> QED
      BY <1>2, <1>11, <3>1
  <2> QED
    BY <2>1, <2>2, <2>3
<1>12. Fresh(card', rx', stack', seen', g)
  BY <1>8, <1>11 DEF Fresh
<1> QED
  BY <1>9, <1>10, <1>12 DEF Receives

LEMMA TransmitsSame ==
  ASSUME Transmits(tx, stack, seen), tx' = tx, stack'.pc = "sending" <=> stack.pc = "sending",
         seen'.owed = seen.owed, seen'.left = seen.left
  PROVE  Transmits(tx, stack', seen')
  BY DEF Transmits

LEMMA ArrivesInv ==
  ASSUME Nic!ConstantsOK, CardInv, NEW size \in Sizes, NEW kind \in Kind, NEW sane \in BOOLEAN, Nic!Arrives(size, kind, sane)
  PROVE  CardInv'
<1> DEFINE id == seen.came + 1
<1> DEFINE frame == IF sane THEN [id |-> id, size |-> size, kind |-> kind] ELSE Nic!Nothing
<1> DEFINE body == (rx.put + 1) .. (rx.put + size - 1)
<1>1. card' = card /\ tx' = tx /\ stack' = stack /\ (card = "e1000" => sane)
      /\ seen' = [seen EXCEPT !.came = id, !.odd = @ \/ (~ sane /\ Nic!Used + size < Words)]
  BY DEF Nic!Arrives
<1>2. /\ seen.came \in Nat /\ seen.last <= seen.came /\ seen.last \in Nat /\ seen.mark \in Nat /\ seen.mark <= seen.came
      /\ rx.mem \in [Nic!Memory -> Cells] /\ rx \in Rxs /\ seen \in Seens /\ seen.odd \in BOOLEAN /\ rx.over \in BOOLEAN
  BY CardPartsAre DEF CardInv, CardShapes
<1>3. /\ card \in {"e1000", "rtl8139"} /\ Width(card) \in Nat \ {0} /\ 0 .. Width(card) - 1 \subseteq Nic!Memory
      /\ (card = "e1000" => Width(card) = Desc) /\ (card = "rtl8139" => Width(card) = Words)
  BY TypesAre DEF CardInv
<1>4. Ends(card, rx)
  BY DEF CardInv, Receives
<1>5. rx.put \in 0 .. Width(card) - 1 /\ rx.cur \in 0 .. Width(card) - 1 /\ Ahead(card, rx) \in 0 .. Width(card) - 1
  BY <1>4, EndsAre DEF CardInv
<1>6. frame \in Cells /\ size \in Nat \ {0} /\ frame.id \in {0, id} /\ (frame.id # 0 => frame.size = size /\ sane) /\ (sane => frame.id = id /\ frame.id # 0)
  <2>1. id \in Nat /\ id # 0 /\ size \in Nat \ {0}
    <3>1. \A s \in Sizes : s \in Nat /\ s >= 2
      BY SizesAre
    <3> QED
      BY <1>2, <3>1
  <2> HIDE DEF id
  <2>2. size \in Nat
    BY <2>1
  <2>3. [id |-> id, size |-> size, kind |-> kind] \in Cells
    BY <2>1, <2>2 DEF Cells
  <2>4. Nic!Nothing \in Cells /\ Nic!Nothing.id = 0
    BY DEF Nic!Nothing, Cells
  <2>5. CASE sane
    BY <2>1, <2>3, <2>5
  <2>6. CASE ~ sane
    BY <2>1, <2>4, <2>6
  <2> QED
    BY <2>5, <2>6
<1>7. /\ seen'.came = seen.came + 1 /\ seen'.last = seen.last /\ seen'.mark = seen.mark /\ seen'.owed = seen.owed /\ seen'.left = seen.left
      /\ (seen.odd => seen'.odd) /\ seen'.odd \in BOOLEAN /\ (~ sane /\ Nic!Used + size < Words => seen'.odd)
      /\ seen' \in Seens /\ seen'.last <= seen'.came /\ seen'.mark <= seen'.came
  <2> DEFINE o == seen.odd \/ (~ sane /\ Nic!Used + size < Words)
  <2>1. seen' = [seen EXCEPT !.came = id, !.odd = o] /\ o \in BOOLEAN /\ id \in Nat
    BY <1>1, <1>2
  <2>2. (seen.odd => o) /\ (~ sane /\ Nic!Used + size < Words => o)
    OBVIOUS
  <2> HIDE DEF o, id
  <2>3. seen'.came = id /\ seen'.odd = o /\ seen'.last = seen.last /\ seen'.mark = seen.mark /\ seen'.owed = seen.owed /\ seen'.left = seen.left /\ seen' \in Seens
    BY <1>2, <2>1 DEF Seens
  <2>4. id = seen.came + 1
    BY DEF id
  <2>5. seen.last <= id /\ seen.mark <= id
    BY <1>2, <2>4
  <2> QED
    BY <2>1, <2>2, <2>3, <2>4, <2>5
<1>8. Transmits(tx', stack', seen')
  BY <1>1, <1>7, TransmitsSame DEF CardInv
<1>9. SUFFICES rx' \in Rxs /\ Receives'
  <2>1. Rxs' = Rxs
    BY <1>1 DEF Rxs, Nic!Memory
  <2>2. CardShapes'
    BY <1>1, <1>7, <1>9, <2>1 DEF CardInv, CardShapes
  <2> QED
    BY <1>8, <1>9, <2>2 DEF CardInv
<1> HIDE DEF id, frame
<1>10. CASE rx' = rx
  BY <1>1, <1>2, <1>7, <1>10, ReceivesSame DEF CardWaits
<1>11. CASE card = "rtl8139" /\ rx' = [rx EXCEPT !.over = TRUE]
  <2>1. rx' \in Rxs /\ rx'.mem = rx.mem /\ rx'.put = rx.put /\ rx'.cur = rx.cur /\ rx'.free = rx.free
    BY <1>2, <1>11 DEF Rxs
  <2> QED
    BY <1>1, <1>2, <1>7, <1>11, <2>1, ReceivesSame DEF CardWaits
<1>12. CASE card = "e1000" /\ rx.put # rx.free /\ rx' = [rx EXCEPT !.mem[rx.put] = frame, !.put = (@ + 1) % Desc]
  <2>1. Ahead(card, rx) + 1 < Width(card)
    <3>1. rx.free = (IF rx.cur = 0 THEN Desc - 1 ELSE rx.cur - 1) /\ Width(card) = Desc
      BY <1>3, <1>4, <1>12 DEF Ends
    <3>2. Ahead(card, rx) = IF rx.cur <= rx.put THEN rx.put - rx.cur ELSE rx.put - rx.cur + Width(card)
      BY DEF Ahead
    <3> QED
      BY <1>3, <1>5, <1>12, <3>1, <3>2
  <2> DEFINE m == [rx.mem EXCEPT ![rx.put] = frame]
             u == (rx.put + 1) % Desc
  <2>2. rx' = [rx EXCEPT !.mem = m, !.put = u]
    BY <1>12
  <2>3. rx.put \in Nic!Memory /\ u \in Nic!Memory
    <3>1. u \in 0 .. Desc - 1
      BY <1>3, <1>5, <1>12
    <3> HIDE DEF u
    <3> QED
      BY <1>3, <1>5, <1>12, <3>1
  <2>4. m \in [Nic!Memory -> Cells] /\ m[rx.put] = frame /\ \A i \in Nic!Memory : i # rx.put => m[i] = rx.mem[i]
    BY <1>2, <1>6, <2>3
  <2> HIDE DEF m, u
  <2>5. rx' \in Rxs /\ rx'.mem = m /\ rx'.put = u /\ rx'.cur = rx.cur /\ rx'.free = rx.free /\ rx'.over = rx.over
    BY <1>2, <2>2, <2>3, <2>4, <1>1 DEF Rxs, Nic!Memory
  <2>6. rx.put \in rx.put .. rx.put + 1 - 1
    BY <1>5
  <2>7. \A i \in Nic!Memory : i \notin rx.put .. rx.put + 1 - 1 => rx'.mem[i] = rx.mem[i]
    BY <2>4, <2>5, <2>6
  <2>8. frame.id # 0 /\ 1 = Long(card, frame) /\ frame.id = seen.came + 1
    BY <1>1, <1>6, <1>12 DEF Long, id
  <2>9. rx'.put = (rx.put + 1) % Width(card)
    BY <1>3, <1>12, <2>5 DEF u
  <2>10. 1 \in Nat \ {0}
    OBVIOUS
  <2>11. Receives'
    BY <1>1, <1>6, <1>7, <2>1, <2>4, <2>5, <2>7, <2>8, <2>9, <2>10, Stored
  <2> QED
    BY <2>5, <2>11
<1>13. CASE /\ card = "rtl8139" /\ ~ (Nic!Used + size >= Words)
            /\ rx' = [rx EXCEPT !.mem = [i \in Nic!Memory |-> IF i = rx.put THEN frame ELSE IF i \in body THEN Nic!Nothing ELSE rx.mem[i]],
                                !.put = (@ + size) % Words]
  <2>1. Nic!Used = Ahead(card, rx)
    <3>1. rx.free = rx.cur /\ Width(card) = Words
      BY <1>3, <1>4, <1>13 DEF Ends
    <3>2. Nic!Used = (rx.put + (Words - rx.cur)) % Words
      BY <1>3, <1>5, <3>1 DEF Nic!Used
    <3>3. Words - rx.cur \in 0 .. Words /\ rx.put \in 0 .. Words - 1 /\ Words \in Nat \ {0}
      BY <1>3, <1>5, <3>1
    <3>4. Nic!Used = IF rx.put + (Words - rx.cur) < Words THEN rx.put + (Words - rx.cur) ELSE rx.put + (Words - rx.cur) - Words
      BY <3>2, <3>3, Wraps
    <3>5. Ahead(card, rx) = IF rx.cur <= rx.put THEN rx.put - rx.cur ELSE rx.put - rx.cur + Words
      BY <3>1 DEF Ahead
    <3> QED
      BY <1>5, <3>1, <3>3, <3>4, <3>5
  <2>2. Ahead(card, rx) + size < Width(card) /\ Nic!Used + size < Words
    BY <1>3, <1>5, <1>6, <1>13, <2>1
  <2> DEFINE m == [i \in Nic!Memory |-> IF i = rx.put THEN frame ELSE IF i \in body THEN Nic!Nothing ELSE rx.mem[i]]
             u == (rx.put + size) % Words
  <2>3. rx' = [rx EXCEPT !.mem = m, !.put = u]
    BY <1>13
  <2>4. rx.put \in Nic!Memory /\ u \in Nic!Memory
    <3>1. u \in 0 .. Words - 1
      BY <1>3, <1>5, <1>6, <1>13
    <3> HIDE DEF u
    <3> QED
      BY <1>3, <1>5, <1>13, <3>1
  <2>5. m \in [Nic!Memory -> Cells] /\ m[rx.put] = frame /\ \A i \in Nic!Memory : i # rx.put /\ i \notin body => m[i] = rx.mem[i]
    <3>1. Nic!Nothing \in Cells
      BY DEF Nic!Nothing, Cells
    <3> HIDE DEF body
    <3> QED
      BY <1>2, <1>6, <2>4, <3>1
  <2> HIDE DEF m, u
  <2>6. rx' \in Rxs /\ rx'.mem = m /\ rx'.put = u /\ rx'.cur = rx.cur /\ rx'.free = rx.free /\ rx'.over = rx.over
    BY <1>2, <2>3, <2>4, <2>5, <1>1 DEF Rxs, Nic!Memory
  <2>7. \A i \in Nic!Memory : i \notin rx.put .. rx.put + size - 1 => i # rx.put /\ i \notin body
    BY <1>5, <1>6
  <2>8. \A i \in Nic!Memory : i \notin rx.put .. rx.put + size - 1 => rx'.mem[i] = rx.mem[i]
    <3> HIDE DEF body
    <3> QED
      BY <2>5, <2>6, <2>7
  <2>9. /\ frame.id # 0 => size = Long(card, frame)
        /\ frame.id = 0 => card = "rtl8139" /\ seen'.odd
        /\ frame.id \in {0, seen.came + 1}
    <3>1. frame.id = 0 => ~ sane
      BY <1>6
    <3> QED
      BY <1>6, <1>7, <1>13, <2>2, <3>1 DEF Long, id
  <2>10. rx'.put = (rx.put + size) % Width(card)
    BY <1>3, <1>13, <2>6 DEF u
  <2>11. Receives'
    BY <1>1, <1>6, <1>7, <2>2, <2>5, <2>6, <2>8, <2>9, <2>10, Stored
  <2> QED
    BY <2>6, <2>11
<1> QED
  BY <1>3, <1>10, <1>11, <1>12, <1>13 DEF Nic!Arrives, id, frame
(* The slots as seen from the card's head. *)
LEMMA SlotsAre ==
  ASSUME SendSlots \in Nat \ {0}, NEW t, t.head \in CardPlace, t.next \in CardPlace
  PROVE  /\ Queued(t) \in CardPlace /\ SlotAt(t, Queued(t)) = t.next /\ SlotAt(t, 0) = t.head
         /\ \A j \in CardPlace : SlotAt(t, j) \in CardPlace
         /\ \A i, j \in CardPlace : SlotAt(t, i) = SlotAt(t, j) => i = j
         /\ \A i \in CardPlace : t.next = (i + 1) % SendSlots /\ Queued(t) # 0 => Queued(t) - 1 \in CardPlace /\ SlotAt(t, Queued(t) - 1) = i
<1> DEFINE S == SendSlots
           H == t.head
           N == t.next
           Q == Queued(t)
           at(j) == IF H + j < S THEN H + j ELSE H + j - S
<1>1. S \in Nat \ {0} /\ H \in 0 .. S - 1 /\ N \in 0 .. S - 1 /\ Q = (IF H <= N THEN N - H ELSE N - H + S)
  BY DEF Queued, CardPlace
<1>2. \A j : SlotAt(t, j) = at(j)
  BY DEF SlotAt
<1>3. CardPlace = 0 .. S - 1
  BY DEF CardPlace
<1>4. \A i \in 0 .. S - 1 : (i + 1) % S = IF i + 1 < S THEN i + 1 ELSE i + 1 - S
  <2>1. \A i \in 0 .. S - 1 : 1 \in 0 .. S /\ S \in Nat \ {0}
    BY <1>1
  <2> HIDE DEF S
  <2> QED
    BY <1>1, <2>1, Wraps
<1> HIDE DEF S, H, N, Q
<1>5. Q \in 0 .. S - 1 /\ at(Q) = N /\ at(0) = H
  BY <1>1
<1>6. \A j \in 0 .. S - 1 : at(j) \in 0 .. S - 1
  BY <1>1
<1>7. \A i, j \in 0 .. S - 1 : at(i) = at(j) => i = j
  BY <1>1
<1>8. ASSUME NEW i \in 0 .. S - 1, N = (i + 1) % S, Q # 0 PROVE Q - 1 \in 0 .. S - 1 /\ at(Q - 1) = i
  <2>1. N = IF i + 1 < S THEN i + 1 ELSE i + 1 - S
    BY <1>4, <1>8
  <2> QED
    BY <1>1, <1>5, <1>8, <2>1
<1> HIDE DEF at
<1>9. S = SendSlots /\ H = t.head /\ N = t.next /\ Q = Queued(t)
  BY DEF S, H, N, Q
<1>10. \A i \in CardPlace : t.next = (i + 1) % SendSlots /\ Queued(t) # 0 => Queued(t) - 1 \in CardPlace /\ SlotAt(t, Queued(t) - 1) = i
  BY <1>2, <1>3, <1>8, <1>9
<1> QED
  BY <1>2, <1>3, <1>5, <1>6, <1>7, <1>9, <1>10

LEMMA FilledSlot ==
  ASSUME Nic!ConstantsOK, CardInv, stack.pc # "sending", seen.sent < Sends,
         tx' = [tx EXCEPT !.slots[tx.next] = Nic!Filled(tx.next),
                          !.slot = tx.next, !.next = Nic!NextSlot(tx.next), !.tail = Nic!NextSlot(tx.next)],
         stack'.pc = "sending", seen'.owed = seen.owed
  PROVE  tx' \in Txs /\ Transmits(tx', stack', seen')
<1>1. /\ tx.slots \in [CardPlace -> TxSlot] /\ tx.next \in CardPlace /\ tx.head \in CardPlace /\ tx \in Txs
      /\ seen.sent \in 0 .. Sends /\ seen.owed \in Nat /\ Sends \in Nat
  BY CardPartsAre DEF CardInv, CardShapes, Nic!ConstantsOK
<1>2. SendSlots \in Nat \ {0}
  BY DEF Nic!ConstantsOK
<1> DEFINE f == Nic!Filled(tx.next)
           n == (tx.next + 1) % SendSlots
           m == [tx.slots EXCEPT ![tx.next] = f]
<1>3. f \in TxSlot /\ f.own /\ f.done = "no"
  <2>1. seen.sent + 1 \in 0 .. Sends
    BY <1>1
  <2> QED
    BY <2>1 DEF Nic!Filled, TxSlot
<1>4. n \in CardPlace /\ n = IF tx.next + 1 < SendSlots THEN tx.next + 1 ELSE tx.next + 1 - SendSlots
  <2>1. tx.next \in 0 .. SendSlots - 1 /\ 1 \in 0 .. SendSlots
    BY <1>1, <1>2 DEF CardPlace
  <2>2. n = IF tx.next + 1 < SendSlots THEN tx.next + 1 ELSE tx.next + 1 - SendSlots
    BY <1>2, <2>1, Wraps
  <2> HIDE DEF n
  <2> QED
    BY <1>2, <2>1, <2>2 DEF CardPlace
<1>5. tx' = [tx EXCEPT !.slots = m, !.slot = tx.next, !.next = n, !.tail = n]
  BY DEF Nic!NextSlot
<1> HIDE DEF f, n
<1>6. m \in [CardPlace -> TxSlot] /\ m[tx.next] = f /\ \A j \in CardPlace : j # tx.next => m[j] = tx.slots[j]
  BY <1>1, <1>3
<1> HIDE DEF m
<1>7. /\ tx' \in Txs /\ tx'.slots = m /\ tx'.slot = tx.next /\ tx'.next = n /\ tx'.tail = n /\ tx'.head = tx.head /\ tx'.fly = tx.fly
  BY <1>1, <1>4, <1>5, <1>6 DEF Txs
<1>8. ASSUME seen.owed < SendSlots - 1
      PROVE  /\ Queued(tx') <= seen.owed + 1
             /\ \A j \in CardPlace : IF j < Queued(tx') THEN tx'.slots[SlotAt(tx', j)].own /\ tx'.slots[SlotAt(tx', j)].done = "no"
                                 ELSE ~ tx'.slots[SlotAt(tx', j)].own
             /\ tx'.fly # 0 => Queued(tx') # 0 /\ tx'.fly = tx'.slots[tx'.head].id
             /\ Queued(tx') # 0
  <2>1. /\ Queued(tx) <= seen.owed
        /\ \A j \in CardPlace : IF j < Queued(tx) THEN tx.slots[SlotAt(tx, j)].own /\ tx.slots[SlotAt(tx, j)].done = "no"
                            ELSE ~ tx.slots[SlotAt(tx, j)].own
        /\ tx.fly # 0 => Queued(tx) # 0 /\ tx.fly = tx.slots[tx.head].id
    <3>1. Queued(tx) <= seen.owed + 0
      BY <1>8 DEF CardInv, Transmits
    <3>2. Queued(tx) <= seen.owed
      <4>1. Queued(tx) \in CardPlace
        BY <1>1, <1>2, SlotsAre
      <4>2. Queued(tx) \in Int
        BY <1>2, <4>1 DEF CardPlace
      <4> QED
        BY <1>1, <3>1, <4>2
    <3> QED
      BY <1>8, <3>2 DEF CardInv, Transmits
  <2>2. /\ Queued(tx) \in CardPlace /\ SlotAt(tx, Queued(tx)) = tx.next /\ SlotAt(tx, 0) = tx.head
        /\ \A j \in CardPlace : SlotAt(tx, j) \in CardPlace
        /\ \A i, j \in CardPlace : SlotAt(tx, i) = SlotAt(tx, j) => i = j
    BY <1>1, <1>2, SlotsAre
  <2> DEFINE Q == Queued(tx)
  <2>3. \A j : SlotAt(tx', j) = SlotAt(tx, j)
    BY <1>7 DEF SlotAt
  <2>4. Queued(tx') = Q + 1 /\ Q \in Nat
    <3>1. Queued(tx') = IF tx.head <= n THEN n - tx.head ELSE n - tx.head + SendSlots
      BY <1>7 DEF Queued
    <3>2. Q = IF tx.head <= tx.next THEN tx.next - tx.head ELSE tx.next - tx.head + SendSlots
      BY DEF Queued
    <3>3. tx.head \in 0 .. SendSlots - 1 /\ tx.next \in 0 .. SendSlots - 1 /\ Q \in 0 .. SendSlots - 1
      BY <1>1, <2>2 DEF CardPlace
    <3>4. Q <= seen.owed
      BY <2>1
    <3> HIDE DEF Q
    <3> QED
      BY <1>1, <1>2, <1>4, <1>8, <3>1, <3>2, <3>3, <3>4
  <2> HIDE DEF Q
  <2>5. ASSUME NEW j \in CardPlace
        PROVE  IF j < Queued(tx') THEN tx'.slots[SlotAt(tx', j)].own /\ tx'.slots[SlotAt(tx', j)].done = "no"
               ELSE ~ tx'.slots[SlotAt(tx', j)].own
    <3>1. CASE j = Q
      BY <1>3, <1>6, <1>7, <2>2, <2>3, <2>4, <3>1 DEF Q
    <3>2. CASE j # Q
      <4>1. SlotAt(tx, j) \in CardPlace /\ SlotAt(tx, j) # tx.next
        BY <2>2, <2>5, <3>2 DEF Q
      <4>2. tx'.slots[SlotAt(tx', j)] = tx.slots[SlotAt(tx, j)]
        BY <1>6, <1>7, <2>3, <4>1
      <4>3. j < Queued(tx') <=> j < Q
        <5>1. j \in Nat
          BY <1>2, <2>5 DEF CardPlace
        <5> QED
          BY <2>4, <3>2, <5>1
      <4> QED
        BY <2>1, <2>5, <4>2, <4>3 DEF Q
    <3> QED
      BY <3>1, <3>2
  <2>6. tx.fly # 0 => tx'.slots[tx.head] = tx.slots[tx.head]
    <3>1. ASSUME tx.fly # 0 PROVE tx.head # tx.next
      <4>1. Q # 0 /\ Q \in CardPlace /\ 0 \in CardPlace
        BY <1>2, <2>1, <2>2, <3>1 DEF Q, CardPlace
      <4> QED
        BY <2>2, <4>1 DEF Q
    <3> QED
      BY <1>1, <1>6, <1>7, <3>1
  <2>7. Queued(tx') # 0
    BY <2>4
  <2>8. Queued(tx') <= seen.owed + 1
    <3>1. Q <= seen.owed
      BY <2>1 DEF Q
    <3> QED
      BY <1>1, <2>4, <3>1
  <2> QED
    BY <1>7, <2>1, <2>5, <2>6, <2>7, <2>8
<1>9. tx'.next = (tx'.slot + 1) % SendSlots
  BY <1>7 DEF n
<1> QED
  BY <1>7, <1>8, <1>9 DEF Transmits

LEMMA FetchInv == ASSUME Nic!ConstantsOK, CardInv, Nic!Fetch PROVE CardInv'
<1>1. /\ tx.slots \in [CardPlace -> TxSlot] /\ tx.next \in CardPlace /\ tx.head \in CardPlace /\ tx \in Txs
  BY CardPartsAre DEF CardInv, CardShapes
<1>2. SendSlots \in Nat \ {0}
  BY DEF Nic!ConstantsOK
<1> DEFINE i == tx.slots[tx.head].id
<1>3. tx' = [tx EXCEPT !.fly = i] /\ i \in 0 .. Sends /\ card' = card /\ rx' = rx /\ stack' = stack /\ seen' = seen
  BY <1>1 DEF Nic!Fetch, TxSlot
<1> HIDE DEF i
<1>4. /\ tx' \in Txs /\ tx'.slots = tx.slots /\ tx'.slot = tx.slot /\ tx'.next = tx.next /\ tx'.tail = tx.tail /\ tx'.head = tx.head /\ tx'.fly = i
  BY <1>1, <1>3 DEF Txs
<1>5. Queued(tx') = Queued(tx) /\ \A j : SlotAt(tx', j) = SlotAt(tx, j)
  BY <1>4 DEF Queued, SlotAt
<1>6. seen.owed < SendSlots - 1 => Queued(tx) # 0
  <2>1. SlotAt(tx, 0) = tx.head /\ Queued(tx) \in CardPlace /\ 0 \in CardPlace
    BY <1>1, <1>2, SlotsAre DEF CardPlace
  <2>2. tx.slots[SlotAt(tx, 0)].own
    BY <2>1 DEF Nic!Fetch
  <2>3. seen.owed < SendSlots - 1 => 0 < Queued(tx)
    BY <2>1, <2>2 DEF CardInv, Transmits
  <2> QED
    BY <2>3
<1>7. Transmits(tx', stack', seen')
  BY <1>3, <1>4, <1>5, <1>6 DEF CardInv, Transmits, i
<1>8. CardShapes'
  <2>1. Rxs' = Rxs
    BY <1>3 DEF Rxs, Nic!Memory
  <2> QED
    BY <1>3, <1>4, <2>1 DEF CardInv, CardShapes
<1>9. Receives'
  BY <1>3, CardPartsAre, ReceivesSame DEF CardWaits, CardInv
<1> QED
  BY <1>7, <1>8, <1>9 DEF CardInv
LEMMA FlownInv == ASSUME Nic!ConstantsOK, CardInv, NEW how \in {"sent", "abort"}, Nic!Flown(how) PROVE CardInv'
<1>1. /\ tx.slots \in [CardPlace -> TxSlot] /\ tx.next \in CardPlace /\ tx.head \in CardPlace /\ tx \in Txs /\ tx.slot \in CardPlace /\ seen \in Seens /\ tx.fly \in 0 .. Sends
      /\ seen.last <= seen.came /\ seen.mark <= seen.came /\ Sends \in Nat
  BY CardPartsAre DEF CardInv, CardShapes, Nic!ConstantsOK
<1>2. SendSlots \in Nat \ {0}
  BY DEF Nic!ConstantsOK
<1> DEFINE was == tx.slots[tx.head]
           now == [was EXCEPT !.done = how, !.own = FALSE]
           m == [tx.slots EXCEPT ![tx.head] = now]
           h == (tx.head + 1) % SendSlots
           l == IF how = "sent" THEN tx.fly ELSE seen.left
<1>3. tx.fly # 0 /\ card' = card /\ rx' = rx /\ stack' = stack /\ seen' = [seen EXCEPT !.left = l]
  BY DEF Nic!Flown
<1>4. now \in TxSlot /\ now.id = was.id /\ ~ now.own /\ now.done = how
  <2>1. was \in TxSlot
    BY <1>1
  <2> HIDE DEF was
  <2> QED
    BY <2>1 DEF TxSlot
<1>5. m \in [CardPlace -> TxSlot] /\ m[tx.head] = now /\ \A j \in CardPlace : j # tx.head => m[j] = tx.slots[j]
  <2> HIDE DEF now
  <2> QED
    BY <1>1, <1>4
<1>6. tx' = [tx EXCEPT !.fly = 0, !.head = h, !.slots = m]
  <2>1. tx' = [tx EXCEPT !.fly = 0, !.head = (@ + 1) % SendSlots, !.slots[tx.head].done = how, !.slots[tx.head].own = FALSE]
    BY DEF Nic!Flown
  <2>2. [[tx.slots EXCEPT ![tx.head].done = how] EXCEPT ![tx.head].own = FALSE] = m
    <3>1. was \in TxSlot
      BY <1>1
    <3> QED
      BY <1>1, <3>1 DEF TxSlot
  <2> HIDE DEF m
  <2> QED
    BY <1>1, <2>1, <2>2 DEF Txs
<1>7. h \in CardPlace /\ h = IF tx.head + 1 < SendSlots THEN tx.head + 1 ELSE tx.head + 1 - SendSlots
  <2>1. tx.head \in 0 .. SendSlots - 1 /\ 1 \in 0 .. SendSlots
    BY <1>1, <1>2 DEF CardPlace
  <2>2. h = IF tx.head + 1 < SendSlots THEN tx.head + 1 ELSE tx.head + 1 - SendSlots
    BY <1>2, <2>1, Wraps
  <2> HIDE DEF h
  <2> QED
    BY <1>2, <2>1, <2>2 DEF CardPlace
<1>8. l \in Nat
  BY <1>1 DEF Seens
<1> HIDE DEF h, m, now, l
<1>9. tx' \in Txs /\ tx'.slots = m /\ tx'.slot = tx.slot /\ tx'.next = tx.next /\ tx'.tail = tx.tail /\ tx'.head = h /\ tx'.fly = 0
  <2> DEFINE z == 0
  <2>1. tx' = [tx EXCEPT !.fly = z, !.head = h, !.slots = m] /\ z \in 0 .. Sends
    BY <1>1, <1>6
  <2> HIDE DEF z
  <2>2. tx' \in Txs /\ tx'.slots = m /\ tx'.slot = tx.slot /\ tx'.next = tx.next /\ tx'.tail = tx.tail /\ tx'.head = h /\ tx'.fly = z
    BY <1>1, <1>5, <1>7, <2>1 DEF Txs
  <2> QED
    BY <2>2 DEF z
<1>10. /\ seen' \in Seens /\ seen'.left = l /\ seen'.owed = seen.owed /\ seen'.last = seen.last /\ seen'.came = seen.came /\ seen'.mark = seen.mark
       /\ seen'.odd = seen.odd
  BY <1>1, <1>3, <1>8 DEF Seens
<1>11. ASSUME seen.owed < SendSlots - 1
       PROVE  /\ Queued(tx') <= seen.owed + (IF stack.pc = "sending" THEN 1 ELSE 0)
              /\ \A j \in CardPlace : IF j < Queued(tx') THEN tx'.slots[SlotAt(tx', j)].own /\ tx'.slots[SlotAt(tx', j)].done = "no"
                                  ELSE ~ tx'.slots[SlotAt(tx', j)].own
              /\ stack.pc = "sending" => /\ tx'.next = (tx'.slot + 1) % SendSlots
                                         /\ Queued(tx') = 0 => (tx'.slots[tx'.slot].done = "sent" => seen'.left = tx'.slots[tx'.slot].id)
  <2> DEFINE Q == Queued(tx)
             x == IF stack.pc = "sending" THEN 1 ELSE 0
  <2>1. /\ Q <= seen.owed + x
        /\ \A j \in CardPlace : IF j < Q THEN tx.slots[SlotAt(tx, j)].own /\ tx.slots[SlotAt(tx, j)].done = "no"
                            ELSE ~ tx.slots[SlotAt(tx, j)].own
        /\ Q # 0 /\ tx.fly = was.id
        /\ stack.pc = "sending" => tx.next = (tx.slot + 1) % SendSlots
    BY <1>3, <1>11 DEF CardInv, Transmits
  <2>2. /\ Q \in CardPlace /\ SlotAt(tx, 0) = tx.head
        /\ \A j \in CardPlace : SlotAt(tx, j) \in CardPlace
        /\ \A i, j \in CardPlace : SlotAt(tx, i) = SlotAt(tx, j) => i = j
        /\ \A i \in CardPlace : tx.next = (i + 1) % SendSlots /\ Q # 0 => Q - 1 \in CardPlace /\ SlotAt(tx, Q - 1) = i
    BY <1>1, <1>2, SlotsAre
  <2>3. Queued(tx') = Q - 1 /\ Q \in 1 .. SendSlots - 1
    <3>1. Queued(tx') = IF h <= tx.next THEN tx.next - h ELSE tx.next - h + SendSlots
      BY <1>9 DEF Queued
    <3>2. Q = IF tx.head <= tx.next THEN tx.next - tx.head ELSE tx.next - tx.head + SendSlots
      BY DEF Queued
    <3>3. tx.head \in 0 .. SendSlots - 1 /\ tx.next \in 0 .. SendSlots - 1 /\ Q \in 0 .. SendSlots - 1
      BY <1>1, <2>2 DEF CardPlace
    <3>4. Q # 0
      BY <2>1
    <3> HIDE DEF Q
    <3> QED
      BY <1>2, <1>7, <3>1, <3>2, <3>3, <3>4
  <2>4. ASSUME NEW j \in CardPlace
        PROVE  SlotAt(tx', j) = IF j = SendSlots - 1 THEN tx.head ELSE SlotAt(tx, j + 1)
    <3>1. SlotAt(tx', j) = IF h + j < SendSlots THEN h + j ELSE h + j - SendSlots
      BY <1>9 DEF SlotAt
    <3>2. SlotAt(tx, j + 1) = IF tx.head + (j + 1) < SendSlots THEN tx.head + (j + 1) ELSE tx.head + (j + 1) - SendSlots
      BY DEF SlotAt
    <3>3. tx.head \in 0 .. SendSlots - 1 /\ j \in 0 .. SendSlots - 1
      BY <1>1, <2>4 DEF CardPlace
    <3> QED
      BY <1>2, <1>7, <3>1, <3>2, <3>3
  <2> HIDE DEF Q
  <2>5. ASSUME NEW j \in CardPlace
        PROVE  IF j < Queued(tx') THEN tx'.slots[SlotAt(tx', j)].own /\ tx'.slots[SlotAt(tx', j)].done = "no"
               ELSE ~ tx'.slots[SlotAt(tx', j)].own
    <3>1. j \in 0 .. SendSlots - 1
      BY <2>5 DEF CardPlace
    <3>2. CASE j = SendSlots - 1
      <4>1. ~ (j < Queued(tx'))
        BY <1>2, <2>3, <3>1, <3>2
      <4>2. tx'.slots[SlotAt(tx', j)] = now
        BY <1>5, <1>9, <2>4, <3>2
      <4> QED
        BY <1>4, <4>1, <4>2
    <3>3. CASE j # SendSlots - 1
      <4>1. j + 1 \in CardPlace /\ 0 \in CardPlace /\ j + 1 # 0 /\ (j < Queued(tx') <=> j + 1 < Q)
        BY <1>2, <2>3, <3>1, <3>3 DEF CardPlace
      <4>2. SlotAt(tx', j) = SlotAt(tx, j + 1)
        BY <2>4, <3>3
      <4>3. SlotAt(tx, j + 1) \in CardPlace /\ SlotAt(tx, j + 1) # tx.head
        BY <2>2, <4>1
      <4>4. tx'.slots[SlotAt(tx', j)] = tx.slots[SlotAt(tx, j + 1)]
        BY <1>5, <1>9, <4>2, <4>3
      <4> QED
        BY <2>1, <4>1, <4>4
    <3> QED
      BY <3>2, <3>3
  <2>6. Queued(tx') <= seen.owed + x
    <3>1. seen.owed \in Nat /\ x \in Nat
      BY <1>1 DEF Seens
    <3> HIDE DEF x
    <3> QED
      BY <2>1, <2>3, <3>1
  <2>7. ASSUME stack.pc = "sending", Q - 1 = 0, tx'.slots[tx'.slot].done = "sent" PROVE seen'.left = tx'.slots[tx'.slot].id
    <3>1. tx.slot = tx.head
      <4>1. SlotAt(tx, Q - 1) = tx.slot
        BY <1>1, <2>1, <2>2, <2>7
      <4> QED
        BY <2>2, <2>7, <4>1
    <3>2. tx'.slots[tx'.slot] = now
      BY <1>1, <1>5, <1>9, <3>1
    <3>3. how = "sent"
      BY <1>4, <2>7, <3>2
    <3> QED
      BY <1>4, <1>10, <2>1, <3>2, <3>3 DEF l
  <2> QED
    BY <1>9, <2>1, <2>3, <2>5, <2>6, <2>7
<1>12. Transmits(tx', stack', seen')
  <2>1. tx'.tail = tx'.next
    BY <1>9 DEF CardInv, Transmits
  <2> QED
    BY <1>3, <1>9, <1>10, <1>11, <2>1 DEF Transmits
<1>13. CardShapes'
  <2>1. Rxs' = Rxs
    BY <1>3 DEF Rxs, Nic!Memory
  <2> QED
    BY <1>1, <1>3, <1>9, <1>10, <2>1 DEF CardInv, CardShapes
<1>14. Receives'
  BY <1>3, <1>10, CardPartsAre, ReceivesSame DEF CardWaits, CardInv
<1> QED
  BY <1>12, <1>13, <1>14 DEF CardInv

(* What send() reports. *)
LEMMA Reports ==
  ASSUME Nic!ConstantsOK, CardInv, stack.pc = "sending", tx.slots[tx.slot].done = "sent", seen.owed < SendSlots - 1
  PROVE  Queued(tx) = 0 /\ seen.left = tx.slots[tx.slot].id
<1>1. tx.next \in CardPlace /\ tx.head \in CardPlace /\ tx.slot \in CardPlace /\ SendSlots \in Nat \ {0}
  BY CardPartsAre DEF CardInv, Nic!ConstantsOK
<1>2. tx.next = (tx.slot + 1) % SendSlots /\ (Queued(tx) = 0 => seen.left = tx.slots[tx.slot].id)
  BY DEF CardInv, Transmits
<1>3. ASSUME Queued(tx) # 0 PROVE FALSE
  <2>1. Queued(tx) \in CardPlace /\ Queued(tx) - 1 \in CardPlace /\ SlotAt(tx, Queued(tx) - 1) = tx.slot
    BY <1>1, <1>2, <1>3, SlotsAre
  <2>2. Queued(tx) - 1 < Queued(tx)
    BY <1>1, <2>1 DEF CardPlace
  <2>3. tx.slots[SlotAt(tx, Queued(tx) - 1)].done = "no"
    BY <2>1, <2>2 DEF CardInv, Transmits
  <2> QED
    BY <2>1, <2>3
<1> QED
  BY <1>2, <1>3

LEMMA ReturnsInv == ASSUME Nic!ConstantsOK, CardInv, NEW ok \in BOOLEAN, Nic!Returns(ok) PROVE CardInv'
<1>1. /\ tx.next \in CardPlace /\ tx.head \in CardPlace /\ seen \in Seens /\ seen.owed \in Nat /\ stack \in Stacks
      /\ seen.last <= seen.came /\ seen.mark <= seen.came /\ SendSlots \in Nat \ {0}
  BY CardPartsAre DEF CardInv, CardShapes, Nic!ConstantsOK
<1> DEFINE o == IF ok /\ seen.owed < SendSlots - 1 THEN 0 ELSE seen.owed + 1
<1>2. /\ stack.pc = "sending" /\ (ok <=> tx.slots[tx.slot].done = "sent") /\ card' = card /\ rx' = rx /\ tx' = tx
      /\ stack' = [stack EXCEPT !.pc = stack.then] /\ seen' = [seen EXCEPT !.owed = o]
  BY DEF Nic!Returns
<1>3. o \in Nat
  BY <1>1
<1> HIDE DEF o
<1>4. /\ seen' \in Seens /\ seen'.owed = o /\ seen'.left = seen.left /\ seen'.last = seen.last /\ seen'.came = seen.came /\ seen'.mark = seen.mark
      /\ seen'.odd = seen.odd
  BY <1>1, <1>2, <1>3 DEF Seens
<1>5. stack' \in Stacks /\ stack'.pc = stack.then /\ stack.then \in {"loop", "drain", "timers"} /\ stack'.then = stack.then
  BY <1>1, <1>2 DEF Stacks
<1>6. o < SendSlots - 1 => seen.owed < SendSlots - 1 /\ Queued(tx) <= o
  <2>1. CASE ok /\ seen.owed < SendSlots - 1
    <3>1. Queued(tx) = 0 /\ o = 0
      BY <1>2, <2>1, Reports DEF o
    <3> QED
      BY <2>1, <3>1
  <2>2. CASE ~ (ok /\ seen.owed < SendSlots - 1)
    <3>1. o = seen.owed + 1
      BY <2>2 DEF o
    <3>2. o < SendSlots - 1 => seen.owed < SendSlots - 1
      BY <1>1, <3>1
    <3>3. seen.owed < SendSlots - 1 => Queued(tx) <= seen.owed + 1
      BY <1>2 DEF CardInv, Transmits
    <3> QED
      BY <3>1, <3>2, <3>3
  <2> QED
    BY <2>1, <2>2
<1>7. Transmits(tx', stack', seen')
  <2>1. tx.tail = tx.next
    BY DEF CardInv, Transmits
  <2>2. ASSUME o < SendSlots - 1
        PROVE  /\ Queued(tx) <= o + 0
               /\ \A j \in CardPlace : IF j < Queued(tx) THEN tx.slots[SlotAt(tx, j)].own /\ tx.slots[SlotAt(tx, j)].done = "no"
                                   ELSE ~ tx.slots[SlotAt(tx, j)].own
               /\ tx.fly # 0 => Queued(tx) # 0 /\ tx.fly = tx.slots[tx.head].id
    <3>1. o + 0 = o
      BY <1>3
    <3> QED
      BY <1>6, <2>2, <3>1 DEF CardInv, Transmits
  <2>3. stack'.pc # "sending"
    BY <1>5
  <2> QED
    BY <1>2, <1>4, <2>1, <2>2, <2>3 DEF Transmits
<1>8. CardShapes'
  <2>1. Rxs' = Rxs
    BY <1>2 DEF Rxs, Nic!Memory
  <2> QED
    BY <1>1, <1>2, <1>4, <1>5, <2>1 DEF CardInv, CardShapes
<1>9. Receives'
  BY <1>2, <1>4, <1>5, CardPartsAre, ReceivesSame DEF CardWaits, CardInv
<1> QED
  BY <1>7, <1>8, <1>9 DEF CardInv

LEMMA PollInv == ASSUME Nic!ConstantsOK, CardInv, Nic!Poll PROVE CardInv'
<1>1. seen \in Seens /\ seen.came \in Nat /\ stack \in Stacks /\ seen.last <= seen.came
  BY CardPartsAre DEF CardInv, CardShapes
<1>2. /\ stack.pc = "loop" /\ card' = card /\ rx' = rx /\ tx' = tx
      /\ stack' = [stack EXCEPT !.pc = "drain"] /\ seen' = [seen EXCEPT !.mark = seen.came]
  BY DEF Nic!Poll, Nic!First
<1>3. /\ seen' \in Seens /\ seen'.owed = seen.owed /\ seen'.left = seen.left /\ seen'.last = seen.last /\ seen'.came = seen.came /\ seen'.mark = seen.came
      /\ seen'.odd = seen.odd
  BY <1>1, <1>2 DEF Seens
<1>4. stack' \in Stacks /\ stack'.pc = "drain"
  BY <1>1, <1>2 DEF Stacks
<1>5. Transmits(tx', stack', seen')
  BY <1>2, <1>3, <1>4, TransmitsSame DEF CardInv
<1>6. CardShapes'
  <2>1. Rxs' = Rxs
    BY <1>2 DEF Rxs, Nic!Memory
  <2> QED
    BY <1>1, <1>2, <1>3, <1>4, <2>1 DEF CardInv, CardShapes
<1>7. Receives'
  BY <1>1, <1>2, <1>3, <1>4, ReceivesSame DEF CardWaits, CardInv
<1> QED
  BY <1>5, <1>6, <1>7 DEF CardInv

LEMMA TimersInv == ASSUME Nic!ConstantsOK, CardInv, Nic!Timers PROVE CardInv'
<1>1. seen \in Seens /\ seen.came \in Nat /\ stack \in Stacks /\ seen.last <= seen.came /\ seen.mark <= seen.came /\ tx \in Txs
  BY CardPartsAre DEF CardInv, CardShapes
<1>2. stack.pc = "timers" /\ card' = card /\ rx' = rx
  BY DEF Nic!Timers
<1>3. Rxs' = Rxs
  BY <1>2 DEF Rxs, Nic!Memory
<1>4. CASE stack' = [stack EXCEPT !.pc = "loop"] /\ seen' = [seen EXCEPT !.mark = 0] /\ tx' = tx
  <2>1. /\ seen' \in Seens /\ seen'.owed = seen.owed /\ seen'.left = seen.left /\ seen'.last = seen.last /\ seen'.came = seen.came /\ seen'.mark = 0
        /\ seen'.odd = seen.odd
    BY <1>1, <1>4 DEF Seens
  <2>2. stack' \in Stacks /\ stack'.pc = "loop"
    BY <1>1, <1>4 DEF Stacks
  <2>3. Transmits(tx', stack', seen')
    BY <1>2, <1>4, <2>1, <2>2, TransmitsSame DEF CardInv
  <2>4. CardShapes'
    <3>1. seen'.mark <= seen'.came
      BY <1>1, <2>1
    <3> QED
      BY <1>1, <1>2, <1>3, <1>4, <2>1, <2>2, <3>1 DEF CardInv, CardShapes
  <2>5. Receives'
    BY <1>1, <1>2, <2>1, <2>2, ReceivesSame DEF CardWaits, CardInv
  <2> QED
    BY <2>3, <2>4, <2>5 DEF CardInv
<1>5. CASE Nic!Send("timers") /\ seen' = [seen EXCEPT !.sent = @ + 1]
  <2>1. seen.sent \in 0 .. Sends /\ seen.sent < Sends /\ Sends \in Nat
    BY <1>1, <1>5 DEF Nic!Send, Seens, Nic!ConstantsOK
  <2> DEFINE n == seen.sent + 1
  <2>2. n \in 0 .. Sends /\ seen' = [seen EXCEPT !.sent = n]
    BY <1>5, <2>1
  <2> HIDE DEF n
  <2>3. /\ seen' \in Seens /\ seen'.owed = seen.owed /\ seen'.left = seen.left /\ seen'.last = seen.last /\ seen'.came = seen.came /\ seen'.mark = seen.mark
        /\ seen'.odd = seen.odd
    BY <1>1, <2>2 DEF Seens
  <2>4. stack' \in Stacks /\ stack'.pc = "sending" /\ stack'.then = "timers"
    BY <1>1, <1>5 DEF Stacks, Nic!Send
  <2>5. tx' \in Txs /\ Transmits(tx', stack', seen')
    BY <1>2, <1>5, <2>1, <2>3, <2>4, FilledSlot DEF Nic!Send
  <2>6. CardShapes'
    BY <1>1, <1>2, <1>3, <2>3, <2>4, <2>5 DEF CardInv, CardShapes
  <2>7. Receives'
    BY <1>1, <1>2, <2>3, <2>4, ReceivesSame DEF CardWaits, CardInv
  <2> QED
    BY <2>5, <2>6, <2>7 DEF CardInv
<1> QED
  BY <1>4, <1>5 DEF Nic!Timers
LEMMA DeliversWhat ==
  ASSUME Nic!ConstantsOK, CardInv, NEW h \in SUBSET Nat, Chained(card, rx, h), Fresh(card, rx, stack, seen, h)
  PROVE  /\ 0 \in h /\ At(card, rx, 0) = rx.cur
         /\ Nic!Delivers => Ahead(card, rx) # 0 /\ rx.mem[rx.cur].id # 0
         /\ ~ Nic!Delivers /\ ~ Nic!Desynced => Ahead(card, rx) = 0
<1>1. Ends(card, rx)
  BY DEF CardInv, Receives
<1>2. rx.put \in 0 .. Width(card) - 1 /\ rx.cur \in 0 .. Width(card) - 1 /\ Ahead(card, rx) \in 0 .. Width(card) - 1
  BY <1>1, EndsAre DEF CardInv
<1>3. /\ card \in {"e1000", "rtl8139"} /\ Width(card) \in Nat \ {0}
      /\ (card = "e1000" => Width(card) = Desc) /\ (card = "rtl8139" => Width(card) = Words)
  BY TypesAre DEF CardInv
<1>4. Ahead(card, rx) = 0 <=> rx.put = rx.cur
  BY <1>2, <1>3, AheadIs
<1>5. 0 \in h /\ At(card, rx, 0) = rx.cur
  <2>1. At(card, rx, 0) = IF rx.cur + 0 < Width(card) THEN rx.cur + 0 ELSE rx.cur + 0 - Width(card)
    BY DEF At
  <2> QED
    BY <1>2, <1>3, <2>1 DEF Chained
<1>6. CASE card = "e1000"
  <2>1. ASSUME Nic!Delivers PROVE Ahead(card, rx) # 0 /\ rx.mem[rx.cur].id # 0
    <3>1. rx.mem[rx.cur].id # 0
      BY <1>6, <2>1 DEF Nic!Delivers, Nic!Empty
    <3>2. Ahead(card, rx) = 0 => 0 \in Ahead(card, rx) .. Desc - 1
      BY <1>3, <1>6
    <3>3. Ahead(card, rx) = 0 => rx.mem[At(card, rx, 0)].id = 0
      BY <1>1, <1>6, <3>2 DEF Ends
    <3> QED
      BY <1>5, <3>1, <3>3
  <2>2. ASSUME ~ Nic!Delivers PROVE Ahead(card, rx) = 0
    <3>1. rx.mem[rx.cur].id = 0
      BY <1>6, <2>2 DEF Nic!Delivers, Nic!Empty, Nic!Desynced
    <3>2. ~ (0 < Ahead(card, rx))
      BY <1>5, <1>6, <3>1 DEF Fresh
    <3> QED
      BY <1>2, <3>2
  <2> QED
    BY <1>5, <2>1, <2>2
<1>7. CASE card = "rtl8139"
  <2>1. rx.free = rx.cur
    BY <1>1, <1>7 DEF Ends
  <2>2. Nic!Empty <=> rx.put = rx.cur
    BY <1>7, <2>1 DEF Nic!Empty
  <2>3. ASSUME Nic!Delivers PROVE Ahead(card, rx) # 0 /\ rx.mem[rx.cur].id # 0
    BY <1>4, <1>7, <2>2, <2>3 DEF Nic!Delivers, Nic!Desynced
  <2>4. ASSUME ~ Nic!Delivers, ~ Nic!Desynced PROVE Ahead(card, rx) = 0
    BY <1>4, <1>7, <2>2, <2>4 DEF Nic!Delivers
  <2> QED
    BY <1>5, <2>3, <2>4
<1> QED
  BY <1>3, <1>6, <1>7

(* The driver has handed a frame up. *)
LEMMA HandedUp ==
  ASSUME Nic!ConstantsOK, CardInv, Nic!Delivers, card' = card, rx' = Nic!GivenBack(rx.mem[rx.cur]),
         seen'.last = rx.mem[rx.cur].id, seen'.came = seen.came, seen'.odd = seen.odd, ~ CardWaits(stack')
  PROVE  /\ rx' \in Rxs /\ Receives'
         /\ rx.mem[rx.cur].id \in Nat /\ seen.last < rx.mem[rx.cur].id /\ rx.mem[rx.cur].id <= seen.came
         /\ CardWaits(stack) => seen.mark < rx.mem[rx.cur].id
<1> DEFINE n == Ahead(card, rx)
           w == Width(card)
           f == rx.mem[rx.cur]
           s == Long(card, f)
           x(j) == rx.mem[At(card, rx, j)]
           y(j) == rx'.mem[At(card, rx', j)]
<1>1. PICK h \in SUBSET Nat : Ends(card, rx) /\ Chained(card, rx, h) /\ Fresh(card, rx, stack, seen, h)
  BY DEF CardInv, Receives
<1>2. rx.put \in 0 .. w - 1 /\ rx.cur \in 0 .. w - 1 /\ n \in 0 .. w - 1 /\ w \in Nat \ {0}
  BY <1>1, EndsAre, TypesAre DEF CardInv
<1>3. /\ card \in {"e1000", "rtl8139"} /\ 0 .. w - 1 \subseteq Nic!Memory /\ Desc \in Nat \ {0}
      /\ (card = "e1000" => w = Desc) /\ (card = "rtl8139" => w = Words)
      /\ \A k \in Cells : k.id # 0 => Long(card, k) \in Nat \ {0}
  BY TypesAre DEF CardInv
<1>4. 0 \in h /\ At(card, rx, 0) = rx.cur /\ n # 0 /\ f.id # 0
  BY <1>1, DeliversWhat
<1>5. rx.mem \in [Nic!Memory -> Cells] /\ rx.cur \in Nic!Memory /\ f \in Cells /\ rx \in Rxs /\ seen.last \in Nat /\ seen.came \in Nat
  <2>1. rx.mem \in [Nic!Memory -> Cells] /\ rx.cur \in Nic!Memory /\ seen.last \in Nat /\ seen.came \in Nat
    BY CardPartsAre DEF CardInv
  <2> QED
    BY <2>1 DEF CardInv, CardShapes
<1>6. s \in Nat \ {0}
  BY <1>3, <1>4, <1>5
<1>7. f.id \in Nat /\ seen.last < f.id /\ f.id <= seen.came /\ (CardWaits(stack) => seen.mark < f.id)
  <2>1. 0 < n
    BY <1>2, <1>4
  <2>2. f.id \in Nat
    BY <1>5 DEF Cells
  <2> QED
    BY <1>1, <1>4, <2>1, <2>2 DEF Fresh
<1> DEFINE u == Nic!Behind(f)
           m == IF card = "e1000" THEN [rx.mem EXCEPT ![rx.cur] = Nic!Nothing] ELSE rx.mem
           v == IF card = "e1000" THEN rx.cur ELSE u
<1>8. u = (rx.cur + s) % w
  BY <1>3 DEF Nic!Behind, Long
<1>9. u \in Nic!Memory
  <2>1. rx.cur \in Nat /\ s \in Nat /\ w \in Nat \ {0}
    BY <1>2, <1>6
  <2> HIDE DEF s, w, u
  <2>2. u \in 0 .. w - 1
    BY <1>8, <2>1
  <2> QED
    BY <1>3, <2>2
<1>10. rx' = [rx EXCEPT !.cur = u, !.free = v, !.mem = m]
  <2>1. rx' = [rx EXCEPT !.cur = u, !.free = v, !.mem[rx.cur] = IF card = "e1000" THEN Nic!Nothing ELSE @]
    BY DEF Nic!GivenBack
  <2>2. [rx.mem EXCEPT ![rx.cur] = IF card = "e1000" THEN Nic!Nothing ELSE @] = m
    BY <1>5
  <2> HIDE DEF u, v, m
  <2> QED
    BY <1>5, <2>1, <2>2 DEF Rxs
<1>11. m \in [Nic!Memory -> Cells] /\ (\A i \in Nic!Memory : i # rx.cur => m[i] = rx.mem[i]) /\ (card = "e1000" => m[rx.cur].id = 0)
  <2>1. Nic!Nothing \in Cells /\ Nic!Nothing.id = 0
    BY DEF Nic!Nothing, Cells
  <2> QED
    BY <1>5, <2>1
<1>12. v \in Nic!Memory
  BY <1>5, <1>9
<1> HIDE DEF u, v, m
<1>13. rx' \in Rxs /\ rx'.mem = m /\ rx'.put = rx.put /\ rx'.cur = u /\ rx'.free = v /\ rx'.over = rx.over
  BY <1>5, <1>9, <1>10, <1>11, <1>12 DEF Rxs
<1>14. ASSUME NEW j \in 1 .. w - 1 PROVE At(card, rx, j) \in Nic!Memory /\ At(card, rx, j) # rx.cur
  <2>1. At(card, rx, j) = IF rx.cur + j < w THEN rx.cur + j ELSE rx.cur + j - w
    BY DEF At
  <2> DEFINE z == At(card, rx, j)
  <2> HIDE DEF w, z
  <2>2. z \in 0 .. w - 1 /\ z # rx.cur
    BY <1>2, <1>14, <2>1 DEF z
  <2> QED
    BY <1>3, <2>2 DEF z, w
<1>15. \A j \in 1 .. w - 1 : rx'.mem[At(card, rx, j)] = rx.mem[At(card, rx, j)]
  BY <1>11, <1>13, <1>14
<1>16. \A j \in 0 .. n - 1 : j \in 0 .. w - 1 /\ x(j).id \in Nat
  <2>1. \A j \in 0 .. n - 1 : j \in 0 .. w - 1
    <3> HIDE DEF n, w
    <3> QED
      BY <1>2
  <2> QED
    BY <1>1, <2>1, InsideIs DEF CardInv
<1>17. \A j \in 0 .. n - 1 : Long(card, x(j)) \in Nat
  <2> TAKE j \in 0 .. n - 1
  <2>1. x(j) \in Cells
    BY <1>1, <1>16, InsideIs DEF CardInv
  <2>2. CASE card = "e1000"
    BY <2>2 DEF Long
  <2>3. CASE card = "rtl8139"
    BY <2>1, <2>3 DEF Long, Cells
  <2> QED
    BY <1>3, <2>2, <2>3
<1>18. \A j \in 1 .. n - 1 : rx'.mem[At(card, rx, j)] = rx.mem[At(card, rx, j)]
  <2>1. \A j \in 1 .. n - 1 : j \in 1 .. w - 1
    <3> HIDE DEF n, w
    <3> QED
      BY <1>2
  <2> QED
    BY <1>15, <2>1
<1> DEFINE g == {j \in 0 .. Ahead(card, rx') : j + s \in h}
<1>19. /\ s <= n /\ Ahead(card, rx') = n - s
       /\ \A j \in 0 .. w - 1 - s : At(card, rx', j) = At(card, rx, j + s)
       /\ \A j \in 0 .. Ahead(card, rx') - 1 : y(j) = x(j + s)
       /\ Chained(card, rx', g) /\ u \in 0 .. w - 1
  <2>1. rx'.put = rx.put /\ rx'.cur = (rx.cur + s) % Width(card) /\ s = Long(card, rx.mem[rx.cur]) /\ rx.mem[rx.cur].id # 0
    BY <1>4, <1>8, <1>13
  <2>2. /\ \A j \in 1 .. Ahead(card, rx) - 1 : rx'.mem[At(card, rx, j)] = rx.mem[At(card, rx, j)]
        /\ \A j \in 0 .. Ahead(card, rx) - 1 : Long(card, rx.mem[At(card, rx, j)]) \in Nat
    BY <1>17, <1>18
  <2>3. /\ Width(card) \in Nat \ {0} /\ rx.put \in 0 .. Width(card) - 1 /\ rx.cur \in 0 .. Width(card) - 1 /\ Ahead(card, rx) # 0
        /\ Chained(card, rx, h) /\ s \in Nat \ {0}
    BY <1>1, <1>2, <1>4, <1>6
  <2> HIDE DEF s, n, w
  <2>4. /\ s <= Ahead(card, rx) /\ Ahead(card, rx') = Ahead(card, rx) - s /\ 0 \in h /\ At(card, rx, 0) = rx.cur
        /\ \A j \in 0 .. Width(card) - 1 - s : At(card, rx', j) = At(card, rx, j + s)
        /\ \A j \in 0 .. Ahead(card, rx') - 1 : rx'.mem[At(card, rx', j)] = rx.mem[At(card, rx, j + s)]
        /\ Chained(card, rx', g) /\ rx'.cur \in 0 .. Width(card) - 1
    <3> DEFINE q == rx'
    <3>1. q = rx'
      OBVIOUS
    <3> HIDE DEF q
    <3>2. q.put = rx.put /\ q.cur = (rx.cur + s) % Width(card)
      BY <2>1, <3>1
    <3>3. Kept(card, rx, q) /\ Sized(card, rx)
      BY <2>2, <3>1 DEF Kept, Sized
    <3>4. /\ s <= Ahead(card, rx) /\ Ahead(card, q) = Ahead(card, rx) - s /\ 0 \in h /\ At(card, rx, 0) = rx.cur
          /\ \A j \in 0 .. Width(card) - 1 - s : At(card, q, j) = At(card, rx, j + s)
          /\ \A j \in 0 .. Ahead(card, q) - 1 : q.mem[At(card, q, j)] = rx.mem[At(card, rx, j + s)]
          /\ Chained(card, q, Rest(card, q, h, s)) /\ q.cur \in 0 .. Width(card) - 1
      BY <2>1, <2>3, <3>2, <3>3, Leaves
    <3>5. Rest(card, q, h, s) = g
      BY <3>1 DEF Rest
    <3> HIDE DEF g
    <3> QED
      BY <3>1, <3>4, <3>5
  <2>5. rx'.cur = u
    BY <1>13
  <2> QED
    BY <2>4, <2>5 DEF n, w
<1>20. g \in SUBSET Nat
  <2>1. Ahead(card, rx') \in Int
    BY <1>2, <1>6, <1>19
  <2> QED
    BY <2>1
<1>21. Ends(card', rx')
  <2>1. rx'.put < w /\ rx'.cur < w
    BY <1>2, <1>13, <1>19
  <2>2. card = "rtl8139" => rx'.free = rx'.cur
    BY <1>13 DEF v
  <2>3. ASSUME card = "e1000"
        PROVE  /\ rx'.free = (IF rx'.cur = 0 THEN Desc - 1 ELSE rx'.cur - 1) /\ ~ rx'.over
               /\ \A j \in Ahead(card, rx') .. Desc - 1 : y(j).id = 0
    <3>1. w = Desc /\ s = 1 /\ ~ rx.over /\ rx'.free = rx.cur
      BY <1>1, <1>3, <1>13, <2>3 DEF Ends, Long, v
    <3>2. u = IF rx.cur + 1 < w THEN rx.cur + 1 ELSE rx.cur + 1 - w
      <4>1. u = (rx.cur + 1) % w
        BY <1>8, <3>1
      <4>2. 1 \in 0 .. w
        BY <1>2
      <4> HIDE DEF w
      <4> QED
        BY <1>2, <4>1, <4>2, Wraps
    <3>3. rx'.free = (IF rx'.cur = 0 THEN Desc - 1 ELSE rx'.cur - 1)
      <4> HIDE DEF w
      <4> QED
        BY <1>2, <1>13, <3>1, <3>2
    <3>4. ASSUME NEW j \in n - 1 .. Desc - 1 PROVE y(j).id = 0
      <4>1. CASE j = Desc - 1
        <5>1. At(card, rx', j) = IF u + j < w THEN u + j ELSE u + j - w
          BY <1>13 DEF At
        <5>2. At(card, rx', j) = rx.cur
          <6> DEFINE z == At(card, rx', j)
          <6> HIDE DEF w, z
          <6>1. z = rx.cur
            BY <1>2, <3>1, <3>2, <4>1, <5>1 DEF z
          <6> QED
            BY <6>1 DEF z
        <5> QED
          BY <1>11, <1>13, <2>3, <5>2
      <4>2. CASE j # Desc - 1
        <5>1. j \in 0 .. w - 1 - 1 /\ j + 1 \in 1 .. w - 1 /\ j + 1 \in n .. Desc - 1
          <6> HIDE DEF w, n
          <6> QED
            BY <1>2, <1>4, <3>1, <3>4, <4>2
        <5>2. At(card, rx', j) = At(card, rx, j + 1)
          BY <1>19, <3>1, <5>1
        <5>3. rx.mem[At(card, rx, j + 1)].id = 0
          BY <1>1, <2>3, <5>1 DEF Ends
        <5> QED
          BY <1>15, <5>1, <5>2, <5>3
      <4> QED
        BY <4>1, <4>2
    <3>5. Ahead(card, rx') = n - 1
      BY <1>19, <3>1
    <3> QED
      BY <1>13, <3>1, <3>3, <3>4, <3>5
  <2> HIDE DEF n
  <2> QED
    BY <2>1, <2>2, <2>3 DEF Ends
<1>22. ASSUME NEW j \in g, j < Ahead(card, rx')
       PROVE  /\ y(j).id = 0 => card = "rtl8139" /\ seen'.odd
              /\ y(j).id # 0 => f.id < y(j).id /\ y(j).id <= seen'.came
  <2>1. j \in 0 .. Ahead(card, rx') - 1 /\ j + s \in h /\ 0 < j + s /\ j + s < n
    <3>1. j \in 0 .. Ahead(card, rx') /\ j + s \in h
      OBVIOUS
    <3> DEFINE a == Ahead(card, rx')
    <3> HIDE DEF n, w, s, g, a
    <3>2. a = n - s
      BY <1>19 DEF a
    <3>3. j \in 0 .. a /\ j < a
      BY <1>22, <3>1 DEF a
    <3>4. j \in 0 .. a - 1 /\ 0 < j + s /\ j + s < n
      BY <1>2, <1>6, <1>19, <3>2, <3>3
    <3> QED
      BY <3>1, <3>4 DEF a
  <2>2. y(j) = x(j + s)
    BY <1>19, <2>1
  <2>3. /\ x(j + s).id = 0 => card = "rtl8139" /\ seen.odd
        /\ x(j + s).id # 0 => x(j + s).id <= seen.came
    BY <1>1, <2>1 DEF Fresh
  <2>4. x(j + s).id # 0 => x(0).id < x(j + s).id
    <3>1. x(0).id # 0
      BY <1>4
    <3> QED
      BY <1>1, <1>4, <2>1, <3>1 DEF Chained
  <2> QED
    BY <1>4, <2>2, <2>3, <2>4
<1>23. Fresh(card', rx', stack', seen', g)
  BY <1>22 DEF Fresh
<1>24. Chained(card', rx', g)
  BY <1>19
<1> HIDE DEF g
<1>25. Receives'
  BY <1>20, <1>21, <1>23, <1>24 DEF Receives
<1> QED
  BY <1>7, <1>13, <1>25
LEMMA DrainInv ==
  ASSUME Nic!ConstantsOK, CardInv, Nic!Drain PROVE CardInv' /\ (seen'.last # seen.last => seen'.last > seen.last)
<1>1. /\ seen \in Seens /\ seen.came \in Nat /\ seen.last \in Nat /\ stack \in Stacks /\ seen.last <= seen.came /\ seen.mark <= seen.came
      /\ tx \in Txs /\ rx \in Rxs
  BY CardPartsAre DEF CardInv, CardShapes
<1>2. stack.pc = "drain" /\ card' = card
  BY DEF Nic!Drain
<1>3. Rxs' = Rxs
  BY <1>2 DEF Rxs, Nic!Memory
<1>4. CASE Nic!Delivers /\ Nic!Handled(rx.mem[rx.cur]) /\ rx' = Nic!GivenBack(rx.mem[rx.cur])
  <2> DEFINE f == rx.mem[rx.cur]
             i == f.id
             n == seen.sent + 1
             t == IF Nic!Layer(f) = "icmp" /\ seen.sent < Sends THEN n ELSE seen.sent
  <2>1. i \in Nat /\ seen.last < i /\ i <= seen.came
    <3>1. /\ card' = card /\ seen.last = seen.last
      BY <1>2
    <3>2. \E h \in SUBSET Nat : Ends(card, rx) /\ Chained(card, rx, h) /\ Fresh(card, rx, stack, seen, h)
      BY DEF CardInv, Receives
    <3>3. PICK h \in SUBSET Nat : Ends(card, rx) /\ Chained(card, rx, h) /\ Fresh(card, rx, stack, seen, h)
      BY <3>2
    <3>4. 0 \in h /\ At(card, rx, 0) = rx.cur /\ Ahead(card, rx) # 0 /\ i # 0 /\ Ahead(card, rx) \in 0 .. Width(card) - 1
      BY <1>4, <3>3, DeliversWhat, EndsAre DEF CardInv
    <3>5. 0 < Ahead(card, rx)
      BY <3>4
    <3>6. i \in Nat
      <4>1. rx.mem[rx.cur] \in Cells
        BY CardPartsAre DEF CardInv
      <4> QED
        BY <4>1 DEF Cells
    <3> QED
      BY <3>3, <3>4, <3>5, <3>6 DEF Fresh
  <2>2. seen' = [seen EXCEPT !.last = i, !.sent = t]
    <3>1. CASE Nic!Layer(f) = "icmp" /\ seen.sent < Sends
      BY <1>4, <3>1 DEF Nic!Handled
    <3>2. CASE ~ (Nic!Layer(f) = "icmp" /\ seen.sent < Sends)
      <4>1. seen' = [seen EXCEPT !.last = i] /\ t = seen.sent
        BY <1>4, <3>2 DEF Nic!Handled
      <4> HIDE DEF t, i
      <4> QED
        BY <1>1, <4>1 DEF Seens
    <3> QED
      BY <3>1, <3>2
  <2>3. t \in 0 .. Sends
    <3>1. seen.sent \in 0 .. Sends /\ Sends \in Nat
      BY <1>1 DEF Seens, Nic!ConstantsOK
    <3>2. seen.sent < Sends => n \in 0 .. Sends
      BY <3>1
    <3> QED
      BY <3>1, <3>2
  <2>4. stack' \in Stacks /\ ~ CardWaits(stack') /\ (Nic!Layer(f) = "icmp" /\ seen.sent < Sends => stack'.pc = "sending")
        /\ (~ (Nic!Layer(f) = "icmp" /\ seen.sent < Sends) => stack'.pc = "drain")
    <3>1. CASE Nic!Layer(f) = "icmp" /\ seen.sent < Sends
      <4>1. stack' = [stack EXCEPT !.pc = "sending", !.then = "drain"]
        BY <1>4, <3>1 DEF Nic!Handled, Nic!Send
      <4>2. stack' \in Stacks /\ stack'.pc = "sending" /\ stack'.then = "drain"
        BY <1>1, <4>1 DEF Stacks
      <4> QED
        BY <3>1, <4>2 DEF CardWaits
    <3>2. CASE ~ (Nic!Layer(f) = "icmp" /\ seen.sent < Sends)
      <4> DEFINE b == stack.ready \/ Nic!Layer(f) = "dhcp"
      <4>1. stack' = [stack EXCEPT !.ready = b] /\ b \in BOOLEAN
        BY <1>4, <3>2 DEF Nic!Handled
      <4> HIDE DEF b
      <4>2. stack' \in Stacks /\ stack'.pc = stack.pc
        BY <1>1, <4>1 DEF Stacks
      <4> QED
        BY <1>2, <3>2, <4>2 DEF CardWaits
    <3> QED
      BY <3>1, <3>2
  <2> HIDE DEF t, i
  <2>5. /\ seen' \in Seens /\ seen'.last = i /\ seen'.came = seen.came /\ seen'.mark = seen.mark /\ seen'.owed = seen.owed /\ seen'.left = seen.left
        /\ seen'.odd = seen.odd
    BY <1>1, <2>1, <2>2, <2>3 DEF Seens
  <2>6. rx' \in Rxs /\ Receives'
    BY <1>2, <1>4, <2>4, <2>5, HandedUp DEF i
  <2>7. tx' \in Txs /\ Transmits(tx', stack', seen')
    <3>1. CASE Nic!Layer(f) = "icmp" /\ seen.sent < Sends
      <4>1. tx' = [tx EXCEPT !.slots[tx.next] = Nic!Filled(tx.next),
                             !.slot = tx.next, !.next = Nic!NextSlot(tx.next), !.tail = Nic!NextSlot(tx.next)]
        BY <1>4, <3>1 DEF Nic!Handled, Nic!Send
      <4> QED
        BY <1>2, <2>4, <2>5, <3>1, <4>1, FilledSlot
    <3>2. CASE ~ (Nic!Layer(f) = "icmp" /\ seen.sent < Sends)
      <4>1. tx' = tx
        BY <1>4, <3>2 DEF Nic!Handled
      <4>2. Transmits(tx, stack, seen)
        BY DEF CardInv
      <4> QED
        BY <1>1, <1>2, <2>4, <2>5, <3>2, <4>1, <4>2, TransmitsSame
    <3> QED
      BY <3>1, <3>2
  <2>8. CardShapes'
    BY <1>1, <1>2, <1>3, <2>1, <2>4, <2>5, <2>6, <2>7 DEF CardInv, CardShapes
  <2>9. seen'.last > seen.last
    BY <1>1, <2>1, <2>5
  <2> QED
    BY <2>6, <2>7, <2>8, <2>9 DEF CardInv
<1>5. CASE /\ ~ Nic!Delivers
           /\ rx' = IF Nic!Desynced THEN Nic!ResetRx ELSE rx
           /\ stack' = [stack EXCEPT !.pc = "timers"]
           /\ seen' = [seen EXCEPT !.mark = IF Nic!Desynced THEN 0 ELSE @, !.odd = @ /\ ~ Nic!Desynced]
           /\ UNCHANGED tx
  <2> DEFINE k == IF Nic!Desynced THEN 0 ELSE seen.mark
             o == seen.odd /\ ~ Nic!Desynced
  <2>1. seen' = [seen EXCEPT !.mark = k, !.odd = o] /\ k \in Nat /\ o \in BOOLEAN /\ k <= seen.came
    <3>1. seen.mark \in Nat /\ 0 <= seen.came
      BY <1>1 DEF Seens
    <3> QED
      BY <1>1, <1>5, <3>1
  <2> HIDE DEF k, o
  <2>2. /\ seen' \in Seens /\ seen'.last = seen.last /\ seen'.came = seen.came /\ seen'.mark = k /\ seen'.owed = seen.owed /\ seen'.left = seen.left
        /\ seen'.odd = o
    BY <1>1, <2>1 DEF Seens
  <2>3. stack' \in Stacks /\ stack'.pc = "timers"
    BY <1>1, <1>5 DEF Stacks
  <2>4. Transmits(tx', stack', seen')
    BY <1>2, <1>5, <2>2, <2>3, TransmitsSame DEF CardInv
  <2>5. CASE Nic!Desynced
    <3>1. 0 \in Nic!Memory /\ card = "rtl8139" /\ Width(card) \in Nat \ {0}
      <4>1. Width(card) \in Nat \ {0} /\ 0 .. Width(card) - 1 \subseteq Nic!Memory
        BY TypesAre DEF CardInv
      <4> QED
        BY <2>5, <4>1 DEF Nic!Desynced
    <3> DEFINE z == 0
               no == FALSE
    <3>2. rx' = [rx EXCEPT !.put = z, !.free = z, !.cur = z, !.over = no] /\ z \in Nic!Memory /\ no \in BOOLEAN
      BY <1>5, <2>5, <3>1 DEF Nic!ResetRx
    <3> HIDE DEF z, no
    <3>3. rx' \in Rxs /\ rx'.put = z /\ rx'.free = z /\ rx'.cur = z
      BY <1>1, <3>2 DEF Rxs
    <3>4. Ahead(card', rx') = 0
      BY <1>2, <3>3 DEF Ahead, z
    <3>5. Ends(card', rx') /\ Chained(card', rx', {0}) /\ Fresh(card', rx', stack', seen', {0})
      BY <1>2, <3>1, <3>3, <3>4 DEF Ends, Chained, Fresh, z
    <3>6. Receives'
      BY <3>5 DEF Receives
    <3>7. CardShapes'
      BY <1>1, <1>2, <1>3, <1>5, <2>1, <2>2, <2>3, <3>3 DEF CardInv, CardShapes
    <3> QED
      BY <2>2, <2>4, <3>6, <3>7 DEF CardInv
  <2>6. CASE ~ Nic!Desynced
    <3>1. rx' = rx
      BY <1>5, <2>6
    <3>2. PICK h \in SUBSET Nat : Ends(card, rx) /\ Chained(card, rx, h) /\ Fresh(card, rx, stack, seen, h)
      BY DEF CardInv, Receives
    <3>3. Ahead(card, rx) = 0
      BY <1>5, <2>6, <3>2, DeliversWhat
    <3>4. \A j \in h : ~ (j < 0)
      OBVIOUS
    <3>5. Fresh(card, rx, stack', seen', h)
      BY <3>3, <3>4 DEF Fresh
    <3>6. Receives'
      BY <1>2, <3>1, <3>2, <3>5 DEF Receives
    <3>7. CardShapes'
      BY <1>1, <1>2, <1>3, <1>5, <2>1, <2>2, <2>3, <3>1 DEF CardInv, CardShapes
    <3> QED
      BY <2>2, <2>4, <3>6, <3>7 DEF CardInv
  <2> QED
    BY <2>5, <2>6
<1> QED
  BY <1>4, <1>5 DEF Nic!Drain

(* What the step reports and hands up. *)
InTurn == seen'.last # seen.last => seen'.last > seen.last
TrueReceipt == stack.pc = "sending" /\ stack'.pc # "sending" /\ seen'.owed = 0 => seen.left = tx.slots[tx.slot].id

LEMMA CardNextInv == ASSUME Nic!ConstantsOK, CardInv, Nic!Next PROVE CardInv' /\ InTurn /\ TrueReceipt
<1>1. CASE \E size \in Sizes, kind \in Kind, sane \in BOOLEAN : Nic!Arrives(size, kind, sane)
  <2>1. PICK size \in Sizes, kind \in Kind, sane \in BOOLEAN : Nic!Arrives(size, kind, sane)
    BY <1>1
  <2>2. seen'.last = seen.last /\ stack' = stack
    <3>1. stack' = stack /\ seen' = [seen EXCEPT !.came = seen.came + 1, !.odd = @ \/ (~ sane /\ Nic!Used + size < Words)]
      BY <2>1 DEF Nic!Arrives
    <3>2. seen \in Seens
      BY DEF CardInv, CardShapes
    <3> QED
      BY <3>1, <3>2 DEF Seens
  <2> QED
    BY <2>1, <2>2, ArrivesInv DEF InTurn, TrueReceipt
<1>2. CASE Nic!Fetch
  <2>1. seen' = seen /\ stack' = stack
    BY <1>2 DEF Nic!Fetch
  <2> QED
    BY <1>2, <2>1, FetchInv DEF InTurn, TrueReceipt
<1>3. CASE \E how \in {"sent", "abort"} : Nic!Flown(how)
  <2>1. PICK how \in {"sent", "abort"} : Nic!Flown(how)
    BY <1>3
  <2>2. seen'.last = seen.last /\ stack' = stack
    <3>1. stack' = stack /\ seen' = [seen EXCEPT !.left = IF how = "sent" THEN tx.fly ELSE @]
      BY <2>1 DEF Nic!Flown
    <3>2. seen \in Seens
      BY DEF CardInv, CardShapes
    <3> QED
      BY <3>1, <3>2 DEF Seens
  <2> QED
    BY <2>1, <2>2, FlownInv DEF InTurn, TrueReceipt
<1>4. CASE \E ok \in BOOLEAN : Nic!Returns(ok)
  <2>1. PICK ok \in BOOLEAN : Nic!Returns(ok)
    BY <1>4
  <2> DEFINE o == IF ok /\ seen.owed < SendSlots - 1 THEN 0 ELSE seen.owed + 1
  <2>2. seen' = [seen EXCEPT !.owed = o] /\ stack.pc = "sending" /\ (ok <=> tx.slots[tx.slot].done = "sent")
    BY <2>1 DEF Nic!Returns
  <2>3. o = 0 => ok /\ seen.owed < SendSlots - 1
    <3>1. seen.owed \in Nat
      BY CardPartsAre DEF CardInv
    <3> QED
      BY <3>1
  <2>4. seen \in Seens
    BY DEF CardInv, CardShapes
  <2> HIDE DEF o
  <2>5. seen'.last = seen.last /\ seen'.owed = o
    BY <2>2, <2>4 DEF Seens
  <2>6. TrueReceipt
    BY <2>2, <2>3, <2>5, Reports DEF TrueReceipt
  <2> QED
    BY <2>1, <2>5, <2>6, ReturnsInv DEF InTurn
<1>5. CASE Nic!Poll
  <2>1. seen \in Seens /\ seen' = [seen EXCEPT !.mark = seen.came] /\ stack.pc # "sending"
    BY <1>5 DEF CardInv, CardShapes, Nic!Poll
  <2>2. seen'.last = seen.last
    BY <2>1 DEF Seens
  <2> QED
    BY <1>5, <2>1, <2>2, PollInv DEF InTurn, TrueReceipt
<1>6. CASE Nic!Drain
  <2>1. stack.pc # "sending"
    BY <1>6 DEF Nic!Drain
  <2> QED
    BY <1>6, <2>1, DrainInv DEF InTurn, TrueReceipt
<1>7. CASE Nic!Timers
  <2>1. seen \in Seens /\ (seen' = [seen EXCEPT !.mark = 0] \/ seen' = [seen EXCEPT !.sent = @ + 1]) /\ stack.pc # "sending"
    BY <1>7 DEF CardInv, CardShapes, Nic!Timers
  <2>2. seen'.last = seen.last
    BY <2>1 DEF Seens
  <2> QED
    BY <1>7, <2>1, <2>2, TimersInv DEF InTurn, TrueReceipt
<1> QED
  BY <1>1, <1>2, <1>3, <1>4, <1>5, <1>6, <1>7 DEF Nic!Next

LEMMA CardStutterInv == ASSUME CardInv, UNCHANGED Nic!vars PROVE CardInv' /\ InTurn /\ TrueReceipt
  BY DEF Nic!vars, CardInv, CardShapes, Receives, Transmits, Rxs, Nic!Memory, InTurn, TrueReceipt

LEMMA InvIs == ASSUME Nic!ConstantsOK, CardInv PROVE Nic!TypeOK /\ Nic!NotWedged /\ Nic!AnswersFirst
<1>1. PICK h \in SUBSET Nat : Ends(card, rx) /\ Chained(card, rx, h) /\ Fresh(card, rx, stack, seen, h)
  BY DEF CardInv, Receives
<1>2. /\ 0 \in h /\ At(card, rx, 0) = rx.cur
      /\ Nic!Delivers => Ahead(card, rx) # 0 /\ rx.mem[rx.cur].id # 0
      /\ ~ Nic!Delivers /\ ~ Nic!Desynced => Ahead(card, rx) = 0
  BY <1>1, DeliversWhat
<1>3. /\ rx.put \in 0 .. Width(card) - 1 /\ rx.cur \in 0 .. Width(card) - 1 /\ Ahead(card, rx) \in 0 .. Width(card) - 1
      /\ Width(card) \in Nat \ {0} /\ rx.mem[At(card, rx, 0)].id \in Nat
  <2>1. rx.put \in 0 .. Width(card) - 1 /\ rx.cur \in 0 .. Width(card) - 1 /\ Ahead(card, rx) \in 0 .. Width(card) - 1 /\ Width(card) \in Nat \ {0}
    BY <1>1, EndsAre, TypesAre DEF CardInv
  <2>2. 0 \in 0 .. Width(card) - 1
    BY <2>1
  <2> QED
    BY <1>1, <2>1, <2>2, InsideIs DEF CardInv
<1>4. Ahead(card, rx) = 0 <=> rx.put = rx.cur
  BY <1>3, AheadIs
<1>5. Nic!TypeOK
  BY CardPartsAre DEF CardInv, Nic!TypeOK, CardPlace, TxSlot
<1>6. Nic!NotWedged
  <2>1. ASSUME Nic!Desynced, ~ rx.over PROVE seen.odd
    <3>1. card = "rtl8139" /\ ~ Nic!Empty /\ rx.mem[rx.cur].id = 0
      BY <2>1 DEF Nic!Desynced
    <3>2. rx.put # rx.cur
      BY <1>1, <3>1 DEF Ends, Nic!Empty
    <3>3. 0 < Ahead(card, rx)
      BY <1>3, <1>4, <3>2
    <3> QED
      BY <1>1, <1>2, <3>1, <3>3 DEF Fresh
  <2>2. ASSUME ~ rx.over, ~ seen.odd, Nic!Empty PROVE rx.cur = rx.put
    BY <1>2, <1>4, <2>1, <2>2 DEF Nic!Delivers
  <2> QED
    BY <2>1, <2>2 DEF Nic!NotWedged
<1>7. Nic!AnswersFirst
  <2>1. ASSUME stack.pc = "timers", Nic!Delivers PROVE rx.mem[rx.cur].id > seen.mark
    <3>1. 0 < Ahead(card, rx) /\ rx.mem[rx.cur].id # 0 /\ CardWaits(stack)
      BY <1>2, <1>3, <2>1 DEF CardWaits
    <3>2. seen.mark < rx.mem[rx.cur].id
      BY <1>1, <1>2, <3>1 DEF Fresh
    <3>3. seen.mark \in Nat /\ rx.mem[rx.cur].id \in Nat
      BY <1>2, <1>3, CardPartsAre DEF CardInv
    <3> QED
      BY <3>2, <3>3
  <2> QED
    BY <2>1 DEF Nic!AnswersFirst
<1> QED
  BY <1>5, <1>6, <1>7

(* With rings and tables of any length: the driver never waits at a place other than the one
   the card will write, as long as the card does not overrun the ring nor store nonsense, and
   no timer fires before what had come in is looked at. *)
THEOREM RingsStayInStep == ASSUME Nic!ConstantsOK PROVE Nic!Spec => [](Nic!TypeOK /\ Nic!NotWedged /\ Nic!AnswersFirst)
<1>1. Nic!Init => CardInv
  BY CardInitInv
<1>2. CardInv /\ [Nic!Next]_(Nic!vars) => CardInv'
  BY CardNextInv, CardStutterInv
<1>3. CardInv => Nic!TypeOK /\ Nic!NotWedged /\ Nic!AnswersFirst
  BY InvIs
<1> QED
  BY <1>1, <1>2, <1>3, PTL DEF Nic!Spec

(* Every frame is handed up after those that came before it and never twice, and what is
   reported as sent has left. *)
THEOREM FramesInTurn == ASSUME Nic!ConstantsOK PROVE Nic!Spec => Nic!InOrder /\ Nic!ReceiptIsTrue
<1>1. Nic!Init => CardInv
  BY CardInitInv
<1>2. CardInv /\ [Nic!Next]_(Nic!vars) => CardInv'
  BY CardNextInv, CardStutterInv
<1>3. CardInv /\ [Nic!Next]_(Nic!vars)
      => /\ [seen'.last # seen.last => seen'.last > seen.last]_(Nic!vars)
         /\ [stack.pc = "sending" /\ stack'.pc # "sending" /\ seen'.owed = 0 => seen.left = tx.slots[tx.slot].id]_(Nic!vars)
  BY CardNextInv, CardStutterInv DEF InTurn, TrueReceipt
<1> QED
  BY <1>1, <1>2, <1>3, PTL DEF Nic!Spec, Nic!InOrder, Nic!ReceiptIsTrue

-----------------------------------------------------------------------------
(* The rings of xHCI.  What the properties rest on, and the proof that every step keeps it. *)

Bits == {0, 1}
RingRequests == [cyc : Bits, what : {"none", "part", "last", "link"}, mine : BOOLEAN]
Answers == [cyc : Bits, mine : BOOLEAN]
Reqs == [mem : [0 .. Size - 1 -> RingRequests], enq : 0 .. Size - 2, cyc : Bits, deq : 0 .. Size - 1, ccs : Bits]
Evts == [mem : [0 .. EventPlaces - 1 -> Answers], enq : 0 .. EventPlaces - 1, pcs : Bits, deq : 0 .. EventPlaces - 1, cyc : Bits, seen : 0 .. EventPlaces - 1]
RingCalls == [pc : {"idle", "push", "wait"}, left : Nat, done : BOOLEAN, mine : BOOLEAN]
RingShapes == req \in Reqs /\ evt \in Evts /\ call \in RingCalls

(* What is written in this lap carries its bit, the rest of the ring the other one; the
   last place is a link once it was written. *)
Laid(r) ==
  /\ \A i \in 0 .. Size - 1 : r.mem[i].cyc = IF i < r.enq THEN r.cyc ELSE 1 - r.cyc
  /\ \A i \in 0 .. Size - 2 : r.mem[i].what # "link"
  /\ IF r.ccs = r.cyc THEN r.deq <= r.enq ELSE r.enq < r.deq /\ r.mem[Size - 1].what = "link"
(* Requests that the controller has not read. *)
RingWaits(r, i) == i # Size - 1 /\ (IF r.ccs = r.cyc THEN r.deq <= i /\ i < r.enq ELSE r.deq <= i \/ i < r.enq)
CaughtUp(r) == \A i \in 0 .. Size - 1 : ~ RingWaits(r, i)
(* While a call pushes, the ring has room for what is left. *)
Room(r, left) == IF r.ccs = r.cyc THEN r.enq + left < r.deq + Size - 1 ELSE r.enq + left < r.deq

Marked(e) == \A i \in 0 .. EventPlaces - 1 : e.mem[i].cyc = IF i < e.enq THEN e.pcs ELSE 1 - e.pcs
RingQuiet(e) == e.enq = e.deq /\ e.cyc = e.pcs
Answered(e) == /\ e.enq = (e.deq + 1) % EventPlaces /\ e.cyc = (IF e.deq = EventPlaces - 1 THEN 1 - e.pcs ELSE e.pcs)
               /\ e.mem[e.deq].mine
LastPlace(r) == IF r.enq = 0 THEN Size - 2 ELSE r.enq - 1
Pending(r) ==
  /\ RingWaits(r, LastPlace(r)) /\ r.mem[LastPlace(r)].what = "last" /\ r.mem[LastPlace(r)].mine
  /\ \A i \in 0 .. Size - 1 : RingWaits(r, i) /\ i # LastPlace(r) => r.mem[i].what = "part"

RingInv ==
  /\ RingShapes /\ Laid(req) /\ Marked(evt) /\ (call.done => call.mine)
  /\ call.pc = "idle" => CaughtUp(req) /\ RingQuiet(evt)
  /\ call.pc = "push" => /\ call.left # 0 /\ ~ call.done /\ Room(req, call.left) /\ RingQuiet(evt)
                         /\ \A i \in 0 .. Size - 1 : RingWaits(req, i) => req.mem[i].what = "part"
  /\ call.pc = "wait" => IF call.done THEN CaughtUp(req) /\ RingQuiet(evt)
                         ELSE (RingQuiet(evt) /\ Pending(req)) \/ (CaughtUp(req) /\ Answered(evt))

LEMMA RingPartsAre ==
  ASSUME Xhci!ConstantsOK, RingShapes
  PROVE  /\ Size \in Nat /\ Size >= 2 /\ EventPlaces \in Nat /\ EventPlaces >= 2
         /\ req.mem \in [0 .. Size - 1 -> RingRequests] /\ req.enq \in 0 .. Size - 2 /\ req.deq \in 0 .. Size - 1
         /\ req.cyc \in Bits /\ req.ccs \in Bits
         /\ evt.mem \in [0 .. EventPlaces - 1 -> Answers] /\ evt.enq \in 0 .. EventPlaces - 1 /\ evt.deq \in 0 .. EventPlaces - 1
         /\ evt.pcs \in Bits /\ evt.cyc \in Bits /\ evt.seen \in 0 .. EventPlaces - 1
         /\ call.pc \in {"idle", "push", "wait"} /\ call.left \in Nat /\ call.done \in BOOLEAN /\ call.mine \in BOOLEAN
<1>1. Size \in Nat /\ Size >= 2 /\ EventPlaces \in Nat /\ EventPlaces >= 2
  BY DEF Xhci!ConstantsOK
<1>2. /\ req.mem \in [0 .. Size - 1 -> RingRequests] /\ req.enq \in 0 .. Size - 2 /\ req.deq \in 0 .. Size - 1
      /\ req.cyc \in Bits /\ req.ccs \in Bits
  BY DEF RingShapes, Reqs
<1>3. /\ evt.mem \in [0 .. EventPlaces - 1 -> Answers] /\ evt.enq \in 0 .. EventPlaces - 1 /\ evt.deq \in 0 .. EventPlaces - 1
      /\ evt.pcs \in Bits /\ evt.cyc \in Bits /\ evt.seen \in 0 .. EventPlaces - 1
  BY DEF RingShapes, Evts
<1>4. call.pc \in {"idle", "push", "wait"} /\ call.left \in Nat /\ call.done \in BOOLEAN /\ call.mine \in BOOLEAN
  BY DEF RingShapes, RingCalls
<1> QED
  BY <1>1, <1>2, <1>3, <1>4

LEMMA RingInitInv == ASSUME Xhci!ConstantsOK, Xhci!Init PROVE RingInv
<1>1. Size \in Nat /\ Size >= 2 /\ EventPlaces \in Nat /\ EventPlaces >= 2
  BY DEF Xhci!ConstantsOK
<1> DEFINE m == [i \in 0 .. Size - 1 |-> Xhci!Blank]
           v == [i \in 0 .. EventPlaces - 1 |-> Xhci!NoEvent]
<1>2. m \in [0 .. Size - 1 -> RingRequests] /\ \A i \in 0 .. Size - 1 : m[i].cyc = 0 /\ m[i].what = "none"
  BY DEF Xhci!Blank, RingRequests, Bits
<1>3. v \in [0 .. EventPlaces - 1 -> Answers] /\ \A i \in 0 .. EventPlaces - 1 : v[i].cyc = 0
  BY DEF Xhci!NoEvent, Answers, Bits
<1>4. /\ req = [mem |-> m, enq |-> 0, cyc |-> 1, deq |-> 0, ccs |-> 1]
      /\ evt = [mem |-> v, enq |-> 0, pcs |-> 1, deq |-> 0, cyc |-> 1, seen |-> 0]
      /\ call = [pc |-> "idle", left |-> 0, done |-> FALSE, mine |-> FALSE]
  BY DEF Xhci!Init
<1> HIDE DEF m, v
<1>5. 0 \in 0 .. Size - 2 /\ 0 \in 0 .. Size - 1 /\ 0 \in 0 .. EventPlaces - 1 /\ 1 \in Bits
  BY <1>1 DEF Bits
<1>6. RingShapes
  BY <1>2, <1>3, <1>4, <1>5 DEF RingShapes, Reqs, Evts, RingCalls
<1>7. Laid(req)
  <2>1. \A i \in 0 .. Size - 1 : ~ (i < 0)
    BY <1>1
  <2> QED
    BY <1>1, <1>2, <1>4, <2>1 DEF Laid
<1>8. CaughtUp(req)
  BY <1>1, <1>4 DEF CaughtUp, RingWaits
<1>9. Marked(evt) /\ RingQuiet(evt)
  BY <1>1, <1>3, <1>4 DEF Marked, RingQuiet
<1> QED
  BY <1>4, <1>6, <1>7, <1>8, <1>9 DEF RingInv
(* A request ring that the controller has caught up with. *)
LEMMA CaughtUpIs ==
  ASSUME Xhci!ConstantsOK, NEW r \in Reqs, Laid(r), CaughtUp(r)
  PROVE  IF r.ccs = r.cyc THEN r.deq = r.enq ELSE r.deq = Size - 1 /\ r.enq = 0
<1>1. Size \in Nat /\ Size >= 2 /\ r.enq \in 0 .. Size - 2 /\ r.deq \in 0 .. Size - 1
  BY DEF Xhci!ConstantsOK, Reqs
<1> DEFINE d == r.deq
           e == r.enq
<1>2. CASE r.ccs = r.cyc
  <2>1. d <= e /\ ~ (d # Size - 1 /\ d <= d /\ d < e)
    BY <1>1, <1>2 DEF Laid, CaughtUp, RingWaits
  <2> HIDE DEF d, e
  <2>2. d = e
    BY <1>1, <2>1 DEF d, e
  <2> QED
    BY <1>2, <2>2 DEF d, e
<1>3. CASE r.ccs # r.cyc
  <2>1. ~ (d # Size - 1 /\ (d <= d \/ d < e))
    BY <1>1, <1>3 DEF CaughtUp, RingWaits
  <2>2. ~ (0 # Size - 1 /\ (d <= 0 \/ 0 < e))
    <3>1. 0 \in 0 .. Size - 1
      BY <1>1
    <3> QED
      BY <1>3, <3>1 DEF CaughtUp, RingWaits
  <2> HIDE DEF d, e
  <2>3. d = Size - 1 /\ e = 0
    BY <1>1, <2>1, <2>2 DEF d, e
  <2> QED
    BY <1>3, <2>3 DEF d, e
<1> QED
  BY <1>2, <1>3

LEMMA StartInv == ASSUME Xhci!ConstantsOK, RingInv, NEW n \in Requests, Xhci!Start(n) PROVE RingInv'
<1>1. /\ Size \in Nat /\ Size >= 2 /\ EventPlaces \in Nat /\ EventPlaces >= 2
      /\ req.mem \in [0 .. Size - 1 -> RingRequests] /\ req \in Reqs /\ evt \in Evts /\ call \in RingCalls
      /\ evt.mem \in [0 .. EventPlaces - 1 -> Answers] /\ req.enq \in 0 .. Size - 2 /\ req.deq \in 0 .. Size - 1
  BY RingPartsAre DEF RingInv, RingShapes
<1>2. n \in Nat /\ n # 0 /\ n < Size - 1
  BY <1>1 DEF Xhci!ConstantsOK
<1> DEFINE m == [i \in DOMAIN req.mem |-> [req.mem[i] EXCEPT !.mine = FALSE]]
           v == [i \in DOMAIN evt.mem |-> [evt.mem[i] EXCEPT !.mine = FALSE]]
<1>3. req' = [req EXCEPT !.mem = m] /\ evt' = [evt EXCEPT !.mem = v]
      /\ call' = [call EXCEPT !.pc = "push", !.left = n, !.done = FALSE, !.mine = FALSE] /\ call.pc = "idle"
  BY DEF Xhci!Start, Xhci!Disowned
<1>4. m \in [0 .. Size - 1 -> RingRequests] /\ \A i \in 0 .. Size - 1 : m[i].cyc = req.mem[i].cyc /\ m[i].what = req.mem[i].what
  BY <1>1 DEF RingRequests
<1>5. v \in [0 .. EventPlaces - 1 -> Answers] /\ \A i \in 0 .. EventPlaces - 1 : v[i].cyc = evt.mem[i].cyc
  BY <1>1 DEF Answers
<1> HIDE DEF m, v
<1>6. req' \in Reqs /\ req'.mem = m /\ req'.enq = req.enq /\ req'.cyc = req.cyc /\ req'.deq = req.deq /\ req'.ccs = req.ccs
  BY <1>1, <1>3, <1>4 DEF Reqs
<1>7. evt' \in Evts /\ evt'.mem = v /\ evt'.enq = evt.enq /\ evt'.pcs = evt.pcs /\ evt'.deq = evt.deq /\ evt'.cyc = evt.cyc
  BY <1>1, <1>3, <1>5 DEF Evts
<1>8. call' \in RingCalls /\ call'.pc = "push" /\ call'.left = n /\ ~ call'.done
  <2> DEFINE no == FALSE
  <2>1. call' = [call EXCEPT !.pc = "push", !.left = n, !.done = no, !.mine = no] /\ no \in BOOLEAN
    BY <1>3
  <2> HIDE DEF no
  <2>2. call' \in RingCalls /\ call'.pc = "push" /\ call'.left = n /\ call'.done = no
    BY <1>1, <1>2, <2>1 DEF RingCalls
  <2> QED
    BY <2>2 DEF no
<1>9. Laid(req) /\ Marked(evt) /\ CaughtUp(req) /\ RingQuiet(evt)
  BY <1>3 DEF RingInv
<1>10. Laid(req')
  <2>1. Size - 1 \in 0 .. Size - 1 /\ \A i \in 0 .. Size - 2 : i \in 0 .. Size - 1
    BY <1>1
  <2> QED
    BY <1>4, <1>6, <1>9, <2>1 DEF Laid
<1>11. Marked(evt') /\ RingQuiet(evt')
  BY <1>5, <1>7, <1>9 DEF Marked, RingQuiet
<1>12. \A i \in 0 .. Size - 1 : ~ RingWaits(req', i)
  BY <1>6, <1>9 DEF CaughtUp, RingWaits
<1>13. Room(req', n)
  <2>1. IF req.ccs = req.cyc THEN req.deq = req.enq ELSE req.deq = Size - 1 /\ req.enq = 0
    BY <1>1, <1>9, CaughtUpIs
  <2>2. CASE req.ccs = req.cyc
    <3>1. req.enq + n < req.deq + Size - 1
      BY <1>1, <1>2, <2>1, <2>2
    <3> QED
      BY <1>6, <2>2, <3>1 DEF Room
  <2>3. CASE req.ccs # req.cyc
    <3>1. req.enq + n < req.deq
      BY <1>1, <1>2, <2>1, <2>3
    <3> QED
      BY <1>6, <2>3, <3>1 DEF Room
  <2> QED
    BY <2>2, <2>3
<1> QED
  BY <1>2, <1>6, <1>7, <1>8, <1>10, <1>11, <1>12, <1>13 DEF RingInv, RingShapes

(* xhci_push(), over the end of the ring or not. *)
LEMMA PushedIs ==
  ASSUME Xhci!ConstantsOK, NEW r \in Reqs, Laid(r), NEW left \in Nat \ {0}, Room(r, left), NEW what \in {"part", "last"},
         NEW q, q = Xhci!Pushed(r, what)
  PROVE  /\ q \in Reqs /\ Laid(q) /\ Room(q, left - 1) /\ LastPlace(q) = r.enq
         /\ \A i \in 0 .. Size - 1 : RingWaits(q, i) <=> RingWaits(r, i) \/ i = r.enq
         /\ \A i \in 0 .. Size - 1 : i # r.enq /\ i # Size - 1 => q.mem[i] = r.mem[i]
         /\ q.mem[r.enq].what = what /\ q.mem[r.enq].mine
<1>1. Size \in Nat /\ Size >= 2 /\ r.enq \in 0 .. Size - 2 /\ r.deq \in 0 .. Size - 1 /\ r.cyc \in {0, 1} /\ r.ccs \in {0, 1}
      /\ r.mem \in [0 .. Size - 1 -> RingRequests]
  BY DEF Xhci!ConstantsOK, Reqs, Bits
<1> DEFINE yes == TRUE
           new == [cyc |-> r.cyc, what |-> what, mine |-> yes]
           m == [r.mem EXCEPT ![r.enq] = new]
           e == r.enq
           d == r.deq
           c == r.cyc
<1>2. new \in RingRequests /\ new.cyc = c /\ new.what = what /\ new.mine
  BY <1>1 DEF RingRequests, Bits
<1> HIDE DEF new
<1>3. m \in [0 .. Size - 1 -> RingRequests] /\ m[e] = new /\ \A i \in 0 .. Size - 1 : i # e => m[i] = r.mem[i]
  BY <1>1, <1>2
<1>4. /\ \A i \in 0 .. Size - 1 : r.mem[i].cyc = IF i < e THEN c ELSE 1 - c
      /\ \A i \in 0 .. Size - 2 : r.mem[i].what # "link"
      /\ r.ccs = c => d <= e /\ e + left < d + Size - 1
      /\ r.ccs # c => e < d /\ r.mem[Size - 1].what = "link" /\ e + left < d
  BY DEF Laid, Room
<1>5. e \in 0 .. Size - 2 /\ d \in 0 .. Size - 1 /\ c \in {0, 1} /\ e \in 0 .. Size - 1 /\ Size - 1 \in 0 .. Size - 1 /\ e # Size - 1
  BY <1>1
<1>6. CASE e + 1 < Size - 1
  <2> DEFINE u == e + 1
  <2>1. q = [r EXCEPT !.mem = m, !.enq = u]
    BY <1>6 DEF Xhci!Pushed, new
  <2>2. u \in 0 .. Size - 2 /\ u = e + 1
    BY <1>1, <1>5, <1>6
  <2> HIDE DEF u, m, e, d, c
  <2>3. q \in Reqs /\ q.mem = m /\ q.enq = u /\ q.cyc = r.cyc /\ q.deq = r.deq /\ q.ccs = r.ccs
    BY <1>3, <2>1, <2>2 DEF Reqs
  <2>4. ASSUME NEW i \in 0 .. Size - 1 PROVE m[i].cyc = IF i < u THEN c ELSE 1 - c
    <3>1. CASE i = e
      BY <1>2, <1>3, <1>5, <2>2, <3>1
    <3>2. CASE i # e
      <4>1. i < u <=> i < e
        BY <1>5, <2>2, <3>2
      <4> QED
        BY <1>3, <1>4, <3>2, <4>1
    <3> QED
      BY <3>1, <3>2
  <2>5. ASSUME NEW i \in 0 .. Size - 2 PROVE m[i].what # "link"
    <3>1. i \in 0 .. Size - 1
      BY <1>1
    <3> QED
      BY <1>2, <1>3, <1>4, <3>1
  <2>6. (r.ccs = c => d <= u) /\ (r.ccs # c => u < d /\ m[Size - 1].what = "link")
    <3>1. (r.ccs = c => d <= u) /\ (r.ccs # c => u < d)
      BY <1>1, <1>4, <1>5, <2>2
    <3> QED
      BY <1>3, <1>4, <1>5, <3>1
  <2>7. Laid(q)
    BY <2>3, <2>4, <2>5, <2>6 DEF Laid, c, d
  <2>8. Room(q, left - 1)
    <3>1. /\ r.ccs = c => u + (left - 1) < d + Size - 1
          /\ r.ccs # c => u + (left - 1) < d
      BY <1>1, <1>4, <1>5, <2>2
    <3> QED
      BY <2>3, <3>1 DEF Room, c, d
  <2>9. LastPlace(q) = r.enq
    <3>1. u # 0 /\ u - 1 = e
      BY <1>5, <2>2
    <3> QED
      BY <2>3, <3>1 DEF LastPlace, e
  <2>10. ASSUME NEW i \in 0 .. Size - 1 PROVE RingWaits(q, i) <=> RingWaits(r, i) \/ i = e
    <3>1. i < u <=> i < e \/ i = e
      BY <1>5, <2>2
    <3>2. RingWaits(q, i) <=> i # Size - 1 /\ (IF r.ccs = c THEN d <= i /\ i < u ELSE d <= i \/ i < u)
      BY <2>3 DEF RingWaits, c, d
    <3>3. RingWaits(r, i) <=> i # Size - 1 /\ (IF r.ccs = c THEN d <= i /\ i < e ELSE d <= i \/ i < e)
      BY DEF RingWaits, c, d, e
    <3>4. r.ccs = c => d <= e
      BY <1>4
    <3> QED
      BY <1>5, <3>1, <3>2, <3>3, <3>4
  <2> QED
    BY <1>2, <1>3, <2>3, <2>7, <2>8, <2>9, <2>10 DEF e
<1>7. CASE ~ (e + 1 < Size - 1)
  <2> DEFINE no == FALSE
             lnk == [cyc |-> r.cyc, what |-> "link", mine |-> no]
             w == [m EXCEPT ![Size - 1] = lnk]
             u == 0
             b == 1 - r.cyc
  <2>1. q = [r EXCEPT !.mem = w, !.enq = u, !.cyc = b]
    BY <1>7 DEF Xhci!Pushed, new
  <2>2. u \in 0 .. Size - 2 /\ b \in {0, 1} /\ b # c /\ 1 - b = c /\ e = Size - 2
    BY <1>1, <1>5, <1>7
  <2>3. lnk \in RingRequests /\ lnk.cyc = c /\ lnk.what = "link"
    BY <1>1 DEF RingRequests, Bits
  <2> HIDE DEF lnk, b
  <2>4. w \in [0 .. Size - 1 -> RingRequests] /\ w[Size - 1] = lnk /\ w[e] = new /\ \A i \in 0 .. Size - 1 : i # e /\ i # Size - 1 => w[i] = r.mem[i]
    BY <1>3, <1>5, <2>3
  <2> HIDE DEF w, u, m, e, d, c
  <2>5. q \in Reqs /\ q.mem = w /\ q.enq = u /\ q.cyc = b /\ q.deq = r.deq /\ q.ccs = r.ccs
    BY <2>1, <2>2, <2>4 DEF Reqs, Bits
  <2>6. r.ccs = c /\ r.ccs # b /\ left <= d /\ 0 < d
    BY <1>1, <1>4, <1>5, <2>2
  <2>7. ASSUME NEW i \in 0 .. Size - 1 PROVE w[i].cyc = IF i < u THEN b ELSE 1 - b
    <3>1. ~ (i < u)
      BY DEF u
    <3>2. i # e /\ i # Size - 1 => i < e
      BY <1>1, <2>2
    <3> QED
      BY <1>2, <1>4, <2>2, <2>3, <2>4, <3>1, <3>2
  <2>8. ASSUME NEW i \in 0 .. Size - 2 PROVE w[i].what # "link"
    <3>1. i \in 0 .. Size - 1 /\ i # Size - 1
      BY <1>1
    <3> QED
      BY <1>2, <1>4, <2>4, <3>1
  <2>9. Laid(q)
    <3>1. u < d
      BY <2>6 DEF u
    <3> QED
      BY <2>3, <2>4, <2>5, <2>6, <2>7, <2>8, <3>1 DEF Laid, d
  <2>10. Room(q, left - 1)
    <3>1. u + (left - 1) < d
      BY <1>5, <2>6 DEF u
    <3> QED
      BY <2>5, <2>6, <3>1 DEF Room, d
  <2>11. LastPlace(q) = r.enq
    <3>1. u = 0
      BY DEF u
    <3> QED
      BY <2>2, <2>5, <3>1 DEF LastPlace, e
  <2>12. ASSUME NEW i \in 0 .. Size - 1 PROVE RingWaits(q, i) <=> RingWaits(r, i) \/ i = e
    <3>1. ~ (i < u) /\ (i # Size - 1 => i < e \/ i = e)
      BY <1>1, <2>2 DEF u
    <3>2. RingWaits(q, i) <=> i # Size - 1 /\ (d <= i \/ i < u)
      BY <2>5, <2>6 DEF RingWaits, d
    <3>3. RingWaits(r, i) <=> i # Size - 1 /\ d <= i /\ i < e
      BY <2>6 DEF RingWaits, c, d, e
    <3>4. d <= e
      BY <1>4, <2>6
    <3> QED
      BY <1>5, <3>1, <3>2, <3>3, <3>4
  <2> QED
    BY <1>2, <2>4, <2>5, <2>9, <2>10, <2>11, <2>12 DEF e
<1> QED
  BY <1>6, <1>7
LEMMA PushInv == ASSUME Xhci!ConstantsOK, RingInv, Xhci!Push PROVE RingInv'
<1>1. /\ Size \in Nat /\ Size >= 2 /\ req \in Reqs /\ evt \in Evts /\ call \in RingCalls /\ call.left \in Nat
      /\ req.enq \in 0 .. Size - 2 /\ call.pc \in {"idle", "push", "wait"} /\ call.done \in BOOLEAN
  BY RingPartsAre DEF RingInv, RingShapes
<1>2. /\ call.pc = "push" /\ call.left # 0 /\ ~ call.done /\ Room(req, call.left) /\ RingQuiet(evt) /\ Laid(req) /\ Marked(evt)
      /\ \A i \in 0 .. Size - 1 : RingWaits(req, i) => req.mem[i].what = "part"
  BY DEF Xhci!Push, RingInv
<1> DEFINE what == IF call.left = 1 THEN "last" ELSE "part"
           left == call.left - 1
           where == IF call.left = 1 THEN "wait" ELSE "push"
<1>3. req' = Xhci!Pushed(req, what) /\ what \in {"part", "last"} /\ evt' = evt
  BY DEF Xhci!Push
<1>4. call' = [call EXCEPT !.left = left, !.pc = where] /\ left \in Nat /\ where \in {"push", "wait"}
  BY <1>1, <1>2 DEF Xhci!Push
<1> HIDE DEF what, left, where
<1>5. call' \in RingCalls /\ call'.left = left /\ call'.pc = where /\ call'.done = call.done /\ call'.mine = call.mine
  BY <1>1, <1>4 DEF RingCalls
<1> DEFINE q == req'
<1>6. q = Xhci!Pushed(req, what) /\ call.left \in Nat \ {0}
  BY <1>1, <1>2, <1>3
<1> HIDE DEF q
<1>7. /\ q \in Reqs /\ Laid(q) /\ Room(q, left) /\ LastPlace(q) = req.enq
      /\ \A i \in 0 .. Size - 1 : RingWaits(q, i) <=> RingWaits(req, i) \/ i = req.enq
      /\ \A i \in 0 .. Size - 1 : i # req.enq /\ i # Size - 1 => q.mem[i] = req.mem[i]
      /\ q.mem[req.enq].what = what /\ q.mem[req.enq].mine
  BY <1>1, <1>2, <1>3, <1>6, PushedIs DEF left
<1>8. \A i \in 0 .. Size - 1 : RingWaits(q, i) /\ i # req.enq => q.mem[i].what = "part"
  <2>1. \A i \in 0 .. Size - 1 : RingWaits(req, i) => i # Size - 1
    BY DEF RingWaits
  <2> QED
    BY <1>2, <1>7, <2>1
<1>9. CASE call.left = 1
  <2>1. what = "last" /\ where = "wait"
    BY <1>9 DEF what, where
  <2>2. req.enq \in 0 .. Size - 1
    BY <1>1
  <2>3. Pending(q)
    BY <1>7, <1>8, <2>1, <2>2 DEF Pending
  <2> QED
    BY <1>2, <1>3, <1>5, <1>7, <2>1, <2>3 DEF RingInv, RingShapes, q
<1>10. CASE call.left # 1
  <2>1. what = "part" /\ where = "push" /\ left # 0
    BY <1>1, <1>2, <1>10 DEF what, where, left
  <2>2. \A i \in 0 .. Size - 1 : RingWaits(q, i) => q.mem[i].what = "part"
    BY <1>7, <1>8, <2>1
  <2> QED
    BY <1>2, <1>3, <1>5, <1>7, <2>1, <2>2 DEF RingInv, RingShapes, q
<1> QED
  BY <1>9, <1>10

(* What the controller reads next: the link, a part, or nothing. *)
LEMMA NextRead ==
  ASSUME Xhci!ConstantsOK, NEW r \in Reqs, Laid(r), r.mem[r.deq].cyc = r.ccs
  PROVE  IF r.deq = Size - 1 THEN r.ccs # r.cyc /\ r.mem[r.deq].what = "link" ELSE RingWaits(r, r.deq) /\ r.mem[r.deq].what # "link"
<1>1. Size \in Nat /\ Size >= 2 /\ r.enq \in 0 .. Size - 2 /\ r.deq \in 0 .. Size - 1 /\ r.cyc \in {0, 1} /\ r.ccs \in {0, 1}
  BY DEF Xhci!ConstantsOK, Reqs, Bits
<1> DEFINE e == r.enq
           d == r.deq
           c == r.cyc
<1>2. /\ r.mem[d].cyc = (IF d < e THEN c ELSE 1 - c) /\ r.mem[d].cyc = r.ccs
      /\ \A i \in 0 .. Size - 2 : r.mem[i].what # "link"
      /\ IF r.ccs = c THEN d <= e ELSE e < d /\ r.mem[Size - 1].what = "link"
  BY <1>1 DEF Laid
<1>3. RingWaits(r, d) <=> d # Size - 1 /\ (IF r.ccs = c THEN d <= d /\ d < e ELSE d <= d \/ d < e)
  BY DEF RingWaits
<1>4. e \in 0 .. Size - 2 /\ d \in 0 .. Size - 1 /\ c \in {0, 1}
  BY <1>1
<1> HIDE DEF d, e, c
<1>5. d <= d /\ (d # Size - 1 => d \in 0 .. Size - 2) /\ ~ (1 - c = c) /\ (d = Size - 1 => ~ (d < e))
  BY <1>1, <1>4
<1>6. CASE r.ccs = c
  <2>1. d < e
    BY <1>2, <1>5, <1>6
  <2>2. d # Size - 1
    BY <1>5, <2>1
  <2> QED
    BY <1>2, <1>3, <1>5, <1>6, <2>1, <2>2 DEF d
<1>7. CASE r.ccs # c
  BY <1>2, <1>3, <1>5, <1>7 DEF d, c
<1> QED
  BY <1>6, <1>7
LEMMA OneOn == ASSUME NEW R \in Nat \ {0}, NEW h \in 0 .. R - 1 PROVE (h + 1) % R = IF h = R - 1 THEN 0 ELSE h + 1
<1>1. CASE h = R - 1
  <2>1. (h + 1) % R = h + 1 - R
    BY <1>1
  <2> QED
    BY <1>1, <2>1
<1>2. CASE h # R - 1
  <2>1. (h + 1) % R = h + 1
    BY <1>2
  <2> QED
    BY <1>2, <2>1
<1> QED
  BY <1>1, <1>2

(* The controller goes on by one place, and changes its bit at the link. *)
Moved(r) == [r EXCEPT !.deq = (r.deq + 1) % Size, !.ccs = IF r.deq = Size - 1 THEN 1 - r.ccs ELSE r.ccs]
LEMMA ReadOn ==
  ASSUME Xhci!ConstantsOK, NEW r \in Reqs, Laid(r), r.mem[r.deq].cyc = r.ccs, NEW q, q = Moved(r)
  PROVE  /\ q \in Reqs /\ Laid(q) /\ q.mem = r.mem /\ q.enq = r.enq
         /\ \A left \in Nat : Room(r, left) => Room(q, left)
         /\ \A i \in 0 .. Size - 1 : RingWaits(q, i) <=> RingWaits(r, i) /\ i # r.deq
<1>1. Size \in Nat /\ Size >= 2 /\ r.enq \in 0 .. Size - 2 /\ r.deq \in 0 .. Size - 1 /\ r.cyc \in {0, 1} /\ r.ccs \in {0, 1}
      /\ r.mem \in [0 .. Size - 1 -> RingRequests]
  BY DEF Xhci!ConstantsOK, Reqs, Bits
<1> DEFINE e == r.enq
           d == r.deq
           c == r.cyc
           u == (r.deq + 1) % Size
           b == IF r.deq = Size - 1 THEN 1 - r.ccs ELSE r.ccs
<1>2. e \in 0 .. Size - 2 /\ d \in 0 .. Size - 1 /\ c \in {0, 1} /\ r.ccs \in {0, 1} /\ u = (d + 1) % Size
  BY <1>1
<1>3. q = [r EXCEPT !.deq = u, !.ccs = b] /\ b = (IF d = Size - 1 THEN 1 - r.ccs ELSE r.ccs)
  BY DEF Moved
<1>4. /\ \A i \in 0 .. Size - 1 : r.mem[i].cyc = IF i < e THEN c ELSE 1 - c
      /\ \A i \in 0 .. Size - 2 : r.mem[i].what # "link"
      /\ IF r.ccs = c THEN d <= e ELSE e < d /\ r.mem[Size - 1].what = "link"
      /\ r.mem[d].cyc = r.ccs
  BY DEF Laid
<1> HIDE DEF e, d, c, u, b
<1>6. u = IF d = Size - 1 THEN 0 ELSE d + 1
  <2>1. Size \in Nat \ {0}
    BY <1>1
  <2> QED
    BY <1>2, <2>1, OneOn
<1>7. u \in 0 .. Size - 1 /\ b \in {0, 1}
  BY <1>1, <1>2, <1>3, <1>6
<1>8. q \in Reqs /\ q.mem = r.mem /\ q.enq = r.enq /\ q.cyc = r.cyc /\ q.deq = u /\ q.ccs = b
  BY <1>3, <1>7 DEF Reqs, Bits
<1>9. ASSUME NEW i \in 0 .. Size - 1
      PROVE  /\ RingWaits(q, i) <=> i # Size - 1 /\ (IF b = c THEN u <= i /\ i < e ELSE u <= i \/ i < e)
             /\ RingWaits(r, i) <=> i # Size - 1 /\ (IF r.ccs = c THEN d <= i /\ i < e ELSE d <= i \/ i < e)
  BY <1>8 DEF RingWaits, e, d, c
<1>10. ASSUME NEW left \in Nat
       PROVE  /\ Room(q, left) <=> IF b = c THEN e + left < u + Size - 1 ELSE e + left < u
              /\ Room(r, left) <=> IF r.ccs = c THEN e + left < d + Size - 1 ELSE e + left < d
  BY <1>8 DEF Room, e, d, c
<1>11. CASE d = Size - 1
  <2>1. r.ccs # c /\ b = c /\ u = 0
    <3>1. ~ (d < e) /\ ~ (1 - c = c)
      BY <1>1, <1>2, <1>11
    <3>2. r.ccs # c
      BY <1>2, <1>4, <3>1
    <3> QED
      BY <1>2, <1>3, <1>6, <1>11, <3>2
  <2>2. Laid(q)
    <3>1. u <= e
      BY <1>2, <2>1
    <3> QED
      BY <1>4, <1>8, <2>1, <3>1 DEF Laid, e, c
  <2>3. ASSUME NEW left \in Nat, Room(r, left) PROVE Room(q, left)
    <3>1. e + left < d
      BY <1>10, <2>1, <2>3
    <3>2. e + left < u + Size - 1
      BY <1>1, <1>2, <1>11, <2>1, <3>1
    <3> QED
      BY <1>10, <2>1, <3>2
  <2>4. ASSUME NEW i \in 0 .. Size - 1 PROVE RingWaits(q, i) <=> RingWaits(r, i) /\ i # d
    <3>1. u <= i /\ (i # Size - 1 => ~ (d <= i))
      BY <1>1, <1>2, <1>11, <2>1
    <3> QED
      BY <1>9, <1>11, <2>1, <3>1
  <2> QED
    BY <1>8, <2>2, <2>3, <2>4 DEF d
<1>12. CASE d # Size - 1
  <2>1. b = r.ccs /\ u = d + 1
    BY <1>3, <1>6, <1>12
  <2>2. r.ccs = c => d < e
    <3>1. ~ (1 - c = c)
      BY <1>2
    <3> QED
      BY <1>2, <1>4, <3>1
  <2>3. Laid(q)
    <3>1. IF r.ccs = c THEN u <= e ELSE e < u /\ r.mem[Size - 1].what = "link"
      BY <1>2, <1>4, <2>1, <2>2
    <3> QED
      BY <1>4, <1>8, <2>1, <3>1 DEF Laid, e, c
  <2>4. ASSUME NEW left \in Nat, Room(r, left) PROVE Room(q, left)
    <3>1. IF r.ccs = c THEN e + left < d + Size - 1 ELSE e + left < d
      BY <1>10, <2>4
    <3>2. e + left < d => e + left < u
      BY <1>2, <2>1
    <3>3. e + left < d + Size - 1 => e + left < u + Size - 1
      BY <1>1, <1>2, <2>1
    <3> QED
      BY <1>10, <2>1, <3>1, <3>2, <3>3
  <2>5. ASSUME NEW i \in 0 .. Size - 1 PROVE RingWaits(q, i) <=> RingWaits(r, i) /\ i # d
    <3>1. u <= i <=> d <= i /\ i # d
      BY <1>2, <2>1
    <3>2. r.ccs # c => ~ (d < e)
      BY <1>2, <1>4
    <3>3. i < e /\ r.ccs # c => i # d
      BY <1>2, <3>2
    <3> QED
      BY <1>9, <2>1, <3>1, <3>3
  <2> QED
    BY <1>8, <2>3, <2>4, <2>5 DEF d
<1> QED
  BY <1>11, <1>12

(* The place read is the last one pushed: nothing else waits. *)
LEMMA LastIsAll ==
  ASSUME Xhci!ConstantsOK, NEW r \in Reqs, Laid(r), RingWaits(r, r.deq), r.deq = LastPlace(r)
  PROVE  \A i \in 0 .. Size - 1 : RingWaits(r, i) => i = r.deq
<1>1. Size \in Nat /\ Size >= 2 /\ r.enq \in 0 .. Size - 2 /\ r.deq \in 0 .. Size - 1
  BY DEF Xhci!ConstantsOK, Reqs
<1> DEFINE e == r.enq
           d == r.deq
<1>2. /\ IF r.ccs = r.cyc THEN d < e ELSE e < d
      /\ d = IF e = 0 THEN Size - 2 ELSE e - 1
  BY DEF Laid, RingWaits, LastPlace
<1>3. e \in 0 .. Size - 2 /\ d \in 0 .. Size - 1
  BY <1>1
<1>4. ASSUME NEW i \in 0 .. Size - 1, RingWaits(r, i) PROVE i = d
  <2>1. i # Size - 1 /\ (IF r.ccs = r.cyc THEN d <= i /\ i < e ELSE d <= i \/ i < e)
    BY <1>4 DEF RingWaits
  <2> HIDE DEF d, e
  <2> QED
    BY <1>1, <1>2, <1>3, <2>1
<1> QED
  BY <1>4
(* The controller's answer in the ring of events. *)
Replied(e) == [e EXCEPT !.mem[e.enq] = [cyc |-> e.pcs, mine |-> TRUE], !.enq = (@ + 1) % EventPlaces,
                        !.pcs = IF e.enq = EventPlaces - 1 THEN 1 - @ ELSE @]
LEMMA RingAnsweredIs ==
  ASSUME Xhci!ConstantsOK, NEW e \in Evts, Marked(e), RingQuiet(e), NEW f, f = Replied(e)
  PROVE  f \in Evts /\ Marked(f) /\ Answered(f)
<1>1. EventPlaces \in Nat /\ EventPlaces >= 2 /\ e.enq \in 0 .. EventPlaces - 1 /\ e.pcs \in {0, 1} /\ e.cyc \in {0, 1}
      /\ e.mem \in [0 .. EventPlaces - 1 -> Answers] /\ e.deq = e.enq /\ e.cyc = e.pcs
  BY DEF Xhci!ConstantsOK, Evts, Bits, RingQuiet
<1> DEFINE yes == TRUE
           new == [cyc |-> e.pcs, mine |-> yes]
           m == [e.mem EXCEPT ![e.enq] = new]
           h == e.enq
           u == (e.enq + 1) % EventPlaces
           b == IF e.enq = EventPlaces - 1 THEN 1 - e.pcs ELSE e.pcs
<1>2. new \in Answers /\ new.cyc = e.pcs /\ new.mine
  BY <1>1 DEF Answers, Bits
<1>3. f = [e EXCEPT !.mem = m, !.enq = u, !.pcs = b]
  BY DEF Replied
<1> HIDE DEF new
<1>4. m \in [0 .. EventPlaces - 1 -> Answers] /\ m[h] = new /\ \A i \in 0 .. EventPlaces - 1 : i # h => m[i] = e.mem[i]
  BY <1>1, <1>2
<1>5. h \in 0 .. EventPlaces - 1 /\ u = (h + 1) % EventPlaces /\ b = (IF h = EventPlaces - 1 THEN 1 - e.pcs ELSE e.pcs)
  BY <1>1
<1> HIDE DEF m, h, u, b
<1>6. u = IF h = EventPlaces - 1 THEN 0 ELSE h + 1
  <2>1. EventPlaces \in Nat \ {0}
    BY <1>1
  <2> QED
    BY <1>5, <2>1, OneOn
<1>7. u \in 0 .. EventPlaces - 1 /\ b \in {0, 1}
  BY <1>1, <1>5, <1>6
<1>8. f \in Evts /\ f.mem = m /\ f.enq = u /\ f.pcs = b /\ f.deq = e.deq /\ f.cyc = e.cyc
  BY <1>3, <1>4, <1>7 DEF Evts, Bits
<1>9. \A i \in 0 .. EventPlaces - 1 : e.mem[i].cyc = IF i < h THEN e.pcs ELSE 1 - e.pcs
  BY DEF Marked, h
<1>10. ASSUME NEW i \in 0 .. EventPlaces - 1 PROVE m[i].cyc = IF i < u THEN b ELSE 1 - b
  <2>1. CASE h = EventPlaces - 1
    <3>1. u = 0 /\ b = 1 - e.pcs /\ ~ (i < u) /\ 1 - b = e.pcs /\ (i # h => i < h)
      BY <1>1, <1>5, <1>6, <2>1
    <3> QED
      BY <1>2, <1>4, <1>9, <3>1
  <2>2. CASE h # EventPlaces - 1
    <3>1. b = e.pcs /\ (i < u <=> i < h \/ i = h)
      BY <1>1, <1>5, <1>6, <2>2
    <3>2. ~ (h < h)
      BY <1>5
    <3> QED
      BY <1>2, <1>4, <1>9, <3>1, <3>2
  <2> QED
    BY <2>1, <2>2
<1>11. Marked(f)
  <2>1. \A i \in 0 .. EventPlaces - 1 : m[i].cyc = IF i < u THEN b ELSE 1 - b
    BY <1>10
  <2> QED
    BY <1>8, <2>1 DEF Marked
<1>12. e.cyc = IF h = EventPlaces - 1 THEN 1 - b ELSE b
  BY <1>1, <1>5
<1>13. e.deq = h /\ m[h].mine /\ u = (h + 1) % EventPlaces
  BY <1>1, <1>2, <1>4, <1>5 DEF h
<1>14. Answered(f)
  BY <1>8, <1>12, <1>13 DEF Answered
<1> QED
  BY <1>8, <1>11, <1>14

LEMMA RingExecuteInv == ASSUME Xhci!ConstantsOK, RingInv, Xhci!Execute PROVE RingInv'
<1>1. /\ Size \in Nat /\ Size >= 2 /\ req \in Reqs /\ evt \in Evts /\ call \in RingCalls /\ req.deq \in 0 .. Size - 1
      /\ call.left \in Nat /\ call.pc \in {"idle", "push", "wait"} /\ req.mem \in [0 .. Size - 1 -> RingRequests]
      /\ req.enq \in 0 .. Size - 2
  BY RingPartsAre DEF RingInv, RingShapes
<1>2. Laid(req) /\ Marked(evt) /\ req.mem[req.deq].cyc = req.ccs /\ call' = call
  BY DEF RingInv, Xhci!Execute, Xhci!Given
<1> DEFINE r == req.mem[req.deq]
           q == req'
<1>3. IF req.deq = Size - 1 THEN req.ccs # req.cyc /\ r.what = "link" ELSE RingWaits(req, req.deq) /\ r.what # "link"
  BY <1>1, <1>2, NextRead
<1>4. q = Moved(req)
  <2>1. CASE r.what = "link"
    <3>1. req' = [req EXCEPT !.deq = (req.deq + 1) % Size, !.ccs = 1 - req.ccs] /\ req.deq = Size - 1
      BY <1>3, <2>1 DEF Xhci!Execute
    <3> QED
      BY <3>1 DEF Moved
  <2>2. CASE r.what # "link"
    <3>1. req' = [req EXCEPT !.deq = (req.deq + 1) % Size] /\ req.deq # Size - 1
      BY <1>3, <2>2 DEF Xhci!Execute
    <3> DEFINE u == (req.deq + 1) % Size
    <3>2. req' = [req EXCEPT !.deq = u] /\ (IF req.deq = Size - 1 THEN 1 - req.ccs ELSE req.ccs) = req.ccs
      BY <3>1
    <3> HIDE DEF u
    <3>3. [req EXCEPT !.deq = u] = [req EXCEPT !.deq = u, !.ccs = req.ccs]
      BY <1>1 DEF Reqs
    <3> QED
      BY <3>2, <3>3 DEF u, Moved
  <2> QED
    BY <2>1, <2>2
<1> HIDE DEF q, r
<1>5. /\ q \in Reqs /\ Laid(q) /\ q.mem = req.mem /\ q.enq = req.enq
      /\ \A left \in Nat : Room(req, left) => Room(q, left)
      /\ \A i \in 0 .. Size - 1 : RingWaits(q, i) <=> RingWaits(req, i) /\ i # req.deq
  BY <1>1, <1>2, <1>4, ReadOn DEF r
<1>6. LastPlace(q) = LastPlace(req) /\ LastPlace(req) \in 0 .. Size - 1
  BY <1>1, <1>5 DEF LastPlace
<1>7. CaughtUp(req) => CaughtUp(q)
  BY <1>5 DEF CaughtUp
<1>8. req.deq # Size - 1 => call.pc = "push" \/ (call.pc = "wait" /\ ~ call.done /\ RingQuiet(evt) /\ Pending(req))
  BY <1>1, <1>3 DEF RingInv, CaughtUp
<1>9. CASE r.what \in {"link", "part"}
  <2>1. evt' = evt
    BY <1>9 DEF Xhci!Execute, r
  <2>2. Pending(req) => Pending(q)
    <3>1. Pending(req) => r.what = "link" \/ req.deq # LastPlace(req)
      BY <1>9 DEF Pending, r
    <3>2. r.what = "link" => req.deq = Size - 1
      BY <1>3
    <3>3. RingWaits(req, LastPlace(req)) => LastPlace(req) # Size - 1
      BY DEF RingWaits
    <3> QED
      BY <1>5, <1>6, <3>1, <3>2, <3>3 DEF Pending
  <2>3. (\A i \in 0 .. Size - 1 : RingWaits(req, i) => req.mem[i].what = "part") => \A i \in 0 .. Size - 1 : RingWaits(q, i) => q.mem[i].what = "part"
    BY <1>5
  <2>4. Room(req, call.left) => Room(q, call.left)
    BY <1>1, <1>5
  <2> QED
    BY <1>1, <1>2, <1>5, <1>7, <2>1, <2>2, <2>3, <2>4 DEF RingInv, RingShapes, q
<1>10. CASE ~ (r.what \in {"link", "part"})
  <2>1. /\ r.what = "last" /\ req.deq # Size - 1 /\ RingWaits(req, req.deq)
        /\ evt' = [evt EXCEPT !.mem[evt.enq] = [cyc |-> evt.pcs, mine |-> r.mine], !.enq = (@ + 1) % EventPlaces,
                              !.pcs = IF evt.enq = EventPlaces - 1 THEN 1 - @ ELSE @]
    BY <1>3, <1>10 DEF Xhci!Execute, r
  <2>2. call.pc = "wait" /\ ~ call.done /\ RingQuiet(evt) /\ Pending(req)
    <3>1. call.pc # "push"
      BY <1>1, <2>1 DEF RingInv, r
    <3> QED
      BY <1>8, <2>1, <3>1
  <2>3. req.deq = LastPlace(req) /\ r.mine
    BY <1>1, <2>1, <2>2 DEF Pending, r
  <2>4. CaughtUp(q)
    <3>1. \A i \in 0 .. Size - 1 : RingWaits(req, i) => i = req.deq
      BY <1>1, <1>2, <2>1, <2>3, LastIsAll
    <3> QED
      BY <1>5, <3>1 DEF CaughtUp
  <2>5. r.mine = TRUE
    <3>1. r.mine \in BOOLEAN
      BY <1>1 DEF RingRequests, r
    <3> QED
      BY <2>3, <3>1
  <2> DEFINE f == evt'
  <2>6. f = Replied(evt)
    BY <2>1, <2>5 DEF Replied
  <2> HIDE DEF f
  <2>7. f \in Evts /\ Marked(f) /\ Answered(f)
    BY <1>1, <1>2, <2>2, <2>6, RingAnsweredIs
  <2> QED
    BY <1>1, <1>2, <1>5, <2>2, <2>4, <2>7 DEF RingInv, RingShapes, q, f
<1> QED
  BY <1>9, <1>10

LEMMA TakeEventInv == ASSUME Xhci!ConstantsOK, RingInv, Xhci!TakeEvent PROVE RingInv'
<1>1. /\ EventPlaces \in Nat /\ EventPlaces >= 2 /\ req \in Reqs /\ evt \in Evts /\ call \in RingCalls /\ evt.deq \in 0 .. EventPlaces - 1
      /\ evt.pcs \in {0, 1} /\ evt.cyc \in {0, 1} /\ evt.mem \in [0 .. EventPlaces - 1 -> Answers]
  BY RingPartsAre DEF RingInv, RingShapes, Bits
<1>2. /\ call.pc = "wait" /\ ~ call.done /\ evt.mem[evt.deq].cyc = evt.cyc /\ req' = req /\ Laid(req) /\ Marked(evt)
      /\ (RingQuiet(evt) /\ Pending(req)) \/ (CaughtUp(req) /\ Answered(evt))
  BY DEF Xhci!TakeEvent, Xhci!New, RingInv
<1>3. ~ RingQuiet(evt)
  <2>1. RingQuiet(evt) => evt.mem[evt.deq].cyc = 1 - evt.pcs /\ evt.cyc = evt.pcs
    <3>1. ~ (evt.deq < evt.deq)
      BY <1>1
    <3> QED
      BY <1>1, <1>2, <3>1 DEF RingQuiet, Marked
  <2>2. 1 - evt.pcs # evt.pcs
    BY <1>1
  <2> QED
    BY <1>2, <2>1, <2>2
<1> DEFINE u == (evt.deq + 1) % EventPlaces
           b == IF evt.deq = EventPlaces - 1 THEN 1 - evt.cyc ELSE evt.cyc
           yes == TRUE
<1>4. evt' = [evt EXCEPT !.deq = u, !.seen = u, !.cyc = b]
  BY DEF Xhci!TakeEvent, Xhci!Read
<1>5. u = evt.enq /\ b = evt.pcs
  <2>1. evt.enq = u /\ evt.cyc = IF evt.deq = EventPlaces - 1 THEN 1 - evt.pcs ELSE evt.pcs
    BY <1>2, <1>3 DEF Answered
  <2> QED
    BY <1>1, <2>1
<1>6. call' = [call EXCEPT !.done = yes, !.mine = evt.mem[evt.deq].mine] /\ evt.mem[evt.deq].mine = yes
  <2>1. evt.mem[evt.deq].mine \in BOOLEAN /\ evt.mem[evt.deq].mine
    BY <1>1, <1>2, <1>3 DEF Answered, Answers
  <2> QED
    BY <2>1 DEF Xhci!TakeEvent
<1>7. evt.enq \in 0 .. EventPlaces - 1 /\ evt.pcs \in Bits /\ yes \in BOOLEAN
  BY <1>1 DEF Evts, Bits
<1> HIDE DEF u, b
<1>8. evt' \in Evts /\ evt'.mem = evt.mem /\ evt'.enq = evt.enq /\ evt'.pcs = evt.pcs /\ evt'.deq = evt.enq /\ evt'.cyc = evt.pcs
  BY <1>1, <1>4, <1>5, <1>7 DEF Evts
<1>9. call' \in RingCalls /\ call'.pc = "wait" /\ call'.done /\ call'.mine
  <2> HIDE DEF yes
  <2>1. call' \in RingCalls /\ call'.pc = call.pc /\ call'.done = yes /\ call'.mine = yes
    BY <1>1, <1>6, <1>7 DEF RingCalls
  <2> QED
    BY <1>2, <2>1 DEF yes
<1>10. Marked(evt') /\ RingQuiet(evt')
  BY <1>2, <1>8 DEF Marked, RingQuiet
<1> QED
  BY <1>1, <1>2, <1>3, <1>8, <1>9, <1>10 DEF RingInv, RingShapes

LEMMA ReturnInv == ASSUME Xhci!ConstantsOK, Patient, RingInv, Xhci!Return PROVE RingInv'
<1>1. req \in Reqs /\ evt \in Evts /\ call \in RingCalls
  BY DEF RingInv, RingShapes
<1>2. call.pc = "wait" /\ call.done /\ req' = req /\ evt' = evt /\ call' = [call EXCEPT !.pc = "idle", !.left = 0]
  BY DEF Xhci!Return
<1>3. call' \in RingCalls /\ call'.pc = "idle" /\ call'.done = call.done /\ call'.mine = call.mine
  BY <1>1, <1>2 DEF RingCalls
<1>4. CaughtUp(req) /\ RingQuiet(evt) /\ Laid(req) /\ Marked(evt) /\ call.mine
  BY <1>2 DEF RingInv
<1> QED
  BY <1>1, <1>2, <1>3, <1>4 DEF RingInv, RingShapes

LEMMA RingNextInv == ASSUME Xhci!ConstantsOK, Patient, RingInv, Xhci!Next PROVE RingInv'
  BY PushInv, RingExecuteInv, TakeEventInv, ReturnInv, StartInv DEF Xhci!Next

LEMMA RingStutterInv == ASSUME RingInv, UNCHANGED Xhci!vars PROVE RingInv'
  BY DEF RingInv, RingShapes, Xhci!vars
(* Where the controller is after reading k places, one at a time and in closed form. *)
OneRead(r, at) == IF r.mem[at[1]].cyc # at[2] THEN at
                  ELSE IF r.mem[at[1]].what = "link" THEN <<0, 1 - at[2]>> ELSE <<at[1] + 1, at[2]>>
Upto(r, n) == <<IF n < r.enq THEN n ELSE r.enq, r.cyc>>
RingAfter(r, k) == IF r.ccs = r.cyc THEN Upto(r, r.deq + k)
               ELSE IF k < Size - r.deq THEN <<r.deq + k, r.ccs>> ELSE Upto(r, k - (Size - r.deq))
ReadsOn(r, g) == g = [k \in 0 .. Size |-> IF k = 0 THEN <<r.deq, r.ccs>> ELSE OneRead(r, g[k - 1])]

LEMMA UptoStep ==
  ASSUME Xhci!ConstantsOK, NEW r \in Reqs, Laid(r), NEW n \in Nat
  PROVE  Upto(r, n + 1) = OneRead(r, Upto(r, n))
<1>1. Size \in Nat /\ Size >= 2 /\ r.enq \in 0 .. Size - 2 /\ r.cyc \in {0, 1}
  BY DEF Xhci!ConstantsOK, Reqs, Bits
<1>2. ASSUME NEW i \in 0 .. Size - 2
      PROVE  r.mem[i].cyc = (IF i < r.enq THEN r.cyc ELSE 1 - r.cyc) /\ r.mem[i].what # "link"
  <2>1. i \in 0 .. Size - 1
    BY <1>1
  <2> QED
    BY <2>1 DEF Laid
<1>3. CASE n < r.enq
  <2>1. n \in 0 .. Size - 2 /\ Upto(r, n + 1) = <<n + 1, r.cyc>>
    BY <1>1, <1>3 DEF Upto
  <2>2. r.mem[n].cyc = r.cyc /\ r.mem[n].what # "link"
    BY <1>2, <1>3, <2>1
  <2> QED
    BY <1>3, <2>1, <2>2 DEF Upto, OneRead
<1>4. CASE ~ (n < r.enq)
  <2>1. Upto(r, n) = <<r.enq, r.cyc>> /\ Upto(r, n + 1) = <<r.enq, r.cyc>>
    BY <1>1, <1>4 DEF Upto
  <2>2. r.mem[r.enq].cyc = 1 - r.cyc /\ 1 - r.cyc # r.cyc
    <3>1. ~ (r.enq < r.enq) /\ 1 - r.cyc # r.cyc
      BY <1>1
    <3> QED
      BY <1>1, <1>2, <3>1
  <2> QED
    BY <2>1, <2>2 DEF OneRead
<1> QED
  BY <1>3, <1>4

LEMMA AfterLate ==
  ASSUME NEW r, NEW k, NEW n, r.ccs # r.cyc, ~ (k < Size - r.deq), k - (Size - r.deq) = n
  PROVE  RingAfter(r, k) = Upto(r, n)
  BY DEF RingAfter

LEMMA AfterStep ==
  ASSUME Xhci!ConstantsOK, NEW r \in Reqs, Laid(r), NEW k \in 0 .. Size - 1
  PROVE  RingAfter(r, k + 1) = OneRead(r, RingAfter(r, k))
<1>1. /\ Size \in Nat /\ Size >= 2 /\ r.enq \in 0 .. Size - 2 /\ r.deq \in 0 .. Size - 1 /\ r.cyc \in {0, 1} /\ r.ccs \in {0, 1}
      /\ k \in Nat
  BY DEF Xhci!ConstantsOK, Reqs, Bits
<1>2. CASE r.ccs = r.cyc
  <2> DEFINE n == r.deq + k
  <2>1. n \in Nat /\ r.deq + (k + 1) = n + 1
    BY <1>1
  <2>2. Upto(r, n + 1) = OneRead(r, Upto(r, n))
    BY <2>1, UptoStep
  <2> QED
    BY <1>2, <2>1, <2>2 DEF RingAfter
<1>3. CASE r.ccs # r.cyc
  <2>1. r.enq < r.deq /\ r.mem[Size - 1].what = "link" /\ r.ccs = 1 - r.cyc /\ 1 - r.ccs = r.cyc
    BY <1>1, <1>3 DEF Laid
  <2>2. CASE k < Size - r.deq
    <3> DEFINE n == r.deq + k
    <3>1. n \in 0 .. Size - 1 /\ ~ (n < r.enq)
      BY <1>1, <2>1, <2>2
    <3>2. r.mem[n].cyc = r.ccs
      BY <2>1, <3>1 DEF Laid
    <3>3. RingAfter(r, k) = <<n, r.ccs>>
      BY <1>3, <2>2 DEF RingAfter
    <3>4. CASE n = Size - 1
      <4>1. ~ (k + 1 < Size - r.deq) /\ k + 1 - (Size - r.deq) = 0 /\ 0 = IF 0 < r.enq THEN 0 ELSE r.enq
        BY <1>1, <3>4
      <4>2. RingAfter(r, k + 1) = <<0, r.cyc>>
        <5> DEFINE j == k + 1
        <5>1. ~ (j < Size - r.deq) /\ j - (Size - r.deq) = 0
          BY <1>1, <4>1
        <5> HIDE DEF j
        <5>2. RingAfter(r, j) = Upto(r, 0)
          BY <1>3, <5>1, AfterLate
        <5>3. RingAfter(r, k + 1) = Upto(r, 0)
          BY <5>2 DEF j
        <5> QED
          BY <4>1, <5>3 DEF Upto
      <4>3. OneRead(r, <<n, r.ccs>>) = <<0, 1 - r.ccs>>
        BY <2>1, <3>2, <3>4 DEF OneRead
      <4> QED
        BY <2>1, <3>3, <4>2, <4>3
    <3>5. CASE n # Size - 1
      <4>1. n \in 0 .. Size - 2 /\ k + 1 < Size - r.deq /\ r.deq + (k + 1) = n + 1
        BY <1>1, <3>1, <3>5
      <4>2. r.mem[n].what # "link"
        BY <4>1 DEF Laid
      <4>3. OneRead(r, <<n, r.ccs>>) = <<n + 1, r.ccs>>
        BY <3>2, <4>2 DEF OneRead
      <4> HIDE DEF n
      <4>4. RingAfter(r, k + 1) = <<n + 1, r.ccs>>
        BY <1>3, <4>1 DEF RingAfter
      <4> QED
        BY <3>3, <4>3, <4>4
    <3> QED
      BY <3>4, <3>5
  <2>3. CASE ~ (k < Size - r.deq)
    <3> DEFINE n == k - (Size - r.deq)
    <3>1. n \in Nat /\ ~ (k + 1 < Size - r.deq) /\ k + 1 - (Size - r.deq) = n + 1
      BY <1>1, <2>3
    <3>2. Upto(r, n + 1) = OneRead(r, Upto(r, n))
      BY <3>1, UptoStep
    <3> QED
      <4>1. RingAfter(r, k) = Upto(r, n)
        BY <1>3, <2>3, AfterLate
      <4> HIDE DEF n
      <4>2. RingAfter(r, k + 1) = Upto(r, n + 1)
        <5> DEFINE j == k + 1
                   y == n + 1
        <5>1. ~ (j < Size - r.deq) /\ j - (Size - r.deq) = y
          BY <1>1, <3>1
        <5> HIDE DEF j, y
        <5>2. RingAfter(r, j) = Upto(r, y)
          BY <1>3, <5>1, AfterLate
        <5> QED
          BY <5>2 DEF j, y
      <4> QED
        BY <3>2, <4>1, <4>2
  <2> QED
    BY <2>2, <2>3
<1> QED
  BY <1>2, <1>3

LEMMA AfterEnds ==
  ASSUME Xhci!ConstantsOK, NEW r \in Reqs, Laid(r)
  PROVE  RingAfter(r, 0) = <<r.deq, r.ccs>> /\ RingAfter(r, Size) = <<r.enq, r.cyc>>
<1>1. Size \in Nat /\ Size >= 2 /\ r.enq \in 0 .. Size - 2 /\ r.deq \in 0 .. Size - 1
  BY DEF Xhci!ConstantsOK, Reqs
<1>2. IF r.ccs = r.cyc THEN r.deq <= r.enq ELSE r.enq < r.deq
  BY DEF Laid
<1>3. CASE r.ccs = r.cyc
  <2>1. r.deq = (IF r.deq + 0 < r.enq THEN r.deq + 0 ELSE r.enq) /\ r.enq = IF r.deq + Size < r.enq THEN r.deq + Size ELSE r.enq
    BY <1>1, <1>2, <1>3
  <2> QED
    BY <1>3, <2>1 DEF RingAfter, Upto
<1>4. CASE r.ccs # r.cyc
  <2>1. 0 < Size - r.deq /\ r.deq + 0 = r.deq /\ ~ (Size < Size - r.deq) /\ Size - (Size - r.deq) = r.deq /\ ~ (r.deq < r.enq)
    BY <1>1, <1>2, <1>4
  <2> QED
    BY <1>4, <2>1 DEF RingAfter, Upto
<1> QED
  BY <1>3, <1>4

(* Reading on place after place ends where the driver writes. *)
LEMMA ReadsEnd ==
  ASSUME Xhci!ConstantsOK, NEW r \in Reqs, Laid(r), NEW g, ReadsOn(r, g)
  PROVE  g[Size] = <<r.enq, r.cyc>>
<1> DEFINE Off == {k \in 0 .. Size : g[k] # RingAfter(r, k)}
<1>1. Size \in Nat
  BY DEF Xhci!ConstantsOK
<1>2. \A k \in 0 .. Size : g[k] = IF k = 0 THEN <<r.deq, r.ccs>> ELSE OneRead(r, g[k - 1])
  BY DEF ReadsOn
<1>3. CASE Off = {}
  <2>1. Size \in 0 .. Size
    BY <1>1
  <2>2. g[Size] = RingAfter(r, Size)
    BY <1>3, <2>1
  <2> QED
    BY <2>2, AfterEnds
<1>4. CASE Off # {}
  <2>1. Off \in SUBSET Nat
    BY <1>1
  <2> HIDE DEF Off
  <2>2. PICK k \in Off : \A y \in Off : k <= y
    BY <1>4, <2>1, Least
  <2>3. k \in 0 .. Size /\ g[k] # RingAfter(r, k)
    BY <2>2 DEF Off
  <2>4. k # 0
    <3>1. 0 \in 0 .. Size /\ g[0] = <<r.deq, r.ccs>>
      BY <1>1, <1>2
    <3> QED
      BY <2>3, <3>1, AfterEnds
  <2> DEFINE j == k - 1
  <2>5. j \in 0 .. Size - 1 /\ j \in 0 .. Size /\ j + 1 = k /\ ~ (k <= j)
    BY <1>1, <2>3, <2>4
  <2>6. g[k] = OneRead(r, g[j])
    BY <1>2, <2>3, <2>4
  <2> HIDE DEF j
  <2>7. g[j] = RingAfter(r, j)
    BY <2>2, <2>5 DEF Off
  <2>8. RingAfter(r, j + 1) = OneRead(r, RingAfter(r, j))
    BY <2>5, AfterStep
  <2> QED
    BY <2>3, <2>5, <2>6, <2>7, <2>8
<1> QED
  BY <1>3, <1>4

LEMMA ReadsOnIs == ASSUME Xhci!ConstantsOK, NEW r \in Reqs, Laid(r) PROVE \E g : ReadsOn(r, g)
<1> DEFINE g == [k \in 0 .. Size |-> RingAfter(r, k)]
<1>1. Size \in Nat
  BY DEF Xhci!ConstantsOK
<1>2. ASSUME NEW k \in 0 .. Size PROVE g[k] = IF k = 0 THEN <<r.deq, r.ccs>> ELSE OneRead(r, g[k - 1])
  <2>1. CASE k = 0
    BY <2>1, AfterEnds
  <2>2. CASE k # 0
    <3> DEFINE j == k - 1
    <3>1. j \in 0 .. Size - 1 /\ j \in 0 .. Size /\ j + 1 = k
      BY <1>1, <2>2
    <3> HIDE DEF j
    <3>2. RingAfter(r, j + 1) = OneRead(r, RingAfter(r, j))
      BY <3>1, AfterStep
    <3>3. g[k] = RingAfter(r, k) /\ g[j] = RingAfter(r, j)
      BY <3>1
    <3> HIDE DEF g
    <3> QED
      BY <2>2, <3>1, <3>2, <3>3 DEF j
  <2> QED
    BY <2>1, <2>2
<1>3. g = [k \in 0 .. Size |-> g[k]]
  OBVIOUS
<1> HIDE DEF g
<1>4. ReadsOn(r, g)
  BY <1>2, <1>3 DEF ReadsOn
<1> QED
  BY <1>4

LEMMA InvShows == ASSUME Xhci!ConstantsOK, RingInv PROVE Xhci!TypeOK /\ Xhci!LapsAgree /\ Xhci!AnsweredItself
<1>1. req \in Reqs /\ Laid(req)
  BY DEF RingInv, RingShapes
<1>2. Xhci!TypeOK
  <2>1. /\ req.enq \in 0 .. Size - 2 /\ req.deq \in 0 .. Size - 1 /\ req.cyc \in {0, 1} /\ req.ccs \in {0, 1}
        /\ evt.enq \in 0 .. EventPlaces - 1 /\ evt.deq \in 0 .. EventPlaces - 1 /\ evt.pcs \in {0, 1} /\ evt.cyc \in {0, 1}
        /\ call.pc \in {"idle", "push", "wait"}
    BY RingPartsAre DEF RingInv, Bits
  <2> QED
    BY <2>1 DEF Xhci!TypeOK
<1>3. Xhci!AnsweredItself
  BY DEF RingInv, Xhci!AnsweredItself
<1>4. PICK g : ReadsOn(req, g)
  BY <1>1, ReadsOnIs
<1>5. ReadsOn(req, CHOOSE n : ReadsOn(req, n))
  BY <1>4
<1>6. (CHOOSE n : ReadsOn(req, n))[Size] = <<req.enq, req.cyc>>
  <2> DEFINE n == CHOOSE f : ReadsOn(req, f)
  <2>1. ReadsOn(req, n)
    BY <1>5
  <2> HIDE DEF n
  <2>2. n[Size] = <<req.enq, req.cyc>>
    BY <1>1, <2>1, ReadsEnd
  <2> QED
    BY <2>2 DEF n
<1>7. Xhci!LapsAgree
  BY <1>6 DEF Xhci!LapsAgree, ReadsOn, OneRead
<1> QED
  BY <1>2, <1>3, <1>7

(* With a controller that answers in time, the ring of requests and the ring of events
   stay in step over any number of laps, and a call that succeeds was answered itself. *)
THEOREM LapsStayCounted == ASSUME Xhci!ConstantsOK, Patient PROVE Xhci!Spec => [](Xhci!TypeOK /\ Xhci!LapsAgree /\ Xhci!AnsweredItself)
<1>1. Xhci!Init => RingInv
  BY RingInitInv
<1>2. RingInv /\ [Xhci!Next]_(Xhci!vars) => RingInv'
  BY RingNextInv, RingStutterInv
<1>3. RingInv => Xhci!TypeOK /\ Xhci!LapsAgree /\ Xhci!AnsweredItself
  BY InvShows
<1> QED
  BY <1>1, <1>2, <1>3, PTL DEF Xhci!Spec

-----------------------------------------------------------------------------
(* Keyboard and mouse.  What the properties rest on, and the proof that every step keeps it. *)

Kbs == [q : Seq(In!Typed), shift : BOOLEAN, ext : BOOLEAN, last : SUBSET In!Keys, rep : In!Keys \cup {None}]
Mice == [pkt : Seq(In!MouseBytes), left : BOOLEAN, click : BOOLEAN, acc : Int, usb : Int, rem : Int, moved : Int]
Hws == [plug : SUBSET {"kbd", "aux", "ukbd", "umouse"}, obf : In!MouseBytes \cup In!KeyBytes \cup {None}, kout : Seq(In!KeyBytes),
        mout : Seq(In!MouseBytes), shift : BOOLEAN, ps2 : BOOLEAN, held : SUBSET In!Keys, ushift : BOOLEAN, seen : SUBSET In!Keys, total : Int]
HandShapes ==
  /\ pc \in {"usb", "mouse", "kbd"} /\ kb \in Kbs /\ ms \in Mice /\ hw \in Hws /\ sent \in Seq(In!Typed)
  /\ Len(kb.q) <= Queue

(* Bytes of the mouse: what the driver has, the buffer and what is to come are packets on end. *)
Nth(b, n) == b.at = n /\ (n = 1 => b.bit3) /\ (n # 2 => b.d = 0)
AuxIn == hw.obf # None /\ hw.obf.aux
HandAfter == IF AuxIn THEN (IF Len(ms.pkt) = 2 THEN 1 ELSE Len(ms.pkt) + 2) ELSE Len(ms.pkt) + 1
Framing ==
  /\ Len(ms.pkt) <= 2 /\ \A i \in 1 .. Len(ms.pkt) : Nth(ms.pkt[i], i)
  /\ AuxIn => Nth(hw.obf, Len(ms.pkt) + 1)
  /\ IF hw.mout = <<>> THEN HandAfter = 1
     ELSE Len(hw.mout) = 4 - HandAfter /\ \A i \in 1 .. Len(hw.mout) : Nth(hw.mout[i], HandAfter + i - 1)

(* The hand moved as far as the pointer, the remainder and all that is on its way. *)
InPacket == IF Len(ms.pkt) = 2 THEN ms.pkt[2].d ELSE 0
InBuffer == IF AuxIn THEN hw.obf.d ELSE 0
ToCome == IF hw.mout = <<>> \/ HandAfter = 3 THEN 0 ELSE hw.mout[3 - HandAfter].d
Balance ==
  /\ hw.total = 2 * ms.moved + ms.rem + ms.acc + ms.usb + InPacket + InBuffer + ToCome
  /\ ms.rem \in -1 .. 1 /\ (pc # "mouse" => ms.acc = 0)

(* Bytes of the keyboard: what a byte means behind a prefix, with shift held. *)
HandBehind(b) ==
  IF b.code = "e0" \/ b.up \/ b.code = "shift" THEN None
  ELSE IF b.code \in In!Extended THEN [key |-> b.code, shift |-> FALSE] ELSE None
Meant(e, s, b) ==
  IF e THEN HandBehind(b)
  ELSE IF b.code = "e0" \/ b.up \/ b.code = "shift" THEN None
  ELSE IF b.code \in In!Extended THEN None ELSE [key |-> b.code, shift |-> s]
ShiftBy(e, s, b) == IF b.code = "shift" /\ ~e THEN ~b.up ELSE s
KeyIn == hw.obf # None /\ ~hw.obf.aux
Ext1 == IF KeyIn THEN hw.obf.code = "e0" ELSE kb.ext
Shift1 == IF KeyIn THEN ShiftBy(kb.ext, hw.ps2, hw.obf) ELSE hw.ps2
Key1 == IF KeyIn THEN Meant(kb.ext, hw.ps2, hw.obf) ELSE None
Key2 == IF Len(hw.kout) = 1 THEN Meant(Ext1, Shift1, hw.kout[1])
        ELSE IF Len(hw.kout) = 2 THEN HandBehind(hw.kout[2]) ELSE None
(* The keys that were pressed and not read are those of the bytes that were not read. *)
Keying ==
  /\ \/ hw.kout = <<>> /\ ~ Ext1 /\ Shift1 = hw.shift
     \/ Len(hw.kout) = 1 /\ hw.kout[1].code # "e0" /\ ShiftBy(Ext1, Shift1, hw.kout[1]) = hw.shift
     \/ Len(hw.kout) = 2 /\ hw.kout[1].code = "e0" /\ ~ hw.kout[1].up /\ hw.kout[2].code # "e0" /\ Shift1 = hw.shift
  /\ sent = IF Key1 = None THEN (IF Key2 = None THEN <<>> ELSE <<Key2>>)
            ELSE (IF Key2 = None THEN <<Key1>> ELSE <<Key1, Key2>>)

(* The driver has the last report, and repeats what is in it; no report but a USB
   keyboard's puts shift where the PS/2 keyboard has it not. *)
Reporting ==
  /\ kb.last = In!Reported(hw.seen) /\ (kb.rep # None => kb.rep \in kb.last)
  /\ "ukbd" \notin hw.plug => kb.shift = hw.ps2

HandInv == HandShapes /\ Framing /\ Balance /\ Keying /\ Reporting

LEMMA HandElement == ASSUME NEW S, NEW a, <<a>> \in Seq(S) PROVE a \in S
<1>1. <<a>>[1] = a /\ Len(<<a>>) = 1
  OBVIOUS
<1> QED
  BY <1>1
LEMMA Both == ASSUME NEW S, NEW a \in S, NEW b \in S PROVE Append(<<a>>, b) = <<a, b>>
<1> DEFINE s == Append(<<a>>, b)
<1> DEFINE t == <<a, b>>
<1>1. <<a>> \in Seq(S) /\ Len(<<a>>) = 1 /\ <<a>>[1] = a
  OBVIOUS
<1>2. s \in Seq(S) /\ Len(s) = 2 /\ s[1] = a /\ s[2] = b
  BY <1>1
<1>3. t \in Seq(S) /\ Len(t) = 2 /\ t[1] = a /\ t[2] = b
  OBVIOUS
<1> HIDE DEF s, t
<1>4. s = t
  BY <1>2, <1>3
<1> QED
  BY <1>4 DEF s, t

LEMMA HandInitInv == ASSUME In!ConstantsOK, In!Init PROVE HandInv
<1>1. /\ pc = "usb" /\ sent = <<>>
      /\ kb = [q |-> <<>>, shift |-> FALSE, ext |-> FALSE, last |-> {}, rep |-> None]
      /\ ms = [pkt |-> <<>>, left |-> FALSE, click |-> FALSE, acc |-> 0, usb |-> 0, rem |-> 0, moved |-> 0]
  BY DEF In!Init
<1>2. PICK p \in Plugs : hw = [plug |-> p, obf |-> None, kout |-> <<>>, mout |-> <<>>, shift |-> FALSE,
                               ps2 |-> FALSE, held |-> {}, ushift |-> FALSE, seen |-> {}, total |-> 0]
  BY DEF In!Init
<1>3. kb \in Kbs /\ ms \in Mice /\ Len(kb.q) = 0
  BY <1>1 DEF Kbs, Mice
<1>4. hw \in Hws
  BY <1>2 DEF Hws, In!ConstantsOK
<1>5. HandShapes
  BY <1>1, <1>3, <1>4 DEF HandShapes, In!ConstantsOK
<1>6. ~ AuxIn /\ ~ KeyIn /\ hw.mout = <<>> /\ hw.kout = <<>> /\ ms.pkt = <<>> /\ hw.seen = {} /\ hw.total = 0 /\ hw.shift = FALSE /\ hw.ps2 = FALSE
  BY <1>1, <1>2 DEF AuxIn, KeyIn
<1>7. HandAfter = 1 /\ Framing
  BY <1>6 DEF HandAfter, Framing
<1>8. Balance
  BY <1>1, <1>6 DEF Balance, InPacket, InBuffer, ToCome
<1>9. Keying
  <2>1. ~ kb.ext /\ hw.ps2 = hw.shift /\ Len(hw.kout) = 0
    BY <1>1, <1>6
  <2>2. Ext1 = kb.ext /\ Shift1 = hw.ps2 /\ Key1 = None
    BY <1>6 DEF Ext1, Shift1, Key1
  <2>3. Key2 = None
    BY <2>1 DEF Key2
  <2> QED
    BY <1>1, <1>6, <2>1, <2>2, <2>3 DEF Keying
<1>10. Reporting
  BY <1>1, <1>6 DEF Reporting, In!Reported
<1> QED
  BY <1>5, <1>7, <1>8, <1>9, <1>10 DEF HandInv

(* Each part stays when what it speaks of does. *)
LEMMA FramingStays ==
  ASSUME ms'.pkt = ms.pkt, hw'.obf = hw.obf, hw'.mout = hw.mout
  PROVE  (Framing => Framing') /\ InPacket' = InPacket /\ InBuffer' = InBuffer /\ ToCome' = ToCome
  BY DEF Framing, AuxIn, HandAfter, InPacket, InBuffer, ToCome
LEMMA KeyingStays ==
  ASSUME hw'.obf = hw.obf, hw'.kout = hw.kout, hw'.shift = hw.shift, kb'.ext = kb.ext, hw'.ps2 = hw.ps2, sent' = sent
  PROVE  Keying => Keying'
  BY DEF Keying, KeyIn, Ext1, Shift1, Key1, Key2
LEMMA ReportingStays ==
  ASSUME kb'.last = kb.last, kb'.rep = kb.rep, kb'.shift = kb.shift, hw'.seen = hw.seen, hw'.ps2 = hw.ps2, hw'.plug = hw.plug
  PROVE  Reporting => Reporting'
  BY DEF Reporting

(* The keyboard says a message: bytes that mean a key or none, and leave shift as it is told. *)
LEMMA SaysInv ==
  ASSUME In!ConstantsOK, HandInv, hw.kout = <<>>, NEW m \in Seq(In!KeyBytes), NEW s \in BOOLEAN, NEW k \in In!Typed \cup {None},
         hw' = [hw EXCEPT !.kout = m, !.shift = s], pc' = pc, kb' = kb, ms' = ms,
         sent' = IF k = None THEN sent ELSE Append(sent, k),
         \/ Len(m) = 1 /\ m[1].code # "e0" /\ ShiftBy(FALSE, hw.shift, m[1]) = s /\ Meant(FALSE, hw.shift, m[1]) = k
         \/ Len(m) = 2 /\ m[1].code = "e0" /\ ~ m[1].up /\ m[2].code # "e0" /\ s = hw.shift /\ HandBehind(m[2]) = k
  PROVE  HandInv'
<1>1. pc \in {"usb", "mouse", "kbd"} /\ kb \in Kbs /\ ms \in Mice /\ hw \in Hws /\ sent \in Seq(In!Typed)
  BY DEF HandInv, HandShapes
<1>2. /\ hw' \in Hws /\ hw'.kout = m /\ hw'.shift = s /\ hw'.obf = hw.obf /\ hw'.mout = hw.mout /\ hw'.seen = hw.seen /\ hw'.total = hw.total /\ hw'.ps2 = hw.ps2 /\ hw'.plug = hw.plug
  BY <1>1 DEF Hws
<1>3. HandShapes'
  BY <1>1, <1>2 DEF HandInv, HandShapes
<1>4. Framing' /\ Balance'
  BY <1>2, FramingStays DEF HandInv, Balance
<1>5. Reporting'
  BY <1>2, ReportingStays DEF HandInv
<1>6. Keying'
  <2>1. ~ Ext1 /\ Shift1 = hw.shift /\ Len(hw.kout) = 0
    BY DEF HandInv, Keying
  <2>2. Key2 = None
    BY <2>1 DEF Key2
  <2>3. sent = IF Key1 = None THEN <<>> ELSE <<Key1>>
    BY <2>2 DEF HandInv, Keying
  <2>4. KeyIn' = KeyIn
    BY <1>2 DEF KeyIn
  <2>5. Ext1' = Ext1 /\ Shift1' = Shift1 /\ Key1' = Key1
    BY <1>2, <2>4 DEF Ext1, Shift1, Key1
  <2>6. Ext1 = FALSE
    BY <1>1, <2>1 DEF Ext1, Kbs
  <2>7. Key2' = k
    <3>1. CASE Len(m) = 1
      <4>1. Key2' = Meant(Ext1', Shift1', m[1])
        BY <1>2, <3>1 DEF Key2
      <4> QED
        BY <3>1, <4>1, <2>5, <2>6, <2>1
    <3>2. CASE Len(m) = 2
      <4>1. Key2' = HandBehind(m[2])
        BY <1>2, <3>2 DEF Key2
      <4> QED
        BY <3>2, <4>1, <2>5, <2>1
    <3> QED
      BY <3>1, <3>2
  <2>8. sent' = IF Key1 = None THEN (IF k = None THEN <<>> ELSE <<k>>) ELSE (IF k = None THEN <<Key1>> ELSE <<Key1, k>>)
    <3>1. CASE Key1 = None
      BY <2>3, <3>1
    <3>2. CASE Key1 # None
      <4>1. sent = <<Key1>>
        BY <2>3, <3>2
      <4>2. CASE k = None
        BY <2>3, <3>2, <4>2
      <4>3. CASE k # None
        <5>1. Key1 \in In!Typed /\ k \in In!Typed
          BY <1>1, <4>1, <4>3, HandElement
        <5>2. Append(<<Key1>>, k) = <<Key1, k>>
          BY <5>1, Both
        <5> QED
          BY <4>1, <5>2, <3>2, <4>3
      <4> QED
        BY <4>2, <4>3
    <3> QED
      BY <3>1, <3>2
  <2>9. \/ Len(m) = 1 /\ m[1].code # "e0" /\ ShiftBy(Ext1', Shift1', m[1]) = s
        \/ Len(m) = 2 /\ m[1].code = "e0" /\ ~ m[1].up /\ m[2].code # "e0" /\ Shift1' = s
    BY <2>1, <2>5, <2>6
  <2> QED
    BY <1>2, <2>5, <2>7, <2>8, <2>9 DEF Keying
<1> QED
  BY <1>3, <1>4, <1>5, <1>6 DEF HandInv
LEMMA MessageIs ==
  ASSUME In!ConstantsOK, NEW k \in In!Keys, NEW b \in In!KeyBytes
  PROVE  /\ In!Prefix(k) \o <<b>> \in Seq(In!KeyBytes)
         /\ k \notin In!Extended => Len(In!Prefix(k) \o <<b>>) = 1 /\ (In!Prefix(k) \o <<b>>)[1] = b
         /\ k \in In!Extended => /\ Len(In!Prefix(k) \o <<b>>) = 2 /\ (In!Prefix(k) \o <<b>>)[2] = b
                                 /\ (In!Prefix(k) \o <<b>>)[1].code = "e0" /\ ~ (In!Prefix(k) \o <<b>>)[1].up
<1> DEFINE e == In!Scan("e0", FALSE)
<1>1. e \in In!KeyBytes /\ e.code = "e0" /\ ~ e.up
  BY DEF In!Scan, In!KeyBytes
<1>2. <<b>> \in Seq(In!KeyBytes) /\ Len(<<b>>) = 1 /\ <<b>>[1] = b
  OBVIOUS
<1>3. In!Prefix(k) = IF k \in In!Extended THEN <<e>> ELSE <<>>
  BY DEF In!Prefix
<1> HIDE DEF e
<1>4. CASE k \in In!Extended
  <2>1. <<e>> \in Seq(In!KeyBytes) /\ Len(<<e>>) = 1 /\ <<e>>[1] = e
    BY <1>1
  <2> QED
    BY <1>1, <1>2, <1>3, <1>4, <2>1
<1>5. CASE k \notin In!Extended
  <2>1. <<>> \in Seq(In!KeyBytes) /\ Len(<<>>) = 0
    OBVIOUS
  <2> QED
    BY <1>2, <1>3, <1>5, <2>1
<1> QED
  BY <1>4, <1>5

LEMMA PressInv == ASSUME In!ConstantsOK, HandInv, NEW k \in In!Keys \ {"b"}, In!PressPs2(k) PROVE HandInv'
<1> DEFINE b == In!Scan(k, FALSE)
<1> DEFINE m == In!Prefix(k) \o <<b>>
<1> DEFINE t == [key |-> k, shift |-> hw.shift /\ k \notin In!Extended]
<1>1. hw \in Hws /\ hw.shift \in BOOLEAN
  BY DEF HandInv, HandShapes, Hws
<1>2. b \in In!KeyBytes /\ b.code = k /\ ~ b.up /\ k \in In!Keys /\ k # "e0" /\ k # "shift"
  BY DEF In!Scan, In!KeyBytes, In!Keys
<1>3. hw.kout = <<>> /\ hw' = [hw EXCEPT !.kout = m] /\ pc' = pc /\ kb' = kb /\ ms' = ms /\ sent' = Append(sent, t)
  BY DEF In!PressPs2, In!Says
<1>4. t \in In!Typed /\ t # None
  <2>1. (hw.shift /\ k \notin In!Extended) \in BOOLEAN
    OBVIOUS
  <2>2. t \in In!Typed
    BY <1>2, <2>1 DEF In!Typed
  <2> HIDE DEF t
  <2> QED
    BY <2>2 DEF In!ConstantsOK
<1>5. /\ k \notin In!Extended => ShiftBy(FALSE, hw.shift, b) = hw.shift /\ Meant(FALSE, hw.shift, b) = t
      /\ k \in In!Extended => HandBehind(b) = t
  BY <1>1, <1>2 DEF ShiftBy, Meant, HandBehind
<1> HIDE DEF b, t
<1>6. /\ m \in Seq(In!KeyBytes) /\ (k \notin In!Extended => Len(m) = 1 /\ m[1] = b)
      /\ k \in In!Extended => Len(m) = 2 /\ m[2] = b /\ m[1].code = "e0" /\ ~ m[1].up
  BY <1>2, MessageIs
<1> HIDE DEF m
<1>7. hw' = [hw EXCEPT !.kout = m, !.shift = hw.shift]
  BY <1>1, <1>3 DEF Hws
<1>8. sent' = IF t = None THEN sent ELSE Append(sent, t)
  BY <1>3, <1>4
<1>9. \/ Len(m) = 1 /\ m[1].code # "e0" /\ ShiftBy(FALSE, hw.shift, m[1]) = hw.shift /\ Meant(FALSE, hw.shift, m[1]) = t
      \/ Len(m) = 2 /\ m[1].code = "e0" /\ ~ m[1].up /\ m[2].code # "e0" /\ hw.shift = hw.shift /\ HandBehind(m[2]) = t
  BY <1>2, <1>5, <1>6
<1> QED
  BY <1>1, <1>3, <1>4, <1>6, <1>7, <1>8, <1>9, SaysInv

LEMMA ReleaseInv == ASSUME In!ConstantsOK, HandInv, NEW k \in In!Keys \ {"b"}, In!ReleasePs2(k) PROVE HandInv'
<1> DEFINE b == In!Scan(k, TRUE)
<1> DEFINE m == In!Prefix(k) \o <<b>>
<1>1. hw \in Hws /\ hw.shift \in BOOLEAN
  BY DEF HandInv, HandShapes, Hws
<1>2. b \in In!KeyBytes /\ b.code = k /\ b.up /\ k \in In!Keys /\ k # "e0" /\ k # "shift"
  BY DEF In!Scan, In!KeyBytes, In!Keys
<1>3. hw.kout = <<>> /\ hw' = [hw EXCEPT !.kout = m] /\ pc' = pc /\ kb' = kb /\ ms' = ms /\ sent' = sent
  BY DEF In!ReleasePs2, In!Says
<1>4. None \in In!Typed \cup {None}
  OBVIOUS
<1>5. ShiftBy(FALSE, hw.shift, b) = hw.shift /\ Meant(FALSE, hw.shift, b) = None /\ HandBehind(b) = None
  BY <1>1, <1>2 DEF ShiftBy, Meant, HandBehind
<1> HIDE DEF b
<1>6. /\ m \in Seq(In!KeyBytes) /\ (k \notin In!Extended => Len(m) = 1 /\ m[1] = b)
      /\ k \in In!Extended => Len(m) = 2 /\ m[2] = b /\ m[1].code = "e0" /\ ~ m[1].up
  BY <1>2, MessageIs
<1> HIDE DEF m
<1>7. hw' = [hw EXCEPT !.kout = m, !.shift = hw.shift]
  BY <1>1, <1>3 DEF Hws
<1>8. sent' = IF None = None THEN sent ELSE Append(sent, None)
  BY <1>3
<1>9. \/ Len(m) = 1 /\ m[1].code # "e0" /\ ShiftBy(FALSE, hw.shift, m[1]) = hw.shift /\ Meant(FALSE, hw.shift, m[1]) = None
      \/ Len(m) = 2 /\ m[1].code = "e0" /\ ~ m[1].up /\ m[2].code # "e0" /\ hw.shift = hw.shift /\ HandBehind(m[2]) = None
  BY <1>2, <1>5, <1>6
<1> QED
  BY <1>1, <1>3, <1>4, <1>6, <1>7, <1>8, <1>9, SaysInv

LEMMA ShiftInv == ASSUME In!ConstantsOK, HandInv, NEW f \in BOOLEAN, In!Shift(f) PROVE HandInv'
<1> DEFINE b == In!Scan("shift", hw.shift)
<1> DEFINE e == In!Scan("e0", FALSE)
<1>1. hw \in Hws /\ hw.shift \in BOOLEAN
  BY DEF HandInv, HandShapes, Hws
<1>2. b \in In!KeyBytes /\ b.code = "shift" /\ b.up = hw.shift /\ e \in In!KeyBytes /\ e.code = "e0" /\ ~ e.up
  BY <1>1 DEF In!Scan, In!KeyBytes
<1>3. hw.kout = <<>> /\ pc' = pc /\ kb' = kb /\ ms' = ms /\ sent' = sent
  BY DEF In!Shift, In!Says
<1>4. None \in In!Typed \cup {None} /\ sent' = IF None = None THEN sent ELSE Append(sent, None)
  BY <1>3
<1>5. Meant(FALSE, hw.shift, b) = None /\ HandBehind(b) = None /\ ShiftBy(FALSE, hw.shift, b) = ~ hw.shift
  BY <1>2 DEF Meant, HandBehind, ShiftBy
<1>6. CASE f
  <2> DEFINE m == <<e, b>>
  <2>1. hw' = [hw EXCEPT !.kout = m]
    BY <1>6 DEF In!Shift, In!Says
  <2> HIDE DEF b, e
  <2>2. m \in Seq(In!KeyBytes) /\ Len(m) = 2 /\ m[1] = e /\ m[2] = b
    BY <1>2
  <2> HIDE DEF m
  <2>3. hw' = [hw EXCEPT !.kout = m, !.shift = hw.shift]
    BY <1>1, <2>1 DEF Hws
  <2>4. \/ Len(m) = 1 /\ m[1].code # "e0" /\ ShiftBy(FALSE, hw.shift, m[1]) = hw.shift /\ Meant(FALSE, hw.shift, m[1]) = None
        \/ Len(m) = 2 /\ m[1].code = "e0" /\ ~ m[1].up /\ m[2].code # "e0" /\ hw.shift = hw.shift /\ HandBehind(m[2]) = None
    BY <1>2, <1>5, <2>2
  <2> QED
    BY <1>1, <1>3, <1>4, <2>2, <2>3, <2>4, SaysInv
<1>7. CASE ~ f
  <2> DEFINE m == <<b>>
  <2> DEFINE s == ~ hw.shift
  <2>1. hw' = [hw EXCEPT !.kout = m, !.shift = s]
    BY <1>7 DEF In!Shift
  <2> HIDE DEF b, e
  <2>2. m \in Seq(In!KeyBytes) /\ Len(m) = 1 /\ m[1] = b
    BY <1>2
  <2>3. s \in BOOLEAN /\ ShiftBy(FALSE, hw.shift, b) = s
    BY <1>5
  <2> HIDE DEF m, s
  <2>4. \/ Len(m) = 1 /\ m[1].code # "e0" /\ ShiftBy(FALSE, hw.shift, m[1]) = s /\ Meant(FALSE, hw.shift, m[1]) = None
        \/ Len(m) = 2 /\ m[1].code = "e0" /\ ~ m[1].up /\ m[2].code # "e0" /\ s = hw.shift /\ HandBehind(m[2]) = None
    BY <1>2, <1>5, <2>2, <2>3
  <2> QED
    BY <1>1, <1>3, <1>4, <2>1, <2>2, <2>3, <2>4, SaysInv
<1> QED
  BY <1>6, <1>7
(* The numbers the balance adds. *)
LEMMA BytesAre ==
  /\ \A b \in In!MouseBytes : b.aux /\ b.d \in Int /\ b.at \in 1 .. 3 /\ b.bit3 \in BOOLEAN /\ b.left \in BOOLEAN
  /\ \A b \in In!KeyBytes : ~ b.aux /\ b.up \in BOOLEAN
  BY DEF In!MouseBytes, In!KeyBytes
LEMMA BalanceInts ==
  ASSUME In!ConstantsOK, HandShapes, Framing
  PROVE  /\ InPacket \in Int /\ InBuffer \in Int /\ ToCome \in Int
         /\ ms.moved \in Int /\ ms.rem \in Int /\ ms.acc \in Int /\ ms.usb \in Int /\ hw.total \in Int
         /\ Len(ms.pkt) \in {0, 1, 2} /\ HandAfter \in {1, 2, 3}
<1>1. ms \in Mice /\ hw \in Hws /\ ms.pkt \in Seq(In!MouseBytes) /\ hw.mout \in Seq(In!MouseBytes) /\ hw.obf \in In!MouseBytes \cup In!KeyBytes \cup {None}
  BY DEF HandShapes, Mice, Hws
<1>2. InPacket \in Int
  <2>1. Len(ms.pkt) = 2 => ms.pkt[2] \in In!MouseBytes
    BY <1>1
  <2> QED
    BY <2>1, BytesAre DEF InPacket
<1>3. InBuffer \in Int
  <2>1. AuxIn => hw.obf \in In!MouseBytes
    BY <1>1, BytesAre DEF AuxIn
  <2> QED
    BY <2>1, BytesAre DEF InBuffer
<1>4. Len(ms.pkt) \in {0, 1, 2}
  <2> DEFINE n == Len(ms.pkt)
  <2>1. n <= 2
    BY DEF Framing
  <2>2. n \in Nat
    BY <1>1
  <2> HIDE DEF n
  <2>3. n \in {0, 1, 2}
    BY <2>1, <2>2
  <2> QED
    BY <2>3 DEF n
<1>5. HandAfter \in {1, 2, 3}
  <2> DEFINE n == Len(ms.pkt)
  <2>1. n \in {0, 1, 2}
    BY <1>4
  <2>2. HandAfter = IF AuxIn THEN (IF n = 2 THEN 1 ELSE n + 2) ELSE n + 1
    BY DEF HandAfter
  <2> HIDE DEF n
  <2> QED
    BY <2>1, <2>2
<1>6. ToCome \in Int
  <2>1. hw.mout # <<>> /\ HandAfter # 3 => 3 - HandAfter \in 1 .. Len(hw.mout)
    BY <1>5 DEF Framing
  <2>2. hw.mout # <<>> /\ HandAfter # 3 => hw.mout[3 - HandAfter] \in In!MouseBytes
    BY <1>1, <2>1
  <2> QED
    BY <2>2, BytesAre DEF ToCome
<1> QED
  BY <1>1, <1>2, <1>3, <1>4, <1>5, <1>6 DEF Mice, Hws

LEMMA NotEmpty == ASSUME NEW s, Len(s) = 3 PROVE s # <<>>
  OBVIOUS
LEMMA MoveInv == ASSUME In!ConstantsOK, HandInv, NEW d \in {-1, 1}, NEW f \in BOOLEAN, In!MovePs2(d, f, f) PROVE HandInv'
<1> DEFINE p == <<In!Byte1(f), In!Moved(2, d, f), In!Moved(3, 0, f)>>
<1>1. pc \in {"usb", "mouse", "kbd"} /\ kb \in Kbs /\ ms \in Mice /\ hw \in Hws /\ hw.total \in Int
  BY DEF HandInv, HandShapes, Hws
<1>2. In!Byte1(f) \in In!MouseBytes /\ In!Moved(2, d, f) \in In!MouseBytes /\ In!Moved(3, 0, f) \in In!MouseBytes
  BY DEF In!Byte1, In!Moved, In!MouseBytes
<1>3. p \in Seq(In!MouseBytes) /\ Len(p) = 3 /\ Nth(p[1], 1) /\ Nth(p[2], 2) /\ Nth(p[3], 3) /\ p[2].d = d
  <2>1. p \in Seq(In!MouseBytes) /\ Len(p) = 3
    BY <1>2
  <2>2. p[1] = In!Byte1(f) /\ p[2] = In!Moved(2, d, f) /\ p[3] = In!Moved(3, 0, f)
    OBVIOUS
  <2>3. Nth(In!Byte1(f), 1) /\ Nth(In!Moved(2, d, f), 2) /\ Nth(In!Moved(3, 0, f), 3) /\ In!Moved(2, d, f).d = d
    <3>1. In!Byte1(f).at = 1 /\ In!Byte1(f).bit3 /\ In!Byte1(f).d = 0
      BY DEF In!Byte1
    <3>2. In!Moved(2, d, f).at = 2 /\ In!Moved(2, d, f).d = d /\ In!Moved(3, 0, f).at = 3 /\ In!Moved(3, 0, f).d = 0
      BY DEF In!Moved
    <3> QED
      BY <3>1, <3>2 DEF Nth
  <2> QED
    BY <2>1, <2>2, <2>3
<1>4. hw.mout = <<>> /\ hw' = [hw EXCEPT !.mout = p, !.total = @ + d] /\ pc' = pc /\ kb' = kb /\ ms' = ms /\ sent' = sent
  BY DEF In!MovePs2
<1> HIDE DEF p
<1>5. /\ hw' \in Hws /\ hw'.mout = p /\ hw'.obf = hw.obf /\ hw'.kout = hw.kout /\ hw'.shift = hw.shift /\ hw'.seen = hw.seen
      /\ hw'.total = hw.total + d /\ hw'.ps2 = hw.ps2 /\ hw'.plug = hw.plug
  <2>1. hw.total + d \in Int
    BY <1>1
  <2> QED
    BY <1>1, <1>3, <1>4, <2>1 DEF Hws
<1>6. HandShapes'
  BY <1>1, <1>4, <1>5 DEF HandInv, HandShapes
<1>7. AuxIn' = AuxIn /\ HandAfter' = HandAfter /\ HandAfter = 1
  BY <1>4, <1>5 DEF AuxIn, HandAfter, HandInv, Framing
<1>8. Framing'
  <2>1. hw'.mout # <<>> /\ Len(hw'.mout) = 4 - HandAfter' /\ \A i \in 1 .. Len(hw'.mout) : Nth(hw'.mout[i], HandAfter' + i - 1)
    <3>1. p # <<>> /\ HandAfter' = 1 /\ Len(p) = 3
      <4>1. HandAfter' = 1
        BY <1>7
      <4>2. Len(p) = 3
        BY <1>3
      <4>3. p # <<>>
        BY <4>2, NotEmpty
      <4> QED
        BY <4>1, <4>2, <4>3
    <3>2. ASSUME NEW i \in 1 .. 3 PROVE Nth(p[i], HandAfter' + i - 1)
      <4>1. HandAfter' + i - 1 = i /\ i \in {1, 2, 3}
        BY <3>1
      <4> QED
        BY <1>3, <4>1
    <3> QED
      BY <1>5, <3>1, <3>2
  <2>2. ms'.pkt = ms.pkt
    BY <1>4
  <2> QED
    BY <1>5, <1>7, <2>1, <2>2 DEF Framing, HandInv
<1>9. InPacket' = InPacket /\ InBuffer' = InBuffer /\ ToCome = 0 /\ ToCome' = d
  <2>1. hw'.mout # <<>> /\ HandAfter' # 3 /\ 3 - HandAfter' = 2
    <3>1. p # <<>> /\ HandAfter' = 1
      <4>1. HandAfter' = 1
        BY <1>7
      <4>2. Len(p) = 3
        BY <1>3
      <4>3. p # <<>>
        BY <4>2, NotEmpty
      <4> QED
        BY <4>1, <4>2, <4>3
    <3> QED
      BY <1>5, <3>1
  <2>2. ToCome' = d
    BY <1>3, <1>5, <2>1 DEF ToCome
  <2> QED
    BY <1>4, <1>5, <1>7, <2>2 DEF InPacket, InBuffer, ToCome
<1>10. Balance'
  <2>1. hw.total = 2 * ms.moved + ms.rem + ms.acc + ms.usb + InPacket + InBuffer + ToCome /\ ms.rem \in -1 .. 1 /\ (pc # "mouse" => ms.acc = 0)
    BY DEF HandInv, Balance
  <2>2. InPacket \in Int /\ InBuffer \in Int /\ ms.moved \in Int /\ ms.rem \in Int /\ ms.acc \in Int /\ ms.usb \in Int
    BY BalanceInts DEF HandInv
  <2>4. hw'.total = 2 * ms.moved + ms.rem + ms.acc + ms.usb + InPacket + InBuffer + d
    BY <1>5, <1>9, <2>1, <2>2
  <2> QED
    BY <1>4, <1>9, <2>1, <2>4 DEF Balance
<1>11. Keying' /\ Reporting'
  BY <1>4, <1>5, KeyingStays, ReportingStays DEF HandInv
<1> QED
  BY <1>6, <1>8, <1>10, <1>11 DEF HandInv
LEMMA Pieces ==
  ASSUME HandInv
  PROVE  /\ pc \in {"usb", "mouse", "kbd"} /\ kb \in Kbs /\ ms \in Mice /\ hw \in Hws /\ sent \in Seq(In!Typed) /\ Len(kb.q) <= Queue
         /\ ms.pkt \in Seq(In!MouseBytes) /\ hw.mout \in Seq(In!MouseBytes) /\ hw.kout \in Seq(In!KeyBytes)
         /\ hw.obf \in In!MouseBytes \cup In!KeyBytes \cup {None}
         /\ hw.total = 2 * ms.moved + ms.rem + ms.acc + ms.usb + InPacket + InBuffer + ToCome
         /\ ms.rem \in -1 .. 1 /\ (pc # "mouse" => ms.acc = 0)
  BY DEF HandInv, HandShapes, Mice, Hws, Balance

LEMMA HeadTail ==
  ASSUME NEW S, NEW s \in Seq(S), s # <<>>
  PROVE  /\ Head(s) \in S /\ Head(s) = s[1] /\ Tail(s) \in Seq(S) /\ Len(s) \in Nat /\ Len(s) > 0
         /\ Len(Tail(s)) = Len(s) - 1 /\ \A i \in 1 .. Len(s) - 1 : Tail(s)[i] = s[i + 1]
  OBVIOUS

(* The controller takes the next byte of the mouse, or of the keyboard. *)
LEMMA LoadAuxInv == ASSUME In!ConstantsOK, HandInv, NEW f \in BOOLEAN, f, In!LoadByte(f) PROVE HandInv'
<1> DEFINE b == Head(hw.mout)
<1> DEFINE t == Tail(hw.mout)
<1> DEFINE n == Len(ms.pkt)
<1>1. hw.obf = None /\ hw.mout # <<>> /\ hw' = [hw EXCEPT !.obf = b, !.mout = t] /\ pc' = pc /\ kb' = kb /\ ms' = ms /\ sent' = sent
  BY DEF In!LoadByte
<1>2. /\ b \in In!MouseBytes /\ b = hw.mout[1] /\ t \in Seq(In!MouseBytes) /\ Len(t) = Len(hw.mout) - 1 /\ Len(hw.mout) \in Nat
      /\ \A i \in 1 .. Len(hw.mout) - 1 : t[i] = hw.mout[i + 1]
  BY <1>1, Pieces, HeadTail
<1>3. n \in {0, 1, 2}
  BY BalanceInts DEF HandInv
<1>4. ~ AuxIn /\ HandAfter = n + 1
  BY <1>1 DEF AuxIn, HandAfter
<1>5. Len(hw.mout) = 3 - n /\ \A i \in 1 .. 3 - n : Nth(hw.mout[i], n + i)
  <2>1. Len(hw.mout) = 4 - HandAfter /\ \A i \in 1 .. Len(hw.mout) : Nth(hw.mout[i], HandAfter + i - 1)
    BY <1>1 DEF HandInv, Framing
  <2>2. Len(hw.mout) = 3 - n
    BY <2>1, <1>3, <1>4
  <2>3. ASSUME NEW i \in 1 .. 3 - n PROVE Nth(hw.mout[i], n + i)
    <3>1. HandAfter + i - 1 = n + i
      BY <1>3, <1>4
    <3> QED
      BY <2>1, <2>2, <3>1
  <2> QED
    BY <2>2, <2>3
<1> HIDE DEF b, t, n
<1>6. /\ hw' \in Hws /\ hw'.mout = t /\ hw'.obf = b /\ hw'.kout = hw.kout /\ hw'.shift = hw.shift /\ hw'.seen = hw.seen
      /\ hw'.total = hw.total /\ hw'.ps2 = hw.ps2 /\ hw'.plug = hw.plug
  BY <1>1, <1>2, Pieces DEF Hws
<1>7. HandShapes'
  BY <1>1, <1>6, Pieces DEF HandShapes
<1>8. AuxIn' /\ b.aux /\ b # None /\ HandAfter' = IF n = 2 THEN 1 ELSE n + 2
  <2>1. b.aux /\ b # None
    BY <1>2, BytesAre DEF In!ConstantsOK
  <2>2. AuxIn'
    BY <1>6, <2>1 DEF AuxIn
  <2> QED
    BY <1>1, <2>1, <2>2 DEF HandAfter, n
<1>9. Nth(b, n + 1)
  <2>1. 1 \in 1 .. 3 - n
    BY <1>3
  <2> QED
    BY <1>2, <1>5, <2>1
<1>10. IF t = <<>> THEN HandAfter' = 1 ELSE Len(t) = 4 - HandAfter' /\ \A i \in 1 .. Len(t) : Nth(t[i], HandAfter' + i - 1)
  <2>1. Len(t) = 2 - n
    BY <1>2, <1>3, <1>5
  <2>2. CASE n = 2
    <3>1. t = <<>>
      BY <1>2, <2>1, <2>2
    <3> QED
      BY <1>8, <2>2, <3>1
  <2>3. CASE n # 2
    <3>1. Len(<<>>) = 0
      OBVIOUS
    <3>2. HandAfter' = n + 2 /\ n \in {0, 1}
      BY <1>3, <1>8, <2>3
    <3>3. t # <<>> /\ Len(t) = 4 - HandAfter'
      BY <2>1, <3>1, <3>2
    <3>4. ASSUME NEW i \in 1 .. Len(t) PROVE Nth(t[i], HandAfter' + i - 1)
      <4>1. i \in 1 .. Len(hw.mout) - 1 /\ i + 1 \in 1 .. 3 - n /\ n + (i + 1) = HandAfter' + i - 1
        BY <1>2, <1>5, <2>1, <3>2
      <4>2. Nth(hw.mout[i + 1], n + (i + 1))
        BY <1>5, <4>1
      <4> QED
        BY <1>2, <4>1, <4>2
    <3> QED
      BY <3>3, <3>4
  <2> QED
    BY <2>2, <2>3
<1>11. Framing'
  BY <1>1, <1>6, <1>8, <1>9, <1>10 DEF Framing, HandInv, n
<1>12. InPacket' = InPacket /\ InBuffer = 0 /\ InBuffer' = b.d
  BY <1>1, <1>4, <1>6, <1>8 DEF InPacket, InBuffer
<1>13. b.d + ToCome' = ToCome /\ ToCome' \in Int
  <2>1. ToCome = IF n = 2 THEN 0 ELSE hw.mout[2 - n].d
    <3>1. (HandAfter = 3 <=> n = 2) /\ 3 - HandAfter = 2 - n
      BY <1>3, <1>4
    <3> QED
      BY <1>1, <3>1 DEF ToCome
  <2>2. ToCome' = IF t = <<>> \/ n = 1 THEN 0 ELSE t[3 - HandAfter'].d
    <3>1. t = <<>> \/ (n # 2 /\ HandAfter' = n + 2)
      <4>1. n = 2 => t = <<>>
        BY <1>2, <1>5
      <4> QED
        BY <1>8, <4>1
    <3>2. n # 2 /\ HandAfter' = n + 2 => (HandAfter' = 3 <=> n = 1)
      BY <1>3
    <3> QED
      BY <1>6, <3>1, <3>2 DEF ToCome
  <2>3. b.d \in Int /\ (n + 1 # 2 => b.d = 0)
    BY <1>2, <1>9, BytesAre DEF Nth
  <2>4. CASE n = 0
    <3>1. t # <<>> /\ HandAfter' = 2
      <4>1. Len(<<>>) = 0 /\ Len(t) = 2
        BY <1>2, <1>5, <2>4
      <4> QED
        BY <1>8, <2>4, <4>1
    <3>2. t[1] = hw.mout[2] /\ ToCome = hw.mout[2].d /\ ToCome' = t[1].d
      BY <1>2, <1>5, <2>1, <2>2, <2>4, <3>1
    <3>3. hw.mout[2] \in In!MouseBytes /\ b.d = 0
      BY <1>5, <2>3, <2>4, Pieces
    <3> QED
      BY <3>2, <3>3, BytesAre
  <2>5. CASE n = 1
    BY <1>2, <2>1, <2>2, <2>3, <2>5
  <2>6. CASE n = 2
    <3>1. t = <<>>
      BY <1>2, <1>5, <2>6
    <3> QED
      BY <2>1, <2>2, <2>3, <2>6, <3>1
  <2> QED
    BY <1>3, <2>4, <2>5, <2>6
<1>14. Balance'
  <2>1. b.d \in Int /\ hw.total = 2 * ms.moved + ms.rem + ms.acc + ms.usb + InPacket + InBuffer + ToCome
    BY <1>2, BytesAre, Pieces
  <2>2. /\ InPacket \in Int /\ InBuffer \in Int /\ ToCome \in Int
        /\ ms.moved \in Int /\ ms.rem \in Int /\ ms.acc \in Int /\ ms.usb \in Int
    BY BalanceInts DEF HandInv
  <2>3. hw'.total = 2 * ms.moved + ms.rem + ms.acc + ms.usb + InPacket + b.d + ToCome'
    <3>1. hw'.total = 2 * ms.moved + ms.rem + ms.acc + ms.usb + InPacket + ToCome
      BY <1>6, <1>12, <2>1, <2>2
    <3> QED
      BY <1>13, <2>1, <2>2, <3>1
  <2> QED
    BY <1>1, <1>12, <2>3, Pieces DEF Balance
<1>15. Keying'
  <2>1. ~ KeyIn /\ ~ KeyIn'
    BY <1>1, <1>6, <1>8 DEF KeyIn
  <2>2. Ext1' = Ext1 /\ Shift1' = Shift1 /\ Key1' = Key1
    BY <1>1, <2>1 DEF Ext1, Shift1, Key1
  <2>3. Key2' = Key2
    BY <1>6, <2>2 DEF Key2
  <2>4. Keying
    BY DEF HandInv
  <2> QED
    BY <1>1, <1>6, <2>2, <2>3, <2>4 DEF Keying
<1>16. Reporting'
  BY <1>1, <1>6, ReportingStays DEF HandInv
<1> QED
  BY <1>7, <1>11, <1>14, <1>15, <1>16 DEF HandInv
LEMMA LoadKeyInv == ASSUME In!ConstantsOK, HandInv, NEW f \in BOOLEAN, ~ f, In!LoadByte(f) PROVE HandInv'
<1> DEFINE b == Head(hw.kout)
<1> DEFINE t == Tail(hw.kout)
<1>1. hw.obf = None /\ hw.kout # <<>> /\ hw' = [hw EXCEPT !.obf = b, !.kout = t] /\ pc' = pc /\ kb' = kb /\ ms' = ms /\ sent' = sent
  BY DEF In!LoadByte
<1>2. /\ b \in In!KeyBytes /\ b = hw.kout[1] /\ t \in Seq(In!KeyBytes) /\ Len(t) = Len(hw.kout) - 1 /\ Len(hw.kout) \in Nat
      /\ \A i \in 1 .. Len(hw.kout) - 1 : t[i] = hw.kout[i + 1]
  BY <1>1, Pieces, HeadTail
<1> HIDE DEF b, t
<1>3. /\ hw' \in Hws /\ hw'.mout = hw.mout /\ hw'.obf = b /\ hw'.kout = t /\ hw'.shift = hw.shift /\ hw'.seen = hw.seen
      /\ hw'.total = hw.total /\ hw'.ps2 = hw.ps2 /\ hw'.plug = hw.plug
  BY <1>1, <1>2, Pieces DEF Hws
<1>4. HandShapes'
  BY <1>1, <1>3, Pieces DEF HandShapes
<1>5. ~ b.aux /\ b # None
  BY <1>2, BytesAre DEF In!ConstantsOK
<1>6. ~ AuxIn /\ ~ AuxIn' /\ ~ KeyIn /\ KeyIn'
  BY <1>1, <1>3, <1>5 DEF AuxIn, KeyIn
<1>7. HandAfter' = HandAfter
  BY <1>1, <1>6 DEF HandAfter
<1>8. Framing'
  BY <1>1, <1>3, <1>6, <1>7 DEF Framing, HandInv
<1>9. InPacket' = InPacket /\ InBuffer' = InBuffer /\ ToCome' = ToCome
  BY <1>1, <1>3, <1>6, <1>7 DEF InPacket, InBuffer, ToCome
<1>10. Balance'
  BY <1>1, <1>3, <1>9, Pieces DEF Balance
<1>11. Keying'
  <2>1. Ext1 = kb.ext /\ Shift1 = hw.ps2 /\ Key1 = None
    BY <1>6 DEF Ext1, Shift1, Key1
  <2>2. Ext1' = (b.code = "e0") /\ Shift1' = ShiftBy(kb.ext, hw.ps2, b) /\ Key1' = Meant(kb.ext, hw.ps2, b)
    BY <1>1, <1>3, <1>6 DEF Ext1, Shift1, Key1
  <2>3. sent = IF Key2 = None THEN <<>> ELSE <<Key2>>
    BY <2>1 DEF HandInv, Keying
  <2>4. CASE Len(hw.kout) = 1
    <3>1. t = <<>> /\ Len(t) = 0
      BY <1>2, <2>4
    <3>2. b.code # "e0" /\ ShiftBy(kb.ext, hw.ps2, b) = hw.shift
      BY <1>2, <2>1, <2>4 DEF HandInv, Keying
    <3>3. Key2 = Meant(kb.ext, hw.ps2, b)
      BY <1>2, <2>1, <2>4 DEF Key2
    <3>4. Key2' = None
      BY <1>3, <3>1 DEF Key2
    <3> QED
      BY <1>1, <1>3, <2>2, <2>3, <3>1, <3>2, <3>3, <3>4 DEF Keying
  <2>5. CASE Len(hw.kout) = 2
    <3>1. b.code = "e0" /\ hw.kout[2].code # "e0" /\ hw.ps2 = hw.shift
      BY <1>1, <1>2, <2>1, <2>5 DEF HandInv, Keying
    <3>2. Len(t) = 1 /\ t[1] = hw.kout[2]
      BY <1>2, <2>5
    <3>3. Key2 = HandBehind(t[1])
      BY <2>5, <3>2 DEF Key2
    <3>4. Ext1' /\ Shift1' = hw.ps2 /\ Key1' = None
      BY <2>2, <3>1 DEF ShiftBy, Meant, HandBehind
    <3>5. Key2' = HandBehind(t[1])
      BY <1>3, <3>2, <3>4 DEF Key2, Meant
    <3>6. ShiftBy(Ext1', Shift1', t[1]) = hw.shift
      BY <3>1, <3>4 DEF ShiftBy
    <3> QED
      BY <1>1, <1>3, <2>3, <3>1, <3>2, <3>3, <3>4, <3>5, <3>6 DEF Keying
  <2>6. Len(hw.kout) = 1 \/ Len(hw.kout) = 2
    BY <1>1 DEF HandInv, Keying
  <2> QED
    BY <2>4, <2>5, <2>6
<1>12. Reporting'
  BY <1>1, <1>3, ReportingStays DEF HandInv
<1> QED
  BY <1>4, <1>8, <1>10, <1>11, <1>12 DEF HandInv

LEMMA HoldInv == ASSUME In!ConstantsOK, HandInv, NEW k \in In!Keys \ {"up"}, In!HoldUsb(k) PROVE HandInv'
<1>1. /\ hw' \in Hws /\ hw'.mout = hw.mout /\ hw'.obf = hw.obf /\ hw'.kout = hw.kout /\ hw'.shift = hw.shift /\ hw'.seen = hw.seen
      /\ hw'.total = hw.total /\ hw'.ps2 = hw.ps2 /\ hw'.plug = hw.plug /\ pc' = pc /\ kb' = kb /\ ms' = ms /\ sent' = sent
  <2> DEFINE h == IF k \in hw.held THEN hw.held \ {k} ELSE hw.held \cup {k}
  <2>1. hw' = [hw EXCEPT !.held = h] /\ pc' = pc /\ kb' = kb /\ ms' = ms /\ sent' = sent
    BY DEF In!HoldUsb
  <2>2. h \in SUBSET In!Keys
    BY Pieces DEF Hws
  <2> HIDE DEF h
  <2> QED
    BY <2>1, <2>2, Pieces DEF Hws
<1>2. HandShapes'
  BY <1>1, Pieces DEF HandShapes
<1>3. Framing' /\ Balance'
  BY <1>1, FramingStays DEF HandInv, Balance
<1>4. Keying' /\ Reporting'
  BY <1>1, KeyingStays, ReportingStays DEF HandInv
<1> QED
  BY <1>2, <1>3, <1>4 DEF HandInv

LEMMA ShiftUsbInv == ASSUME In!ConstantsOK, HandInv, In!ShiftUsb PROVE HandInv'
<1>1. /\ hw' \in Hws /\ hw'.mout = hw.mout /\ hw'.obf = hw.obf /\ hw'.kout = hw.kout /\ hw'.shift = hw.shift /\ hw'.seen = hw.seen
      /\ hw'.total = hw.total /\ hw'.ps2 = hw.ps2 /\ hw'.plug = hw.plug /\ pc' = pc /\ kb' = kb /\ ms' = ms /\ sent' = sent
  <2> DEFINE u == ~ hw.ushift
  <2>1. hw' = [hw EXCEPT !.ushift = u] /\ pc' = pc /\ kb' = kb /\ ms' = ms /\ sent' = sent
    BY DEF In!ShiftUsb
  <2>2. u \in BOOLEAN
    OBVIOUS
  <2> HIDE DEF u
  <2> QED
    BY <2>1, <2>2, Pieces DEF Hws
<1>2. HandShapes'
  BY <1>1, Pieces DEF HandShapes
<1>3. Framing' /\ Balance'
  BY <1>1, FramingStays DEF HandInv, Balance
<1>4. Keying' /\ Reporting'
  BY <1>1, KeyingStays, ReportingStays DEF HandInv
<1> QED
  BY <1>2, <1>3, <1>4 DEF HandInv

(* keyboard_inject() adds what it has room for, in order. *)
LEMMA InjectedIs ==
  ASSUME In!ConstantsOK, NEW q \in Seq(In!Typed), Len(q) <= Queue, NEW keys \in Seq(In!Typed)
  PROVE  /\ In!Injected(q, keys) \in Seq(In!Typed) /\ Len(In!Injected(q, keys)) <= Queue
         /\ \A i \in 1 .. Len(In!Injected(q, keys)) - Len(q) :
              i \in 1 .. Len(keys) /\ In!Injected(q, keys)[Len(q) + i] = keys[i]
<1> DEFINE both == q \o keys
<1> DEFINE n == IF Len(both) < Queue THEN Len(both) ELSE Queue
<1>1. both \in Seq(In!Typed) /\ Len(both) = Len(q) + Len(keys) /\ Len(q) \in Nat /\ Len(keys) \in Nat /\ Queue \in Nat
      /\ \A i \in 1 .. Len(keys) : both[Len(q) + i] = keys[i]
  BY DEF In!ConstantsOK
<1>2. In!Injected(q, keys) = SubSeq(both, 1, n)
  BY DEF In!Injected
<1> HIDE DEF both
<1>3. n \in Nat /\ n <= Len(both) /\ n <= Queue
  BY <1>1
<1> HIDE DEF n
<1>4. SubSeq(both, 1, n) \in Seq(In!Typed) /\ Len(SubSeq(both, 1, n)) = n /\ \A i \in 1 .. n : SubSeq(both, 1, n)[i] = both[i]
  BY <1>1, <1>3
<1>5. ASSUME NEW i \in 1 .. n - Len(q)
      PROVE  i \in 1 .. Len(keys) /\ SubSeq(both, 1, n)[Len(q) + i] = keys[i]
  <2>1. i \in 1 .. Len(keys) /\ Len(q) + i \in 1 .. n
    BY <1>1, <1>3
  <2> QED
    BY <1>1, <1>4, <2>1
<1> QED
  BY <1>2, <1>3, <1>4, <1>5
(* What a report adds to the queue are keys that are held and were not. *)
Added == LET new == SubSeq(kb'.q, Len(kb.q) + 1, Len(kb'.q))
         IN \A i \in DOMAIN new : new[i].key \in hw.held \ hw.seen
LEMMA KbdReportInv ==
  ASSUME In!ConstantsOK, HandInv, In!KbdReport PROVE HandInv' /\ (In!Cardinality(hw.seen) <= Fits => Added)
<1> DEFINE now == In!Reported(hw.held)
<1>1. hw.held \in SUBSET In!Keys /\ hw.seen \in SUBSET In!Keys /\ kb.q \in Seq(In!Typed) /\ hw.ushift \in BOOLEAN /\ "ukbd" \in hw.plug
  BY Pieces DEF Hws, Kbs, In!KbdReport
<1>2. PICK typed \in In!SetToSeqs(In!Fresh(now)) :
        kb' = [kb EXCEPT !.shift = hw.ushift, !.last = now, !.rep = In!Repeat(typed, now),
                         !.q = In!Injected(@, [i \in DOMAIN typed |-> [key |-> typed[i], shift |-> hw.ushift /\ typed[i] \notin In!Extended]])]
  BY DEF In!KbdReport
<1>3. hw' = [hw EXCEPT !.seen = hw.held] /\ pc' = pc /\ ms' = ms /\ sent' = sent
  BY DEF In!KbdReport
<1>4. now \subseteq hw.held /\ now \in SUBSET In!Keys
  BY <1>1 DEF In!Reported
<1>5. IsFiniteSet(In!Fresh(now)) /\ In!Cardinality(In!Fresh(now)) \in Nat
  <2>1. In!Fresh(now) \subseteq In!Keys
    BY <1>4 DEF In!Fresh
  <2>2. IsFiniteSet(In!Keys)
    <3>1. IsFiniteSet({"a"}) /\ IsFiniteSet({"b"}) /\ IsFiniteSet({"up"})
      BY FS_Singleton
    <3>2. In!Keys = ({"a"} \cup {"b"}) \cup {"up"}
      BY DEF In!Keys
    <3> QED
      BY <3>1, <3>2, FS_Union
  <2> QED
    BY <2>1, <2>2, HandCounts, FS_Subset, FS_CardinalityType
<1>6. typed \in [1 .. In!Cardinality(In!Fresh(now)) -> In!Fresh(now)]
  BY DEF In!SetToSeqs
<1>7. typed \in Seq(In!Fresh(now)) /\ DOMAIN typed = 1 .. Len(typed) /\ Len(typed) \in Nat
  BY <1>5, <1>6
<1> DEFINE keys == [i \in DOMAIN typed |-> [key |-> typed[i], shift |-> hw.ushift /\ typed[i] \notin In!Extended]]
<1>8. keys \in Seq(In!Typed) /\ Len(keys) = Len(typed) /\ \A i \in 1 .. Len(keys) : keys[i].key \in In!Fresh(now)
  <2>1. In!Fresh(now) \subseteq In!Keys
    BY <1>4 DEF In!Fresh
  <2>2. ASSUME NEW i \in 1 .. Len(typed) PROVE keys[i] \in In!Typed /\ keys[i].key = typed[i] /\ typed[i] \in In!Fresh(now)
    <3>1. typed[i] \in In!Fresh(now) /\ (hw.ushift /\ typed[i] \notin In!Extended) \in BOOLEAN
      BY <1>7
    <3>2. keys[i] = [key |-> typed[i], shift |-> hw.ushift /\ typed[i] \notin In!Extended]
      BY <1>7
    <3> QED
      BY <2>1, <3>1, <3>2 DEF In!Typed
  <2>3. DOMAIN keys = 1 .. Len(typed) /\ keys = [i \in 1 .. Len(typed) |-> keys[i]]
    BY <1>7
  <2> HIDE DEF keys
  <2>4. keys \in Seq(In!Typed) /\ Len(keys) = Len(typed)
    BY <1>7, <2>2, <2>3
  <2> QED
    BY <2>2, <2>4
<1> DEFINE q == In!Injected(kb.q, keys)
<1>9. kb' = [kb EXCEPT !.shift = hw.ushift, !.last = now, !.rep = In!Repeat(typed, now), !.q = q]
  BY <1>2
<1> HIDE DEF keys
<1>10. /\ q \in Seq(In!Typed) /\ Len(q) <= Queue
       /\ \A i \in 1 .. Len(q) - Len(kb.q) : i \in 1 .. Len(keys) /\ q[Len(kb.q) + i] = keys[i]
  BY <1>1, <1>8, InjectedIs, Pieces
<1> HIDE DEF q, now
<1>11. In!Repeat(typed, now) \in now \cup {None}
  <2>1. CASE typed # <<>>
    <3>1. Len(typed) \in 1 .. Len(typed) /\ In!Last(typed) = typed[Len(typed)]
      BY <1>7, <2>1 DEF In!Last
    <3>2. In!Last(typed) \in In!Fresh(now)
      BY <1>7, <3>1
    <3> QED
      BY <2>1, <3>2 DEF In!Repeat, In!Fresh
  <2>2. CASE typed = <<>>
    BY <2>2 DEF In!Repeat
  <2> QED
    BY <2>1, <2>2
<1>12. /\ kb' \in Kbs /\ kb'.q = q /\ kb'.last = now /\ kb'.rep = In!Repeat(typed, now) /\ kb'.ext = kb.ext
  <2>1. In!Repeat(typed, now) \in In!Keys \cup {None}
    BY <1>4, <1>11
  <2> QED
    BY <1>1, <1>4, <1>9, <1>10, <2>1, Pieces DEF Kbs
<1>13. /\ hw' \in Hws /\ hw'.mout = hw.mout /\ hw'.obf = hw.obf /\ hw'.kout = hw.kout /\ hw'.shift = hw.shift /\ hw'.seen = hw.held
       /\ hw'.total = hw.total /\ hw'.ps2 = hw.ps2 /\ hw'.plug = hw.plug
  BY <1>1, <1>3, Pieces DEF Hws
<1>14. HandShapes'
  BY <1>3, <1>10, <1>12, <1>13, Pieces DEF HandShapes
<1>15. Framing' /\ Balance'
  BY <1>3, <1>13, FramingStays DEF HandInv, Balance
<1>16. Keying'
  BY <1>3, <1>12, <1>13, KeyingStays DEF HandInv
<1>17. Reporting'
  BY <1>1, <1>11, <1>12, <1>13 DEF Reporting, now
<1>18. ASSUME In!Cardinality(hw.seen) <= Fits PROVE Added
  <2>1. kb.last = hw.seen
    BY <1>18 DEF HandInv, Reporting, In!Reported
  <2> DEFINE new == SubSeq(q, Len(kb.q) + 1, Len(q))
  <2>2. Len(kb.q) \in Nat /\ Len(q) \in Nat
    BY <1>1, <1>10
  <2>3. DOMAIN new = 1 .. Len(q) - Len(kb.q) /\ \A i \in 1 .. Len(q) - Len(kb.q) : new[i] = q[Len(kb.q) + i]
    <3> DEFINE m == Len(kb.q)
    <3>1. m \in Nat
      BY <2>2
    <3> HIDE DEF m
    <3>2. /\ DOMAIN SubSeq(q, m + 1, Len(q)) = 1 .. Len(q) - m
          /\ \A i \in 1 .. Len(q) - m : SubSeq(q, m + 1, Len(q))[i] = q[m + i]
      BY <1>10, <2>2, <3>1, SubSeqProperties
    <3> QED
      BY <3>2 DEF m
  <2> HIDE DEF new
  <2>4. ASSUME NEW i \in DOMAIN new PROVE new[i].key \in hw.held \ hw.seen
    <3>1. new[i].key \in In!Fresh(now)
      BY <1>8, <1>10, <2>3
    <3> QED
      BY <1>4, <2>1, <3>1 DEF In!Fresh
  <2> QED
    BY <1>12, <2>4 DEF Added, new
<1> QED
  BY <1>14, <1>15, <1>16, <1>17, <1>18 DEF HandInv
LEMMA TickInv == ASSUME In!ConstantsOK, HandInv, In!Tick PROVE HandInv'
<1> DEFINE t == [key |-> kb.rep, shift |-> kb.shift /\ kb.rep \notin In!Extended]
<1> DEFINE q == In!Injected(kb.q, <<t>>)
<1>1. kb.rep # None /\ kb' = [kb EXCEPT !.q = q] /\ pc' = "mouse" /\ ms' = ms /\ hw' = hw /\ sent' = sent
  BY DEF In!Tick
<1>2. t \in In!Typed
  <2>1. kb.rep \in In!Keys /\ (kb.shift /\ kb.rep \notin In!Extended) \in BOOLEAN
    BY <1>1, Pieces DEF Kbs
  <2> QED
    BY <2>1 DEF In!Typed
<1>3. kb.q \in Seq(In!Typed)
  BY Pieces DEF Kbs
<1> HIDE DEF t
<1>4. <<t>> \in Seq(In!Typed)
  BY <1>2
<1>5. q \in Seq(In!Typed) /\ Len(q) <= Queue
  BY <1>3, <1>4, InjectedIs, Pieces
<1> HIDE DEF q
<1>6. kb' \in Kbs /\ kb'.q = q /\ kb'.last = kb.last /\ kb'.rep = kb.rep /\ kb'.ext = kb.ext /\ kb'.shift = kb.shift
  BY <1>1, <1>5, Pieces DEF Kbs
<1>7. HandShapes'
  BY <1>1, <1>5, <1>6, Pieces DEF HandShapes
<1>8. Framing' /\ Balance'
  BY <1>1, FramingStays DEF HandInv, Balance
<1>9. Keying' /\ Reporting'
  BY <1>1, <1>6, KeyingStays, ReportingStays DEF HandInv
<1> QED
  BY <1>7, <1>8, <1>9 DEF HandInv

LEMMA MouseReportInv == ASSUME In!ConstantsOK, HandInv, NEW d \in {-1, 1}, In!MouseReport(d) PROVE HandInv'
<1>1. ms' = [ms EXCEPT !.usb = @ + d] /\ hw' = [hw EXCEPT !.total = @ + d] /\ pc' = "mouse" /\ kb' = kb /\ sent' = sent
  BY DEF In!MouseReport
<1>2. /\ InPacket \in Int /\ InBuffer \in Int /\ ToCome \in Int
      /\ ms.moved \in Int /\ ms.rem \in Int /\ ms.acc \in Int /\ ms.usb \in Int /\ hw.total \in Int
  BY BalanceInts DEF HandInv
<1>3. hw.total + d \in Int /\ ms.usb + d \in Int
  BY <1>2
<1>4. /\ ms' \in Mice /\ ms'.pkt = ms.pkt /\ ms'.usb = ms.usb + d /\ ms'.acc = ms.acc /\ ms'.rem = ms.rem /\ ms'.moved = ms.moved
  BY <1>1, <1>3, Pieces DEF Mice
<1>5. /\ hw' \in Hws /\ hw'.mout = hw.mout /\ hw'.obf = hw.obf /\ hw'.kout = hw.kout /\ hw'.shift = hw.shift /\ hw'.seen = hw.seen
      /\ hw'.total = hw.total + d /\ hw'.ps2 = hw.ps2 /\ hw'.plug = hw.plug
  BY <1>1, <1>3, Pieces DEF Hws
<1>6. HandShapes'
  BY <1>1, <1>4, <1>5, Pieces DEF HandShapes
<1>7. Framing' /\ InPacket' = InPacket /\ InBuffer' = InBuffer /\ ToCome' = ToCome
  BY <1>4, <1>5, FramingStays DEF HandInv
<1>8. hw'.total = 2 * ms.moved + ms.rem + ms.acc + (ms.usb + d) + InPacket + InBuffer + ToCome
  <2>1. hw.total = 2 * ms.moved + ms.rem + ms.acc + ms.usb + InPacket + InBuffer + ToCome
    BY Pieces
  <2>2. d \in Int
    OBVIOUS
  <2> QED
    BY <1>2, <1>5, <2>1, <2>2
<1>9. Balance'
  BY <1>1, <1>4, <1>7, <1>8, Pieces DEF Balance
<1>10. Keying' /\ Reporting'
  BY <1>1, <1>5, KeyingStays, ReportingStays DEF HandInv
<1> QED
  BY <1>6, <1>7, <1>9, <1>10 DEF HandInv

LEMMA UsbDoneInv == ASSUME In!ConstantsOK, HandInv, In!UsbDone PROVE HandInv'
<1>1. pc' = "mouse" /\ kb' = kb /\ ms' = ms /\ hw' = hw /\ sent' = sent
  BY DEF In!UsbDone
<1>2. HandShapes'
  BY <1>1, Pieces DEF HandShapes
<1>3. Framing' /\ Balance'
  BY <1>1, FramingStays DEF HandInv, Balance
<1>4. Keying' /\ Reporting'
  BY <1>1, KeyingStays, ReportingStays DEF HandInv
<1> QED
  BY <1>2, <1>3, <1>4 DEF HandInv

(* A byte of the mouse moves from the buffer to the packet, or completes it. *)
LEMMA MouseByteInv == ASSUME In!ConstantsOK, HandInv, In!MouseByte PROVE HandInv'
<1> DEFINE b == hw.obf
<1> DEFINE p == In!Packet(b)
<1> DEFINE n == Len(ms.pkt)
<1>1. /\ pc = "mouse" /\ b # None /\ b.aux /\ hw' = [hw EXCEPT !.obf = None] /\ pc' = pc /\ kb' = kb /\ sent' = sent
      /\ ms' = IF Len(p) < 3 THEN [ms EXCEPT !.pkt = p]
               ELSE [ms EXCEPT !.pkt = <<>>, !.acc = @ + p[2].d, !.click = @ \/ (p[1].left /\ ~ms.left), !.left = p[1].left]
  BY DEF In!MouseByte
<1>2. b \in In!MouseBytes /\ n \in {0, 1, 2} /\ ms.pkt \in Seq(In!MouseBytes)
  BY <1>1, Pieces, BytesAre, BalanceInts DEF HandInv
<1>3. AuxIn /\ Nth(b, n + 1) /\ \A i \in 1 .. n : Nth(ms.pkt[i], i)
  BY <1>1 DEF AuxIn, HandInv, Framing
<1>4. p = Append(ms.pkt, b)
  <2>1. ms.pkt = <<>> => n = 0
    OBVIOUS
  <2>2. ms.pkt = <<>> => b.bit3
    BY <1>3, <2>1 DEF Nth
  <2> QED
    BY <2>2 DEF In!Packet
<1>5. p \in Seq(In!MouseBytes) /\ Len(p) = n + 1 /\ p[n + 1] = b /\ \A i \in 1 .. n : p[i] = ms.pkt[i]
  BY <1>2, <1>4
<1>6. /\ hw' \in Hws /\ hw'.mout = hw.mout /\ hw'.obf = None /\ hw'.kout = hw.kout /\ hw'.shift = hw.shift /\ hw'.seen = hw.seen
      /\ hw'.total = hw.total /\ hw'.ps2 = hw.ps2 /\ hw'.plug = hw.plug
  BY <1>1, Pieces DEF Hws
<1>7. ~ AuxIn'
  BY <1>6 DEF AuxIn
<1>8. /\ InPacket \in Int /\ InBuffer \in Int /\ ToCome \in Int
      /\ ms.moved \in Int /\ ms.rem \in Int /\ ms.acc \in Int /\ ms.usb \in Int /\ hw.total \in Int
  BY BalanceInts DEF HandInv
<1>9. InBuffer = b.d /\ b.d \in Int /\ (n # 1 => b.d = 0)
  <2>1. n + 1 # 2 => b.d = 0
    BY <1>3 DEF Nth
  <2>2. n # 1 => b.d = 0
    <3> HIDE DEF n
    <3> QED
      BY <1>2, <2>1
  <2> QED
    BY <1>2, <1>3, <2>2, BytesAre DEF InBuffer
<1>10. Keying'
  <2>1. ~ KeyIn /\ ~ KeyIn'
    BY <1>1, <1>6 DEF KeyIn
  <2>2. Ext1' = Ext1 /\ Shift1' = Shift1 /\ Key1' = Key1
    BY <1>1, <2>1 DEF Ext1, Shift1, Key1
  <2>3. Key2' = Key2
    BY <1>6, <2>2 DEF Key2
  <2>4. Keying
    BY DEF HandInv
  <2> QED
    BY <1>1, <1>6, <2>2, <2>3, <2>4 DEF Keying
<1>11. Reporting'
  BY <1>1, <1>6, ReportingStays DEF HandInv
<1>12. CASE n < 2
  <2>1. ms' = [ms EXCEPT !.pkt = p]
    BY <1>1, <1>2, <1>5, <1>12
  <2> HIDE DEF p
  <2>2. ms' \in Mice /\ ms'.pkt = p /\ ms'.usb = ms.usb /\ ms'.acc = ms.acc /\ ms'.rem = ms.rem /\ ms'.moved = ms.moved
    BY <1>5, <2>1, Pieces DEF Mice
  <2>3. HandShapes'
    BY <1>1, <1>6, <2>2, Pieces DEF HandShapes
  <2>4. HandAfter' = HandAfter /\ HandAfter = n + 2
    <3>1. HandAfter = n + 2
      <4>1. HandAfter = IF n = 2 THEN 1 ELSE n + 2
        BY <1>3 DEF HandAfter
      <4>2. n # 2
        <5> HIDE DEF n
        <5> QED
          BY <1>2, <1>12
      <4> QED
        BY <4>1, <4>2
    <3>2. HandAfter' = (n + 1) + 1
      BY <1>5, <1>7, <2>2 DEF HandAfter
    <3> HIDE DEF n
    <3> QED
      BY <1>2, <3>1, <3>2
  <2>5. Framing'
    <3> HIDE DEF n
    <3>1. ASSUME NEW i \in 1 .. n + 1 PROVE Nth(p[i], i)
      BY <1>2, <1>3, <1>5
    <3>2. Len(p) <= 2 /\ \A i \in 1 .. Len(p) : Nth(p[i], i)
      BY <1>2, <1>5, <1>12, <3>1
    <3> QED
      BY <1>6, <1>7, <2>2, <2>4, <3>2 DEF Framing, HandInv
  <2>6. InBuffer' = 0 /\ InPacket = 0 /\ InPacket' = b.d /\ ToCome' = ToCome
    <3>1. InPacket = 0
      BY <1>12 DEF InPacket
    <3>2. InPacket' = IF n + 1 = 2 THEN p[2].d ELSE 0
      BY <1>5, <2>2 DEF InPacket
    <3>3. n + 1 = 2 => p[2] = b
      BY <1>5
    <3>4. (n + 1 = 2) <=> (n = 1)
      <4> HIDE DEF n
      <4> QED
        BY <1>2
    <3> QED
      BY <1>6, <1>7, <1>9, <2>4, <3>1, <3>2, <3>3, <3>4 DEF InBuffer, ToCome
  <2>7. hw'.total = 2 * ms.moved + ms.rem + ms.acc + ms.usb + b.d + 0 + ToCome
    <3>1. hw.total = 2 * ms.moved + ms.rem + ms.acc + ms.usb + InPacket + InBuffer + ToCome
      BY Pieces
    <3>2. InPacket = 0 /\ InBuffer = b.d
      BY <1>9, <2>6
    <3> HIDE DEF b
    <3> QED
      BY <1>6, <1>8, <3>1, <3>2
  <2>8. Balance'
    BY <1>1, <2>2, <2>6, <2>7, Pieces DEF Balance
  <2> QED
    BY <1>10, <1>11, <2>3, <2>5, <2>8 DEF HandInv
<1>13. CASE n = 2
  <2>1. p[1] \in In!MouseBytes /\ p[2] = ms.pkt[2] /\ p[2] \in In!MouseBytes
    BY <1>5, <1>13
  <2>2. p[2].d \in Int /\ p[1].left \in BOOLEAN
    BY <2>1, BytesAre
  <2>3. ms' = [ms EXCEPT !.pkt = <<>>, !.acc = @ + p[2].d, !.click = @ \/ (p[1].left /\ ~ms.left), !.left = p[1].left]
    BY <1>1, <1>5, <1>13
  <2> HIDE DEF p
  <2>4. ms' \in Mice /\ ms'.pkt = <<>> /\ ms'.usb = ms.usb /\ ms'.acc = ms.acc + p[2].d /\ ms'.rem = ms.rem /\ ms'.moved = ms.moved
    <3> DEFINE c == ms.click \/ (p[1].left /\ ~ms.left)
    <3> DEFINE s == ms.acc + p[2].d
    <3>1. c \in BOOLEAN /\ s \in Int
      BY <1>8, <2>2
    <3>2. ms' = [ms EXCEPT !.pkt = <<>>, !.acc = s, !.click = c, !.left = p[1].left]
      BY <2>3, Pieces DEF Mice
    <3> HIDE DEF c, s
    <3>3. ms' \in Mice /\ ms'.pkt = <<>> /\ ms'.usb = ms.usb /\ ms'.acc = s /\ ms'.rem = ms.rem /\ ms'.moved = ms.moved
      <4> DEFINE l == p[1].left
      <4>1. <<>> \in Seq(In!MouseBytes)
        OBVIOUS
      <4>2. ms' = [ms EXCEPT !.pkt = <<>>, !.acc = s, !.click = c, !.left = l] /\ l \in BOOLEAN
        BY <2>2, <3>2
      <4> HIDE DEF l
      <4> QED
        BY <3>1, <4>1, <4>2, Pieces DEF Mice
    <3> QED
      BY <3>3 DEF s
  <2>5. HandShapes'
    BY <1>1, <1>6, <2>4, Pieces DEF HandShapes
  <2>6. HandAfter' = 1 /\ HandAfter = 1 /\ Len(ms'.pkt) = 0
    <3>1. HandAfter = 1
      BY <1>3, <1>13 DEF HandAfter
    <3>2. Len(ms'.pkt) = 0
      BY <2>4
    <3> QED
      BY <1>7, <3>1, <3>2 DEF HandAfter
  <2>7. Framing'
    BY <1>6, <1>7, <2>6 DEF Framing, HandInv
  <2>8. InBuffer' = 0 /\ InPacket = p[2].d /\ InPacket' = 0 /\ ToCome' = ToCome /\ InBuffer = 0
    <3>1. InBuffer = 0
      BY <1>9, <1>13
    <3> QED
      BY <1>6, <1>7, <1>13, <2>1, <2>6, <3>1 DEF InBuffer, ToCome, InPacket
  <2>9. hw'.total = 2 * ms.moved + ms.rem + (ms.acc + p[2].d) + ms.usb + 0 + 0 + ToCome
    <3>1. hw.total = 2 * ms.moved + ms.rem + ms.acc + ms.usb + InPacket + InBuffer + ToCome
      BY Pieces
    <3>2. InPacket = p[2].d /\ InBuffer = 0
      BY <2>8
    <3> QED
      BY <1>6, <1>8, <2>2, <3>1, <3>2
  <2>10. Balance'
    BY <1>1, <2>4, <2>8, <2>9, Pieces DEF Balance
  <2> QED
    BY <1>10, <1>11, <2>5, <2>7, <2>10 DEF HandInv
<1>14. n < 2 \/ n = 2
  <2> HIDE DEF n
  <2> QED
    BY <1>2
<1> QED
  BY <1>12, <1>13, <1>14
(* Half speed keeps what it rounds away. *)
LEMMA HalvedIs == ASSUME NEW a \in Int PROVE In!Halved(a) \in Int /\ a - 2 * In!Halved(a) \in -1 .. 1
<1>1. CASE a >= 0
  BY <1>1 DEF In!Halved
<1>2. CASE ~ (a >= 0)
  <2> DEFINE c == -a
  <2> DEFINE h == c \div 2
  <2>1. c \in Nat /\ a = -c
    BY <1>2
  <2> HIDE DEF c
  <2>2. h \in Int /\ c - 2 * h \in 0 .. 1
    BY <2>1
  <2>3. In!Halved(a) = -h
    BY <1>2 DEF In!Halved, c
  <2> HIDE DEF h
  <2> QED
    BY <2>1, <2>2, <2>3
<1> QED
  BY <1>1, <1>2

LEMMA MouseDoneInv == ASSUME In!ConstantsOK, HandInv, In!MouseDone PROVE HandInv'
<1> DEFINE a == ms.rem + ms.acc + ms.usb
<1> DEFINE h == In!Halved(a)
<1>1. /\ ms' = [ms EXCEPT !.acc = 0, !.usb = 0, !.click = FALSE, !.moved = @ + h, !.rem = a - 2 * h]
      /\ pc' = "kbd" /\ kb' = kb /\ hw' = hw /\ sent' = sent
  <2>1. ms' = [ms EXCEPT !.acc = 0, !.usb = 0, !.click = FALSE, !.moved = @ + h, !.rem = In!Carried(a), !.pkt = ms.pkt]
    BY DEF In!MouseDone, In!Stays
  <2>2. In!Carried(a) = a - 2 * h
    BY DEF In!Carried
  <2> HIDE DEF h, a
  <2> QED
    BY <2>1, <2>2, Pieces DEF In!MouseDone, Mice
<1>2. /\ InPacket \in Int /\ InBuffer \in Int /\ ToCome \in Int
      /\ ms.moved \in Int /\ ms.rem \in Int /\ ms.acc \in Int /\ ms.usb \in Int /\ hw.total \in Int
  BY BalanceInts DEF HandInv
<1>3. a \in Int /\ h \in Int /\ a - 2 * h \in -1 .. 1
  BY <1>2, HalvedIs
<1>4. hw.total = 2 * ms.moved + a + InPacket + InBuffer + ToCome
  <2>1. hw.total = 2 * ms.moved + ms.rem + ms.acc + ms.usb + InPacket + InBuffer + ToCome
    BY Pieces
  <2> QED
    BY <1>2, <2>1
<1> HIDE DEF h, a
<1>5. /\ ms' \in Mice /\ ms'.pkt = ms.pkt /\ ms'.usb = 0 /\ ms'.acc = 0 /\ ms'.rem = a - 2 * h /\ ms'.moved = ms.moved + h
  <2>1. ms.moved + h \in Int /\ a - 2 * h \in Int /\ FALSE \in BOOLEAN
    BY <1>2, <1>3
  <2> DEFINE m == ms.moved + h
  <2> DEFINE r == a - 2 * h
  <2>2. ms' = [ms EXCEPT !.acc = 0, !.usb = 0, !.click = FALSE, !.moved = m, !.rem = r] /\ m \in Int /\ r \in Int
    BY <1>1, <2>1, Pieces DEF Mice
  <2> HIDE DEF m, r
  <2>3. ms' \in Mice /\ ms'.pkt = ms.pkt /\ ms'.usb = 0 /\ ms'.acc = 0 /\ ms'.rem = r /\ ms'.moved = m
    <3> DEFINE z == 0
    <3> DEFINE c == FALSE
    <3>1. ms \in Mice /\ z \in Int /\ c \in BOOLEAN
      BY Pieces
    <3>2. ms' = [ms EXCEPT !.acc = z, !.usb = z, !.click = c, !.moved = m, !.rem = r] /\ m \in Int /\ r \in Int
      BY <2>2
    <3> HIDE DEF z, c
    <3>3. ms' \in Mice /\ ms'.pkt = ms.pkt /\ ms'.usb = z /\ ms'.acc = z /\ ms'.rem = r /\ ms'.moved = m
      BY <3>1, <3>2 DEF Mice
    <3> QED
      BY <3>3 DEF z
  <2> QED
    BY <2>3 DEF m, r
<1>6. HandShapes'
  BY <1>1, <1>5, Pieces DEF HandShapes
<1>7. Framing' /\ InPacket' = InPacket /\ InBuffer' = InBuffer /\ ToCome' = ToCome
  BY <1>1, <1>5, FramingStays DEF HandInv
<1>8. hw'.total = 2 * (ms.moved + h) + (a - 2 * h) + 0 + 0 + InPacket + InBuffer + ToCome
  BY <1>1, <1>2, <1>3, <1>4
<1>9. Balance'
  BY <1>1, <1>3, <1>5, <1>7, <1>8 DEF Balance
<1>10. Keying' /\ Reporting'
  BY <1>1, KeyingStays, ReportingStays DEF HandInv
<1> QED
  BY <1>6, <1>7, <1>9, <1>10 DEF HandInv

LEMMA QueuedInv == ASSUME In!ConstantsOK, HandInv, In!Queued PROVE HandInv'
<1>1. kb.q # <<>> /\ kb' = [kb EXCEPT !.q = Tail(kb.q)] /\ pc' = "usb" /\ pc = "kbd" /\ ms' = ms /\ hw' = hw /\ sent' = sent
  BY Pieces DEF In!Queued, Kbs
<1>2. kb.q \in Seq(In!Typed) /\ Queue \in Nat
  BY Pieces DEF Kbs, In!ConstantsOK
<1> DEFINE q == Tail(kb.q)
<1>3. q \in Seq(In!Typed) /\ Len(q) <= Queue
  BY <1>1, <1>2, HeadTail, Pieces
<1> HIDE DEF q
<1>4. kb' \in Kbs /\ kb'.q = q /\ kb'.last = kb.last /\ kb'.rep = kb.rep /\ kb'.ext = kb.ext /\ kb'.shift = kb.shift
  BY <1>1, <1>3, Pieces DEF Kbs, q
<1>5. HandShapes'
  BY <1>1, <1>3, <1>4, Pieces DEF HandShapes
<1>6. Framing' /\ Balance'
  BY <1>1, FramingStays, Pieces DEF HandInv, Balance
<1>7. Keying' /\ Reporting'
  BY <1>1, <1>4, KeyingStays, ReportingStays DEF HandInv
<1> QED
  BY <1>5, <1>6, <1>7 DEF HandInv

(* The byte taken means the key that was pressed first of those not read, or none; it is
   typed with the shift that is held if no other keyboard's report has changed it. *)
AsTyped ==
  /\ sent # <<>> /\ out'.key.key = Head(sent).key
  /\ "ukbd" \notin hw.plug \/ kb.shift = hw.ps2 => out'.key = Head(sent)
LEMMA ScannedInv ==
  ASSUME In!ConstantsOK, HandInv, In!Scanned
  PROVE  HandInv' /\ (out' # None => ~ out'.usb /\ AsTyped)
<1> DEFINE b == hw.obf
<1>1. pc = "kbd" /\ b # None /\ ~ b.aux /\ hw' = [hw EXCEPT !.obf = None, !.ps2 = In!ShiftHeld(b, hw.ps2)] /\ pc' = "usb" /\ ms' = ms
  BY Pieces DEF In!Scanned, In!Takes, Hws
<1>2. KeyIn /\ ~ AuxIn
  BY <1>1 DEF KeyIn, AuxIn
<1>3. b \in In!KeyBytes
  BY <1>1, Pieces, BytesAre
<1>4. kb.ext \in BOOLEAN /\ kb.shift \in BOOLEAN /\ hw.ps2 \in BOOLEAN
  BY Pieces DEF Kbs, Hws
<1>5. Ext1 = (b.code = "e0") /\ Shift1 = ShiftBy(kb.ext, hw.ps2, b) /\ Key1 = Meant(kb.ext, hw.ps2, b)
  BY <1>2 DEF Ext1, Shift1, Key1
<1> DEFINE typed == In!Decoded(b)
<1> DEFINE held == In!ShiftHeld(b, kb.shift)
<1>6. /\ (typed = None) <=> (Key1 = None)
      /\ Key1 # None => typed.key = Key1.key /\ (kb.shift = hw.ps2 => typed = Key1)
  <2>1. typed = Meant(kb.ext, kb.shift, b)
    BY DEF In!Decoded, Meant, HandBehind
  <2>2. kb.shift = hw.ps2 => typed = Key1
    BY <1>5, <2>1
  <2> DEFINE t == [key |-> b.code, shift |-> kb.shift]
  <2> DEFINE u == [key |-> b.code, shift |-> hw.ps2]
  <2>3. b.code \in In!Keys => t # None /\ u # None
    <3>1. b.code \in In!Keys => t \in In!Typed /\ u \in In!Typed
      BY <1>4 DEF In!Typed
    <3> HIDE DEF t, u
    <3> QED
      BY <3>1 DEF In!ConstantsOK
  <2>4. t.key = u.key
    OBVIOUS
  <2>5. \/ typed = Key1
        \/ typed = t /\ Key1 = u /\ b.code # "e0" /\ b.code # "shift"
    BY <1>5, <2>1 DEF Meant
  <2>6. b.code \in In!Keys \cup {"e0", "shift"}
    BY <1>3 DEF In!KeyBytes
  <2> HIDE DEF t, u, typed
  <2> QED
    BY <2>2, <2>3, <2>4, <2>5, <2>6
<1>7. In!ShiftHeld(b, hw.ps2) = Shift1 /\ held \in BOOLEAN /\ (kb.shift = hw.ps2 => held = Shift1)
  <2>1. In!ShiftHeld(b, hw.ps2) = Shift1
    BY <1>5 DEF In!ShiftHeld, ShiftBy
  <2>2. held \in BOOLEAN
    BY <1>3, <1>4, BytesAre DEF In!ShiftHeld
  <2> QED
    BY <2>1, <2>2
<1>8. /\ kb' = [kb EXCEPT !.ext = Ext1, !.shift = held]
      /\ out' = IF Key1 = None THEN None ELSE [usb |-> FALSE, key |-> typed]
      /\ sent' = IF Key1 = None \/ sent = <<>> THEN sent ELSE Tail(sent)
  <2>1. kb' = [kb EXCEPT !.ext = (b.code = "e0"), !.shift = held]
    BY Pieces DEF In!Scanned, Kbs
  <2>2. kb' = [kb EXCEPT !.ext = Ext1, !.shift = held]
    BY <1>5, <2>1
  <2>3. /\ out' = IF typed = None THEN None ELSE [usb |-> FALSE, key |-> typed]
        /\ sent' = IF typed = None \/ sent = <<>> THEN sent ELSE Tail(sent)
    BY DEF In!Scanned
  <2> HIDE DEF typed, held
  <2> QED
    BY <1>6, <2>2, <2>3
<1> HIDE DEF typed, held
<1>9. Ext1 \in BOOLEAN /\ Shift1 \in BOOLEAN
  BY <1>3, <1>4, <1>5, BytesAre DEF ShiftBy
<1>10. /\ kb' \in Kbs /\ kb'.q = kb.q /\ kb'.last = kb.last /\ kb'.rep = kb.rep /\ kb'.ext = Ext1 /\ kb'.shift = held
  BY <1>7, <1>8, <1>9, Pieces DEF Kbs
<1>11. /\ hw' \in Hws /\ hw'.mout = hw.mout /\ hw'.obf = None /\ hw'.kout = hw.kout /\ hw'.shift = hw.shift /\ hw'.seen = hw.seen
       /\ hw'.total = hw.total /\ hw'.ps2 = Shift1 /\ hw'.plug = hw.plug
  BY <1>1, <1>7, <1>9, Pieces DEF Hws
<1>12. ~ KeyIn' /\ ~ AuxIn'
  BY <1>11 DEF KeyIn, AuxIn
<1>13. Ext1' = Ext1 /\ Shift1' = Shift1 /\ Key1' = None
  BY <1>10, <1>11, <1>12 DEF Ext1, Shift1, Key1
<1>14. Key2' = Key2
  BY <1>11, <1>13 DEF Key2
<1>15. sent \in Seq(In!Typed)
  BY Pieces
<1>16. sent' = IF Key2 = None THEN <<>> ELSE <<Key2>>
  <2>1. CASE Key1 = None
    BY <1>8, <2>1 DEF HandInv, Keying
  <2>2. CASE Key1 # None /\ Key2 = None
    <3>1. sent = <<Key1>>
      BY <2>2 DEF HandInv, Keying
    <3>2. Tail(<<Key1>>) = <<>> /\ <<Key1>> # <<>>
      OBVIOUS
    <3> QED
      BY <1>8, <2>2, <3>1, <3>2
  <2>3. CASE Key1 # None /\ Key2 # None
    <3>1. sent = <<Key1, Key2>>
      BY <2>3 DEF HandInv, Keying
    <3>2. Tail(<<Key1, Key2>>) = <<Key2>> /\ <<Key1, Key2>> # <<>>
      OBVIOUS
    <3> QED
      BY <1>8, <2>3, <3>1, <3>2
  <2> QED
    BY <2>1, <2>2, <2>3
<1>17. HandShapes'
  <2>1. sent' \in Seq(In!Typed)
    <3>1. sent # <<>> => Tail(sent) \in Seq(In!Typed)
      BY <1>15
    <3> QED
      BY <1>8, <1>15, <3>1
  <2> QED
    BY <1>1, <1>10, <1>11, <2>1, Pieces DEF HandShapes
<1>18. Framing' /\ Balance'
  <2>1. HandAfter' = HandAfter
    BY <1>1, <1>2, <1>12 DEF HandAfter
  <2>2. Framing'
    BY <1>1, <1>2, <1>11, <1>12, <2>1 DEF Framing, HandInv
  <2>3. InPacket' = InPacket /\ InBuffer' = InBuffer /\ ToCome' = ToCome
    BY <1>1, <1>2, <1>11, <1>12, <2>1 DEF InPacket, InBuffer, ToCome
  <2> QED
    BY <1>1, <1>11, <2>2, <2>3, Pieces DEF Balance
<1>19. Keying'
  <2>1. \/ hw.kout = <<>> /\ ~ Ext1 /\ Shift1 = hw.shift
        \/ Len(hw.kout) = 1 /\ hw.kout[1].code # "e0" /\ ShiftBy(Ext1, Shift1, hw.kout[1]) = hw.shift
        \/ Len(hw.kout) = 2 /\ hw.kout[1].code = "e0" /\ ~ hw.kout[1].up /\ hw.kout[2].code # "e0" /\ Shift1 = hw.shift
    BY DEF HandInv, Keying
  <2> QED
    BY <1>11, <1>13, <1>14, <1>16, <2>1 DEF Keying
<1>20. Reporting'
  BY <1>7, <1>10, <1>11 DEF HandInv, Reporting
<1>21. ASSUME out' # None PROVE ~ out'.usb /\ AsTyped
  <2>1. Key1 # None /\ out' = [usb |-> FALSE, key |-> typed]
    BY <1>8, <1>21
  <2>2. sent = <<Key1>> \/ sent = <<Key1, Key2>>
    BY <2>1 DEF HandInv, Keying
  <2>3. sent # <<>> /\ Head(sent) = Key1
    BY <2>2
  <2>4. "ukbd" \notin hw.plug => kb.shift = hw.ps2
    BY DEF HandInv, Reporting
  <2>5. typed.key = Key1.key /\ (kb.shift = hw.ps2 => typed = Key1)
    BY <1>6, <2>1
  <2> QED
    BY <2>1, <2>3, <2>4, <2>5 DEF AsTyped
<1> QED
  BY <1>17, <1>18, <1>19, <1>20, <1>21 DEF HandInv

LEMMA NoKeyInv == ASSUME In!ConstantsOK, HandInv, In!NoKey PROVE HandInv'
<1>1. pc = "kbd" /\ pc' = "usb" /\ kb' = kb /\ ms' = ms /\ hw' = hw /\ sent' = sent
  BY DEF In!NoKey
<1>2. HandShapes'
  BY <1>1, Pieces DEF HandShapes
<1>3. Framing' /\ Balance'
  BY <1>1, FramingStays, Pieces DEF HandInv, Balance
<1>4. Keying' /\ Reporting'
  BY <1>1, KeyingStays, ReportingStays DEF HandInv
<1> QED
  BY <1>2, <1>3, <1>4 DEF HandInv
LEMMA HandNextInv == ASSUME In!ConstantsOK, HandInv, [In!Next]_(In!vars) PROVE HandInv'
<1>1. ASSUME NEW k \in In!Keys \ {"b"}, In!PressPs2(k) \/ In!ReleasePs2(k) PROVE HandInv'
  BY <1>1, PressInv, ReleaseInv
<1>2. ASSUME NEW f \in BOOLEAN, In!Shift(f) \/ In!LoadByte(f) PROVE HandInv'
  BY <1>2, ShiftInv, LoadAuxInv, LoadKeyInv
<1>3. ASSUME NEW d \in {-1, 1}, NEW f \in BOOLEAN, In!MovePs2(d, f, f) PROVE HandInv'
  BY <1>3, MoveInv
<1>4. ASSUME NEW k \in In!Keys \ {"up"}, In!HoldUsb(k) PROVE HandInv'
  BY <1>4, HoldInv
<1>5. ASSUME NEW d \in {-1, 1}, In!MouseReport(d) PROVE HandInv'
  BY <1>5, MouseReportInv
<1>6. ASSUME In!ShiftUsb \/ In!KbdReport \/ In!Tick \/ In!UsbDone \/ In!MouseByte \/ In!MouseDone \/ In!Queued \/ In!Scanned \/ In!NoKey PROVE HandInv'
  BY <1>6, ShiftUsbInv, KbdReportInv, TickInv, UsbDoneInv, MouseByteInv, MouseDoneInv, QueuedInv, ScannedInv, NoKeyInv
<1>7. ASSUME UNCHANGED In!vars PROVE HandInv'
  <2>1. pc' = pc /\ kb' = kb /\ ms' = ms /\ hw' = hw /\ sent' = sent
    BY <1>7 DEF In!vars
  <2>2. HandShapes' /\ Framing' /\ Balance'
    BY <2>1, FramingStays, Pieces DEF HandShapes, HandInv, Balance
  <2>3. Keying' /\ Reporting'
    BY <2>1, KeyingStays, ReportingStays DEF HandInv
  <2> QED
    BY <2>2, <2>3 DEF HandInv
<1> QED
  BY <1>1, <1>2, <1>3, <1>4, <1>5, <1>6, <1>7 DEF In!Next

LEMMA InvSays == ASSUME In!ConstantsOK, HandInv PROVE In!TypeOK /\ In!Framed /\ In!NoDrift /\ In!RepeatStops
<1>1. In!TypeOK
  BY Pieces DEF In!TypeOK, Kbs, HandInv, Framing
<1>2. In!Framed
  <2>1. DOMAIN ms.pkt = 1 .. Len(ms.pkt)
    BY Pieces
  <2> QED
    BY <2>1 DEF In!Framed, HandInv, Framing, Nth
<1>3. In!NoDrift
  <2>1. SUFFICES ASSUME pc # "mouse", hw.mout = <<>>, hw.obf = None, ms.pkt = <<>>, ms.usb = 0
                 PROVE  2 * ms.moved - hw.total \in -1 .. 1
    BY DEF In!NoDrift
  <2>2. InPacket = 0 /\ InBuffer = 0 /\ ToCome = 0 /\ ms.acc = 0
    <3>1. Len(ms.pkt) = 0
      BY <2>1
    <3> QED
      BY <2>1, <3>1, Pieces DEF InPacket, InBuffer, AuxIn, ToCome
  <2>3. ms.moved \in Int /\ ms.rem \in -1 .. 1
    BY Pieces DEF Mice
  <2>4. hw.total = 2 * ms.moved + ms.rem + ms.acc + ms.usb + InPacket + InBuffer + ToCome
    BY Pieces
  <2> QED
    BY <2>1, <2>2, <2>3, <2>4
<1>4. In!RepeatStops
  BY DEF In!RepeatStops, HandInv, Reporting, In!Reported
<1> QED
  BY <1>1, <1>2, <1>3, <1>4

(* The keyboard queue stays in its bounds, a packet is of one report, slow speed
   loses no count, and a key that was let go does not repeat. *)
THEOREM HandsAreFollowed == ASSUME In!ConstantsOK PROVE In!Spec => [](In!TypeOK /\ In!Framed /\ In!NoDrift /\ In!RepeatStops)
<1>1. In!Init => HandInv
  BY HandInitInv
<1>2. HandInv /\ [In!Next]_(In!vars) => HandInv'
  BY HandNextInv
<1>3. HandInv => In!TypeOK /\ In!Framed /\ In!NoDrift /\ In!RepeatStops
  BY InvSays
<1> QED
  BY <1>1, <1>2, <1>3, PTL DEF In!Spec

LEMMA KeysStep ==
  ASSUME In!ConstantsOK, HandInv, [In!Next]_(In!vars)
  PROVE  /\ [out' # out /\ out' # None /\ ~out'.usb => AsTyped]_(In!vars)
         /\ [hw'.seen # hw.seen /\ In!Cardinality(hw.seen) <= Fits => Added]_(In!vars)
<1> DEFINE A == out' # out /\ out' # None /\ ~out'.usb => AsTyped
<1> DEFINE B == hw'.seen # hw.seen /\ In!Cardinality(hw.seen) <= Fits => Added
<1> DEFINE Same == out' \in {out, None} /\ hw'.seen = hw.seen
<1>0. hw \in Hws
  BY Pieces
<1>1. ASSUME NEW k \in In!Keys \ {"b"}, In!PressPs2(k) \/ In!ReleasePs2(k) PROVE Same
  BY <1>0, <1>1 DEF In!PressPs2, In!ReleasePs2, In!Says, Hws
<1>2. ASSUME NEW f \in BOOLEAN, In!Shift(f) PROVE Same
  BY <1>0, <1>2 DEF In!Shift, In!Says, Hws
<1>3. ASSUME NEW f \in BOOLEAN, In!LoadByte(f) PROVE Same
  BY <1>0, <1>3 DEF In!LoadByte, Hws
<1>4. ASSUME NEW d \in {-1, 1}, NEW f \in BOOLEAN, In!MovePs2(d, f, f) PROVE Same
  BY <1>0, <1>4 DEF In!MovePs2, Hws
<1>5. ASSUME NEW k \in In!Keys \ {"up"}, In!HoldUsb(k) PROVE Same
  BY <1>0, <1>5 DEF In!HoldUsb, Hws
<1>6. ASSUME NEW d \in {-1, 1}, In!MouseReport(d) PROVE Same
  BY <1>0, <1>6 DEF In!MouseReport, Hws
<1>7. ASSUME In!ShiftUsb \/ In!Tick \/ In!UsbDone \/ In!MouseByte \/ In!MouseDone PROVE Same
  BY <1>0, <1>7 DEF In!ShiftUsb, In!Tick, In!UsbDone, In!MouseByte, In!MouseDone, Hws
<1>8. ASSUME In!KbdReport PROVE A /\ B
  <2>1. out' = out
    BY <1>8 DEF In!KbdReport
  <2> QED
    BY <1>8, <2>1, KbdReportInv
<1>9. ASSUME In!Queued PROVE A /\ B
  BY <1>9 DEF In!Queued
<1>10. ASSUME In!Scanned PROVE A /\ B
  <2>1. hw'.seen = hw.seen
    BY <1>0, <1>10 DEF In!Scanned, Hws
  <2> QED
    BY <1>10, <2>1, ScannedInv
<1>11. ASSUME In!NoKey PROVE A /\ B
  BY <1>11 DEF In!NoKey
<1>12. ASSUME UNCHANGED In!vars PROVE Same
  BY <1>12 DEF In!vars
<1>13. Same => A /\ B
  OBVIOUS
<1> HIDE DEF A, B, Same
<1>14. A /\ B
  BY <1>1, <1>2, <1>3, <1>4, <1>5, <1>6, <1>7, <1>8, <1>9, <1>10, <1>11, <1>12, <1>13 DEF In!Next
<1> QED
  BY <1>14 DEF A, B

(* What is typed on the PS/2 keyboard arrives in order, whatever bytes of the mouse lie
   between, and with its shift unless a report of a USB keyboard has changed that; a
   report types the keys that went down, once. *)
THEOREM KeysAreMeant == ASSUME In!ConstantsOK PROVE In!Spec => In!TypedAsPressed /\ In!PressedOnce
<1>1. In!Init => HandInv
  BY HandInitInv
<1>2. HandInv /\ [In!Next]_(In!vars) => HandInv'
  BY HandNextInv
<1>3. HandInv /\ [In!Next]_(In!vars) =>
        /\ [out' # out /\ out' # None /\ ~out'.usb
              => /\ sent # <<>> /\ out'.key.key = Head(sent).key
                 /\ "ukbd" \notin hw.plug \/ kb.shift = hw.ps2 => out'.key = Head(sent)]_(In!vars)
        /\ [hw'.seen # hw.seen /\ In!Cardinality(hw.seen) <= Fits =>
              LET new == SubSeq(kb'.q, Len(kb.q) + 1, Len(kb'.q))
              IN \A i \in DOMAIN new : new[i].key \in hw.held \ hw.seen]_(In!vars)
  BY KeysStep DEF Added, AsTyped
<1> QED
  BY <1>1, <1>2, <1>3, PTL DEF In!Spec, In!TypedAsPressed, In!PressedOnce

-----------------------------------------------------------------------------
(* The properties of the whole, from those of its parts: a step of the whole is a step
   of a part or leaves it alone. *)
LEMMA DiskSteps == [Next]_vars => [Que!Next]_(Que!vars)
  BY DEF Next, InDisk, InDrive, InBus, InNic, InUsb, InRing, InInput, vars, diskVars, Que!vars
LEMMA DriveSteps == [Next]_vars => [Drive!Next]_(Drive!vars)
  BY DEF Next, InDisk, InDrive, InBus, InNic, InUsb, InRing, InInput, vars, driveVars, Drive!vars
LEMMA BusSteps == [Next]_vars => [Bus!Next]_(Bus!vars)
  BY DEF Next, InDisk, InDrive, InBus, InNic, InUsb, InRing, InInput, vars, busVars, Bus!vars
LEMMA NicSteps == [Next]_vars => [Nic!Next]_(Nic!vars)
  BY DEF Next, InDisk, InDrive, InBus, InNic, InUsb, InRing, InInput, vars, nicVars, Nic!vars
LEMMA UsbSteps == [Next]_vars => [Bus2!Next]_(Bus2!vars)
  BY DEF Next, InDisk, InDrive, InBus, InNic, InUsb, InRing, InInput, vars, usbVars, Bus2!vars
LEMMA RingSteps == [Next]_vars => [Xhci!Next]_(Xhci!vars)
  BY DEF Next, InDisk, InDrive, InBus, InNic, InUsb, InRing, InInput, vars, ringVars, Xhci!vars
LEMMA InputSteps == [Next]_vars => [In!Next]_(In!vars)
  BY DEF Next, InDisk, InDrive, InBus, InNic, InUsb, InRing, InInput, vars, inputVars, In!vars

(* Where only the drivers that cope with it meet devices that answer late: see DisksKeep,
   TrackStaysTrue and NumbersStay above. *)
THEOREM DrivesStayTrue == ASSUME Coped PROVE Spec => []DrivesKeep
<1>1. Init => Que!Init /\ Drive!Init /\ Bus!Init
  BY DEF Init
<1>2. Que!Spec => [](Que!TypeOK /\ Que!Survives /\ Que!AtHome)
  BY InstancesOK, DisksKeep
<1>3. Drive!Spec => [](Drive!TypeOK /\ Drive!BufferTrue /\ Drive!FindsPlace)
  BY InstancesOK, TrackStaysTrue
<1>4. Bus!Spec => [](Bus!TypeOK /\ Bus!KeepsItsNumber /\ Bus!OneDoor)
  BY InstancesOK, NumbersStay
<1>5. /\ Que!Survives /\ Que!AtHome /\ Drive!BufferTrue /\ Drive!FindsPlace
      /\ Bus!KeepsItsNumber /\ Bus!OneDoor
      => DrivesKeep
  BY DEF DrivesKeep
<1> QED
  BY <1>1, <1>2, <1>3, <1>4, <1>5, DiskSteps, DriveSteps, BusSteps, PTL
  DEF Spec, Que!Spec, Drive!Spec, Bus!Spec

(* Whatever is plugged in: see HandsAreFollowed above. *)
THEOREM HandsStayFollowed == Spec => []InputTrue
<1>1. Init => In!Init
  BY DEF Init
<1>2. In!Spec => [](In!TypeOK /\ In!Framed /\ In!NoDrift /\ In!RepeatStops)
  BY InstancesOK, HandsAreFollowed
<1>3. In!Framed /\ In!NoDrift /\ In!RepeatStops => InputTrue
  BY DEF InputTrue
<1> QED
  BY <1>1, <1>2, <1>3, InputSteps, PTL DEF Spec, In!Spec

(* Where requests are waited for, and there is room for what is plugged in: see
   RingsStayInStep and LapsStayCounted above and PortsStayTrue of Usb. *)
THEOREM RingsStayAgreed == ASSUME Patient, Bus2!Steady, Bus2!Roomy PROVE Spec => []RingsAgree
<1>1. Init => Nic!Init /\ Bus2!Init /\ Xhci!Init
  BY DEF Init
<1>2. Nic!Spec => [](Nic!TypeOK /\ Nic!NotWedged /\ Nic!AnswersFirst)
  BY InstancesOK, RingsStayInStep
<1>3. Bus2!Spec => [](Bus2!TypeOK /\ Bus2!Noticed /\ Bus2!OneUser) /\ Bus2!OwnReports
  BY InstancesOK, Bus2!PortsStayTrue
<1>4. Xhci!Spec => [](Xhci!TypeOK /\ Xhci!LapsAgree /\ Xhci!AnsweredItself)
  BY InstancesOK, LapsStayCounted
<1>5. /\ Nic!NotWedged /\ Nic!AnswersFirst /\ Bus2!Noticed /\ Bus2!OneUser
      /\ Xhci!LapsAgree /\ Xhci!AnsweredItself
      => RingsAgree
  BY DEF RingsAgree
<1> QED
  BY <1>1, <1>2, <1>3, <1>4, <1>5, NicSteps, UsbSteps, RingSteps, PTL
  DEF Spec, Nic!Spec, Bus2!Spec, Xhci!Spec

(* A call takes the answer to its own command, a frame leaves and arrives as it was, a
   report goes to its own device, the keys of the PS/2 keyboard come in order and a key
   of a report counts once: see DisksAnswer, FramesInTurn
   and KeysAreMeant above and PortsStayTrue of Usb. *)
THEOREM AnswersStayMatched == ASSUME Coped, Bus2!Steady, Bus2!Roomy PROVE Spec => AnswersMatch
<1>1. Init => Que!Init /\ Nic!Init /\ Bus2!Init /\ In!Init
  BY DEF Init
<1>2. Que!Spec => Que!ReadTrue /\ Que!OwnAnswer
  BY InstancesOK, DisksAnswer
<1>3. Nic!Spec => Nic!InOrder /\ Nic!ReceiptIsTrue
  BY InstancesOK, FramesInTurn
<1>4. Bus2!Spec => [](Bus2!TypeOK /\ Bus2!Noticed /\ Bus2!OneUser) /\ Bus2!OwnReports
  BY InstancesOK, Bus2!PortsStayTrue
<1>5. In!Spec => In!TypedAsPressed /\ In!PressedOnce
  BY InstancesOK, KeysAreMeant
<1> QED
  BY <1>1, <1>2, <1>3, <1>4, <1>5, DiskSteps, NicSteps, UsbSteps, InputSteps, PTL
  DEF Spec, AnswersMatch, Que!Spec, Nic!Spec, Bus2!Spec, In!Spec

(* The state of every driver has its type, whichever part runs. *)
THEOREM DriversKeepTypes == ASSUME Coped, Patient, Bus2!Steady, Bus2!Roomy PROVE Spec => []TypeOK
<1>1. Init => Que!Init /\ Drive!Init /\ Bus!Init /\ Nic!Init /\ Bus2!Init /\ Xhci!Init /\ In!Init
  BY DEF Init
<1>2. Que!Spec => [](Que!TypeOK /\ Que!Survives /\ Que!AtHome)
  BY InstancesOK, DisksKeep
<1>3. Drive!Spec => [](Drive!TypeOK /\ Drive!BufferTrue /\ Drive!FindsPlace)
  BY InstancesOK, TrackStaysTrue
<1>4. Bus!Spec => [](Bus!TypeOK /\ Bus!KeepsItsNumber /\ Bus!OneDoor)
  BY InstancesOK, NumbersStay
<1>5. Nic!Spec => [](Nic!TypeOK /\ Nic!NotWedged /\ Nic!AnswersFirst)
  BY InstancesOK, RingsStayInStep
<1>6. Bus2!Spec => [](Bus2!TypeOK /\ Bus2!Noticed /\ Bus2!OneUser) /\ Bus2!OwnReports
  BY InstancesOK, Bus2!PortsStayTrue
<1>7. Xhci!Spec => [](Xhci!TypeOK /\ Xhci!LapsAgree /\ Xhci!AnsweredItself)
  BY InstancesOK, LapsStayCounted
<1>8. In!Spec => [](In!TypeOK /\ In!Framed /\ In!NoDrift /\ In!RepeatStops)
  BY InstancesOK, HandsAreFollowed
<1>9. /\ Que!TypeOK /\ Drive!TypeOK /\ Bus!TypeOK /\ Nic!TypeOK /\ Bus2!TypeOK /\ Xhci!TypeOK /\ In!TypeOK
      => TypeOK
  BY DEF TypeOK
<1> QED
  BY <1>1, <1>2, <1>3, <1>4, <1>5, <1>6, <1>7, <1>8, <1>9,
     DiskSteps, DriveSteps, BusSteps, NicSteps, UsbSteps, RingSteps, InputSteps, PTL
  DEF Spec, Que!Spec, Drive!Spec, Bus!Spec, Nic!Spec, Bus2!Spec, Xhci!Spec, In!Spec
=============================================================================
