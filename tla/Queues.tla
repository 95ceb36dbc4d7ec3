-------------------------------- MODULE Queues --------------------------------
(* The drivers of hard disks: ata.h (PIO), ahci.h (one command slot), mpt.h (a
   request frame and a reply FIFO) and nvme.h (a submission and a completion
   ring).  All are polled and have one command under way; a poll that runs out of
   patience gives up, whatever the device still does.  A behaviour runs one of them.

   A command passes through one buffer: the bounce sector of the DMA drivers, the
   device's own port for PIO.  What the device holds is "sec", of which "safe"
   survives a power cut; a value is tagged with the sector it was written to. *)
EXTENDS Naturals, Sequences

CONSTANTS
  Kinds,    (* drivers a run explores, of "ata", "ahci", "nvme", "mpt" *)
  Lba,      (* sectors *)
  Ring,     (* entries of a completion ring *)
  None,
  Late      (* drivers whose device may answer after the poll gave up, and live *)

ConstantsOK ==
  /\ Kinds \subseteq {"ata", "ahci", "nvme", "mpt"} /\ Late \subseteq Kinds
  /\ Lba \subseteq Nat /\ Ring \in Nat \ {0, 1} /\ None \notin Lba \X {0, 1}

VARIABLES
  kind,
  dev,     (* sec, safe, dead, what was submitted, the completion ring and its end, replies *)
  drv,     (* the driver and the call it is in *)
  told     (* what the last acknowledged write of a sector wrote, if the device had no
              fault to report of it; no code reads it *)

vars == <<kind, dev, drv, told>>

Datum == Lba \X {0, 1}
Zero(l) == <<l, 0>>
Blank == [phase |-> 0, ok |-> FALSE, mine |-> FALSE]

(* bringup(), port_start(): empty queues, phase 1. *)
Reset(d) ==
  [d EXCEPT !.outs = <<>>, !.cq = [i \in 0 .. Ring - 1 |-> Blank], !.tail = 0, !.phase = 1, !.replies = <<>>]
Fresh == [pc |-> "idle", op |-> "none", cmd |-> "none", lba |-> None, val |-> None,
          tries |-> 0, buf |-> None, head |-> 0, phase |-> 1, res |-> "none",
          deaf |-> FALSE]    (* a fault of this call was reported and not read; no code reads it *)

Init ==
  LET blank == [l \in Lba |-> Zero(l)]
  IN /\ kind \in Kinds
     /\ dev = Reset([sec |-> blank, safe |-> blank, dead |-> FALSE, outs |-> <<>>, cq |-> <<>>, tail |-> 0, phase |-> 1, replies |-> <<>>])
     /\ drv = Fresh /\ told = blank

-----------------------------------------------------------------------------
(* A call: read, or write and flush. *)

Call(op, l, v) ==
  /\ drv.pc = "idle"
  /\ drv' = [drv EXCEPT !.pc = "send", !.op = op, !.cmd = op, !.lba = l, !.val = v, !.tries = 0, !.res = "none", !.deaf = FALSE,
                        !.buf = IF op = "write" THEN v ELSE @]
  /\ told' = IF op = "write" THEN [told EXCEPT ![l] = None] ELSE told
  /\ UNCHANGED <<kind, dev>>

Tries == IF kind = "ata" THEN 1 ELSE 2
Returned(d, res) == [d EXCEPT !.pc = "idle", !.op = "none", !.val = None, !.tries = 0, !.res = res, !.deaf = FALSE]
Again(d) == [d EXCEPT !.pc = "send", !.tries = @ + 1]
(* A sector that begins with zeros is read up to four times (ata.h:108). *)
LooksEmpty(d) == kind = "ata" /\ d.buf[2] = 0 /\ d.tries < 3

(* What a failed read left in the buffer is handed to the caller. *)
AnsweredAnyway(d, ok) ==
  IF d.cmd = "write" /\ ok THEN [d EXCEPT !.cmd = "flush", !.pc = "send"]
  ELSE Returned(d, IF ok \/ d.cmd = "read" THEN "ok" ELSE "failed")
(* A write that is believed without a flush. *)
AnsweredUnflushed(d, ok) ==
  IF ok THEN Returned(d, "ok")
  ELSE IF d.cmd = "read" /\ d.tries + 1 < Tries THEN Again(d) ELSE Returned(d, "failed")

Answered(d, ok) ==
  IF d.cmd = "read" /\ ok THEN (IF LooksEmpty(d) THEN Again(d) ELSE Returned(d, "ok"))
  ELSE IF d.cmd = "read" /\ d.tries + 1 < Tries THEN Again(d)
  ELSE IF d.cmd = "write" /\ ok THEN [d EXCEPT !.cmd = "flush", !.pc = "send"]
  ELSE IF d.cmd = "flush" /\ kind = "mpt" THEN Returned(d, "ok")      (* best effort *)
  ELSE Returned(d, IF ok THEN "ok" ELSE "failed")

(* The caller learns of it. *)
Learns(d) ==
  /\ drv' = d
  /\ told' = IF d.pc = "idle" /\ drv.op = "write" /\ d.res = "ok" /\ ~ drv.deaf THEN [told EXCEPT ![drv.lba] = drv.val] ELSE told

(* Nothing that was posted before is an answer to the command to come. *)
Disowned(d) == [d EXCEPT !.outs = [i \in DOMAIN @ |-> [@[i] EXCEPT !.mine = FALSE]],
                         !.cq = [i \in DOMAIN @ |-> [@[i] EXCEPT !.mine = FALSE]],
                         !.replies = [i \in DOMAIN @ |-> [@[i] EXCEPT !.mine = FALSE]]]

(* The command is written where the device finds it and the doorbell rung.  ATA
   and AHCI clear the old status; an ATA device drops what it waited to be sent.
   A busy one makes the ATA driver give up. *)
Submit ==
  LET d == Disowned(dev)
      cmd == [cmd |-> drv.cmd, lba |-> drv.lba, val |-> drv.val, mine |-> TRUE]
  IN /\ drv.pc = "send"
     /\ IF kind = "ata" /\ dev.outs # <<>>
        THEN Learns(Returned(drv, "failed")) /\ UNCHANGED <<kind, dev>>
        ELSE /\ drv' = [drv EXCEPT !.pc = "wait"]
             /\ dev' = IF kind \in {"ata", "ahci"} THEN [d EXCEPT !.outs = <<cmd>>, !.replies = <<>>]
                       ELSE IF dev.dead THEN d ELSE [d EXCEPT !.outs = Append(@, cmd)]
             /\ UNCHANGED <<kind, told>>

-----------------------------------------------------------------------------
(* The device, in its own time: it executes what was submitted and answers. *)

(* NVMe fills the ring, with the phase of its lap; the others queue a reply. *)
Posted(d, ok, mine, sent) ==
  IF kind # "nvme" THEN [d EXCEPT !.replies = Append(@, [ok |-> ok, mine |-> mine, sent |-> sent])]
  ELSE [d EXCEPT !.cq[d.tail] = [phase |-> d.phase, ok |-> ok, mine |-> mine], !.tail = (@ + 1) % Ring,
                 !.phase = IF d.tail = Ring - 1 THEN 1 - @ ELSE @]

(* What is submitted is a pointer to the one request frame of mpt.h, which may have
   been filled again since; DMA takes the data from the buffer as it is now.  An ATA
   drive reports an error before it was sent the data of a write, or after. *)
Execute(ok, landed, sent) ==
  LET e == Head(dev.outs)
      frame == [e EXCEPT !.cmd = drv.cmd, !.lba = drv.lba]
      c == IF kind = "mpt" THEN frame ELSE e
      datum == IF kind = "ata" THEN e.val ELSE drv.buf
      done == [dev EXCEPT !.outs = Tail(@),
                          !.sec = IF c.cmd = "write" /\ (ok \/ landed) THEN [@ EXCEPT ![c.lba] = datum] ELSE @,
                          !.safe = IF c.cmd = "flush" /\ ok THEN dev.sec ELSE @]
  IN /\ dev.outs # <<>> /\ ~ dev.dead /\ (landed => c.cmd = "write" /\ ~ ok /\ sent)
     /\ ~ sent => kind = "ata" /\ c.cmd = "write" /\ ~ ok
     /\ dev' = Posted(done, ok, e.mine, sent)
     /\ drv' = [drv EXCEPT !.buf = IF c.cmd = "read" /\ ok THEN dev.sec[c.lba] ELSE @]
     /\ UNCHANGED <<kind, told>>

(* It stops answering for good. *)
Die == ~ dev.dead /\ drv.pc = "wait" /\ dev' = [dev EXCEPT !.dead = TRUE, !.outs = <<>>] /\ UNCHANGED <<kind, drv, told>>

-----------------------------------------------------------------------------
(* The poll. *)

(* A completion is new when it has the phase of this lap. *)
Seen == IF kind = "nvme" THEN dev.cq[drv.head].phase = drv.phase ELSE dev.replies # <<>>
Answer == IF kind = "nvme" THEN dev.cq[drv.head] ELSE Head(dev.replies)

(* The head runs on behind the end of the ring. *)
TakenNoWrap(d) == IF kind = "nvme" THEN [d EXCEPT !.head = @ + 1] ELSE d
(* The lap ends and the phase stays. *)
TakenSamePhase(d) == IF kind = "nvme" THEN [d EXCEPT !.head = (@ + 1) % Ring] ELSE d

Taken(d) ==
  IF kind # "nvme" THEN d
  ELSE [d EXCEPT !.head = (@ + 1) % Ring, !.phase = IF d.head = Ring - 1 THEN 1 - @ ELSE @]

(* What the driver makes of the status: once the data of an ATA write are sent it
   waits for BSY to clear, looks at neither ERR nor DF, and goes on to the flush. *)
Hears == Answer.ok \/ (kind = "ata" /\ drv.cmd = "write" /\ Answer.sent)
Noted(d) == [d EXCEPT !.deaf = @ \/ (Hears /\ ~ Answer.ok)]

Collect ==
  /\ drv.pc = "wait" /\ Seen
  /\ dev' = [dev EXCEPT !.replies = IF kind = "nvme" THEN @ ELSE Tail(@)]
  /\ Learns(Answered(Noted(Taken(drv)), Hears)) /\ UNCHANGED kind

(* The port is left as it is. *)
RestartedNot(d) == d
(* AHCI stops the port and starts it again, which takes the command back. *)
Restarted(d) == IF kind = "ahci" THEN Reset(d) ELSE d

(* ATA gives up before its data are asked for, or after they are sent. *)
GiveUp(sent) ==
  /\ drv.pc = "wait" /\ ~ Seen /\ (dev.dead \/ kind \in Late)
  /\ (sent \/ kind = "ata")
  /\ dev' = IF sent THEN Restarted(dev) ELSE [dev EXCEPT !.outs = <<>>]
  /\ Learns(Answered(drv, FALSE)) /\ UNCHANGED kind

(* The cache of the device is lost; the next start brings everything up again. *)
PowerCut ==
  /\ dev' = [Reset(dev) EXCEPT !.sec = dev.safe, !.dead = FALSE]
  /\ drv' = Fresh
  /\ told' = [l \in Lba |-> IF kind = "mpt" \/ (drv.pc # "idle" /\ drv.op = "write" /\ drv.lba = l) THEN None ELSE told[l]]
  /\ UNCHANGED kind

Next ==
  \/ \E l \in Lba : Call("read", l, None) \/ \E v \in {0, 1} : Call("write", l, <<l, v>>)
  \/ Submit \/ Collect \/ Die \/ PowerCut
  \/ \E ok, landed, sent \in BOOLEAN : Execute(ok, landed, sent)
  \/ \E sent \in BOOLEAN : GiveUp(sent)

Spec == Init /\ [][Next]_vars
(* A device answers or is given up: the polls are bounded. *)
Fairness ==
  /\ WF_vars(Submit) /\ WF_vars(Collect) /\ WF_vars(\E sent \in BOOLEAN : GiveUp(sent))
  /\ WF_vars(\E ok, landed, sent \in BOOLEAN : Execute(ok, landed, sent))

-----------------------------------------------------------------------------
(* Types: the device's contents, the rings and the call. *)
TypeOK ==
  /\ dev.sec \in [Lba -> Datum] /\ dev.safe \in [Lba -> Datum] /\ dev.tail \in 0 .. Ring - 1
  /\ \A i \in DOMAIN dev.outs : dev.outs[i].cmd \in {"read", "write", "flush"}
  /\ drv.pc \in {"idle", "send", "wait"} /\ drv.head \in 0 .. Ring - 1 /\ drv.tries \in 0 .. 3
  /\ told \in [Lba -> Datum \cup {None}]

(* A read that succeeds returns what the device holds for that sector, whatever
   was given up before it (nvme.h:85, ahci.h:143). *)
ReadTrue ==
  [][drv.pc = "wait" /\ drv'.pc = "idle" /\ drv.op = "read" /\ drv'.res = "ok" => drv'.buf = dev.sec[drv.lba]]_vars

(* A write that succeeded, and of which the device reported no fault, is on the medium:
   a power cut does not take it back (ahci.h:167); with mpt.h, whose flush is a best
   effort, the device has it. *)
Survives == \A l \in Lba : told[l] # None => (IF kind = "mpt" THEN dev.sec ELSE dev.safe)[l] = told[l]

(* What ata.h:115 says of ata_at_write(): "Returns 1 on success, 0 on any
   error/fault/timeout".  A fault that the drive reports after it took the data is not
   read, and the flush after it may well succeed. *)
WriteSaysSo ==
  drv.pc = "idle" /\ drv.cmd = "flush" /\ drv.res = "ok" /\ kind # "mpt" => dev.safe[drv.lba] = drv.buf

(* A sector holds what was written to it and nothing that was meant for another:
   the buffer of a command given up is not taken for the next one's. *)
AtHome == \A l \in Lba : dev.sec[l][1] = l /\ dev.safe[l][1] = l

(* The answer that a poll takes is the one to its own command (nvme.h:80: "waits
   for its completion"). *)
OwnAnswer == [][drv.pc = "wait" /\ Collect => Answer.mine]_vars

(* Every call returns. *)
CallEnds == drv.pc # "idle" ~> drv.pc = "idle"
=============================================================================
