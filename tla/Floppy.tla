-------------------------------- MODULE Floppy --------------------------------
(* Removable disks: fdc.h, which finds its cylinder, moves whole tracks and keeps
   one, and atapi.h, which keeps one block of a disc.  A track (a block) is Spt
   sectors.  Each attempt of the code is one step; a behaviour runs one of them.

   What goes wrong: a seek or a transfer fails, in the middle of a write even, or
   the head has slipped and stands elsewhere than fd_cyl says. *)
EXTENDS Integers, FiniteSets

CONSTANTS
  Kinds,       (* "fd", "cd" *)
  Spt, Heads, Cyls,
  None

ConstantsOK == Kinds \subseteq {"fd", "cd"} /\ {Spt, Heads, Cyls} \subseteq Nat \ {0} /\ None \notin 0 .. 1

VARIABLES
  unit,     (* the drive that is modelled *)
  medium,   (* what its sectors hold *)
  head,     (* where the head really stands *)
  fd,       (* fd_cyl, fd_motor, fd_cache_track and its buffer *)
  req,      (* the call *)
  faults    (* [hard, slips]: what went wrong during this call; no code reads it *)

vars == <<unit, medium, head, fd, req, faults>>

Lba == 0 .. Spt * Heads * Cyls - 1
TrackOf(l) == l \div Spt
Track == 0 .. Heads * Cyls - 1
(* Cylinders are counted from one. *)
CylOfOne(t) == t \div Heads + 1
CylOf(t) == t \div Heads
Sectors(t) == {l \in Lba : TrackOf(l) = t}
Attempts == IF unit = "fd" THEN 4 ELSE 3
NoBuffer == [l \in Lba |-> None]
NoReq == [op |-> "none", lba |-> 0, val |-> None, tries |-> 0, res |-> "none"]

(* fdc_reset(): where the head stands is not known. *)
Init ==
  /\ unit \in Kinds /\ medium = [l \in Lba |-> 0] /\ head \in 0 .. Cyls - 1
  /\ fd = [cyl |-> -1, motor |-> FALSE, track |-> -1, buf |-> NoBuffer]
  /\ req = NoReq /\ faults = [hard |-> FALSE, slips |-> 0]

(* A read of what is in the buffer is answered at once; else the buffer is taken. *)
Cached(l) == fd.track = TrackOf(l)
Return(res) == [NoReq EXCEPT !.res = res]

Read(l) ==
  /\ req.op = "none" /\ faults' = [hard |-> FALSE, slips |-> 0]
  /\ IF Cached(l)
     THEN fd' = fd /\ req' = Return("ok")
     ELSE /\ fd' = [fd EXCEPT !.track = -1, !.motor = TRUE]
          /\ req' = [NoReq EXCEPT !.op = "read", !.lba = l]
  /\ UNCHANGED <<unit, medium, head>>

Write(l, v) ==
  /\ req.op = "none" /\ unit = "fd" /\ faults' = [hard |-> FALSE, slips |-> 0]
  /\ fd' = [fd EXCEPT !.motor = TRUE]
  /\ req' = [NoReq EXCEPT !.op = "write", !.lba = l, !.val = v]
  /\ UNCHANGED <<unit, medium, head>>

-----------------------------------------------------------------------------
(* fdc_seek(): a recalibration when the place is not known, a seek when it is
   another one. *)

(* The place is believed to the last attempt. *)
BelievedAlways == fd.cyl
(* The third attempt does not believe it any more. *)
Believed == IF req.tries = 2 THEN -1 ELSE fd.cyl
Moves(cyl) == Believed # cyl

(* The head stops at either end. *)
Stopped(c) == IF c < 0 THEN 0 ELSE IF c >= Cyls THEN Cyls - 1 ELSE c

Sought(cyl, ok) ==
  IF ~ Moves(cyl) THEN [cyl |-> cyl, head |-> head]
  ELSE IF ok THEN [cyl |-> cyl, head |-> IF Believed = -1 THEN cyl ELSE Stopped(head + (cyl - Believed))]
  ELSE [cyl |-> -1, head |-> head]

(* fdc_transfer(): the sector's address on the disk must be the one asked for. *)
Found(s, cyl) == s.cyl = cyl /\ s.head = cyl

Written(f, l, v) == IF f.track = TrackOf(l) THEN [f EXCEPT !.buf[l] = v] ELSE f
(* A failed write leaves the buffer in use. *)
DroppedNot(f) == f
Dropped(f) == [f EXCEPT !.track = -1, !.buf = NoBuffer]
Loaded(f, t) == [f EXCEPT !.track = t, !.buf = [l \in Lba |-> IF l \in Sectors(t) THEN medium[l] ELSE None]]

(* One attempt of fd_load_track(), fd_write() or atapi_read(). *)
Attempt(seeks, transfers, landed) ==
  LET t == TrackOf(req.lba)
      cyl == CylOf(t)
      s == IF unit = "fd" THEN Sought(cyl, seeks) ELSE [cyl |-> cyl, head |-> cyl]
      ok == transfers /\ Found(s, cyl)
      last == req.tries + 1 = Attempts
      moved == [fd EXCEPT !.cyl = IF unit = "fd" THEN s.cyl ELSE @]
      hard == faults.hard \/ (unit = "fd" /\ Moves(cyl) /\ ~ seeks) \/ ~ transfers
  IN /\ req.op # "none"
     /\ landed => req.op = "write" /\ ~ transfers /\ Found(s, cyl)
     /\ head' = IF unit = "fd" THEN s.head ELSE head
     /\ faults' = [faults EXCEPT !.hard = hard]
     /\ medium' = IF req.op = "write" /\ (ok \/ landed) THEN [medium EXCEPT ![req.lba] = req.val] ELSE medium
     /\ fd' = IF ok THEN (IF req.op = "read" THEN Loaded(moved, t) ELSE Written(moved, req.lba, req.val))
              ELSE IF last /\ req.op = "write" THEN Dropped(moved) ELSE moved
     /\ req' = IF ok THEN Return("ok") ELSE IF last THEN Return("failed") ELSE [req EXCEPT !.tries = @ + 1]
     /\ UNCHANGED unit

(* Somebody knocks against the drive. *)
Slip ==
  /\ unit = "fd" /\ faults.slips = 0 /\ req.op # "none" /\ req.tries < 2
  /\ head' \in (0 .. Cyls - 1) \ {head} /\ faults' = [faults EXCEPT !.slips = 1]
  /\ UNCHANGED <<unit, medium, fd, req>>

Next ==
  \/ \E l \in Lba : Read(l) \/ \E v \in {0, 1} : Write(l, v)
  \/ \E seeks, transfers, landed \in BOOLEAN : Attempt(seeks, transfers, landed)
  \/ Slip

Spec == Init /\ [][Next]_vars
(* The attempts are a loop. *)
Fairness == WF_vars(\E seeks, transfers, landed \in BOOLEAN : Attempt(seeks, transfers, landed))

-----------------------------------------------------------------------------
(* Types: the medium, the head and the track buffer. *)
TypeOK ==
  /\ medium \in [Lba -> 0 .. 1] /\ fd.cyl \in -1 .. Cyls - 1 /\ fd.track \in -1 .. Heads * Cyls - 1
  /\ fd.buf \in [Lba -> {None, 0, 1}] /\ req.tries \in 0 .. Attempts - 1

(* Between two calls the track in the buffer is the one on the disk, whichever
   write failed in the middle (fdc.h:174, atapi.h:116). *)
BufferTrue == req.op = "none" /\ fd.track # -1 => \A l \in Sectors(fd.track) : fd.buf[l] = medium[l]
(* A head that has lost its place is found again within the attempts of one call
   if it happens before the third (fdc.h:150): only seeks and transfers that fail make a call fail. *)
FindsPlace == req.res = "failed" => faults.hard
=============================================================================
