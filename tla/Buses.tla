--------------------------------- MODULE Buses ---------------------------------
(* The table of disks (blk.h): what the drivers' searches find on the buses, the
   number each device gets, and searching again.  IDE disks are identified at
   every scan and keep their position; every other bus is searched once, in its
   order, and what does not answer then is not listed. *)
EXTENDS Naturals, Sequences, FiniteSets

CONSTANTS
  Positions,                   (* ATA_POSITIONS *)
  Ports, Targets, Controllers, (* AHCI ports, SCSI targets, NVMe controllers *)
  MaxSata, MaxScsi, MaxNvme    (* AHCI_MAX_DEVS, MPT_MAX_DEVS, NVME_MAX_DEVS *)

ConstantsOK ==
  {Positions, Ports, Targets, Controllers, MaxSata, MaxScsi, MaxNvme} \subseteq Nat \ {0}

VARIABLES
  world,  (* what is attached, by bus and place *)
  found,  (* the drivers' tables: sequences of places *)
  st,     (* st_devs: the place each index stands for *)
  known   (* the place an index stood for first; no code reads it *)

vars == <<world, found, st, known>>

Bus == {"ide", "sata", "scsi", "nvme", "fd"}
Count(bus) == CASE bus = "ide" -> Positions [] bus = "sata" -> Ports [] bus = "scsi" -> Targets
                [] bus = "nvme" -> Controllers [] bus = "fd" -> 1
Places == {p \in Bus \X (1 .. Positions + Ports + Targets + Controllers) : p[2] <= Count(p[1])}
Nowhere == <<"none", 0>>
Unsearched == [done |-> FALSE, sata |-> <<>>, scsi |-> <<>>, nvme |-> <<>>, fd |-> <<>>, cd |-> {}]

(* blk_index(): a type and a number. *)
Types == {"ide", "sata", "scsi", "nvme", "fd", "cd"}
Slots(type) == CASE type = "sata" -> MaxSata [] type = "scsi" -> MaxScsi [] type = "nvme" -> MaxNvme
                 [] type = "fd" -> 1 [] OTHER -> Positions
Index == {i \in Types \X (1 .. Positions + MaxSata + MaxScsi + MaxNvme) : i[2] <= Slots(i[1])}

(* What may be attached besides a disk: a disc, or what is no 512-byte block device. *)
Other(p) == IF p[1] = "ide" THEN "disc" ELSE "odd"
Init ==
  /\ \E d \in SUBSET Places : \E o \in SUBSET {p \in Places \ d : p[1] \in {"ide", "sata", "scsi"}} :
       world = [p \in Places |-> IF p \in d THEN "disk" ELSE IF p \in o THEN Other(p) ELSE "none"]
  /\ found = Unsearched /\ st = [i \in Index |-> Nowhere] /\ known = st

-----------------------------------------------------------------------------
(* What answers a search: `up` is what answers at all this time, its controller
   included. *)

(* The places of a bus that hold a disk that answers. *)
Answering(bus, up) == {n \in 1 .. Count(bus) : <<bus, n>> \in up /\ world[<<bus, n>>] = "disk"}
(* The first of them, in the bus's order. *)
Listed(S, len) == [k \in 1 .. len |-> CHOOSE n \in S : Cardinality({m \in S : m < n}) = k - 1]

(* The table runs over. *)
DisksAll(bus, up, max) == Listed(Answering(bus, up), Cardinality(Answering(bus, up)))
(* As far as the table goes.  A port that is counted first and then fails is taken out. *)
Disks(bus, up, max) ==
  LET all == Answering(bus, up)
  IN Listed(all, IF Cardinality(all) < max THEN Cardinality(all) ELSE max)

IdeDisk(n, up) == <<"ide", n>> \in up /\ world[<<"ide", n>>] = "disk"
(* Whatever answers is taken for a disc. *)
OpticalAny(n, up) == <<"ide", n>> \in up
(* atapi_probe(): only where no disk is, and only what carries the signature. *)
Optical(n, up) == ~ IdeDisk(n, up) /\ <<"ide", n>> \in up /\ world[<<"ide", n>>] = "disc"

Search(up) ==
  [done |-> TRUE, sata |-> Disks("sata", up, MaxSata), scsi |-> Disks("scsi", up, MaxScsi),
   nvme |-> Disks("nvme", up, MaxNvme), fd |-> Disks("fd", up, 1),
   cd |-> {n \in 1 .. Positions : Optical(n, up)}]

(* The buses are searched at every scan. *)
SearchedAgain(up) == Search(up)
Searched(up) == IF found.done THEN found ELSE Search(up)

(* st_scan() *)
Table(f, up) ==
  [i \in Index |->
     CASE i[1] = "ide" -> (IF IdeDisk(i[2], up) THEN <<"ide", i[2]>> ELSE Nowhere)
       [] i[1] = "cd" -> (IF i[2] \in f.cd THEN <<"ide", i[2]>> ELSE Nowhere)
       [] OTHER -> (IF i[2] \in DOMAIN f[i[1]] THEN <<i[1], f[i[1]][i[2]]>> ELSE Nowhere)]

Scan(up) ==
  /\ found' = Searched(up)
  /\ st' = Table(found', up)
  /\ known' = [i \in Index |-> IF known[i] = Nowhere THEN st'[i] ELSE known[i]]
  /\ UNCHANGED world

Attached == {p \in Places : world[p] # "none"}
Next == \E up \in SUBSET Attached : Scan(up)
Spec == Init /\ [][Next]_vars

-----------------------------------------------------------------------------
(* Types: the tables of the drivers and of blk.h. *)
TypeOK ==
  /\ st \in [Index -> Places \cup {Nowhere}]
  /\ Len(found.sata) <= MaxSata /\ Len(found.scsi) <= MaxScsi /\ Len(found.nvme) <= MaxNvme

(* A number that stood for a device never stands for another one: mounts, the
   boot device and ids on the screen keep it over a scan (blk.h:93). *)
KeepsItsNumber == \A i \in Index : st[i] \in {Nowhere, known[i]}

(* No device has two numbers: it would be written through two doors (atapi.h:127). *)
OneDoor == \A i, j \in Index : st[i] = st[j] /\ st[i] # Nowhere => i = j
=============================================================================
