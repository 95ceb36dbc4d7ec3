-------------------------------- MODULE Parts --------------------------------
(* Partitions (src/kernel/storage.h, apps/shell_part.h): the ids that name a disk
   or a partition, the table in sector 0 that the `part` command edits, volumes
   that are formatted, mounted and unmounted - by the shell, or by MiniFiles
   (apps/minifiles.h) while the shell waits for a YES.

   Sectors are counted in units, Align of them to the megabyte on which partitions
   are aligned.  Sector 0 is a blank one, a table with boot code, a GPT, or the
   superblock of a volume over the whole disk.  The chain of logical partitions
   and GPT entries are read only and left out.  Disks do not touch each other, so
   there is one: the one the system runs from, or another. *)
EXTENDS Integers, Sequences, FiniteSets, FiniteSetsExt

CONSTANTS
  Size,            (* units of a disk *)
  Align,           (* units of a megabyte *)
  Prim,            (* primary entries *)
  BootBase,        (* blk_boot_base *)
  Rootfs, Install, (* MW_ROOTFS_LBA and ST_INSTALL_SECTORS, in units *)
  Table,           (* the table of the boot disk *)
  Wants,           (* sizes asked of part create *)
  Volumes, Mounts  (* bounds: volumes a disk has had, volumes mounted *)

ConstantsOK ==
  /\ {Size, Align, Prim, Install, Rootfs, Volumes, Mounts} \subseteq Nat \ {0}
  /\ BootBase \in Nat /\ BootBase + Install <= Size /\ Rootfs < Install /\ 2 * Align < Size
  /\ Wants \subseteq Nat

VARIABLES
  boot,    (* the system runs from this disk: blk_boot_dev *)
  disk,    (* [kind, ours, tab, vols] *)
  mounts,  (* mounted volumes: [id, at, n] *)
  ask      (* part_pending: [op, t, u] *)

vars == <<boot, disk, mounts, ask>>

Empty == [start |-> 0, n |-> 0, type |-> "none", active |-> FALSE]
NoTable == [p \in 1 .. Prim |-> Empty]
Used(e) == e.type # "none" /\ e.n # 0
NoAsk == [op |-> "none"]

(* A volume is [at, n, whole]: its first unit and its size, as its superblock has
   them, and whether no other volume has been laid over it since. *)
Volume(at, n) == [at |-> at, n |-> n, whole |-> TRUE]
RootVolume == Volume(BootBase + Rootfs, (IF BootBase = 0 THEN Size ELSE BootBase + Install) - BootBase - Rootfs)
Blank == [kind |-> "blank", ours |-> FALSE, tab |-> NoTable, vols |-> {}]
Foreign == [kind |-> "mbr", ours |-> FALSE, vols |-> {},
            tab |-> [NoTable EXCEPT ![1] = [start |-> Align + 1, n |-> Align, type |-> "data", active |-> TRUE]]]

Own == [kind |-> "mbr", ours |-> TRUE, tab |-> Table, vols |-> {RootVolume}]

Init ==
  /\ \/ boot = TRUE /\ disk = Own
     \/ boot = FALSE /\ disk \in {Blank, Foreign, [Blank EXCEPT !.kind = "gpt"]}
  /\ mounts = {} /\ ask = NoAsk

-----------------------------------------------------------------------------
(* Reading: storage.h. *)

Overlap(a, n, b, m) == a < b + m /\ b < a + n

Scheme ==
  IF disk.kind = "gpt" THEN "gpt"
  ELSE IF disk.kind = "mbr" /\ \E p \in 1 .. Prim : disk.tab[p].type # "none" THEN "mbr" ELSE "none"

(* An id names an entry, 0 the whole disk. *)
Ids == 0 .. Prim
Region(id) ==
  IF id = 0 THEN [id |-> id, base |-> 0, n |-> Size]
  ELSE [id |-> id, base |-> disk.tab[id].start, n |-> disk.tab[id].n]
Exists(id) == id # 0 => Scheme = "mbr" /\ Used(disk.tab[id])
UnderUs(base, n) == boot /\ Overlap(base, n, BootBase, Install)

(* part_resolve(), without and with the rule that spares the running system. *)
Resolves(id) == Exists(id) /\ Region(id).base < Size /\ Region(id).n <= Size - Region(id).base
ResolvesSafe(id) == Resolves(id) /\ ~ UnderUs(Region(id).base, Region(id).n)

(* part_find_volume(): a data volume at the start, or the root of an installation. *)
VolumesAt(id) ==
  LET r == Region(id)
      at(off) == {v \in disk.vols : v.at = r.base + off /\ v.n <= r.n - off}
  IN IF at(0) # {} THEN at(0) ELSE at(Rootfs)

Mounted(id) == \E m \in mounts : m.id = id

-----------------------------------------------------------------------------
(* The table of a disk. *)

(* Boot code that is not carried over to the new sector. *)
LoadBare == [disk EXCEPT !.kind = "mbr", !.ours = FALSE, !.tab = IF Scheme = "mbr" THEN @ ELSE NoTable]
(* A signature that goes with an empty table: only that is a blank disk's. *)
Load == IF Scheme = "mbr" THEN disk ELSE [disk EXCEPT !.kind = "mbr", !.ours = FALSE, !.tab = NoTable]

(* part_mbr_store(): a volume whose superblock was in sector 0 is gone. *)
Store(tab) == disk' = [Load EXCEPT !.tab = tab, !.vols = {v \in @ : v.at # 0}]

Editable(id) == id # 0 /\ Scheme = "mbr"

(* The gaps between the used entries, as the code cuts them: one entry after the
   other out of a list of gaps [a, len]. *)
Cut(gaps, e) ==
  LET inside(g) == e.start < g.a + g.len /\ g.a < e.start + e.n
      left(g) == IF e.start > g.a THEN e.start - g.a ELSE 0
      right(g) == IF e.start + e.n < g.a + g.len THEN g.a + g.len - (e.start + e.n) ELSE 0
      rest(g) == IF ~ inside(g) THEN g
                 ELSE IF left(g) > 0 THEN [g EXCEPT !.len = left(g)]
                 ELSE [a |-> e.start + e.n, len |-> right(g)]
      split(g) == inside(g) /\ left(g) > 0 /\ right(g) > 0
      kept == [i \in DOMAIN gaps |-> rest(gaps[i])]
      new == {i \in DOMAIN gaps : split(gaps[i])}
  IN IF new = {} THEN kept
     ELSE Append(kept, LET i == CHOOSE i \in new : TRUE IN [a |-> e.start + e.n, len |-> right(gaps[i])])

Gaps(tab) ==
  LET G[p \in 0 .. Prim] ==
        IF p = 0 THEN <<[a |-> Align, len |-> Size - Align]>>
        ELSE IF Used(tab[p]) THEN Cut(G[p - 1], tab[p]) ELSE G[p - 1]
  IN G[Prim]

(* Rounded down, into the partition before it. *)
AlignedDown(a) == (a \div Align) * Align
(* A gap begins on a megabyte. *)
Aligned(a) == ((a + Align - 1) \div Align) * Align

(* The first gap only, without a look at the others. *)
PickFirst(tab, want) ==
  LET g == Gaps(tab)[1]
      room == g.a + g.len - Aligned(g.a)
  IN IF room < Align \/ room < want THEN Empty
     ELSE [start |-> Aligned(g.a), n |-> IF want > 0 THEN want ELSE room, type |-> "data", active |-> FALSE]
(* The first gap that is big enough, without a size the first of the largest. *)
Pick(tab, want) ==
  LET gaps == Gaps(tab)
      room(i) == gaps[i].a + gaps[i].len - Aligned(gaps[i].a)
      fits == {i \in DOMAIN gaps : room(i) >= Align /\ room(i) >= want}
      best == IF want > 0 THEN fits ELSE {i \in fits : \A j \in fits : room(j) <= room(i)}
      i == Min(best)
  IN IF fits = {} THEN Empty
     ELSE [start |-> Aligned(gaps[i].a), n |-> IF want > 0 THEN want ELSE room(i), type |-> "data", active |-> FALSE]

Create(id, want) ==
  LET tab == Load.tab
  IN /\ ask = NoAsk /\ id # 0 /\ Scheme # "gpt"
     /\ ~ Used(tab[id]) /\ Used(Pick(tab, want))
     /\ Store([tab EXCEPT ![id] = Pick(tab, want)])
     /\ UNCHANGED <<boot, mounts, ask>>

(* Only one entry is active. *)
SetActive(id, on) ==
  LET tab == disk.tab
      off == [p \in 1 .. Prim |-> [tab[p] EXCEPT !.active = IF on THEN FALSE ELSE @]]
  IN /\ ask = NoAsk /\ Resolves(id) /\ Editable(id)
     /\ Store([off EXCEPT ![id].active = on])
     /\ UNCHANGED <<boot, mounts, ask>>
(* The type byte is one that is in use, as before: nothing here tells them apart. *)
SetType(id) ==
  /\ ask = NoAsk /\ Resolves(id) /\ Editable(id)
  /\ Store(disk.tab)
  /\ UNCHANGED <<boot, mounts, ask>>

-----------------------------------------------------------------------------
(* What asks for a YES. *)

Asks(op, t, u) == ask = NoAsk /\ ask' = [op |-> op, t |-> t, u |-> u] /\ UNCHANGED <<boot, disk, mounts>>

AskFormat(id) == ResolvesSafe(id) /\ ~ Mounted(id) /\ Asks("format", Region(id), Region(id))
AskDelete(id) == ResolvesSafe(id) /\ Editable(id) /\ ~ Mounted(id) /\ Asks("delete", Region(id), Region(id))
MayMerge(t, u) == t.base + t.n = u.base
AskMerge(i, j) ==
  /\ \A id \in {i, j} : ResolvesSafe(id) /\ Editable(id) /\ ~ Mounted(id)
  /\ i # j
  /\ LET lo == IF Region(i).base < Region(j).base THEN Region(i) ELSE Region(j)
         hi == IF Region(i).base < Region(j).base THEN Region(j) ELSE Region(i)
     IN MayMerge(lo, hi) /\ Asks("merge", lo, hi)

Unchanged(t) == Scheme = "mbr" /\ disk.tab[t.id].start = t.base

(* mwfs_mkfs(): what lay where the new volume lies is no longer its own; a failed
   one leaves no superblock. *)
Formatted(base, n, ok) ==
  LET marred == {IF Overlap(v.at, v.n, base, n) THEN [v EXCEPT !.whole = FALSE] ELSE v : v \in {w \in disk.vols : w.at # base}}
      sector0 == IF base = 0 THEN [disk EXCEPT !.kind = "blank", !.tab = NoTable, !.ours = FALSE] ELSE disk
  IN [sector0 EXCEPT !.vols = IF ok THEN marred \cup {Volume(base, n)} ELSE marred]

(* part_exec_pending(): mounts are not looked at again. *)
Answer(yes, ok) ==
  LET t == ask.t
      u == ask.u
  IN /\ ask # NoAsk /\ ask' = NoAsk /\ UNCHANGED <<boot, mounts>>
     /\ IF ~ yes \/ (ask.op # "format" /\ ~ (Unchanged(t) /\ Unchanged(u))) THEN UNCHANGED disk
        ELSE CASE ask.op = "format" -> disk' = Formatted(t.base, t.n, ok) /\ Cardinality(disk'.vols) <= Volumes
               [] ask.op = "delete" -> Store([disk.tab EXCEPT ![t.id] = Empty])
               [] ask.op = "merge" -> Store([disk.tab EXCEPT ![t.id].n = t.n + u.n, ![u.id] = Empty])

(* Mounting and unmounting, also from MiniFiles while the shell waits. *)
Mount(id) ==
  /\ ResolvesSafe(id) /\ ~ Mounted(id) /\ VolumesAt(id) # {} /\ Cardinality(mounts) < Mounts
  /\ LET v == CHOOSE v \in VolumesAt(id) : TRUE
     IN mounts' = mounts \cup {[id |-> id, at |-> v.at, n |-> v.n]}
  /\ UNCHANGED <<boot, disk, ask>>
Unmount(m) == mounts' = mounts \ {m} /\ UNCHANGED <<boot, disk, ask>>

Next ==
  \/ \E id \in Ids :
       \/ AskFormat(id) \/ AskDelete(id) \/ Mount(id) \/ SetType(id)
       \/ \E want \in Wants : Create(id, want)
       \/ \E on \in BOOLEAN : SetActive(id, on)
       \/ \E other \in Ids : AskMerge(id, other)
  \/ \E yes, ok \in BOOLEAN : Answer(yes, ok)
  \/ \E m \in mounts : Unmount(m)

Spec == Init /\ [][Next]_vars

-----------------------------------------------------------------------------
(* Types: the sectors read from a disk, the mount table and the pending question. *)
TypeOK ==
  /\ boot \in BOOLEAN /\ disk.kind \in {"blank", "mbr", "gpt"}
  /\ \A p \in 1 .. Prim : disk.tab[p].start \in 0 .. Size /\ disk.tab[p].n \in 0 .. Size
  /\ \A v \in disk.vols : v.at + v.n <= Size
  /\ ask.op \in {"none", "format", "delete", "merge"}
  /\ \A m \in mounts : m.id \in Ids

Entries == {p \in 1 .. Prim : Used(disk.tab[p])}
Units(e) == e.start .. e.start + e.n - 1

(* Whatever is created, merged and deleted, the entries of a table do not overlap,
   stay on the disk and clear of the table itself, and no two are active
   (shell_part.h:376). *)
Disjoint ==
  /\ \A p \in Entries : Units(disk.tab[p]) \subseteq 1 .. Size - 1
  /\ \A p, q \in Entries : p = q \/ Units(disk.tab[p]) \cap Units(disk.tab[q]) = {}
  /\ Cardinality({p \in Entries : disk.tab[p].active}) <= 1

(* part create finds room exactly when there is some, and the largest when no size
   is asked for (shell_part.h:15), compared with all free runs of units. *)
FreeRun(tab, a, n) == a + n <= Size /\ \A p \in 1 .. Prim : Used(tab[p]) => Units(tab[p]) \cap (a .. a + n - 1) = {}
Places(tab, n) == {a \in Align .. Size - 1 : a % Align = 0 /\ FreeRun(tab, a, n)}
FindsGap ==
  \A want \in Wants :
    LET tab == disk.tab
        e == Pick(tab, want)
    IN /\ Used(e) <=> Places(tab, Max({want, Align})) # {}
       /\ Used(e) => e.start \in Places(tab, e.n)
       /\ Used(e) /\ want = 0 => Places(tab, e.n + 1) = {}

(* The system's own boot sector and the entry it lies in stay as they are, and no
   entry comes to overlap it (shell_part.h:20). *)
BootKept ==
  boot =>
  /\ disk.ours
  /\ \A p \in Entries : LET e == disk.tab[p] IN
       UnderUs(e.start, e.n) => e.start = Table[p].start /\ e.n = Table[p].n

(* What the manual says of part format: it refuses anything mounted
   (docs/user/TERMINAL.md:81). *)
MountedWhole ==
  \A m \in mounts : \E v \in disk.vols : v.at = m.at /\ v.n = m.n /\ v.whole
=============================================================================
