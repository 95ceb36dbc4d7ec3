-------------------------------- MODULE Mwfs --------------------------------
(***************************************************************************)
(* MWFS, the MiniWin file system (kernel/mwfs.h), at the grain of its      *)
(* sector writes: one step is one write of one sector, so a power cut can  *)
(* fall between any two writes of an operation.                            *)
(*                                                                         *)
(* The module has one directory whose entries fit in the sectors it        *)
(* already owns, and files of at most MaxBlocks direct sectors (Notepad's  *)
(* documents are at most 4096 bytes, the eight direct sectors of an        *)
(* inode).  A version stands for the bytes of a file, its size and its     *)
(* CRC; the k-th sector of version v holds <<v, k>>.  Next-fit allocation  *)
(* is any free inode or sector.                                            *)
(***************************************************************************)
EXTENDS Integers, FiniteSets

CONSTANTS
  Name,         (* the names of the directory                                      *)
  NoName,       (* no name                                                         *)
  Ino,          (* inode numbers other than the root's                             *)
  NoIno,        (* inode number 0                                                  *)
  Blk,          (* sectors of the data area                                        *)
  NoBlk,        (* a null sector pointer                                           *)
  Version,      (* file contents                                                   *)
  NoVer,        (* the content of an inode that was never completed                *)
  Blocks,       (* Blocks[v]: how many sectors version v needs                     *)
  MaxBlocks,    (* MWFS_NDIRECT                                                    *)
  CheckFirst,   (* TRUE: after a power cut or a failed write, `part check fix` is  *)
                (* run to its end before the volume is used again                  *)
  WriteFaults,  (* how a sector write may fail: "lost", "landed" (it reached the   *)
                (* medium but the flush timed out and the driver says it failed)   *)
  ReadFaults    (* TRUE: a sector read may fail                                    *)

ASSUME NoNameNotName == NoName \notin Name
ASSUME NoInoNotIno == NoIno \notin Ino
ASSUME NoBlkNotBlk == NoBlk \notin Blk
ASSUME NoVerNotVersion == NoVer \notin Version
ASSUME MaxBlocksNat == MaxBlocks \in Nat \ {0}
ASSUME BlocksFit == Blocks \in [Version -> 0 .. MaxBlocks]
ASSUME PolicyBoolean == CheckFirst \in BOOLEAN /\ ReadFaults \in BOOLEAN
ASSUME WriteFaultsKinds == WriteFaults \subseteq {"lost", "landed"}

(* The sectors of the directory, the inode table and the bitmap are read,
   changed and written back: one that cannot be read is a write that is lost. *)
ASSUME ReadFaultsLoseWrites == ReadFaults => "lost" \in WriteFaults

VARIABLES
  dir,      (* dir[n]: the inode the entry of n points at, or NoIno    (disk) *)
  itable,   (* the inode table                                         (disk) *)
  bitmap,   (* the sectors marked used                                 (disk) *)
  sec,      (* the contents of the data sectors                        (disk) *)
  op,       (* the call in progress: its locals                      (memory) *)
  dirty     (* a power cut or an I/O error since the last check was started   *)

vars == <<dir, itable, bitmap, sec, op, dirty>>

Index == 1 .. MaxBlocks
NoPtr == [k \in Index |-> NoBlk]
NotWritten == <<NoVer, 0>>

FreeInode == [type |-> "free", ptr |-> NoPtr, ver |-> NoVer]
NewInode == [type |-> "file", ptr |-> NoPtr, ver |-> NoVer]

(* The sectors an inode owns. *)
Owned(inode) == {inode.ptr[k] : k \in Index} \ {NoBlk}

NoOp ==
  [pc |-> "idle", name |-> NoName, ver |-> NoVer,
   ino |-> NoIno, old |-> NoIno, ptr |-> NoPtr, k |-> 0, left |-> {},
   after |-> "idle", reach |-> {}, todo |-> {}, itodo |-> {}]

Init ==
  /\ dir = [n \in Name |-> NoIno]
  /\ itable = [i \in Ino |-> FreeInode]
  /\ bitmap = {}
  /\ sec = [b \in Blk |-> NotWritten]
  /\ op = NoOp
  /\ dirty = FALSE

-----------------------------------------------------------------------------
(* One sector write: "ok", or one of the faults. *)
Outcome == {"ok"} \cup WriteFaults
Written(r, new, old) == IF r = "lost" THEN old ELSE new

MayStart == op.pc = "idle" /\ (CheckFirst => ~dirty)

(* The call returns; a write that failed leaves the volume to be checked. *)
Return(r) ==
  /\ op' = NoOp
  /\ dirty' = (dirty \/ r # "ok")

(* mwfs_ino_release(): the inode is read from the disk, its sectors are freed
   one by one, and only then the inode itself is cleared.  "after" says where
   the caller o goes on. *)
Releasing(o, i, table, after) ==
  [o EXCEPT !.pc = "free", !.ino = i, !.left = Owned(table[i]), !.after = after]

(* The last thing a call does; an inode that cannot be read is not released. *)
Release(i, table, r) ==
  \/ op' = Releasing(NoOp, i, table, "idle") /\ dirty' = (dirty \/ r # "ok")
  \/ ReadFaults /\ op' = NoOp /\ dirty' = TRUE

FreeBit(b, r) ==
  /\ op.pc = "free"
  /\ b \in op.left
  /\ bitmap' = Written(r, bitmap \ {b}, bitmap)
  /\ op' = [op EXCEPT !.left = @ \ {b}]
  /\ dirty' = (dirty \/ r # "ok")
  /\ UNCHANGED <<dir, itable, sec>>

FreeIno(r) ==
  /\ op.pc = "free"
  /\ op.left = {}
  /\ itable' = Written(r, [itable EXCEPT ![op.ino] = FreeInode], itable)
  /\ op' = IF op.after = "idle" THEN NoOp ELSE [op EXCEPT !.pc = op.after, !.after = "idle"]
  /\ dirty' = (dirty \/ r # "ok")
  /\ UNCHANGED <<dir, bitmap, sec>>

-----------------------------------------------------------------------------
(* mwfs_file_put(), mwfs_file_copy() and mwfs_file_install(). *)

(* A fault for comparison: one sector too many. *)
NextFillLate(v, k) == IF k > Blocks[v] THEN "store" ELSE "fill"

NextFill(v, k) == IF k = Blocks[v] THEN "store" ELSE "fill"

(* mwfs_ino_alloc(), the first write of a save.  An inode that cannot be read
   back ends the call, and stays allocated. *)
FilePut(n, v, i, r) ==
  /\ MayStart
  /\ itable[i].type = "free"
  /\ itable' = Written(r, [itable EXCEPT ![i] = NewInode], itable)
  /\ \/ /\ r = "ok"
        /\ op' = [NoOp EXCEPT !.pc = NextFill(v, 0), !.name = n, !.ver = v, !.ino = i]
        /\ UNCHANGED dirty
     \/ r # "ok" /\ Return(r)
     \/ ReadFaults /\ op' = NoOp /\ dirty' = TRUE
  /\ UNCHANGED <<dir, bitmap, sec>>

(* The content of a file that reads back whole is what a copy of it holds. *)
Intact(i) ==
  /\ itable[i].type = "file"
  /\ itable[i].ver \in Version
  /\ \A k \in Index :
       IF k <= Blocks[itable[i].ver]
         THEN itable[i].ptr[k] \in bitmap /\ sec[itable[i].ptr[k]] = <<itable[i].ver, k>>
         ELSE itable[i].ptr[k] = NoBlk

FileCopy(s, n, i, r) ==
  /\ dir[s] # NoIno /\ dir[s] # dir[n]
  /\ Intact(dir[s])
  /\ FilePut(n, itable[dir[s]].ver, i, r)

(* A fault for comparison: the bit of the sector is not stored. *)
AllocUnmarked(r) ==
  /\ op.pc = "fill"
  /\ \E b \in Blk \ bitmap :
       op' = [op EXCEPT !.pc = "data", !.k = @ + 1, !.ptr = [@ EXCEPT ![op.k + 1] = b]]
  /\ UNCHANGED <<dir, itable, bitmap, sec, dirty>>

(* mwfs_bmap(): the bit of the next sector is set before the sector is written.
   A volume with no free sector ends the save with MWFS_E_FULL. *)
Alloc(r) ==
  /\ op.pc = "fill"
  /\ \/ /\ bitmap = Blk
        /\ op' = [op EXCEPT !.pc = "abort"]
        /\ UNCHANGED <<bitmap, dirty>>
     \/ \E b \in Blk \ bitmap :
        /\ bitmap' = Written(r, bitmap \cup {b}, bitmap)
        /\ op' = IF r = "ok"
                   THEN [op EXCEPT !.pc = "data", !.k = @ + 1, !.ptr = [@ EXCEPT ![op.k + 1] = b]]
                   ELSE [op EXCEPT !.pc = "abort"]
        /\ dirty' = (dirty \/ r # "ok")
  /\ UNCHANGED <<dir, itable, sec>>

(* A fault for comparison: a write is taken for done whatever the driver says. *)
WriteDataUnchecked(r) ==
  /\ op.pc = "data"
  /\ sec' = Written(r, [sec EXCEPT ![op.ptr[op.k]] = <<op.ver, op.k>>], sec)
  /\ op' = [op EXCEPT !.pc = NextFill(op.ver, op.k)]
  /\ UNCHANGED <<dir, itable, bitmap, dirty>>

(* A last sector that is not full is first written with zeros: if that write
   fails the inode does not get the sector, whose bit stays set. *)
WriteData(r) ==
  /\ op.pc = "data"
  /\ sec' = Written(r, [sec EXCEPT ![op.ptr[op.k]] = <<op.ver, op.k>>], sec)
  /\ \/ r = "ok" /\ op' = [op EXCEPT !.pc = NextFill(op.ver, op.k)]
     \/ r # "ok" /\ op' = [op EXCEPT !.pc = "abort"]
     \/ /\ r # "ok" /\ op.k = Blocks[op.ver]
        /\ op' = [op EXCEPT !.pc = "abort", !.ptr = [@ EXCEPT ![op.k] = NoBlk]]
  /\ dirty' = (dirty \/ r # "ok")
  /\ UNCHANGED <<dir, itable, bitmap>>

(* A fault for comparison: the error of the copy is lost when the inode is stored. *)
StoreInoAnyway(r) ==
  /\ op.pc \in {"store", "abort"} /\ r = "ok"
  /\ itable' = [itable EXCEPT ![op.ino] =
                  [type |-> "file", ptr |-> op.ptr, ver |-> IF op.pc = "store" THEN op.ver ELSE NoVer]]
  /\ op' = [op EXCEPT !.pc = "switch"]
  /\ UNCHANGED <<dir, bitmap, sec, dirty>>

(* The inode is stored even after a failed write, so that the release that
   follows sees every sector the save took. *)
StoreIno(r) ==
  /\ op.pc \in {"store", "abort"}
  /\ LET new == [type |-> "file", ptr |-> op.ptr,
                 ver |-> IF op.pc = "store" THEN op.ver ELSE NoVer]
         table == Written(r, [itable EXCEPT ![op.ino] = new], itable)
     IN  /\ itable' = table
         /\ \/ /\ op.pc = "store" /\ r = "ok"
               /\ op' = [op EXCEPT !.pc = "switch"]
               /\ UNCHANGED dirty
            \/ /\ op.pc = "abort" \/ r # "ok" \/ ReadFaults
               /\ Release(op.ino, table, r)
  /\ UNCHANGED <<dir, bitmap, sec>>

(* A fault for comparison: the replaced file is not released. *)
SwitchKeepsOld(r) ==
  /\ op.pc = "switch"
  /\ dir' = Written(r, [dir EXCEPT ![op.name] = op.ino], dir)
  /\ \/ r # "ok" /\ Release(op.ino, itable, r)
     \/ r = "ok" /\ Return(r)
  /\ UNCHANGED <<itable, bitmap, sec>>

(* mwfs_dir_retarget() or mwfs_dir_add(): the one write that switches the name
   over; then the old inode is released, or the new one if the write failed. *)
Switch(r) ==
  /\ op.pc = "switch"
  /\ dir' = Written(r, [dir EXCEPT ![op.name] = op.ino], dir)
  /\ \/ r # "ok" /\ Release(op.ino, itable, r)
     \/ r = "ok" /\ dir[op.name] # NoIno /\ Release(dir[op.name], itable, r)
     \/ r = "ok" /\ dir[op.name] = NoIno /\ Return(r)
  /\ UNCHANGED <<itable, bitmap, sec>>

-----------------------------------------------------------------------------
(* mwfs_unlink(): the entry goes first, then the inode. *)
Unlink(n, r) ==
  /\ MayStart
  /\ dir[n] # NoIno
  /\ dir' = Written(r, [dir EXCEPT ![n] = NoIno], dir)
  /\ IF r = "ok" THEN Release(dir[n], itable, r) ELSE Return(r)
  /\ UNCHANGED <<itable, bitmap, sec>>

(* mwfs_rename(): the new entry first (a file already there is replaced) ... *)
RenameTo(f, t, r) ==
  /\ MayStart
  /\ dir[f] # NoIno /\ dir[t] # dir[f]
  /\ dir' = Written(r, [dir EXCEPT ![t] = dir[f]], dir)
  /\ op' = IF r = "ok" THEN [NoOp EXCEPT !.pc = "mvdel", !.name = f, !.old = dir[t]] ELSE NoOp
  /\ dirty' = (dirty \/ r # "ok")
  /\ UNCHANGED <<itable, bitmap, sec>>

(* ... then the old one goes, and the replaced file is released. *)
RenameFrom(r) ==
  /\ op.pc = "mvdel"
  /\ dir' = Written(r, [dir EXCEPT ![op.name] = NoIno], dir)
  /\ IF r = "ok" /\ op.old # NoIno THEN Release(op.old, itable, r) ELSE Return(r)
  /\ UNCHANGED <<itable, bitmap, sec>>

-----------------------------------------------------------------------------
(* mwfs_check() with fix: the walk over the entries, the orphans, the leaks. *)

Used == {n \in Name : dir[n] # NoIno}

(* A fault for comparison: the set of reached inodes is left from an earlier check. *)
CheckStartStale ==
  /\ op.pc = "idle"
  /\ op' = [NoOp EXCEPT !.pc = "walk", !.todo = Used, !.reach = {dir[n] : n \in Used}]
  /\ dirty' = FALSE
  /\ UNCHANGED <<dir, itable, bitmap, sec>>

CheckStart ==
  /\ op.pc = "idle"
  /\ op' = [NoOp EXCEPT !.pc = "walk", !.todo = Used]
  /\ dirty' = FALSE
  /\ UNCHANGED <<dir, itable, bitmap, sec>>

(* An entry of a free inode, and the second entry of an inode, are removed; so
   is an entry whose inode cannot be read.  The walk is by position: a removal
   that is reported failed steps on, and if it landed all the same, the entry
   that moved into the position is passed over. *)
WalkRemove(n, r) ==
  /\ op.pc = "walk"
  /\ n \in op.todo
  /\ \/ /\ itable[dir[n]].type = "free" \/ dir[n] \in op.reach
        /\ dirty' = (dirty \/ r # "ok")
     \/ ReadFaults /\ dirty' = TRUE
  /\ dir' = Written(r, [dir EXCEPT ![n] = NoIno], dir)
  /\ \E m \in IF r = "landed" /\ op.todo # {n} THEN op.todo \ {n} ELSE {n} :
       op' = [op EXCEPT !.todo = @ \ {n, m}]
  /\ UNCHANGED <<itable, bitmap, sec>>

(* A live file is reached; those of its sectors that are marked free are marked
   used again. *)
WalkReach(n) ==
  /\ op.pc = "walk"
  /\ n \in op.todo
  /\ itable[dir[n]].type = "file" /\ dir[n] \notin op.reach
  /\ op' = [op EXCEPT !.pc = "mark", !.todo = @ \ {n}, !.reach = @ \cup {dir[n]},
                      !.left = Owned(itable[dir[n]]) \ bitmap]
  /\ UNCHANGED <<dir, itable, bitmap, sec, dirty>>

Mark(b, r) ==
  /\ op.pc = "mark"
  /\ b \in op.left
  /\ bitmap' = Written(r, bitmap \cup {b}, bitmap)
  /\ op' = [op EXCEPT !.left = @ \ {b}]
  /\ dirty' = (dirty \/ r # "ok")
  /\ UNCHANGED <<dir, itable, sec>>

MarkDone ==
  /\ op.pc = "mark"
  /\ op.left = {}
  /\ op' = [op EXCEPT !.pc = "walk"]
  /\ UNCHANGED <<dir, itable, bitmap, sec, dirty>>

(* mwfs_dir_nth() fails: the loop over the entries ends as if there were no more. *)
WalkUnreadable ==
  /\ ReadFaults
  /\ op.pc = "walk"
  /\ op.todo # {}
  /\ op' = [op EXCEPT !.todo = {}]
  /\ dirty' = TRUE
  /\ UNCHANGED <<dir, itable, bitmap, sec>>

WalkDone ==
  /\ op.pc = "walk"
  /\ op.todo = {}
  /\ op' = [op EXCEPT !.pc = "orphans", !.itodo = Ino \ op.reach]
  /\ UNCHANGED <<dir, itable, bitmap, sec, dirty>>

(* A fault for comparison: the scan comes back to the inode it has released. *)
OrphanAgain(i) ==
  /\ op.pc = "orphans"
  /\ i \in op.itodo
  /\ itable[i].type # "free"
  /\ op' = Releasing(op, i, itable, "orphans")
  /\ UNCHANGED <<dir, itable, bitmap, sec, dirty>>

(* An inode in use that the walk did not reach is released. *)
Orphan(i) ==
  /\ op.pc = "orphans"
  /\ i \in op.itodo
  /\ itable[i].type # "free"
  /\ \/ op' = [Releasing(op, i, itable, "orphans") EXCEPT !.itodo = @ \ {i}]
        /\ UNCHANGED dirty
     \/ ReadFaults /\ op' = [op EXCEPT !.itodo = @ \ {i}] /\ dirty' = TRUE
  /\ UNCHANGED <<dir, itable, bitmap, sec>>

OrphansDone ==
  /\ op.pc = "orphans"
  /\ \A i \in op.itodo : itable[i].type = "free"
  /\ op' = [op EXCEPT !.pc = "leaks", !.left = bitmap \ UNION {Owned(itable[i]) : i \in op.reach}]
  /\ UNCHANGED <<dir, itable, bitmap, sec, dirty>>

(* A sector marked used that no reached inode owns is given back. *)
Leak(b, r) ==
  /\ op.pc = "leaks"
  /\ b \in op.left
  /\ bitmap' = Written(r, bitmap \ {b}, bitmap)
  /\ op' = [op EXCEPT !.left = @ \ {b}]
  /\ dirty' = (dirty \/ r # "ok")
  /\ UNCHANGED <<dir, itable, sec>>

CheckDone ==
  /\ op.pc = "leaks"
  /\ op.left = {}
  /\ op' = NoOp
  /\ UNCHANGED <<dir, itable, bitmap, sec, dirty>>

(* mwfs_check() gives up on an inode table sector it cannot read. *)
CheckGivesUp ==
  /\ ReadFaults
  /\ op.pc \in {"orphans", "leaks"}
  /\ op' = NoOp
  /\ dirty' = TRUE
  /\ UNCHANGED <<dir, itable, bitmap, sec>>

-----------------------------------------------------------------------------
(* A power cut in the middle of a call: memory is lost, the disk stays.  The
   next boot mounts the volume with mwfs_open() and runs no check. *)
PowerCut ==
  /\ op.pc # "idle"
  /\ op' = NoOp
  /\ dirty' = TRUE
  /\ UNCHANGED <<dir, itable, bitmap, sec>>

Start ==
  \E n \in Name, r \in Outcome :
    \/ \E i \in Ino :
         \/ \E v \in Version : FilePut(n, v, i, r)
         \/ \E s \in Name : FileCopy(s, n, i, r)
    \/ Unlink(n, r)
    \/ \E t \in Name : RenameTo(n, t, r)

Step ==
  \/ \E r \in Outcome :
       \/ Alloc(r) \/ WriteData(r) \/ StoreIno(r) \/ Switch(r)
       \/ RenameFrom(r) \/ FreeIno(r)
       \/ \E b \in Blk : FreeBit(b, r) \/ Mark(b, r) \/ Leak(b, r)
       \/ \E n \in Name : WalkRemove(n, r)
  \/ \E n \in Name : WalkReach(n)
  \/ \E i \in Ino : Orphan(i)
  \/ MarkDone \/ WalkUnreadable \/ WalkDone \/ OrphansDone \/ CheckDone \/ CheckGivesUp

Next == Start \/ CheckStart \/ Step \/ PowerCut

Spec == Init /\ [][Next]_vars

(* The kernel runs a file system call to its end before anything else. *)
FairSpec == Spec /\ WF_vars(Step)

-----------------------------------------------------------------------------
(* Properties *)

Inodes == [type : {"free", "file"}, ptr : [Index -> Blk \cup {NoBlk}], ver : Version \cup {NoVer}]

Calls ==
  [pc : {"idle", "fill", "data", "abort", "store", "switch", "mvdel", "free",
         "walk", "mark", "orphans", "leaks"},
   name : Name \cup {NoName}, ver : Version \cup {NoVer}, ino : Ino \cup {NoIno},
   old : Ino \cup {NoIno}, ptr : [Index -> Blk \cup {NoBlk}], k : 0 .. MaxBlocks,
   left : SUBSET Blk, after : {"idle", "orphans"}, reach : SUBSET Ino,
   todo : SUBSET Name, itodo : SUBSET Ino]

(* The values the disk and the locals of a call range over. *)
TypeOK ==
  /\ dir \in [Name -> Ino \cup {NoIno}]
  /\ itable \in [Ino -> Inodes]
  /\ bitmap \subseteq Blk
  /\ sec \in [Blk -> (Version \X Index) \cup {NotWritten}]
  /\ op \in Calls
  /\ dirty \in BOOLEAN

Live == {dir[n] : n \in Used}

(* A file with a name is complete and undamaged at every instant, whatever call
   is in progress and wherever the power is cut: its inode is in use, its
   sectors are marked used and hold the bytes its CRC was taken of. *)
FilesIntact == \A n \in Used : Intact(dir[n])

(* Property: two files with names never own the same sector. *)
NoCrossLink ==
  \A i, j \in Live : i # j => Owned(itable[i]) \cap Owned(itable[j]) = {}

(* Between calls, with no failure since the last check, the volume is what
   `part check` calls clean: no orphan, no leak, no inode with two names. *)
CleanWhenQuiet ==
  op.pc = "idle" /\ ~dirty =>
    /\ bitmap = UNION {Owned(itable[i]) : i \in Live}
    /\ {i \in Ino : itable[i].type # "free"} = Live
    /\ \A m, n \in Used : dir[m] = dir[n] => m = n

(* The repair never takes the last name of a file: whatever entry it removes,
   what the entry read as can still be read under some name. *)
RepairLosesNoFile ==
  [][\A n \in Used :
       (op.pc = "walk" /\ dir'[n] # dir[n]) => \E m \in Name : dir'[m] = dir[n]]_vars

(* What mwfs_release() is given while the check looks for orphans is the inode
   of no entry (the comment above mwfs_check(): "inodes nobody points at"). *)
OrphanIsNobodys == (op.pc = "free" /\ op.after = "orphans") => op.ino \notin Live

(* Every sector of a file with a name is marked used. *)
LiveBlocksMarked == \A i \in Live : Owned(itable[i]) \subseteq bitmap

(* A save whose inode is given back to the volume left the entry of its name as
   it was (the comment above mwfs_file_install(): "On any failure the new inode
   is released and the old file is untouched"). *)
OldFileUntouched ==
  [][(op.pc = "switch" /\ op'.pc = "free" /\ op'.ino = op.ino)
       => dir'[op.name] = dir[op.name]]_vars

(* Every call returns: no loop of the file system runs for ever. *)
CallReturns == op.pc # "idle" ~> op.pc = "idle"

-----------------------------------------------------------------------------
(* The promise of MwfsAbs. *)

Reading(n) == IF n \in Used /\ Intact(dir[n]) THEN itable[dir[n]].ver ELSE NoVer

Pending ==
  CASE op.pc \in {"fill", "data", "store", "switch"} ->
         [kind |-> "save", name |-> op.name, ver |-> op.ver]
    [] op.pc = "mvdel" -> [kind |-> "move", name |-> op.name]
    [] OTHER -> [kind |-> "none"]

Twins == {n \in Used : \E m \in Used \ {n} : dir[m] = dir[n]}

Abs == INSTANCE MwfsAbs WITH file <- [n \in Name |-> Reading(n)],
                             pending <- Pending, twins <- Twins

(* A power cut or a failed call leaves every name with its old content or with
   its new content, never with neither, and touches no other name. *)
ImplementsAbs == Abs!Spec
=============================================================================
