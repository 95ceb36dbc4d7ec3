----------------------------- MODULE MwfsProof -----------------------------
(***************************************************************************)
(* Why Mwfs keeps its files: the invariant that a save, a removal, a       *)
(* rename and the repair maintain at every sector write, and the proof     *)
(* that they do, for any number of names, inodes, sectors and versions.    *)
(*                                                                         *)
(* The policy of most of the proofs is the one the run Mwfs_safety checks: *)
(* the repair comes before the next call after a power cut or a lost       *)
(* write, and no read fails.  The violation runs show that none of its     *)
(* three parts can be left out.  Only that sectors have one owner holds    *)
(* under any fault that the run Mwfs_faults allows.                        *)
(***************************************************************************)
EXTENDS Mwfs, TLAPS

Policy == CheckFirst /\ ~ReadFaults /\ WriteFaults \subseteq {"lost"}

Saving == op.pc \in {"fill", "data", "store", "switch", "abort"}
Checking == op.pc \in {"walk", "mark", "orphans", "leaks"} \/ op.after = "orphans"

(* A free inode owns nothing, and no sector has two owners. *)
FreeIsEmpty == \A i \in Ino : itable[i].type = "free" => itable[i] = FreeInode
OneOwner == \A i, j \in Ino : i # j => Owned(itable[i]) \cap Owned(itable[j]) = {}

(* With nothing to repair, what an inode owns is marked used (but for the inode
   being released), and no two names share an inode (but for a rename's). *)
AllMarked ==
  ~dirty /\ ~Checking =>
    \A i \in Ino : ~(op.pc = "free" /\ i = op.ino) => Owned(itable[i]) \subseteq bitmap
OneName ==
  ~dirty /\ op.pc \notin {"walk", "mark"} =>
    \A m, n \in Used : (dir[m] = dir[n] /\ m # n) => op.pc = "mvdel" /\ op.name \in {m, n}

(* A save works on an inode of no name, with sectors nobody else owns, whose
   first ones already hold the new content. *)
Filled(last) ==
  \A k \in Index : k <= last => op.ptr[k] \in bitmap /\ sec[op.ptr[k]] = <<op.ver, k>>

SaveInv ==
  Saving =>
    /\ op.ino \in Ino /\ op.ino \notin Live
    /\ op.after = "idle"
    /\ itable[op.ino].type = "file"
    /\ \A i \in Ino \ {op.ino} : Owned(itable[i]) \cap Owned(op) = {}
    /\ op.pc = "switch" => itable[op.ino].ptr = op.ptr /\ itable[op.ino].ver = op.ver
    /\ op.pc # "switch" => itable[op.ino].ptr = NoPtr
    /\ op.pc # "abort" =>
         /\ ~dirty
         /\ op.ver \in Version /\ op.name \in Name
         /\ \A k \in Index : op.ptr[k] = NoBlk <=> k > op.k
         /\ \A k, l \in Index : (op.ptr[k] = op.ptr[l] /\ op.ptr[k] # NoBlk) => k = l
         /\ Filled(IF op.pc = "data" THEN op.k - 1 ELSE op.k)
         /\ Owned(op) \subseteq bitmap
         /\ op.pc \in {"store", "switch"} => op.k = Blocks[op.ver]
         /\ op.pc = "fill" => op.k < Blocks[op.ver]
         /\ op.pc = "data" => op.k \in 1 .. Blocks[op.ver]

MoveInv ==
  op.pc = "mvdel" =>
    /\ ~dirty
    /\ op.name \in Used /\ op.after = "idle"
    /\ op.old \notin Live
    /\ \E m \in Used : m # op.name /\ dir[m] = dir[op.name]

ReleaseInv ==
  op.pc = "free" =>
    /\ op.ino \in Ino /\ op.ino \notin Live
    /\ op.left \subseteq Owned(itable[op.ino])

(* The repair has reached every file it will not see again; an orphan it has
   passed is gone. *)
CheckInv ==
  /\ Checking => op.reach \subseteq Live
  /\ op.pc \in {"walk", "mark"} =>
       /\ op.after = "idle"
       /\ op.todo \subseteq Used
       /\ op.reach = {dir[n] : n \in Used \ op.todo}
       /\ ~dirty => \A m, n \in Used \ op.todo : dir[m] = dir[n] => m = n
  /\ op.pc \in {"orphans", "leaks"} \/ op.after = "orphans" => Live \subseteq op.reach
  /\ op.after = "orphans" => op.pc = "free"
  /\ op.pc = "orphans" \/ op.after = "orphans" => op.itodo \cap op.reach = {}
  /\ (op.pc = "orphans" \/ op.after = "orphans") /\ ~dirty =>
       \A i \in Ino \ op.itodo :
         itable[i].type = "file" => i \in op.reach \/ (op.pc = "free" /\ i = op.ino)
  /\ op.pc = "leaks" =>
       /\ \A i \in Live : op.left \cap Owned(itable[i]) = {}
       /\ ~dirty => \A i \in Ino : itable[i].type = "file" => i \in Live
  /\ op.pc = "idle" => op.after = "idle"

OnDisk == FilesIntact /\ FreeIsEmpty /\ OneOwner
InMemory == AllMarked /\ OneName /\ SaveInv /\ MoveInv /\ ReleaseInv /\ CheckInv

IInv == OnDisk /\ InMemory

-----------------------------------------------------------------------------
(* Types *)

LEMMA NoOpType == NoOp \in Calls
BY MaxBlocksNat DEF NoOp, Calls, NoPtr

LEMMA FreeInodeType == FreeInode \in Inodes /\ NewInode \in Inodes
BY DEF FreeInode, NewInode, Inodes, NoPtr

LEMMA NoOpIdle == NoOp.pc = "idle" /\ NoOp.after = "idle"
BY DEF NoOp

LEMMA OwnedType ==
  ASSUME NEW o, o.ptr \in [Index -> Blk \cup {NoBlk}]
  PROVE  Owned(o) \subseteq Blk
BY DEF Owned

LEMMA ReleaseType ==
  ASSUME TypeOK, NEW i \in Ino, NEW table \in [Ino -> Inodes], NEW r, Release(i, table, r)
  PROVE  op' \in Calls /\ dirty' \in BOOLEAN /\ op'.pc \in {"free", "idle"}
<1>1. Owned(table[i]) \subseteq Blk
  BY OwnedType DEF Inodes
<1>2. Releasing(NoOp, i, table, "idle") \in Calls /\ Releasing(NoOp, i, table, "idle").pc = "free"
  BY <1>1, NoOpType DEF Releasing, Calls
<1>3. NoOp.pc = "idle"
  BY DEF NoOp
<1> QED
  BY <1>2, <1>3, NoOpType DEF Release, TypeOK

LEMMA ReturnType ==
  ASSUME TypeOK, NEW r, Return(r)
  PROVE  op' \in Calls /\ dirty' \in BOOLEAN /\ op'.pc = "idle"
BY NoOpType DEF Return, TypeOK, NoOp

(* TypeOK is not inductive by itself: a save must stop taking sectors when it
   has as many as its content needs, and the check must walk entries in use. *)
LocalsInv ==
  /\ op.pc \in {"fill", "data"} =>
       /\ op.ver \in Version
       /\ op.k \in 0 .. Blocks[op.ver]
       /\ op.pc = "fill" => op.k < Blocks[op.ver]
       /\ op.pc = "data" => op.k # 0
  /\ op.pc \in {"fill", "data", "abort", "store", "switch"} => op.ino \in Ino /\ op.name \in Name
  /\ op.pc \in {"walk", "mark"} => \A n \in op.todo : dir[n] # NoIno

TInv == TypeOK /\ LocalsInv

LEMMA QuietLocals ==
  (op'.pc \in {"idle", "free", "mvdel", "orphans", "leaks"}) => LocalsInv'
BY DEF LocalsInv

LEMMA TypeInit == Init => TInv
<1> SUFFICES ASSUME Init PROVE TInv
  OBVIOUS
<1>1. TypeOK
  BY NoOpType, FreeInodeType DEF Init, TypeOK
<1> QED
  BY <1>1 DEF Init, TInv, LocalsInv, NoOp

LEMMA FilePutTypes ==
  ASSUME TInv, NEW r \in Outcome, NEW n \in Name, NEW v \in Version, NEW i \in Ino, FilePut(n, v, i, r)
  PROVE  TInv'
<1>1. itable' \in [Ino -> Inodes]
  BY FreeInodeType DEF FilePut, Written, TInv, TypeOK
<1>2. CASE r # "ok" /\ Return(r)
  BY <1>1, <1>2, ReturnType, QuietLocals DEF FilePut, TInv, TypeOK
<1>3. CASE op' = NoOp /\ dirty' = TRUE
  BY <1>1, <1>3, NoOpType, QuietLocals DEF FilePut, TInv, TypeOK, NoOp
<1>4. CASE op' = [NoOp EXCEPT !.pc = NextFill(v, 0), !.name = n, !.ver = v, !.ino = i] /\ dirty' = dirty
  <2>1. op' \in Calls /\ op'.pc = NextFill(v, 0) /\ op'.ver = v /\ op'.k = 0 /\ op'.ino = i /\ op'.name = n
    BY <1>4, NoOpType DEF Calls, NextFill, NoOp
  <2>2. Blocks[v] \in Nat
    BY BlocksFit, MaxBlocksNat
  <2>3. LocalsInv'
    BY <2>1, <2>2 DEF LocalsInv, NextFill
  <2> QED
    BY <1>1, <1>4, <2>1, <2>3 DEF FilePut, TInv, TypeOK
<1> QED
  BY <1>2, <1>3, <1>4 DEF FilePut

LEMMA AllocTypes ==
  ASSUME TInv, NEW r \in Outcome, Alloc(r)
  PROVE  TInv'
<1>1. op.ver \in Version /\ op.k \in 0 .. Blocks[op.ver] /\ op.k < Blocks[op.ver]
      /\ op.ino \in Ino /\ op.name \in Name
  BY DEF Alloc, TInv, LocalsInv
<1>2. /\ bitmap' \subseteq Blk /\ dirty' \in BOOLEAN
      /\ UNCHANGED <<dir, itable, sec>>
  BY DEF Alloc, TInv, TypeOK, Written
<1>3. CASE op' = [op EXCEPT !.pc = "abort"]
  <2>1. op' \in Calls /\ op'.pc = "abort" /\ op'.ino = op.ino /\ op'.name = op.name
    BY <1>3 DEF TInv, TypeOK, Calls
  <2> QED
    BY <1>1, <1>2, <2>1 DEF TInv, TypeOK, LocalsInv
<1>4. ASSUME NEW b \in Blk,
             op' = [op EXCEPT !.pc = "data", !.k = @ + 1, !.ptr = [@ EXCEPT ![op.k + 1] = b]]
      PROVE  TInv'
  <2>1. op.k + 1 \in Index /\ op.k + 1 \in 0 .. Blocks[op.ver] /\ op.k + 1 \in 0 .. MaxBlocks
    BY <1>1, BlocksFit, MaxBlocksNat DEF Index
  <2>2. [op.ptr EXCEPT ![op.k + 1] = b] \in [Index -> Blk \cup {NoBlk}]
    BY <2>1 DEF TInv, TypeOK, Calls
  <2>3. /\ op' \in Calls /\ op'.pc = "data" /\ op'.ver = op.ver
        /\ op'.k = op.k + 1 /\ op'.ino = op.ino /\ op'.name = op.name
    BY <1>4, <2>1, <2>2 DEF TInv, TypeOK, Calls
  <2> QED
    BY <1>1, <1>2, <2>1, <2>3 DEF TInv, TypeOK, LocalsInv
<1> QED
  BY <1>3, <1>4 DEF Alloc

LEMMA WriteDataTypes ==
  ASSUME TInv, NEW r \in Outcome, WriteData(r)
  PROVE  TInv'
<1>1. op.ver \in Version /\ op.k \in 0 .. Blocks[op.ver] /\ op.k \in Index
      /\ op.ino \in Ino /\ op.name \in Name
  BY BlocksFit, MaxBlocksNat DEF WriteData, TInv, LocalsInv, Index
<1>2. sec' \in [Blk -> (Version \X Index) \cup {NotWritten}] /\ UNCHANGED <<dir, itable, bitmap>>
      /\ dirty' \in BOOLEAN
  BY <1>1 DEF WriteData, Written, TInv, TypeOK
<1>3. CASE op' = [op EXCEPT !.pc = NextFill(op.ver, op.k)]
  <2>1. /\ op' \in Calls /\ op'.pc = NextFill(op.ver, op.k) /\ op'.ver = op.ver
        /\ op'.k = op.k /\ op'.ino = op.ino /\ op'.name = op.name
    BY <1>3 DEF TInv, TypeOK, Calls, NextFill
  <2>2. Blocks[op.ver] \in Nat
    BY <1>1, BlocksFit, MaxBlocksNat
  <2>3. LocalsInv'
    BY <1>1, <2>1, <2>2 DEF LocalsInv, NextFill
  <2> QED
    BY <1>2, <2>1, <2>3 DEF TInv, TypeOK
<1>4. CASE op' = [op EXCEPT !.pc = "abort"]
  <2>1. op' \in Calls /\ op'.pc = "abort" /\ op'.ino = op.ino /\ op'.name = op.name
    BY <1>4 DEF TInv, TypeOK, Calls
  <2> QED
    BY <1>1, <1>2, <2>1 DEF TInv, TypeOK, LocalsInv
<1>5. CASE op' = [op EXCEPT !.pc = "abort", !.ptr = [@ EXCEPT ![op.k] = NoBlk]]
  <2>1. [op.ptr EXCEPT ![op.k] = NoBlk] \in [Index -> Blk \cup {NoBlk}]
    BY DEF TInv, TypeOK, Calls
  <2>2. op' \in Calls /\ op'.pc = "abort" /\ op'.ino = op.ino /\ op'.name = op.name
    BY <1>5, <2>1 DEF TInv, TypeOK, Calls
  <2> QED
    BY <1>1, <1>2, <2>2 DEF TInv, TypeOK, LocalsInv
<1> QED
  BY <1>3, <1>4, <1>5 DEF WriteData

LEMMA StoreSwitchTypes ==
  ASSUME TInv, NEW r \in Outcome, StoreIno(r) \/ Switch(r)
  PROVE  TInv'
<1>1. op.ino \in Ino /\ op.name \in Name
  BY DEF TInv, LocalsInv, StoreIno, Switch
<1>2. CASE StoreIno(r)
  <2> DEFINE new == [type |-> "file", ptr |-> op.ptr,
                     ver |-> IF op.pc = "store" THEN op.ver ELSE NoVer]
             table == Written(r, [itable EXCEPT ![op.ino] = new], itable)
  <2>1. table \in [Ino -> Inodes]
    BY <1>1 DEF Written, TInv, TypeOK, Calls, Inodes
  <2>2. itable' = table /\ UNCHANGED <<dir, bitmap, sec>>
    BY <1>2 DEF StoreIno
  <2>3. CASE op' = [op EXCEPT !.pc = "switch"] /\ dirty' = dirty
    <3>1. op' \in Calls /\ op'.pc = "switch" /\ op'.ino = op.ino /\ op'.name = op.name
      BY <2>3 DEF TInv, TypeOK, Calls
    <3> QED
      BY <1>1, <2>1, <2>2, <2>3, <3>1 DEF TInv, TypeOK, LocalsInv
  <2>4. CASE Release(op.ino, table, r)
    BY <1>1, <2>1, <2>2, <2>4, ReleaseType, QuietLocals DEF TInv, TypeOK
  <2> QED
    BY <1>2, <2>3, <2>4 DEF StoreIno
<1>3. CASE Switch(r)
  <2>1. dir' \in [Name -> Ino \cup {NoIno}] /\ UNCHANGED <<itable, bitmap, sec>>
    BY <1>1, <1>3 DEF Switch, Written, TInv, TypeOK
  <2>2. CASE Return(r)
    BY <2>1, <2>2, ReturnType, QuietLocals DEF TInv, TypeOK
  <2>3. ASSUME NEW i \in Ino, Release(i, itable, r) PROVE TInv'
    BY <2>1, <2>3, ReleaseType, QuietLocals DEF TInv, TypeOK
  <2> QED
    BY <1>1, <1>3, <2>2, <2>3 DEF Switch, TInv, TypeOK, Calls
<1> QED
  BY <1>2, <1>3

LEMMA RemovalTypes ==
  ASSUME TInv, NEW r \in Outcome,
         \/ \E n \in Name : Unlink(n, r)
         \/ \E f, t \in Name : RenameTo(f, t, r)
         \/ RenameFrom(r)
         \/ FreeIno(r)
         \/ \E b \in Blk : FreeBit(b, r)
  PROVE  TInv'
<1>1. ASSUME NEW n \in Name, Unlink(n, r) PROVE TInv'
  <2>1. dir[n] \in Ino /\ dir' \in [Name -> Ino \cup {NoIno}] /\ UNCHANGED <<itable, bitmap, sec>>
    BY <1>1 DEF Unlink, Written, TInv, TypeOK
  <2>2. CASE Return(r)
    BY <2>1, <2>2, ReturnType, QuietLocals DEF TInv, TypeOK
  <2>3. CASE Release(dir[n], itable, r)
    BY <2>1, <2>3, ReleaseType, QuietLocals DEF TInv, TypeOK
  <2> QED
    BY <1>1, <2>2, <2>3 DEF Unlink
<1>2. ASSUME NEW f \in Name, NEW t \in Name, RenameTo(f, t, r) PROVE TInv'
  <2> DEFINE moving == [NoOp EXCEPT !.pc = "mvdel", !.name = f, !.old = dir[t]]
  <2>1. dir[t] \in Ino \cup {NoIno}
    BY DEF TInv, TypeOK
  <2>2. moving \in Calls /\ moving.pc = "mvdel"
    BY <2>1, NoOpType DEF Calls
  <2>3. op' = moving \/ op' = NoOp
    BY <1>2 DEF RenameTo
  <2>4. op' \in Calls /\ op'.pc \in {"idle", "mvdel"}
    BY <2>2, <2>3, NoOpType, NoOpIdle
  <2>5. dir' \in [Name -> Ino \cup {NoIno}]
    BY <1>2 DEF RenameTo, Written, TInv, TypeOK
  <2>6. dirty' \in BOOLEAN
    BY <1>2 DEF RenameTo, TInv, TypeOK
  <2> QED
    BY <1>2, <2>4, <2>5, <2>6, QuietLocals DEF RenameTo, TInv, TypeOK
<1>3. ASSUME RenameFrom(r) PROVE TInv'
  <2>1. dir' \in [Name -> Ino \cup {NoIno}] /\ UNCHANGED <<itable, bitmap, sec>>
    BY <1>3 DEF RenameFrom, Written, TInv, TypeOK
  <2>2. CASE Return(r)
    BY <2>1, <2>2, ReturnType, QuietLocals DEF TInv, TypeOK
  <2>3. CASE op.old \in Ino /\ Release(op.old, itable, r)
    BY <2>1, <2>3, ReleaseType, QuietLocals DEF TInv, TypeOK
  <2> QED
    BY <1>3, <2>2, <2>3 DEF RenameFrom, TInv, TypeOK, Calls
<1>4. ASSUME FreeIno(r) PROVE TInv'
  <2>1. itable' \in [Ino -> Inodes]
    BY <1>4, FreeInodeType DEF FreeIno, Written, TInv, TypeOK
  <2>2. op' \in Calls /\ op'.pc \in {"idle", "orphans"}
    BY <1>4, NoOpType DEF FreeIno, TInv, TypeOK, Calls, NoOp
  <2> QED
    BY <1>4, <2>1, <2>2, QuietLocals DEF FreeIno, TInv, TypeOK
<1>5. ASSUME NEW b \in Blk, FreeBit(b, r) PROVE TInv'
  <2>1. op' \in Calls /\ op'.pc = "free"
    BY <1>5 DEF FreeBit, TInv, TypeOK, Calls
  <2> QED
    BY <1>5, <2>1, QuietLocals DEF FreeBit, Written, TInv, TypeOK
<1> QED
  BY <1>1, <1>2, <1>3, <1>4, <1>5

LEMMA WalkTypes ==
  ASSUME TInv, NEW r \in Outcome,
         \/ \E n \in Name : WalkRemove(n, r) \/ WalkReach(n)
         \/ \E b \in Blk : Mark(b, r)
         \/ MarkDone \/ CheckStart
  PROVE  TInv'
<1>1. ASSUME NEW n \in Name, WalkRemove(n, r) PROVE TInv'
  <2>1. PICK q \in Name : op' = [op EXCEPT !.todo = @ \ {n, q}]
    BY <1>1 DEF WalkRemove, TInv, TypeOK, Calls
  <2>2. op' \in Calls /\ op'.pc = "walk" /\ op'.todo \subseteq op.todo \ {n}
    BY <1>1, <2>1 DEF WalkRemove, TInv, TypeOK, Calls
  <2>3. \A m \in op.todo \ {n} : dir'[m] = dir[m] /\ dir[m] # NoIno
    BY <1>1 DEF WalkRemove, Written, TInv, TypeOK, LocalsInv, Calls
  <2>4. LocalsInv'
    BY <2>2, <2>3 DEF LocalsInv
  <2> QED
    BY <1>1, <2>2, <2>4 DEF WalkRemove, Written, TInv, TypeOK
<1>2. ASSUME NEW n \in Name, WalkReach(n) PROVE TInv'
  <2>1. dir[n] \in Ino
    BY <1>2 DEF WalkReach, TInv, TypeOK, LocalsInv
  <2>2. Owned(itable[dir[n]]) \subseteq Blk
    BY <2>1, OwnedType DEF TInv, TypeOK, Inodes
  <2>3. op' \in Calls /\ op'.pc = "mark" /\ op'.todo \subseteq op.todo
    BY <1>2, <2>1, <2>2 DEF WalkReach, TInv, TypeOK, Calls
  <2>4. LocalsInv'
    BY <1>2, <2>3 DEF WalkReach, TInv, LocalsInv
  <2> QED
    BY <1>2, <2>3, <2>4 DEF WalkReach, TInv, TypeOK
<1>3. CASE MarkDone
  <2>1. op' \in Calls /\ op'.pc = "walk" /\ op'.todo = op.todo
    BY <1>3 DEF MarkDone, TInv, TypeOK, Calls
  <2> QED
    BY <1>3, <2>1 DEF MarkDone, TInv, TypeOK, LocalsInv
<1>4. CASE CheckStart
  <2>1. op' \in Calls /\ op'.pc = "walk" /\ op'.todo = Used
    BY <1>4, NoOpType DEF CheckStart, Used, Calls
  <2> QED
    BY <1>4, <2>1 DEF CheckStart, Used, TInv, TypeOK, LocalsInv
<1>5. ASSUME NEW b \in Blk, Mark(b, r) PROVE TInv'
  <2>1. op' \in Calls /\ op'.pc = "mark" /\ op'.todo = op.todo
    BY <1>5 DEF Mark, TInv, TypeOK, Calls
  <2> QED
    BY <1>5, <2>1 DEF Mark, Written, TInv, TypeOK, LocalsInv
<1> QED
  BY <1>1, <1>2, <1>3, <1>4, <1>5

LEMMA RepairTypes ==
  ASSUME TInv, NEW r \in Outcome,
         \/ \E i \in Ino : Orphan(i)
         \/ \E b \in Blk : Leak(b, r)
         \/ WalkUnreadable \/ WalkDone \/ OrphansDone \/ CheckDone \/ CheckGivesUp \/ PowerCut
  PROVE  TInv'
<1>1. ASSUME NEW i \in Ino, Orphan(i) PROVE TInv'
  <2>1. Owned(itable[i]) \subseteq Blk
    BY OwnedType DEF TInv, TypeOK, Inodes
  <2>2. [op EXCEPT !.itodo = @ \ {i}] \in Calls /\ op \in Calls
    BY DEF TInv, TypeOK, Calls
  <2>3. Releasing(op, i, itable, "orphans") \in Calls
    BY <2>1, <2>2 DEF Releasing, Calls
  <2>4. [Releasing(op, i, itable, "orphans") EXCEPT !.itodo = @ \ {i}] \in Calls
    BY <2>3 DEF Calls
  <2>5. [Releasing(op, i, itable, "orphans") EXCEPT !.itodo = @ \ {i}].pc = "free"
    BY <2>2 DEF Releasing, Calls
  <2>6. op' \in Calls /\ op'.pc \in {"free", "orphans"}
    BY <1>1, <2>2, <2>4, <2>5 DEF Orphan, Calls
  <2> QED
    BY <1>1, <2>6, QuietLocals DEF Orphan, TInv, TypeOK
<1>2. ASSUME NEW b \in Blk, Leak(b, r) PROVE TInv'
  <2>1. op' \in Calls /\ op'.pc = "leaks"
    BY <1>2 DEF Leak, TInv, TypeOK, Calls
  <2> QED
    BY <1>2, <2>1, QuietLocals DEF Leak, Written, TInv, TypeOK
<1>3. CASE WalkUnreadable
  <2>1. op' \in Calls /\ op'.pc = "walk" /\ op'.todo = {}
    BY <1>3 DEF WalkUnreadable, TInv, TypeOK, Calls
  <2> QED
    BY <1>3, <2>1 DEF WalkUnreadable, TInv, TypeOK, LocalsInv
<1>4. CASE WalkDone
  <2>1. op' \in Calls /\ op'.pc = "orphans"
    BY <1>4 DEF WalkDone, TInv, TypeOK, Calls
  <2> QED
    BY <1>4, <2>1, QuietLocals DEF WalkDone, TInv, TypeOK
<1>5. CASE OrphansDone
  <2>1. op' \in Calls /\ op'.pc = "leaks"
    BY <1>5 DEF OrphansDone, TInv, TypeOK, Calls
  <2> QED
    BY <1>5, <2>1, QuietLocals DEF OrphansDone, TInv, TypeOK
<1>6. CASE CheckDone \/ CheckGivesUp \/ PowerCut
  BY <1>6, NoOpType, NoOpIdle, QuietLocals DEF CheckDone, CheckGivesUp, PowerCut, TInv, TypeOK
<1> QED
  BY <1>1, <1>2, <1>3, <1>4, <1>5, <1>6

LEMMA TypeStep ==
  ASSUME TInv, [Next]_vars
  PROVE  TInv'
<1>1. CASE UNCHANGED vars
  BY <1>1 DEF vars, TInv, TypeOK, LocalsInv
<1>2. CASE Start
  BY <1>2, FilePutTypes, RemovalTypes DEF Start, FileCopy, Intact
<1>3. CASE CheckStart
  <2>1. "ok" \in Outcome
    BY DEF Outcome
  <2> QED
    BY <1>3, <2>1, WalkTypes
<1>4. CASE Step
  <2>1. ASSUME NEW r \in Outcome,
               \/ Alloc(r) \/ WriteData(r) \/ StoreIno(r) \/ Switch(r)
               \/ RenameFrom(r) \/ FreeIno(r)
               \/ \E b \in Blk : FreeBit(b, r) \/ Mark(b, r) \/ Leak(b, r)
               \/ \E n \in Name : WalkRemove(n, r)
        PROVE  TInv'
    BY <2>1, AllocTypes, WriteDataTypes, StoreSwitchTypes, RemovalTypes, WalkTypes, RepairTypes
  <2>2. "ok" \in Outcome
    BY DEF Outcome
  <2>3. CASE (\E n \in Name : WalkReach(n)) \/ MarkDone
    BY <2>2, <2>3, WalkTypes
  <2>4. CASE (\E i \in Ino : Orphan(i)) \/ WalkUnreadable \/ WalkDone \/ OrphansDone \/ CheckDone
             \/ CheckGivesUp
    BY <2>2, <2>4, RepairTypes
  <2> QED
    BY <1>4, <2>1, <2>3, <2>4 DEF Step
<1>5. CASE PowerCut
  BY <1>5, RepairTypes DEF Outcome
<1> QED
  BY <1>1, <1>2, <1>3, <1>4, <1>5 DEF Next

(* Every call keeps the disk and its own locals well typed, whatever fails and
   whether or not the check is run. *)
THEOREM TypeCorrect == Spec => []TypeOK
<1>1. TInv => TypeOK
  BY DEF TInv
<1> QED
  BY <1>1, TypeInit, TypeStep, PTL DEF Spec

-----------------------------------------------------------------------------
(* The files *)

LEMMA OwnedMember ==
  ASSUME NEW o, NEW b
  PROVE  b \in Owned(o) <=> b # NoBlk /\ \E k \in Index : o.ptr[k] = b
BY DEF Owned

LEMMA NoPtrOwnsNothing == \A o : o.ptr = NoPtr => Owned(o) = {}
BY DEF Owned, NoPtr

LEMMA EmptyInodes ==
  /\ FreeInode.type = "free" /\ NewInode.type = "file"
  /\ FreeInode.ptr = NoPtr /\ NewInode.ptr = NoPtr
  /\ Owned(FreeInode) = {} /\ Owned(NewInode) = {} /\ Owned(NoOp) = {}
BY NoPtrOwnsNothing DEF FreeInode, NewInode, NoOp

LEMMA IntactMarked ==
  ASSUME TInv, NEW i \in Ino, Intact(i)
  PROVE  Owned(itable[i]) \subseteq bitmap
BY DEF Intact, Owned

LEMMA IntactKept ==
  ASSUME TInv, NEW i \in Ino, Intact(i), itable'[i] = itable[i],
         Owned(itable[i]) \subseteq bitmap',
         \A b \in Owned(itable[i]) : sec'[b] = sec[b]
  PROVE  Intact(i)'
<1>1. \A k \in Index : itable[i].ptr[k] \in bitmap => itable[i].ptr[k] \in Owned(itable[i])
  BY OwnedMember, NoBlkNotBlk DEF TInv, TypeOK
<1> QED
  BY <1>1 DEF Intact

LEMMA LiveInodes == TInv => Live \subseteq Ino
BY DEF TInv, TypeOK, Live, Used

(* Files stay intact when no new inode gets a name and nothing that belongs to
   a file is touched. *)
LEMMA FilesKept ==
  ASSUME TInv, FilesIntact, Live' \subseteq Live,
         \A i \in Live : itable'[i] = itable[i],
         \A i \in Live : Owned(itable[i]) \subseteq bitmap',
         \A i \in Live : \A b \in Owned(itable[i]) : sec'[b] = sec[b]
  PROVE  FilesIntact'
<1>1. \A i \in Live : Intact(i)
  BY DEF FilesIntact, Live
<1>2. \A i \in Live : Intact(i)'
  BY <1>1, IntactKept, LiveInodes
<1> QED
  BY <1>2 DEF FilesIntact, Live

LEMMA LiveMarked ==
  ASSUME TInv, FilesIntact
  PROVE  \A i \in Live : itable[i].type = "file" /\ Owned(itable[i]) \subseteq bitmap
BY IntactMarked, LiveInodes DEF FilesIntact, Live, Intact

(* A call that ends with the volume to be checked leaves nothing to say of the
   locals. *)
LEMMA DirtyEnd ==
  ASSUME op' = NoOp, dirty' = TRUE
  PROVE  InMemory'
BY NoOpIdle DEF InMemory, AllMarked, OneName, SaveInv, MoveInv, ReleaseInv, CheckInv, Saving, Checking

LEMMA CleanEnd ==
  ASSUME op' = NoOp, \A i \in Ino : (Owned(itable[i]) \subseteq bitmap)',
         \A m, n \in Used' : (dir[m] = dir[n])' => m = n
  PROVE  InMemory'
BY NoOpIdle DEF InMemory, AllMarked, OneName, SaveInv, MoveInv, ReleaseInv, CheckInv, Saving, Checking

LEMMA LostOnly ==
  ASSUME Policy, NEW r \in Outcome
  PROVE  r \in {"ok", "lost"}
BY DEF Policy, Outcome

(* The state in which a call may start. *)
LEMMA StartState ==
  ASSUME TInv, IInv, Policy, MayStart
  PROVE  /\ op.pc = "idle" /\ op.after = "idle" /\ dirty = FALSE
         /\ \A i \in Ino : Owned(itable[i]) \subseteq bitmap
         /\ \A m, n \in Used : dir[m] = dir[n] => m = n
BY DEF IInv, InMemory, AllMarked, OneName, CheckInv, Checking, MayStart, Policy, TInv, TypeOK

(* The release that ends a call, of an inode that has no name. *)
LEMMA ReleaseEnd ==
  ASSUME TInv, Policy, NEW i \in Ino, NEW table, NEW r \in Outcome, Release(i, table, r),
         itable' = table, i \notin Live',
         ~dirty' => /\ \A j \in Ino \ {i} : (Owned(itable[j]) \subseteq bitmap)'
                    /\ \A m, n \in Used' : (dir[m] = dir[n])' => m = n
  PROVE  InMemory'
<1>1. op' = Releasing(NoOp, i, table, "idle")
  BY DEF Release, Policy
<1>2. op'.pc = "free" /\ op'.ino = i /\ op'.left = Owned(itable'[i]) /\ op'.after = "idle"
  BY <1>1 DEF Releasing, NoOp
<1> QED
  BY <1>2 DEF InMemory, AllMarked, OneName, SaveInv, MoveInv, ReleaseInv, CheckInv, Saving, Checking

-----------------------------------------------------------------------------
(* A save *)

LEMMA FilePutInv ==
  ASSUME TInv, TInv', IInv, Policy, NEW r \in Outcome,
         NEW n \in Name, NEW v \in Version, NEW i \in Ino, FilePut(n, v, i, r)
  PROVE  IInv'
<1> USE DEF FilePut
<1>1. /\ op.pc = "idle" /\ op.after = "idle" /\ dirty = FALSE
      /\ \A j \in Ino : Owned(itable[j]) \subseteq bitmap
      /\ \A l, m \in Used : dir[l] = dir[m] => l = m
  BY StartState
<1>2. itable[i] = FreeInode /\ i \notin Live
  BY LiveMarked DEF IInv, OnDisk, FreeIsEmpty
<1>3. \A j \in Ino : j # i => itable'[j] = itable[j]
  BY DEF Written, TInv, TypeOK
<1>4. itable'[i] \in {FreeInode, NewInode}
  BY <1>2 DEF Written, TInv, TypeOK
<1>5. Live' = Live /\ Used' = Used
  BY DEF Live, Used
<1>6. OnDisk'
  <2>1. FilesIntact'
    BY <1>1, <1>2, <1>3, <1>5, FilesKept, LiveInodes DEF IInv, OnDisk
  <2>2. FreeIsEmpty'
    BY <1>3, <1>4, EmptyInodes DEF IInv, OnDisk, FreeIsEmpty
  <2>3. OneOwner'
    BY <1>3, <1>4, EmptyInodes DEF IInv, OnDisk, OneOwner
  <2> QED
    BY <2>1, <2>2, <2>3 DEF OnDisk
<1>7. CASE op' = NoOp /\ dirty' = TRUE
  BY <1>6, <1>7, DirtyEnd DEF IInv
<1>8. CASE r = "ok" /\ op' = [NoOp EXCEPT !.pc = NextFill(v, 0), !.name = n, !.ver = v, !.ino = i]
           /\ dirty' = dirty
  <2>1. /\ op'.pc \in {"store", "fill"} /\ op'.ptr = NoPtr /\ op'.k = 0 /\ op'.ino = i
        /\ op'.ver = v /\ op'.name = n /\ op'.after = "idle"
        /\ op'.pc = "store" => 0 = Blocks[v]
        /\ op'.pc = "fill" => 0 # Blocks[v]
    BY <1>8 DEF NoOp, NextFill
  <2>2. Owned(op') = {} /\ Blocks[v] \in Nat
    BY <2>1, NoPtrOwnsNothing, BlocksFit, MaxBlocksNat
  <2>3. itable'[i] = NewInode
    BY <1>8 DEF Written, TInv, TypeOK
  <2>4. AllMarked'
    BY <1>1, <1>3, <2>3, EmptyInodes DEF AllMarked
  <2>5. OneName'
    BY <1>1, <1>5 DEF OneName
  <2>6. SaveInv'
    <3>1. \A k \in Index : op'.ptr[k] = NoBlk /\ k > 0
      BY <2>1 DEF NoPtr, Index
    <3>2. Filled(0)'
      BY <3>1, MaxBlocksNat DEF Filled, Index
    <3> QED
      BY <1>1, <1>2, <1>5, <1>8, <2>1, <2>2, <2>3, <3>1, <3>2, EmptyInodes DEF SaveInv, Saving
  <2>7. MoveInv' /\ ReleaseInv' /\ CheckInv'
    BY <2>1 DEF MoveInv, ReleaseInv, CheckInv, Checking
  <2> QED
    BY <1>6, <2>4, <2>5, <2>6, <2>7 DEF IInv, InMemory
<1> QED
  BY <1>1, <1>7, <1>8, LostOnly DEF Return, Policy

(* The state of a save that has not failed yet. *)
LEMMA SaveState ==
  ASSUME TInv, IInv, op.pc \in {"fill", "data", "store", "switch"}
  PROVE  /\ SaveInv /\ op.ino \in Ino /\ op.ino \notin Live /\ op.name \in Name
         /\ op.after = "idle" /\ ~dirty
         /\ \A i \in Ino : Owned(itable[i]) \subseteq bitmap
         /\ \A m, n \in Used : dir[m] = dir[n] => m = n
<1>1. SaveInv /\ Saving /\ op.ino \in Ino /\ op.ino \notin Live /\ op.name \in Name
      /\ op.after = "idle" /\ ~dirty
  BY DEF IInv, InMemory, SaveInv, Saving
<1>2. \A i \in Ino : Owned(itable[i]) \subseteq bitmap
  BY <1>1 DEF IInv, InMemory, AllMarked, Checking
<1>3. \A m, n \in Used : dir[m] = dir[n] => m = n
  BY <1>1 DEF IInv, InMemory, OneName
<1> QED
  BY <1>1, <1>2, <1>3

LEMMA AllocInv ==
  ASSUME TInv, TInv', IInv, Policy, NEW r \in Outcome, Alloc(r)
  PROVE  IInv'
<1>0. op.pc = "fill"
  BY DEF Alloc
<1>1. /\ SaveInv /\ op.ino \in Ino /\ op.ino \notin Live /\ ~dirty /\ op.after = "idle"
      /\ \A i \in Ino : Owned(itable[i]) \subseteq bitmap
      /\ \A m, n \in Used : dir[m] = dir[n] => m = n
  BY <1>0, SaveState
<1>2. dir' = dir /\ Live' = Live /\ Used' = Used /\ itable' = itable /\ sec' = sec
  BY DEF Alloc, Live, Used
<1>3. bitmap \subseteq bitmap'
  BY DEF Alloc, Written
<1>4. OnDisk'
  <2>1. FilesIntact'
    BY <1>2, <1>3, FilesKept, LiveMarked DEF IInv, OnDisk
  <2> QED
    BY <1>2, <2>1 DEF IInv, OnDisk, FreeIsEmpty, OneOwner
<1>5. CASE op' = [op EXCEPT !.pc = "abort"]
  <2>1. /\ op'.pc = "abort" /\ op'.ptr = op.ptr /\ op'.ino = op.ino /\ op'.after = op.after
    BY <1>5 DEF TInv, TypeOK, Calls
  <2> Owned(op') = Owned(op)
    BY <2>1 DEF Owned
  <2>2. SaveInv'
    BY <1>0, <1>1, <1>2, <2>1 DEF SaveInv, Saving
  <2>3. AllMarked' /\ OneName'
    BY <1>1, <1>2, <1>3, <2>1 DEF AllMarked, OneName
  <2>4. MoveInv' /\ ReleaseInv' /\ CheckInv'
    BY <1>1, <2>1 DEF MoveInv, ReleaseInv, CheckInv, Checking
  <2> QED
    BY <1>4, <2>2, <2>3, <2>4 DEF IInv, InMemory
<1>6. ASSUME NEW b \in Blk \ bitmap, r = "ok", bitmap' = bitmap \cup {b}, dirty' = dirty,
             op' = [op EXCEPT !.pc = "data", !.k = @ + 1, !.ptr = [@ EXCEPT ![op.k + 1] = b]]
      PROVE  IInv'
  <2>1. /\ op.ver \in Version /\ op.k \in Nat /\ op.k < Blocks[op.ver]
        /\ Blocks[op.ver] \in 0 .. MaxBlocks /\ op.name \in Name
    BY <1>0, BlocksFit, MaxBlocksNat DEF TInv, LocalsInv
  <2>2. op.k + 1 \in Index /\ op.k + 1 \in 1 .. Blocks[op.ver]
    BY <2>1, MaxBlocksNat DEF Index
  <2> HIDE DEF Index
  <2>3. /\ op'.pc = "data" /\ op'.k = op.k + 1 /\ op'.ino = op.ino /\ op'.ver = op.ver
        /\ op'.name = op.name /\ op'.after = op.after
        /\ op'.ptr = [op.ptr EXCEPT ![op.k + 1] = b]
    BY <1>6 DEF TInv, TypeOK, Calls
  <2>4. /\ op'.ptr[op.k + 1] = b
        /\ \A k \in Index : k # op.k + 1 => op'.ptr[k] = op.ptr[k]
    BY <2>2, <2>3 DEF TInv, TypeOK, Calls
  <2>5. /\ \A k \in Index : op.ptr[k] = NoBlk <=> k > op.k
        /\ \A k, l \in Index : (op.ptr[k] = op.ptr[l] /\ op.ptr[k] # NoBlk) => k = l
        /\ Filled(op.k) /\ Owned(op) \subseteq bitmap
        /\ itable[op.ino].ptr = NoPtr /\ itable[op.ino].type = "file"
        /\ \A i \in Ino \ {op.ino} : Owned(itable[i]) \cap Owned(op) = {}
    BY <1>0, <1>1 DEF SaveInv, Saving
  <2>6. Owned(op') = Owned(op) \cup {b}
    <3>1. op.ptr[op.k + 1] = NoBlk
      BY <2>1, <2>2, <2>5
    <3> QED
      BY <2>2, <2>4, <3>1, NoBlkNotBlk DEF Owned
  <2>7. \A i \in Ino \ {op.ino} : Owned(itable'[i]) \cap Owned(op') = {}
    BY <1>1, <1>2, <1>6, <2>5, <2>6
  <2>8. \A k \in Index : op'.ptr[k] = NoBlk <=> k > op'.k
    BY <2>1, <2>2, <2>3, <2>4, <2>5, NoBlkNotBlk DEF Index
  <2>9. \A k, l \in Index : (op'.ptr[k] = op'.ptr[l] /\ op'.ptr[k] # NoBlk) => k = l
    <3>1. \A k \in Index : op.ptr[k] # NoBlk => op.ptr[k] \in Owned(op)
      BY OwnedMember
    <3>2. \A k \in Index : op.ptr[k] # b
      BY <2>5, <3>1, NoBlkNotBlk
    <3> QED
      BY <2>4, <2>5, <3>2
  <2>10. Filled(op.k - 1)'
    <3>1. op'.k - 1 = op.k
      BY <2>1, <2>3
    <3>2. \A k \in Index : k <= op.k => op'.ptr[k] = op.ptr[k]
      BY <2>1, <2>4 DEF Index
    <3>3. \A k \in Index : k <= op.k => op.ptr[k] \in bitmap /\ sec[op.ptr[k]] = <<op.ver, k>>
      BY <2>5 DEF Filled
    <3> QED
      BY <1>2, <1>3, <2>3, <3>1, <3>2, <3>3 DEF Filled
  <2>11. SaveInv'
    BY <1>1, <1>2, <1>6, <2>1, <2>2, <2>3, <2>5, <2>6, <2>7, <2>8, <2>9, <2>10 DEF SaveInv, Saving
  <2>12. AllMarked' /\ OneName'
    BY <1>1, <1>2, <1>3, <2>3 DEF AllMarked, OneName
  <2>13. MoveInv' /\ ReleaseInv' /\ CheckInv'
    BY <1>1, <2>3 DEF MoveInv, ReleaseInv, CheckInv, Checking
  <2> QED
    BY <1>4, <2>11, <2>12, <2>13 DEF IInv, InMemory
<1> QED
  <2>1. CASE bitmap = Blk
    BY <1>5, <2>1 DEF Alloc
  <2>2. CASE r = "lost"
    BY <1>5, <2>2 DEF Alloc
  <2>3. CASE r = "ok" /\ bitmap # Blk
    <3>1. PICK b \in Blk \ bitmap :
            /\ bitmap' = bitmap \cup {b} /\ dirty' = (dirty \/ r # "ok")
            /\ op' = [op EXCEPT !.pc = "data", !.k = @ + 1, !.ptr = [@ EXCEPT ![op.k + 1] = b]]
      BY <2>3 DEF Alloc, Written
    <3> QED
      BY <1>6, <2>3, <3>1 DEF TInv, TypeOK
  <2> QED
    BY <2>1, <2>2, <2>3, LostOnly

LEMMA WriteDataInv ==
  ASSUME TInv, TInv', IInv, Policy, NEW r \in Outcome, WriteData(r)
  PROVE  IInv'
<1>0. op.pc = "data"
  BY DEF WriteData
<1>1. /\ SaveInv /\ op.ino \in Ino /\ op.ino \notin Live /\ ~dirty /\ op.after = "idle"
      /\ \A i \in Ino : Owned(itable[i]) \subseteq bitmap
      /\ \A m, n \in Used : dir[m] = dir[n] => m = n
  BY <1>0, SaveState
<1>2. dir' = dir /\ Live' = Live /\ Used' = Used /\ itable' = itable /\ bitmap' = bitmap
  BY DEF WriteData, Live, Used
<1>3. /\ op.ver \in Version /\ op.k \in 1 .. Blocks[op.ver] /\ Blocks[op.ver] \in 0 .. MaxBlocks
      /\ op.name \in Name
  BY <1>0, BlocksFit, MaxBlocksNat DEF TInv, LocalsInv
<1>4. op.k \in Index
  BY <1>3, MaxBlocksNat DEF Index
<1>5. /\ \A k \in Index : op.ptr[k] = NoBlk <=> k > op.k
      /\ \A k, l \in Index : (op.ptr[k] = op.ptr[l] /\ op.ptr[k] # NoBlk) => k = l
      /\ Filled(op.k - 1) /\ Owned(op) \subseteq bitmap
      /\ itable[op.ino].ptr = NoPtr /\ itable[op.ino].type = "file"
      /\ \A i \in Ino \ {op.ino} : Owned(itable[i]) \cap Owned(op) = {}
  BY <1>0, <1>1 DEF SaveInv, Saving
<1>6. op.ptr[op.k] # NoBlk /\ op.ptr[op.k] \in Owned(op)
  <2>1. ~(op.k > op.k)
    BY <1>3, MaxBlocksNat
  <2> QED
    BY <1>4, <1>5, <2>1, OwnedMember
<1>7. \A b \in Blk : b # op.ptr[op.k] => sec'[b] = sec[b]
  BY DEF WriteData, Written, TInv, TypeOK
<1>8. OnDisk'
  <2>1. \A i \in Live : i # op.ino /\ op.ptr[op.k] \notin Owned(itable[i]) /\ Owned(itable[i]) \subseteq Blk
    BY <1>1, <1>5, <1>6, LiveInodes, OwnedType DEF TInv, TypeOK, Inodes
  <2>2. FilesIntact'
    BY <1>2, <1>7, <2>1, FilesKept, LiveMarked DEF IInv, OnDisk
  <2> QED
    BY <1>2, <2>2 DEF IInv, OnDisk, FreeIsEmpty, OneOwner
<1>9. ASSUME op'.pc = "abort", op'.ino = op.ino, op'.after = op.after, Owned(op') \subseteq Owned(op)
      PROVE  IInv'
  <2>1. SaveInv'
    BY <1>1, <1>2, <1>5, <1>9 DEF SaveInv, Saving
  <2>2. AllMarked' /\ OneName'
    BY <1>1, <1>2, <1>9 DEF AllMarked, OneName
  <2>3. MoveInv' /\ ReleaseInv' /\ CheckInv'
    BY <1>1, <1>9 DEF MoveInv, ReleaseInv, CheckInv, Checking
  <2> QED
    BY <1>8, <2>1, <2>2, <2>3 DEF IInv, InMemory
<1>10. CASE op' = [op EXCEPT !.pc = "abort"]
  <2>1. op'.pc = "abort" /\ op'.ino = op.ino /\ op'.after = op.after /\ op'.ptr = op.ptr
    BY <1>10 DEF TInv, TypeOK, Calls
  <2> QED
    BY <1>9, <2>1 DEF Owned
<1>11. CASE op' = [op EXCEPT !.pc = "abort", !.ptr = [@ EXCEPT ![op.k] = NoBlk]]
  <2>1. /\ op'.pc = "abort" /\ op'.ino = op.ino /\ op'.after = op.after
        /\ op'.ptr = [op.ptr EXCEPT ![op.k] = NoBlk]
    BY <1>11 DEF TInv, TypeOK, Calls
  <2>2. \A k \in Index : op'.ptr[k] \in {NoBlk, op.ptr[k]}
    BY <2>1 DEF TInv, TypeOK, Calls
  <2>3. Owned(op') \subseteq Owned(op)
    BY <2>2 DEF Owned
  <2> QED
    BY <1>9, <2>1, <2>3
<1>12. CASE r = "ok" /\ op' = [op EXCEPT !.pc = NextFill(op.ver, op.k)]
  <2>1. /\ op'.pc \in {"store", "fill"} /\ op'.ptr = op.ptr /\ op'.k = op.k /\ op'.ino = op.ino
        /\ op'.ver = op.ver /\ op'.name = op.name /\ op'.after = "idle"
        /\ op'.pc = "store" => op.k = Blocks[op.ver]
        /\ op'.pc = "fill" => op.k # Blocks[op.ver]
    BY <1>1, <1>12 DEF NextFill, TInv, TypeOK, Calls
  <2>2. Owned(op') = Owned(op)
    BY <2>1 DEF Owned
  <2>3. sec'[op.ptr[op.k]] = <<op.ver, op.k>>
    BY <1>4, <1>6, <1>12 DEF WriteData, Written, TInv, TypeOK, Calls
  <2>4. \A k \in Index : k <= op.k => op.ptr[k] \in bitmap' /\ sec'[op.ptr[k]] = <<op.ver, k>>
    <3>1. \A k \in Index : k <= op.k - 1 => op.ptr[k] \in bitmap /\ sec[op.ptr[k]] = <<op.ver, k>>
      BY <1>5 DEF Filled
    <3>2. \A k \in Index : k <= op.k => k = op.k \/ (k <= op.k - 1 /\ k # op.k)
      BY <1>3, MaxBlocksNat DEF Index
    <3>3. op.ptr[op.k] \in bitmap
      BY <1>5, <1>6
    <3>4. \A k \in Index : k # op.k => op.ptr[k] # op.ptr[op.k]
      BY <1>4, <1>5, <1>6
    <3>5. \A k \in Index : op.ptr[k] \in bitmap => op.ptr[k] \in Blk
      BY DEF TInv, TypeOK
    <3> QED
      BY <1>2, <1>4, <1>7, <2>3, <3>1, <3>2, <3>3, <3>4, <3>5
  <2>5. Filled(op.k)'
    BY <2>1, <2>4 DEF Filled
  <2>6. dirty' = dirty
    BY <1>12 DEF WriteData, TInv, TypeOK
  <2>7. op.k <= Blocks[op.ver] /\ (op.k # Blocks[op.ver] => op.k < Blocks[op.ver])
    BY <1>3, MaxBlocksNat
  <2>8. SaveInv'
    BY <1>1, <1>2, <1>3, <1>5, <2>1, <2>2, <2>5, <2>6, <2>7 DEF SaveInv, Saving
  <2>9. AllMarked' /\ OneName'
    BY <1>1, <1>2, <2>1 DEF AllMarked, OneName
  <2>10. MoveInv' /\ ReleaseInv' /\ CheckInv'
    BY <2>1 DEF MoveInv, ReleaseInv, CheckInv, Checking
  <2> QED
    BY <1>8, <2>8, <2>9, <2>10 DEF IInv, InMemory
<1> QED
  BY <1>10, <1>11, <1>12 DEF WriteData

LEMMA StoreInoInv ==
  ASSUME TInv, TInv', IInv, Policy, NEW r \in Outcome, StoreIno(r)
  PROVE  IInv'
<1> DEFINE new == [type |-> "file", ptr |-> op.ptr,
                   ver |-> IF op.pc = "store" THEN op.ver ELSE NoVer]
           table == Written(r, [itable EXCEPT ![op.ino] = new], itable)
<1>1. /\ op.pc \in {"store", "abort"} /\ SaveInv /\ op.ino \in Ino /\ op.ino \notin Live
      /\ op.after = "idle" /\ itable[op.ino].ptr = NoPtr /\ itable[op.ino].type = "file"
      /\ \A i \in Ino \ {op.ino} : Owned(itable[i]) \cap Owned(op) = {}
      /\ op.name \in Name
  BY DEF StoreIno, IInv, InMemory, SaveInv, Saving, TInv, LocalsInv
<1>2. /\ dir' = dir /\ bitmap' = bitmap /\ sec' = sec /\ itable' = table
      /\ Live' = Live /\ Used' = Used
  BY DEF StoreIno, Live, Used
<1>3. \A i \in Ino : i # op.ino => itable'[i] = itable[i]
  BY <1>2 DEF Written, TInv, TypeOK
<1>4. itable'[op.ino] \in {itable[op.ino], new}
  BY <1>1, <1>2 DEF Written, TInv, TypeOK
<1>5. itable'[op.ino].type = "file" /\ itable'[op.ino].ptr \in {NoPtr, op.ptr}
  BY <1>1, <1>4
<1>6. Owned(itable'[op.ino]) \subseteq Owned(op)
  BY <1>5, NoPtrOwnsNothing DEF Owned
<1>7. OnDisk'
  <2>1. FilesIntact'
    BY <1>1, <1>2, <1>3, FilesKept, LiveInodes, LiveMarked DEF IInv, OnDisk
  <2>2. FreeIsEmpty'
    BY <1>3, <1>5 DEF IInv, OnDisk, FreeIsEmpty
  <2>3. OneOwner'
    <3>1. \A i \in Ino \ {op.ino} : Owned(itable'[i]) \cap Owned(itable'[op.ino]) = {}
      BY <1>1, <1>3, <1>6
    <3> QED
      BY <1>3, <3>1 DEF IInv, OnDisk, OneOwner
  <2> QED
    BY <2>1, <2>2, <2>3 DEF OnDisk
<1>8. ~dirty => /\ \A i \in Ino \ {op.ino} : Owned(itable[i]) \subseteq bitmap
                /\ \A m, n \in Used : dir[m] = dir[n] => m = n
  BY <1>1 DEF IInv, InMemory, AllMarked, OneName, Checking
<1>9. CASE Release(op.ino, table, r)
  <2>1. ~dirty' => ~dirty
    BY <1>9 DEF Release, Policy, TInv, TypeOK
  <2> QED
    BY <1>1, <1>2, <1>3, <1>7, <1>8, <1>9, <2>1, ReleaseEnd DEF IInv
<1>10. CASE op.pc = "store" /\ r = "ok" /\ op' = [op EXCEPT !.pc = "switch"] /\ dirty' = dirty
  <2>1. /\ op'.pc = "switch" /\ op'.ptr = op.ptr /\ op'.k = op.k /\ op'.ino = op.ino
        /\ op'.ver = op.ver /\ op'.name = op.name /\ op'.after = "idle"
    BY <1>1, <1>10 DEF TInv, TypeOK, Calls
  <2>2. Owned(op') = Owned(op)
    BY <2>1 DEF Owned
  <2>3. itable'[op.ino] = new
    BY <1>1, <1>2, <1>10 DEF Written, TInv, TypeOK
  <2>4. itable'[op.ino].ptr = op.ptr /\ itable'[op.ino].ver = op.ver
    BY <1>10, <2>3
  <2>5. /\ ~dirty /\ op.ver \in Version
        /\ \A k \in Index : op.ptr[k] = NoBlk <=> k > op.k
        /\ \A k, l \in Index : (op.ptr[k] = op.ptr[l] /\ op.ptr[k] # NoBlk) => k = l
        /\ Filled(op.k) /\ Owned(op) \subseteq bitmap /\ op.k = Blocks[op.ver]
    BY <1>1, <1>10 DEF SaveInv, Saving
  <2>6. Filled(op.k)'
    BY <1>2, <2>1, <2>5 DEF Filled
  <2>7. SaveInv'
    <3>1. \A i \in Ino \ {op.ino} : Owned(itable'[i]) \cap Owned(op') = {}
      BY <1>1, <1>3, <2>2
    <3> HIDE DEF new, table
    <3> QED
      BY <1>1, <1>2, <1>5, <1>10, <2>1, <2>2, <2>4, <2>5, <2>6, <3>1 DEF SaveInv, Saving
  <2>8. AllMarked'
    <3>1. \A i \in Ino : Owned(itable'[i]) \subseteq bitmap'
      BY <1>2, <1>3, <1>6, <1>8, <2>5
    <3> QED
      BY <3>1 DEF AllMarked
  <2>9. OneName'
    BY <1>2, <1>8, <2>1, <2>5 DEF OneName
  <2>10. MoveInv' /\ ReleaseInv' /\ CheckInv'
    BY <2>1 DEF MoveInv, ReleaseInv, CheckInv, Checking
  <2> QED
    BY <1>7, <2>7, <2>8, <2>9, <2>10 DEF IInv, InMemory
<1> QED
  BY <1>9, <1>10 DEF StoreIno

(* The switch gives a name to an inode whose content is complete. *)
LEMMA SwitchInv ==
  ASSUME TInv, TInv', IInv, Policy, NEW r \in Outcome, Switch(r)
  PROVE  IInv'
<1>0. op.pc = "switch"
  BY DEF Switch
<1>1. /\ SaveInv /\ op.ino \in Ino /\ op.ino \notin Live /\ ~dirty /\ op.after = "idle"
      /\ \A i \in Ino : Owned(itable[i]) \subseteq bitmap
      /\ \A m, n \in Used : dir[m] = dir[n] => m = n
      /\ op.name \in Name
  BY <1>0, SaveState
<1>2. itable' = itable /\ bitmap' = bitmap /\ sec' = sec
  BY DEF Switch
<1>3. FreeIsEmpty' /\ OneOwner'
  BY <1>2 DEF IInv, OnDisk, FreeIsEmpty, OneOwner
<1>4. CASE r = "lost"
  <2>1. dir' = dir /\ Live' = Live /\ Used' = Used
    BY <1>4 DEF Switch, Written, Live, Used
  <2>2. FilesIntact'
    BY <1>2, <2>1, FilesKept, LiveMarked DEF IInv, OnDisk
  <2>3. Release(op.ino, itable, r)
    BY <1>4 DEF Switch
  <2> QED
    BY <1>1, <1>2, <1>3, <2>1, <2>2, <2>3, ReleaseEnd DEF IInv, OnDisk
<1>5. CASE r = "ok"
  <2>1. dir' = [dir EXCEPT ![op.name] = op.ino]
    BY <1>5 DEF Switch, Written
  <2>2. dir'[op.name] = op.ino /\ \A n \in Name : n # op.name => dir'[n] = dir[n]
    BY <1>1, <2>1 DEF TInv, TypeOK
  <2>3. Used' = Used \cup {op.name}
    BY <1>1, <2>2, NoInoNotIno DEF Used
  <2>4. \A i \in Ino : i = op.ino => Intact(i)'
    <3>1. /\ itable[op.ino].type = "file" /\ itable[op.ino].ptr = op.ptr
          /\ itable[op.ino].ver = op.ver /\ op.ver \in Version
          /\ \A k \in Index : op.ptr[k] = NoBlk <=> k > op.k
          /\ Filled(op.k) /\ op.k = Blocks[op.ver]
      BY <1>0, <1>1 DEF SaveInv, Saving
    <3>2. \A k \in Index : ~(k <= Blocks[op.ver]) => k > Blocks[op.ver]
      BY <3>1, BlocksFit, MaxBlocksNat DEF Index
    <3> QED
      BY <1>2, <3>1, <3>2 DEF Intact, Filled
  <2>5. \A i \in Live : Intact(i)'
    <3>1. \A i \in Live : Intact(i)
      BY DEF IInv, OnDisk, FilesIntact, Live
    <3> QED
      BY <1>2, <3>1, IntactKept, LiveMarked, LiveInodes DEF IInv, OnDisk
  <2>6. FilesIntact'
    <3>1. \A n \in Used' : dir'[n] = op.ino \/ dir'[n] \in Live
      BY <2>2, <2>3 DEF Live, Used
    <3> QED
      BY <1>1, <2>4, <2>5, <3>1 DEF FilesIntact
  <2>7. \A m, n \in Used' : dir'[m] = dir'[n] => m = n
    <3>1. \A n \in Used : dir[n] # op.ino
      BY <1>1 DEF Live
    <3> QED
      BY <1>1, <2>2, <2>3, <3>1 DEF Used
  <2>8. CASE dir[op.name] = NoIno
    <3>1. op' = NoOp
      BY <1>5, <2>8 DEF Switch, Return
    <3>2. InMemory'
      BY <1>1, <1>2, <2>7, <3>1, CleanEnd
    <3> QED
      BY <1>3, <2>6, <3>2 DEF IInv, OnDisk
  <2>9. CASE dir[op.name] # NoIno
    <3>1. Release(dir[op.name], itable, r) /\ dir[op.name] \in Ino
      BY <1>1, <1>5, <2>9 DEF Switch, TInv, TypeOK
    <3>2. dir[op.name] \notin Live'
      BY <1>1, <2>2, <2>3, <2>9, <3>1 DEF Live, Used
    <3>3. InMemory'
      BY <1>1, <1>2, <2>7, <3>1, <3>2, ReleaseEnd
    <3> QED
      BY <1>3, <2>6, <3>3 DEF IInv, OnDisk
  <2> QED
    BY <2>8, <2>9
<1> QED
  BY <1>4, <1>5, LostOnly

-----------------------------------------------------------------------------
(* Removing and renaming *)

LEMMA UnlinkInv ==
  ASSUME TInv, TInv', IInv, Policy, NEW r \in Outcome, NEW n \in Name, Unlink(n, r)
  PROVE  IInv'
<1>1. /\ \A i \in Ino : Owned(itable[i]) \subseteq bitmap
      /\ \A l, m \in Used : dir[l] = dir[m] => l = m
      /\ dir[n] \in Ino
  BY StartState DEF Unlink, TInv, TypeOK
<1>2. itable' = itable /\ bitmap' = bitmap /\ sec' = sec
  BY DEF Unlink
<1>3. \A m \in Name : dir'[m] = IF m = n /\ r = "ok" THEN NoIno ELSE dir[m]
  BY LostOnly DEF Unlink, Written, TInv, TypeOK
<1>4. Used' \subseteq Used /\ Live' \subseteq Live /\ (r = "ok" => Used' = Used \ {n})
  BY <1>3 DEF Used, Live
<1>5. OnDisk'
  <2>1. FilesIntact'
    BY <1>2, <1>4, FilesKept, LiveMarked DEF IInv, OnDisk
  <2> QED
    BY <1>2, <2>1 DEF IInv, OnDisk, FreeIsEmpty, OneOwner
<1>6. CASE r = "ok"
  <2>1. Release(dir[n], itable, r)
    BY <1>6 DEF Unlink
  <2>2. dir[n] \notin Live' /\ \A l, m \in Used' : dir'[l] = dir'[m] => l = m
    BY <1>1, <1>3, <1>4, <1>6 DEF Live, Used
  <2> QED
    BY <1>1, <1>2, <1>5, <2>1, <2>2, ReleaseEnd DEF IInv
<1>7. CASE r = "lost"
  BY <1>5, <1>7, DirtyEnd DEF Unlink, Return, IInv
<1> QED
  BY <1>6, <1>7, LostOnly

LEMMA RenameToInv ==
  ASSUME TInv, TInv', IInv, Policy, NEW r \in Outcome, NEW f \in Name, NEW t \in Name,
         RenameTo(f, t, r)
  PROVE  IInv'
<1>1. /\ op.pc = "idle" /\ ~dirty
      /\ \A i \in Ino : Owned(itable[i]) \subseteq bitmap
      /\ \A l, m \in Used : dir[l] = dir[m] => l = m
      /\ f \in Used /\ f # t
  BY StartState DEF RenameTo, Used
<1>2. itable' = itable /\ bitmap' = bitmap /\ sec' = sec
  BY DEF RenameTo
<1>3. \A m \in Name : dir'[m] = IF m = t /\ r = "ok" THEN dir[f] ELSE dir[m]
  BY LostOnly DEF RenameTo, Written, TInv, TypeOK
<1>4. Live' \subseteq Live
  BY <1>1, <1>3 DEF Used, Live
<1>5. OnDisk'
  <2>1. FilesIntact'
    BY <1>2, <1>4, FilesKept, LiveMarked DEF IInv, OnDisk
  <2> QED
    BY <1>2, <2>1 DEF IInv, OnDisk, FreeIsEmpty, OneOwner
<1>6. CASE r = "ok"
  <2>1. op' = [NoOp EXCEPT !.pc = "mvdel", !.name = f, !.old = dir[t]] /\ dirty' = FALSE
    BY <1>1, <1>6 DEF RenameTo, TInv, TypeOK
  <2>2. op'.pc = "mvdel" /\ op'.name = f /\ op'.old = dir[t] /\ op'.after = "idle"
    BY <2>1 DEF NoOp
  <2>3. Used' = Used \cup {t}
    BY <1>1, <1>3, <1>6 DEF Used
  <2>4. \A l, m \in Used' : (dir'[l] = dir'[m] /\ l # m) => f \in {l, m}
    BY <1>1, <1>3, <1>6, <2>3 DEF Used
  <2>5. dir[t] \notin Live'
    BY <1>1, <1>3, <1>6, <2>3 DEF Used, Live, RenameTo
  <2>6. f \in Used' /\ t \in Used' /\ dir'[t] = dir'[f]
    BY <1>1, <1>3, <1>6, <2>3
  <2>7. AllMarked' /\ OneName'
    BY <1>1, <1>2, <2>2, <2>4 DEF AllMarked, OneName
  <2>8. MoveInv'
    BY <1>1, <2>1, <2>2, <2>5, <2>6 DEF MoveInv
  <2>9. SaveInv' /\ ReleaseInv' /\ CheckInv'
    BY <2>2 DEF SaveInv, Saving, ReleaseInv, CheckInv, Checking
  <2> QED
    BY <1>5, <2>7, <2>8, <2>9 DEF IInv, InMemory
<1>7. CASE r = "lost"
  BY <1>5, <1>7, DirtyEnd DEF RenameTo, IInv
<1> QED
  BY <1>6, <1>7, LostOnly

LEMMA RenameFromInv ==
  ASSUME TInv, TInv', IInv, Policy, NEW r \in Outcome, RenameFrom(r)
  PROVE  IInv'
<1>0. op.pc = "mvdel"
  BY DEF RenameFrom
<1>1. /\ ~dirty /\ op.name \in Used /\ op.old \notin Live
      /\ \A i \in Ino : Owned(itable[i]) \subseteq bitmap
      /\ \A l, m \in Used : (dir[l] = dir[m] /\ l # m) => op.name \in {l, m}
  BY <1>0 DEF IInv, InMemory, MoveInv, AllMarked, OneName, Checking
<1>2. itable' = itable /\ bitmap' = bitmap /\ sec' = sec
  BY DEF RenameFrom
<1>3. \A m \in Name : dir'[m] = IF m = op.name /\ r = "ok" THEN NoIno ELSE dir[m]
  BY LostOnly DEF RenameFrom, Written, TInv, TypeOK
<1>4. Used' \subseteq Used /\ Live' \subseteq Live /\ (r = "ok" => Used' = Used \ {op.name})
  BY <1>3 DEF Used, Live
<1>5. OnDisk'
  <2>1. FilesIntact'
    BY <1>2, <1>4, FilesKept, LiveMarked DEF IInv, OnDisk
  <2> QED
    BY <1>2, <2>1 DEF IInv, OnDisk, FreeIsEmpty, OneOwner
<1>6. CASE r = "ok"
  <2>1. \A l, m \in Used' : dir'[l] = dir'[m] => l = m
    BY <1>1, <1>3, <1>4, <1>6 DEF Used
  <2>2. CASE op.old # NoIno
    <3>1. op.old \in Ino /\ Release(op.old, itable, r)
      BY <1>6, <2>2 DEF RenameFrom, TInv, TypeOK, Calls
    <3> QED
      BY <1>1, <1>2, <1>4, <1>5, <2>1, <3>1, ReleaseEnd DEF IInv
  <2>3. CASE op.old = NoIno
    <3>1. op' = NoOp
      BY <1>6, <2>3 DEF RenameFrom, Return
    <3> QED
      BY <1>1, <1>2, <1>5, <2>1, <3>1, CleanEnd DEF IInv
  <2> QED
    BY <2>2, <2>3
<1>7. CASE r = "lost"
  BY <1>5, <1>7, DirtyEnd DEF RenameFrom, Return, IInv
<1> QED
  BY <1>6, <1>7, LostOnly

-----------------------------------------------------------------------------
(* Releasing an inode *)

LEMMA FreeBitInv ==
  ASSUME TInv, TInv', IInv, Policy, NEW r \in Outcome, NEW b \in Blk, FreeBit(b, r)
  PROVE  IInv'
<1>1. /\ op.pc = "free" /\ op.ino \in Ino /\ op.ino \notin Live /\ b \in Owned(itable[op.ino])
      /\ op.left \subseteq Owned(itable[op.ino])
  BY DEF FreeBit, IInv, InMemory, ReleaseInv
<1>2. dir' = dir /\ itable' = itable /\ sec' = sec /\ Live' = Live /\ Used' = Used
  BY DEF FreeBit, Live, Used
<1>3. bitmap \ {b} \subseteq bitmap'
  BY DEF FreeBit, Written
<1>4. \A i \in Ino : i # op.ino => b \notin Owned(itable[i])
  BY <1>1 DEF IInv, OnDisk, OneOwner
<1>5. OnDisk'
  <2>1. \A i \in Live : Owned(itable[i]) \subseteq bitmap'
    BY <1>1, <1>3, <1>4, LiveMarked, LiveInodes DEF IInv, OnDisk
  <2>2. FilesIntact'
    BY <1>2, <2>1, FilesKept DEF IInv, OnDisk
  <2> QED
    BY <1>2, <2>2 DEF IInv, OnDisk, FreeIsEmpty, OneOwner
<1>6. /\ op'.pc = "free" /\ op'.ino = op.ino /\ op'.left \subseteq op.left /\ op'.after = op.after
      /\ op'.reach = op.reach /\ op'.itodo = op.itodo
  BY <1>1 DEF FreeBit, TInv, TypeOK, Calls
<1>7. ~dirty' => ~dirty
  BY DEF FreeBit, TInv, TypeOK
<1>8. AllMarked'
  <2>1. ~dirty /\ ~Checking => \A i \in Ino \ {op.ino} : Owned(itable[i]) \subseteq bitmap
    BY <1>1 DEF IInv, InMemory, AllMarked
  <2> QED
    BY <1>1, <1>2, <1>3, <1>4, <1>6, <1>7, <2>1 DEF AllMarked, Checking
<1>9. OneName'
  BY <1>1, <1>2, <1>6, <1>7 DEF IInv, InMemory, OneName
<1>10. SaveInv' /\ MoveInv' /\ ReleaseInv'
  BY <1>1, <1>2, <1>6 DEF SaveInv, Saving, MoveInv, ReleaseInv
<1>11. CheckInv'
  BY <1>1, <1>2, <1>6, <1>7 DEF IInv, InMemory, CheckInv, Checking
<1> QED
  BY <1>5, <1>8, <1>9, <1>10, <1>11 DEF IInv, InMemory

LEMMA FreeInoInv ==
  ASSUME TInv, TInv', IInv, Policy, NEW r \in Outcome, FreeIno(r)
  PROVE  IInv'
<1>1. op.pc = "free" /\ op.ino \in Ino /\ op.ino \notin Live
  BY DEF FreeIno, IInv, InMemory, ReleaseInv
<1>2. dir' = dir /\ bitmap' = bitmap /\ sec' = sec /\ Live' = Live /\ Used' = Used
  BY DEF FreeIno, Live, Used
<1>3. \A i \in Ino : itable'[i] = IF i = op.ino /\ r = "ok" THEN FreeInode ELSE itable[i]
  BY LostOnly DEF FreeIno, Written, TInv, TypeOK
<1>4. OnDisk'
  <2>1. FilesIntact'
    BY <1>1, <1>2, <1>3, FilesKept, LiveMarked, LiveInodes DEF IInv, OnDisk
  <2>2. FreeIsEmpty' /\ OneOwner'
    BY <1>3, EmptyInodes DEF IInv, OnDisk, FreeIsEmpty, OneOwner
  <2> QED
    BY <2>1, <2>2 DEF OnDisk
<1>5. dirty' = (dirty \/ r # "ok")
  BY DEF FreeIno
<1>6. CASE r = "lost" /\ op.after = "idle"
  BY <1>4, <1>5, <1>6, DirtyEnd DEF FreeIno, IInv
<1>7. CASE r = "ok" /\ op.after = "idle"
  <2>1. op' = NoOp
    BY <1>7 DEF FreeIno
  <2>2. CASE dirty
    BY <1>4, <1>5, <2>1, <2>2, DirtyEnd DEF IInv
  <2>3. CASE ~dirty
    <3>1. \A i \in Ino \ {op.ino} : Owned(itable[i]) \subseteq bitmap
      BY <1>1, <1>7, <2>3 DEF IInv, InMemory, AllMarked, Checking
    <3>2. \A i \in Ino : Owned(itable'[i]) \subseteq bitmap'
      BY <1>2, <1>3, <1>7, <3>1, EmptyInodes
    <3>3. \A m, n \in Used' : dir'[m] = dir'[n] => m = n
      BY <1>1, <1>2, <2>3 DEF IInv, InMemory, OneName
    <3> QED
      BY <1>4, <2>1, <3>2, <3>3, CleanEnd DEF IInv
  <2> QED
    BY <2>2, <2>3
<1>8. CASE op.after = "orphans"
  <2>1. /\ op'.pc = "orphans" /\ op'.after = "idle" /\ op'.reach = op.reach /\ op'.itodo = op.itodo
    BY <1>8 DEF FreeIno, TInv, TypeOK, Calls
  <2>2. AllMarked' /\ SaveInv' /\ MoveInv' /\ ReleaseInv'
    BY <2>1 DEF AllMarked, Checking, SaveInv, Saving, MoveInv, ReleaseInv
  <2>3. OneName'
    BY <1>1, <1>2, <1>5, <2>1 DEF IInv, InMemory, OneName
  <2>4. /\ op.reach \subseteq Live /\ Live \subseteq op.reach /\ op.itodo \cap op.reach = {}
        /\ ~dirty => \A i \in Ino \ op.itodo :
                       itable[i].type = "file" => i \in op.reach \/ i = op.ino
    BY <1>1, <1>8 DEF IInv, InMemory, CheckInv, Checking
  <2>5. ~dirty' => \A i \in Ino \ op'.itodo : itable'[i].type = "file" => i \in op'.reach
    BY <1>3, <1>5, <2>1, <2>4, EmptyInodes
  <2>6. CheckInv'
    BY <1>2, <2>1, <2>4, <2>5 DEF CheckInv, Checking
  <2> QED
    BY <1>4, <2>2, <2>3, <2>6 DEF IInv, InMemory
<1> QED
  BY <1>6, <1>7, <1>8, LostOnly DEF TInv, TypeOK, Calls

-----------------------------------------------------------------------------
(* The repair *)

LEMMA CheckStartInv ==
  ASSUME TInv, TInv', IInv, Policy, CheckStart
  PROVE  IInv'
<1>1. /\ dir' = dir /\ itable' = itable /\ bitmap' = bitmap /\ sec' = sec
      /\ Live' = Live /\ Used' = Used
  BY DEF CheckStart, Live, Used
<1>2. OnDisk'
  BY <1>1, FilesKept, LiveMarked DEF IInv, OnDisk, FreeIsEmpty, OneOwner
<1>3. op'.pc = "walk" /\ op'.todo = Used /\ op'.reach = {} /\ op'.after = "idle"
  BY DEF CheckStart, NoOp
<1> QED
  BY <1>1, <1>2, <1>3 DEF IInv, InMemory, AllMarked, OneName, SaveInv, Saving, MoveInv, ReleaseInv,
     CheckInv, Checking

LEMMA WalkRemoveInv ==
  ASSUME TInv, TInv', IInv, Policy, NEW r \in Outcome, NEW n \in Name, WalkRemove(n, r)
  PROVE  IInv'
<1>1. /\ op.pc = "walk" /\ op.after = "idle" /\ n \in op.todo /\ op.todo \subseteq Used
      /\ op.reach = {dir[m] : m \in Used \ op.todo} /\ op.reach \subseteq Live
      /\ ~dirty => \A l, m \in Used \ op.todo : dir[l] = dir[m] => l = m
  BY DEF WalkRemove, IInv, InMemory, CheckInv, Checking
<1>2. itable' = itable /\ bitmap' = bitmap /\ sec' = sec
  BY DEF WalkRemove
<1>3. \A m \in Name : dir'[m] = IF m = n /\ r = "ok" THEN NoIno ELSE dir[m]
  BY LostOnly DEF WalkRemove, Written, TInv, TypeOK
<1>4. Used' \subseteq Used /\ Live' \subseteq Live /\ (r = "ok" => Used' = Used \ {n})
  BY <1>3 DEF Used, Live
<1>5. dir[n] \in op.reach
  <2>1. dir[n] \in Live
    BY <1>1 DEF Live
  <2> QED
    BY <2>1, LiveMarked DEF WalkRemove, Policy, IInv, OnDisk
<1>6. OnDisk'
  <2>1. FilesIntact'
    BY <1>2, <1>4, FilesKept, LiveMarked DEF IInv, OnDisk
  <2> QED
    BY <1>2, <2>1 DEF IInv, OnDisk, FreeIsEmpty, OneOwner
<1>7. op' = [op EXCEPT !.todo = @ \ {n}] /\ dirty' = (dirty \/ r # "ok")
  BY LostOnly DEF WalkRemove, Policy
<1>8. op'.pc = "walk" /\ op'.after = "idle" /\ op'.todo = op.todo \ {n} /\ op'.reach = op.reach
  BY <1>1, <1>7 DEF TInv, TypeOK, Calls
<1>9. r = "ok" => /\ Used' \ op'.todo = Used \ op.todo
                  /\ \A m \in Used \ op.todo : dir'[m] = dir[m]
  <2>1. r = "ok" => Used' \ op'.todo = Used \ op.todo
    BY <1>1, <1>4, <1>8
  <2> QED
    BY <1>1, <1>3, <2>1 DEF Used
<1>10. op'.reach = {dir'[m] : m \in Used' \ op'.todo}
  <2>1. CASE r = "ok"
    BY <1>1, <1>8, <1>9, <2>1
  <2>2. CASE r = "lost"
    <3>1. Used' = Used /\ \A m \in Used : dir'[m] = dir[m]
      BY <1>3, <2>2 DEF Used
    <3>2. Used' \ op'.todo = (Used \ op.todo) \cup {n}
      BY <1>1, <1>8, <3>1
    <3> QED
      BY <1>1, <1>5, <1>8, <3>1, <3>2
  <2> QED
    BY <2>1, <2>2, LostOnly
<1>11. op'.reach \subseteq Live' /\ op'.todo \subseteq Used'
  <2>1. op'.todo \subseteq Used'
    BY <1>1, <1>3, <1>8 DEF Used
  <2> QED
    BY <1>10, <2>1 DEF Live
<1>12. ~dirty' => \A l, m \in Used' \ op'.todo : dir'[l] = dir'[m] => l = m
  BY <1>1, <1>7, <1>9
<1> QED
  BY <1>6, <1>8, <1>10, <1>11, <1>12 DEF IInv, InMemory, AllMarked, OneName, SaveInv, Saving, MoveInv,
     ReleaseInv, CheckInv, Checking

LEMMA WalkReachInv ==
  ASSUME TInv, TInv', IInv, Policy, NEW n \in Name, WalkReach(n)
  PROVE  IInv'
<1>1. /\ op.pc = "walk" /\ op.after = "idle" /\ n \in op.todo /\ op.todo \subseteq Used
      /\ op.reach = {dir[m] : m \in Used \ op.todo} /\ op.reach \subseteq Live
      /\ ~dirty => \A l, m \in Used \ op.todo : dir[l] = dir[m] => l = m
      /\ dir[n] \notin op.reach
  BY DEF WalkReach, IInv, InMemory, CheckInv, Checking
<1>2. /\ dir' = dir /\ itable' = itable /\ bitmap' = bitmap /\ sec' = sec /\ dirty' = dirty
      /\ Live' = Live /\ Used' = Used
  BY DEF WalkReach, Live, Used
<1>3. OnDisk'
  BY <1>2, FilesKept, LiveMarked DEF IInv, OnDisk, FreeIsEmpty, OneOwner
<1>4. /\ op'.pc = "mark" /\ op'.todo = op.todo \ {n} /\ op'.reach = op.reach \cup {dir[n]}
      /\ op'.after = "idle"
  BY <1>1 DEF WalkReach, TInv, TypeOK, Calls
<1>5. Used \ op'.todo = (Used \ op.todo) \cup {n}
  BY <1>1, <1>4
<1>6. op'.reach = {dir[m] : m \in Used \ op'.todo}
  BY <1>1, <1>4, <1>5
<1>7. op'.reach \subseteq Live /\ op'.todo \subseteq Used
  BY <1>1, <1>4, <1>6 DEF Live
<1>8. ~dirty => \A l, m \in Used \ op'.todo : dir[l] = dir[m] => l = m
  BY <1>1, <1>5
<1> QED
  BY <1>2, <1>3, <1>4, <1>6, <1>7, <1>8 DEF IInv, InMemory, AllMarked, OneName, SaveInv, Saving,
     MoveInv, ReleaseInv, CheckInv, Checking

LEMMA MarkInv ==
  ASSUME TInv, TInv', IInv, Policy, NEW r \in Outcome,
         MarkDone \/ \E b \in Blk : Mark(b, r)
  PROVE  IInv'
<1>1. op.pc = "mark" /\ op'.pc \in {"mark", "walk"} /\ op'.todo = op.todo /\ op'.reach = op.reach
      /\ op'.after = op.after
  BY DEF MarkDone, Mark, TInv, TypeOK, Calls
<1>2. /\ dir' = dir /\ itable' = itable /\ sec' = sec /\ bitmap \subseteq bitmap'
      /\ (~dirty' => ~dirty) /\ Live' = Live /\ Used' = Used
  BY DEF MarkDone, Mark, Written, Live, Used, TInv, TypeOK
<1>3. OnDisk'
  BY <1>2, FilesKept, LiveMarked DEF IInv, OnDisk, FreeIsEmpty, OneOwner
<1>4. CheckInv'
  BY <1>1, <1>2 DEF IInv, InMemory, CheckInv, Checking
<1> QED
  BY <1>1, <1>3, <1>4 DEF IInv, InMemory, AllMarked, OneName, SaveInv, Saving, MoveInv, ReleaseInv,
     Checking

LEMMA WalkDoneInv ==
  ASSUME TInv, TInv', IInv, Policy, WalkDone
  PROVE  IInv'
<1>1. /\ op.pc = "walk" /\ op.after = "idle" /\ op.todo = {}
      /\ op.reach = {dir[m] : m \in Used \ op.todo}
      /\ ~dirty => \A l, m \in Used \ op.todo : dir[l] = dir[m] => l = m
  BY DEF WalkDone, IInv, InMemory, CheckInv
<1>2. /\ dir' = dir /\ itable' = itable /\ bitmap' = bitmap /\ sec' = sec /\ dirty' = dirty
      /\ Live' = Live /\ Used' = Used
  BY DEF WalkDone, Live, Used
<1>3. OnDisk'
  BY <1>2, FilesKept, LiveMarked DEF IInv, OnDisk, FreeIsEmpty, OneOwner
<1>4. op'.pc = "orphans" /\ op'.reach = op.reach /\ op'.after = "idle" /\ op'.itodo = Ino \ op.reach
  BY <1>1 DEF WalkDone, TInv, TypeOK, Calls
<1>5. op.reach = Live
  BY <1>1 DEF Live
<1>6. \A i \in Ino \ op'.itodo : i \in op'.reach
  BY <1>4
<1>7. CheckInv'
  BY <1>2, <1>4, <1>5, <1>6 DEF CheckInv, Checking
<1> QED
  BY <1>1, <1>2, <1>3, <1>4, <1>7 DEF IInv, InMemory, AllMarked, OneName, SaveInv, Saving, MoveInv,
     ReleaseInv, Checking

LEMMA OrphanInv ==
  ASSUME TInv, TInv', IInv, Policy, NEW i \in Ino, Orphan(i)
  PROVE  IInv'
<1>1. /\ op.pc = "orphans" /\ i \in op.itodo /\ op.itodo \cap op.reach = {}
      /\ op.reach \subseteq Live /\ Live \subseteq op.reach
      /\ ~dirty => \A j \in Ino \ op.itodo : itable[j].type = "file" => j \in op.reach
  BY DEF Orphan, IInv, InMemory, CheckInv, Checking
<1>2. /\ dir' = dir /\ itable' = itable /\ bitmap' = bitmap /\ sec' = sec /\ dirty' = dirty
      /\ Live' = Live /\ Used' = Used
  BY DEF Orphan, Policy, Live, Used
<1>3. OnDisk'
  BY <1>2, FilesKept, LiveMarked DEF IInv, OnDisk, FreeIsEmpty, OneOwner
<1> DEFINE releasing == [op EXCEPT !.pc = "free", !.ino = i, !.left = Owned(itable[i]), !.after = "orphans"]
<1>a. op' = [releasing EXCEPT !.itodo = op.itodo \ {i}]
  BY DEF Orphan, Releasing, Policy, TInv, TypeOK, Calls
<1>b. op \in Calls
  BY DEF TInv, TypeOK
<1>4. /\ op'.pc = "free" /\ op'.ino = i /\ op'.left = Owned(itable[i]) /\ op'.after = "orphans"
      /\ op'.itodo = op.itodo \ {i} /\ op'.reach = op.reach
  BY <1>a, <1>b DEF Calls
<1>5. i \notin Live
  BY <1>1
<1>6. AllMarked' /\ SaveInv' /\ MoveInv'
  BY <1>4 DEF AllMarked, Checking, SaveInv, Saving, MoveInv
<1>7. OneName'
  BY <1>1, <1>2, <1>4 DEF IInv, InMemory, OneName
<1>8. ReleaseInv'
  BY <1>2, <1>4, <1>5 DEF ReleaseInv
<1>9. CheckInv'
  BY <1>1, <1>2, <1>4 DEF CheckInv, Checking
<1> QED
  BY <1>3, <1>6, <1>7, <1>8, <1>9 DEF IInv, InMemory

LEMMA OrphansDoneInv ==
  ASSUME TInv, TInv', IInv, Policy, OrphansDone
  PROVE  IInv'
<1>1. /\ op.pc = "orphans" /\ op.after = "idle"
      /\ op.reach \subseteq Live /\ Live \subseteq op.reach
      /\ ~dirty => \A j \in Ino \ op.itodo : itable[j].type = "file" => j \in op.reach
  BY DEF OrphansDone, IInv, InMemory, CheckInv, Checking, TInv, TypeOK, Calls
<1>2. /\ dir' = dir /\ itable' = itable /\ bitmap' = bitmap /\ sec' = sec /\ dirty' = dirty
      /\ Live' = Live /\ Used' = Used
  BY DEF OrphansDone, Live, Used
<1>3. OnDisk'
  BY <1>2, FilesKept, LiveMarked DEF IInv, OnDisk, FreeIsEmpty, OneOwner
<1>4. /\ op'.pc = "leaks" /\ op'.reach = op.reach /\ op'.after = "idle"
      /\ op'.left = bitmap \ UNION {Owned(itable[j]) : j \in op.reach}
  BY <1>1 DEF OrphansDone, TInv, TypeOK, Calls
<1>5. \A j \in Live : op'.left \cap Owned(itable[j]) = {}
  BY <1>1, <1>4
<1>6. ~dirty => \A j \in Ino : itable[j].type = "file" => j \in Live
  BY <1>1 DEF OrphansDone
<1>7. OneName'
  BY <1>1, <1>2, <1>4 DEF IInv, InMemory, OneName
<1>8. CheckInv'
  BY <1>1, <1>2, <1>4, <1>5, <1>6 DEF CheckInv, Checking
<1> QED
  BY <1>3, <1>4, <1>7, <1>8 DEF IInv, InMemory, AllMarked, SaveInv, Saving, MoveInv, ReleaseInv, Checking

LEMMA LeakInv ==
  ASSUME TInv, TInv', IInv, Policy, NEW r \in Outcome, NEW b \in Blk, Leak(b, r)
  PROVE  IInv'
<1>1. /\ op.pc = "leaks" /\ b \in op.left /\ op.after = "idle"
      /\ op.reach \subseteq Live /\ Live \subseteq op.reach
      /\ \A i \in Live : op.left \cap Owned(itable[i]) = {}
      /\ ~dirty => \A i \in Ino : itable[i].type = "file" => i \in Live
  BY DEF Leak, IInv, InMemory, CheckInv, Checking, TInv, TypeOK, Calls
<1>2. /\ dir' = dir /\ itable' = itable /\ sec' = sec /\ (~dirty' => ~dirty)
      /\ bitmap \ {b} \subseteq bitmap' /\ Live' = Live /\ Used' = Used
  BY DEF Leak, Written, Live, Used, TInv, TypeOK
<1>3. OnDisk'
  <2>1. \A i \in Live : Owned(itable[i]) \subseteq bitmap'
    BY <1>1, <1>2, LiveMarked DEF IInv, OnDisk
  <2> QED
    BY <1>2, <2>1, FilesKept DEF IInv, OnDisk, FreeIsEmpty, OneOwner
<1>4. op'.pc = "leaks" /\ op'.left \subseteq op.left /\ op'.after = "idle" /\ op'.reach = op.reach
  BY <1>1 DEF Leak, TInv, TypeOK, Calls
<1>5. OneName'
  BY <1>1, <1>2, <1>4 DEF IInv, InMemory, OneName
<1>6. CheckInv'
  BY <1>1, <1>2, <1>4 DEF CheckInv, Checking
<1> QED
  BY <1>3, <1>4, <1>5, <1>6 DEF IInv, InMemory, AllMarked, SaveInv, Saving, MoveInv, ReleaseInv, Checking

LEMMA CheckDoneInv ==
  ASSUME TInv, TInv', IInv, Policy, CheckDone
  PROVE  IInv'
<1>1. /\ op.pc = "leaks"
      /\ ~dirty => \A i \in Ino : itable[i].type = "file" => i \in Live
      /\ ~dirty => \A m, n \in Used : dir[m] = dir[n] => m = n
  BY DEF CheckDone, IInv, InMemory, CheckInv, OneName
<1>2. /\ op' = NoOp /\ dir' = dir /\ itable' = itable /\ bitmap' = bitmap /\ sec' = sec
      /\ dirty' = dirty /\ Live' = Live /\ Used' = Used
  BY DEF CheckDone, Live, Used
<1>3. OnDisk'
  BY <1>2, FilesKept, LiveMarked DEF IInv, OnDisk, FreeIsEmpty, OneOwner
<1>4. CASE dirty
  <2>1. dirty' = TRUE
    BY <1>2, <1>4 DEF TInv, TypeOK
  <2> QED
    BY <1>2, <1>3, <2>1, DirtyEnd DEF IInv
<1>5. CASE ~dirty
  <2>1. \A i \in Ino : Owned(itable[i]) \subseteq bitmap
    <3>1. \A i \in Ino : i \in Live \/ itable[i] = FreeInode
      BY <1>1, <1>5 DEF IInv, OnDisk, FreeIsEmpty, TInv, TypeOK, Inodes
    <3> QED
      BY <3>1, LiveMarked, EmptyInodes DEF IInv, OnDisk
  <2> QED
    BY <1>1, <1>2, <1>3, <1>5, <2>1, CleanEnd DEF IInv
<1> QED
  BY <1>4, <1>5

LEMMA PowerCutInv ==
  ASSUME TInv, TInv', IInv, PowerCut
  PROVE  IInv'
<1>1. /\ op' = NoOp /\ dirty' = TRUE /\ dir' = dir /\ itable' = itable /\ bitmap' = bitmap
      /\ sec' = sec /\ Live' = Live
  BY DEF PowerCut, Live, Used
<1>2. OnDisk'
  BY <1>1, FilesKept, LiveMarked DEF IInv, OnDisk, FreeIsEmpty, OneOwner
<1> QED
  BY <1>1, <1>2, DirtyEnd DEF IInv

-----------------------------------------------------------------------------
(* The theorems *)

LEMMA IInit == Init => IInv
<1> SUFFICES ASSUME Init PROVE IInv
  OBVIOUS
<1>1. Used = {} /\ Live = {}
  BY DEF Init, Used, Live
<1>2. OnDisk
  BY <1>1, EmptyInodes DEF Init, OnDisk, FilesIntact, FreeIsEmpty, OneOwner
<1>3. op.pc = "idle" /\ op.after = "idle"
  BY NoOpIdle DEF Init
<1>4. \A i \in Ino : Owned(itable[i]) \subseteq bitmap
  BY EmptyInodes DEF Init
<1> QED
  BY <1>1, <1>2, <1>3, <1>4 DEF IInv, InMemory, AllMarked, OneName, SaveInv, Saving, MoveInv, ReleaseInv,
     CheckInv, Checking

LEMMA IStep ==
  ASSUME TInv, IInv, Policy, [Next]_vars
  PROVE  IInv'
<1>0. TInv'
  BY TypeStep
<1>1. CASE UNCHANGED vars
  BY <1>1 DEF vars, IInv, OnDisk, InMemory, FilesIntact, Intact, FreeIsEmpty, OneOwner, AllMarked, OneName,
     SaveInv, Saving, Filled, MoveInv, ReleaseInv, CheckInv, Checking, Live, Used
<1>2. CASE Start
  BY <1>0, <1>2, FilePutInv, UnlinkInv, RenameToInv DEF Start, FileCopy, Intact
<1>3. CASE CheckStart
  BY <1>0, <1>3, CheckStartInv
<1>4. CASE Step
  <2>1. ASSUME NEW r \in Outcome, Alloc(r) \/ WriteData(r) \/ StoreIno(r) \/ Switch(r)
        PROVE  IInv'
    BY <1>0, <2>1, AllocInv, WriteDataInv, StoreInoInv, SwitchInv
  <2>2. ASSUME NEW r \in Outcome, RenameFrom(r) \/ FreeIno(r) \/ \E b \in Blk : FreeBit(b, r)
        PROVE  IInv'
    BY <1>0, <2>2, RenameFromInv, FreeInoInv, FreeBitInv
  <2>3. ASSUME NEW r \in Outcome, MarkDone \/ \E b \in Blk : Mark(b, r) \/ Leak(b, r)
        PROVE  IInv'
    BY <1>0, <2>3, MarkInv, LeakInv
  <2>4. ASSUME NEW r \in Outcome, NEW n \in Name, WalkRemove(n, r) \/ WalkReach(n)
        PROVE  IInv'
    BY <1>0, <2>4, WalkRemoveInv, WalkReachInv
  <2>5. CASE WalkDone \/ OrphansDone \/ CheckDone \/ \E i \in Ino : Orphan(i)
    BY <1>0, <2>5, WalkDoneInv, OrphansDoneInv, CheckDoneInv, OrphanInv
  <2>6. "ok" \in Outcome /\ ~WalkUnreadable /\ ~CheckGivesUp
    BY DEF Outcome, WalkUnreadable, CheckGivesUp, Policy
  <2> QED
    BY <1>4, <2>1, <2>2, <2>3, <2>4, <2>5, <2>6 DEF Step
<1>5. CASE PowerCut
  BY <1>0, <1>5, PowerCutInv
<1> QED
  BY <1>1, <1>2, <1>3, <1>4, <1>5 DEF Next

LEMMA Inductive ==
  ASSUME Policy
  PROVE  Spec => [](TInv /\ IInv)
<1>1. Init => TInv /\ IInv
  BY TypeInit, IInit
<1>2. TInv /\ IInv /\ [Next]_vars => (TInv /\ IInv)'
  BY TypeStep, IStep
<1> QED
  BY <1>1, <1>2, PTL DEF Spec

(* A file with a name is complete and undamaged after every sector write of
   every call (kernel/mwfs.h promises it of a power cut anywhere in a save). *)
THEOREM FilesStayIntact ==
  ASSUME Policy
  PROVE  Spec => []FilesIntact
<1>1. TInv /\ IInv => FilesIntact
  BY DEF IInv, OnDisk
<1> QED
  BY <1>1, Inductive, PTL

(* Whatever entry the repair removes, what it read as keeps a name. *)
THEOREM RepairKeepsFiles ==
  ASSUME Policy
  PROVE  Spec => RepairLosesNoFile
<1> DEFINE Kept == \A n \in Used : (op.pc = "walk" /\ dir'[n] # dir[n]) => \E m \in Name : dir'[m] = dir[n]
<1>1. TInv /\ IInv /\ [Next]_vars => [Kept]_vars
  <2> SUFFICES ASSUME TInv, IInv, Next, NEW n \in Used, op.pc = "walk", dir'[n] # dir[n]
               PROVE  \E m \in Name : dir'[m] = dir[n]
    OBVIOUS
  <2>a. ~Start /\ ~CheckStart
    BY DEF Start, FilePut, FileCopy, Unlink, RenameTo, MayStart, CheckStart
  <2>b. ~PowerCut
    BY DEF PowerCut
  <2>c. \A r \in Outcome : /\ ~Alloc(r) /\ ~WriteData(r) /\ ~StoreIno(r)
                            /\ ~Switch(r) /\ ~RenameFrom(r) /\ ~FreeIno(r)
    BY DEF Alloc, WriteData, StoreIno, Switch, RenameFrom, FreeIno
  <2>d. \A r \in Outcome, b \in Blk : ~FreeBit(b, r) /\ ~Mark(b, r) /\ ~Leak(b, r)
    BY DEF FreeBit, Mark, Leak
  <2>e. \A m \in Name : ~WalkReach(m)
    BY DEF WalkReach
  <2>f. \A i \in Ino : ~Orphan(i)
    BY DEF Orphan
  <2>g. ~(MarkDone \/ WalkUnreadable \/ WalkDone \/ OrphansDone \/ CheckDone \/ CheckGivesUp)
    BY DEF MarkDone, WalkUnreadable, WalkDone, OrphansDone, CheckDone, CheckGivesUp
  <2>1. PICK l \in Name, r \in Outcome : WalkRemove(l, r)
    BY <2>a, <2>b, <2>c, <2>d, <2>e, <2>f, <2>g DEF Next, Step
  <2>2. \A m \in Name : m # l => dir'[m] = dir[m]
    BY <2>1 DEF WalkRemove, Written, TInv, TypeOK
  <2>3. n = l /\ n \in op.todo
    BY <2>1, <2>2 DEF WalkRemove, Used
  <2>4. dir[n] \in op.reach
    BY <2>1, <2>3, LiveMarked DEF WalkRemove, Policy, IInv, OnDisk, Live
  <2>5. PICK m \in Used \ op.todo : dir[m] = dir[n]
    BY <2>4 DEF IInv, InMemory, CheckInv
  <2> QED
    BY <2>2, <2>3, <2>5 DEF Used
<1> QED
  BY <1>1, Inductive, PTL DEF Spec, RepairLosesNoFile

-----------------------------------------------------------------------------
(* Nothing is lost: while there is nothing to repair, an inode in use has a name
   or is held by the call in progress, and so is a sector marked used. *)
NoOrphan ==
  ~dirty /\ ~Checking =>
    \A i \in Ino : itable[i].type = "file" =>
      \/ i \in Live
      \/ i = op.ino /\ (Saving \/ op.pc = "free")
      \/ i = op.old /\ op.pc = "mvdel"
NoLeak ==
  ~dirty /\ (Checking => op.pc = "leaks") =>
    \A b \in bitmap :
      \/ \E i \in Ino : b \in Owned(itable[i])
      \/ Saving /\ b \in Owned(op)
      \/ op.pc = "leaks" /\ b \in op.left
LeftToFree ==
  ~dirty /\ op.pc = "free" => Owned(itable[op.ino]) \cap bitmap \subseteq op.left

NothingLost == NoOrphan /\ NoLeak /\ LeftToFree

LEMMA DirtyLoses ==
  ASSUME TInv', dirty'
  PROVE  NothingLost'
BY DEF NothingLost, NoOrphan, NoLeak, LeftToFree

(* Once the check has started it has only its own findings to account for. *)
LEMMA CheckingLoses ==
  ASSUME op'.pc \in {"walk", "mark", "orphans"} \/ (op'.pc = "free" /\ op'.after = "orphans"),
         op'.pc = "free" => LeftToFree'
  PROVE  NothingLost'
BY DEF NothingLost, NoOrphan, NoLeak, LeftToFree, Checking

(* What the state before a call that may start accounts for. *)
LEMMA StartLoses ==
  ASSUME TInv, IInv, NothingLost, Policy, MayStart
  PROVE  /\ \A i \in Ino : itable[i].type = "file" => i \in Live
         /\ \A b \in bitmap : \E i \in Ino : b \in Owned(itable[i])
<1>1. op.pc = "idle" /\ op.after = "idle" /\ ~dirty
  BY StartState
<1> QED
  BY <1>1 DEF NothingLost, NoOrphan, NoLeak, Saving, Checking

(* A call that ends by releasing inode i has nothing else to account for. *)
LEMMA ReleaseLoses ==
  ASSUME Policy, NEW i \in Ino, NEW table, NEW r \in Outcome, Release(i, table, r), itable' = table,
         ~dirty' => /\ \A j \in Ino \ {i} : (itable[j].type = "file" => j \in Live)'
                    /\ \A b \in bitmap' : \E j \in Ino : b \in Owned(itable'[j])
  PROVE  NothingLost'
<1>1. op' = Releasing(NoOp, i, table, "idle")
  BY DEF Release, Policy
<1>2. op'.pc = "free" /\ op'.ino = i /\ op'.left = Owned(itable'[i]) /\ op'.after = "idle"
  BY <1>1 DEF Releasing, NoOp
<1> QED
  BY <1>2 DEF NothingLost, NoOrphan, NoLeak, LeftToFree, Saving, Checking

LEMMA QuietLoses ==
  ASSUME op' = NoOp,
         \A j \in Ino : (itable[j].type = "file" => j \in Live)',
         \A b \in bitmap' : \E j \in Ino : b \in Owned(itable'[j])
  PROVE  NothingLost'
BY NoOpIdle DEF NothingLost, NoOrphan, NoLeak, LeftToFree

LEMMA FilePutLoses ==
  ASSUME TInv, TInv', IInv, NothingLost, Policy, NEW r \in Outcome,
         NEW n \in Name, NEW v \in Version, NEW i \in Ino, FilePut(n, v, i, r)
  PROVE  NothingLost'
<1>1. /\ \A j \in Ino : itable[j].type = "file" => j \in Live
      /\ \A b \in bitmap : \E j \in Ino : b \in Owned(itable[j])
  BY StartLoses DEF FilePut
<1>2. itable[i] = FreeInode
  BY DEF FilePut, IInv, OnDisk, FreeIsEmpty
<1>3. \A j \in Ino : j # i => itable'[j] = itable[j]
  BY DEF FilePut, Written, TInv, TypeOK
<1>4. bitmap' = bitmap /\ Live' = Live
  BY DEF FilePut, Live, Used
<1>5. CASE dirty'
  BY <1>5, DirtyLoses
<1>6. CASE ~dirty'
  <2>1. op' = [NoOp EXCEPT !.pc = NextFill(v, 0), !.name = n, !.ver = v, !.ino = i]
    BY <1>6, LostOnly DEF FilePut, Return, Policy, TInv, TypeOK
  <2>2. op'.pc \in {"store", "fill"} /\ op'.ino = i
    BY <2>1 DEF NoOp, NextFill
  <2>3. NoOrphan'
    BY <1>1, <1>3, <1>4, <2>2 DEF NoOrphan, Saving
  <2>4. NoLeak'
    BY <1>1, <1>2, <1>3, <1>4, EmptyInodes DEF NoLeak
  <2> QED
    BY <2>2, <2>3, <2>4 DEF NothingLost, LeftToFree
<1> QED
  BY <1>5, <1>6

(* What a save that has not failed accounts for. *)
LEMMA SaveLoses ==
  ASSUME TInv, IInv, NothingLost, ~dirty, Saving
  PROVE  /\ op.ino \in Ino /\ op.after = "idle"
         /\ \A i \in Ino : itable[i].type = "file" => i \in Live \/ i = op.ino
         /\ \A b \in bitmap : b \in Owned(op) \/ \E i \in Ino : b \in Owned(itable[i])
<1>1. op.ino \in Ino /\ op.after = "idle"
  BY DEF IInv, InMemory, SaveInv
<1>2. ~Checking /\ op.pc # "mvdel" /\ op.pc # "leaks"
  BY <1>1 DEF Saving, Checking
<1> QED
  BY <1>1, <1>2 DEF NothingLost, NoOrphan, NoLeak

LEMMA AllocLoses ==
  ASSUME TInv, TInv', IInv, NothingLost, Policy, NEW r \in Outcome, Alloc(r)
  PROVE  NothingLost'
<1>0. op.pc = "fill" /\ Saving
  BY DEF Alloc, Saving
<1>1. /\ SaveInv /\ op.ino \in Ino /\ ~dirty
      /\ \A i \in Ino : itable[i].type = "file" => i \in Live \/ i = op.ino
      /\ \A b \in bitmap : b \in Owned(op) \/ \E i \in Ino : b \in Owned(itable[i])
  BY <1>0, SaveState, SaveLoses
<1>2. itable' = itable /\ Live' = Live
  BY DEF Alloc, Live, Used
<1>3. ASSUME op'.pc \in {"abort", "data"}, op'.ino = op.ino,
             \A b \in bitmap' : b \in Owned(op') \/ \E i \in Ino : b \in Owned(itable[i])
      PROVE  NothingLost'
  BY <1>1, <1>2, <1>3 DEF NothingLost, NoOrphan, NoLeak, LeftToFree, Saving
<1>4. CASE dirty'
  BY <1>4, DirtyLoses
<1>5. CASE bitmap' = bitmap /\ op' = [op EXCEPT !.pc = "abort"]
  <2>1. op'.pc = "abort" /\ op'.ino = op.ino /\ op'.ptr = op.ptr
    BY <1>5 DEF TInv, TypeOK, Calls
  <2> QED
    BY <1>1, <1>3, <1>5, <2>1 DEF Owned
<1>6. ASSUME NEW b \in Blk \ bitmap, bitmap' = bitmap \cup {b},
             op' = [op EXCEPT !.pc = "data", !.k = @ + 1, !.ptr = [@ EXCEPT ![op.k + 1] = b]]
      PROVE  NothingLost'
  <2>1. op.k + 1 \in Index /\ op.k + 1 > op.k
    BY <1>0, BlocksFit, MaxBlocksNat DEF TInv, LocalsInv, Index
  <2>2. op'.pc = "data" /\ op'.ino = op.ino /\ op'.ptr = [op.ptr EXCEPT ![op.k + 1] = b]
    BY <1>6 DEF TInv, TypeOK, Calls
  <2>3. op.ptr[op.k + 1] = NoBlk
    BY <1>0, <1>1, <2>1 DEF SaveInv, Saving
  <2>4. op'.ptr[op.k + 1] = b /\ \A k \in Index : k # op.k + 1 => op'.ptr[k] = op.ptr[k]
    BY <2>1, <2>2 DEF TInv, TypeOK, Calls
  <2>5. \A c \in Owned(op) \cup {b} : c \in Owned(op')
    BY <2>1, <2>3, <2>4, OwnedMember, NoBlkNotBlk
  <2> QED
    BY <1>1, <1>3, <1>6, <2>2, <2>5
<1> QED
  BY <1>4, <1>5, <1>6, LostOnly DEF Alloc, Written, TInv, TypeOK

LEMMA WriteDataLoses ==
  ASSUME TInv, TInv', IInv, NothingLost, Policy, NEW r \in Outcome, WriteData(r)
  PROVE  NothingLost'
<1>0. op.pc = "data" /\ Saving
  BY DEF WriteData, Saving
<1>1. /\ op.ino \in Ino /\ ~dirty
      /\ \A i \in Ino : itable[i].type = "file" => i \in Live \/ i = op.ino
      /\ \A b \in bitmap : b \in Owned(op) \/ \E i \in Ino : b \in Owned(itable[i])
  BY <1>0, SaveState, SaveLoses
<1>2. itable' = itable /\ Live' = Live /\ bitmap' = bitmap
  BY DEF WriteData, Live, Used
<1>3. CASE dirty'
  BY <1>3, DirtyLoses
<1>4. CASE ~dirty'
  <2>1. op' = [op EXCEPT !.pc = NextFill(op.ver, op.k)]
    BY <1>4 DEF WriteData, TInv, TypeOK
  <2>2. op'.pc \in {"fill", "store"} /\ op'.ino = op.ino /\ op'.ptr = op.ptr
    BY <2>1 DEF NextFill, TInv, TypeOK, Calls
  <2>3. Owned(op') = Owned(op)
    BY <2>2 DEF Owned
  <2> QED
    BY <1>1, <1>2, <2>2, <2>3 DEF NothingLost, NoOrphan, NoLeak, LeftToFree, Saving
<1> QED
  BY <1>3, <1>4

(* The inode is stored with every sector the save took, also when the save has
   failed: that is what lets the release find them. *)
LEMMA StoreInoLoses ==
  ASSUME TInv, TInv', IInv, NothingLost, Policy, NEW r \in Outcome, StoreIno(r)
  PROVE  NothingLost'
<1> DEFINE new == [type |-> "file", ptr |-> op.ptr,
                   ver |-> IF op.pc = "store" THEN op.ver ELSE NoVer]
           table == Written(r, [itable EXCEPT ![op.ino] = new], itable)
<1>0. op.pc \in {"store", "abort"} /\ Saving
  BY DEF StoreIno, Saving
<1>1. itable' = table /\ Live' = Live /\ bitmap' = bitmap
  BY DEF StoreIno, Live, Used
<1>2. CASE dirty'
  BY <1>2, DirtyLoses
<1>3. CASE ~dirty'
  <2>1. ~dirty /\ r = "ok"
    BY <1>3 DEF StoreIno, Release, Policy, TInv, TypeOK
  <2>2. /\ op.ino \in Ino
        /\ \A i \in Ino : itable[i].type = "file" => i \in Live \/ i = op.ino
        /\ \A b \in bitmap : b \in Owned(op) \/ \E i \in Ino : b \in Owned(itable[i])
    BY <1>0, <2>1, SaveLoses
  <2>3. itable[op.ino].ptr = NoPtr
    BY <1>0 DEF IInv, InMemory, SaveInv
  <2>4. itable'[op.ino] = new /\ \A j \in Ino : j # op.ino => itable'[j] = itable[j]
    BY <1>1, <2>1, <2>2 DEF Written, TInv, TypeOK
  <2>5. Owned(itable'[op.ino]) = Owned(op)
    BY <2>4 DEF Owned
  <2>6. \A j \in Ino \ {op.ino} : itable'[j].type = "file" => j \in Live'
    BY <1>1, <2>2, <2>4
  <2>7. \A b \in bitmap' : \E j \in Ino : b \in Owned(itable'[j])
    BY <1>1, <2>2, <2>3, <2>4, <2>5, NoPtrOwnsNothing
  <2>8. CASE op' = [op EXCEPT !.pc = "switch"]
    <3>1. op'.pc = "switch" /\ op'.ino = op.ino
      BY <2>8 DEF TInv, TypeOK, Calls
    <3>2. NoOrphan'
      BY <2>6, <3>1 DEF NoOrphan, Saving
    <3> QED
      BY <2>7, <3>1, <3>2 DEF NothingLost, NoLeak, LeftToFree
  <2>9. CASE Release(op.ino, table, r)
    <3> HIDE DEF table
    <3> QED
      BY <1>1, <2>2, <2>6, <2>7, <2>9, ReleaseLoses
  <2> QED
    BY <2>8, <2>9 DEF StoreIno
<1> QED
  BY <1>2, <1>3

(* The switch leaves the replaced inode to the release, and no other. *)
LEMMA SwitchLoses ==
  ASSUME TInv, TInv', IInv, NothingLost, Policy, NEW r \in Outcome, Switch(r)
  PROVE  NothingLost'
<1>0. op.pc = "switch" /\ Saving
  BY DEF Switch, Saving
<1>1. /\ op.ino \in Ino /\ op.name \in Name /\ ~dirty
      /\ itable[op.ino].ptr = op.ptr
      /\ \A i \in Ino : itable[i].type = "file" => i \in Live \/ i = op.ino
      /\ \A b \in bitmap : b \in Owned(op) \/ \E i \in Ino : b \in Owned(itable[i])
  BY <1>0, SaveState, SaveLoses DEF SaveInv
<1>2. itable' = itable /\ bitmap' = bitmap
  BY DEF Switch
<1>3. \A b \in bitmap' : \E i \in Ino : b \in Owned(itable'[i])
  <2>1. Owned(itable[op.ino]) = Owned(op)
    BY <1>1 DEF Owned
  <2> QED
    BY <1>1, <1>2, <2>1
<1>4. CASE dirty'
  BY <1>4, DirtyLoses
<1>5. CASE ~dirty'
  <2>1. r = "ok"
    BY <1>5 DEF Switch, Release, Return, Policy, TInv, TypeOK
  <2>2. dir'[op.name] = op.ino /\ \A m \in Name : m # op.name => dir'[m] = dir[m]
    BY <1>1, <2>1 DEF Switch, Written, TInv, TypeOK
  <2>3. op.ino \in Live'
    BY <1>1, <2>2, NoInoNotIno DEF Live, Used
  <2>4. \A i \in Live : i \in Live' \/ i = dir[op.name]
    BY <2>2 DEF Live, Used
  <2>5. \A i \in Ino : itable'[i].type = "file" => i \in Live' \/ i = dir[op.name]
    BY <1>1, <1>2, <2>3, <2>4
  <2>6. CASE dir[op.name] = NoIno
    <3>1. op' = NoOp
      BY <2>1, <2>6 DEF Switch, Return
    <3> QED
      BY <1>3, <2>5, <2>6, <3>1, QuietLoses, NoInoNotIno
  <2>7. CASE dir[op.name] # NoIno
    <3>1. Release(dir[op.name], itable, r) /\ dir[op.name] \in Ino
      BY <1>1, <2>1, <2>7 DEF Switch, TInv, TypeOK
    <3> QED
      BY <1>2, <1>3, <2>5, <3>1, ReleaseLoses
  <2> QED
    BY <2>6, <2>7
<1> QED
  BY <1>4, <1>5

LEMMA UnlinkLoses ==
  ASSUME TInv, TInv', IInv, NothingLost, Policy, NEW r \in Outcome, NEW n \in Name, Unlink(n, r)
  PROVE  NothingLost'
<1>1. /\ \A i \in Ino : itable[i].type = "file" => i \in Live
      /\ \A b \in bitmap : \E i \in Ino : b \in Owned(itable[i])
  BY StartLoses DEF Unlink
<1>2. itable' = itable /\ bitmap' = bitmap
  BY DEF Unlink
<1>3. CASE dirty'
  BY <1>3, DirtyLoses
<1>4. CASE ~dirty'
  <2>1. r = "ok" /\ Release(dir[n], itable, r) /\ dir[n] \in Ino
    BY <1>4 DEF Unlink, Return, TInv, TypeOK
  <2>2. \A m \in Name : m # n => dir'[m] = dir[m]
    BY <2>1 DEF Unlink, Written, TInv, TypeOK
  <2>3. \A i \in Live : i \in Live' \/ i = dir[n]
    BY <2>2 DEF Live, Used
  <2> QED
    BY <1>1, <1>2, <2>1, <2>3, ReleaseLoses
<1> QED
  BY <1>3, <1>4

LEMMA RenameToLoses ==
  ASSUME TInv, TInv', IInv, NothingLost, Policy, NEW r \in Outcome, NEW f \in Name, NEW t \in Name,
         RenameTo(f, t, r)
  PROVE  NothingLost'
<1>1. /\ \A i \in Ino : itable[i].type = "file" => i \in Live
      /\ \A b \in bitmap : \E i \in Ino : b \in Owned(itable[i])
  BY StartLoses DEF RenameTo
<1>2. itable' = itable /\ bitmap' = bitmap
  BY DEF RenameTo
<1>3. CASE dirty'
  BY <1>3, DirtyLoses
<1>4. CASE ~dirty'
  <2>1. r = "ok"
    BY <1>4 DEF RenameTo, TInv, TypeOK
  <2>2. op' = [NoOp EXCEPT !.pc = "mvdel", !.name = f, !.old = dir[t]]
    BY <2>1 DEF RenameTo
  <2>3. op'.pc = "mvdel" /\ op'.old = dir[t]
    BY <2>2 DEF NoOp
  <2>4. \A m \in Name : m # t => dir'[m] = dir[m]
    BY <2>1 DEF RenameTo, Written, TInv, TypeOK
  <2>5. \A i \in Live : i \in Live' \/ i = dir[t]
    BY <2>4 DEF Live, Used
  <2>6. NoOrphan'
    BY <1>1, <1>2, <2>3, <2>5 DEF NoOrphan
  <2> QED
    BY <1>1, <1>2, <2>3, <2>6 DEF NothingLost, NoLeak, LeftToFree
<1> QED
  BY <1>3, <1>4

LEMMA RenameFromLoses ==
  ASSUME TInv, TInv', IInv, NothingLost, Policy, NEW r \in Outcome, RenameFrom(r)
  PROVE  NothingLost'
<1>0. op.pc = "mvdel"
  BY DEF RenameFrom
<1>1. /\ ~dirty /\ op.name \in Used /\ op.after = "idle"
      /\ \E m \in Used : m # op.name /\ dir[m] = dir[op.name]
  BY <1>0 DEF IInv, InMemory, MoveInv
<1>2. /\ \A i \in Ino : itable[i].type = "file" => i \in Live \/ i = op.old
      /\ \A b \in bitmap : \E i \in Ino : b \in Owned(itable[i])
  BY <1>0, <1>1 DEF NothingLost, NoOrphan, NoLeak, Saving, Checking
<1>3. itable' = itable /\ bitmap' = bitmap
  BY DEF RenameFrom
<1>4. CASE dirty'
  BY <1>4, DirtyLoses
<1>5. CASE ~dirty'
  <2>1. r = "ok"
    BY <1>5 DEF RenameFrom, Release, Return, Policy, TInv, TypeOK
  <2>2. \A m \in Name : m # op.name => dir'[m] = dir[m]
    BY <2>1 DEF RenameFrom, Written, TInv, TypeOK
  <2>3. \A i \in Live : i \in Live'
    BY <1>1, <2>2 DEF Live, Used
  <2>4. \A i \in Ino : itable'[i].type = "file" => i \in Live' \/ i = op.old
    BY <1>2, <1>3, <2>3
  <2>5. CASE op.old # NoIno
    <3>1. op.old \in Ino /\ Release(op.old, itable, r)
      BY <2>1, <2>5 DEF RenameFrom, TInv, TypeOK, Calls
    <3> QED
      BY <1>2, <1>3, <2>4, <3>1, ReleaseLoses
  <2>6. CASE op.old = NoIno
    <3>1. op' = NoOp
      BY <2>1, <2>6 DEF RenameFrom, Return
    <3> QED
      BY <1>2, <1>3, <2>4, <2>6, <3>1, QuietLoses, NoInoNotIno
  <2> QED
    BY <2>5, <2>6
<1> QED
  BY <1>4, <1>5

LEMMA FreeBitLoses ==
  ASSUME TInv, TInv', IInv, NothingLost, Policy, NEW r \in Outcome, NEW b \in Blk, FreeBit(b, r)
  PROVE  NothingLost'
<1>1. itable' = itable /\ Live' = Live
  BY DEF FreeBit, Live, Used
<1>2. /\ op.pc = "free" /\ op'.pc = "free" /\ op'.ino = op.ino /\ op'.left = op.left \ {b}
      /\ op'.after = op.after
  BY DEF FreeBit, TInv, TypeOK, Calls
<1>3. CASE dirty'
  BY <1>3, DirtyLoses
<1>4. CASE ~dirty'
  <2>1. ~dirty /\ bitmap' = bitmap \ {b}
    BY <1>4 DEF FreeBit, Written, TInv, TypeOK
  <2>2. LeftToFree'
    BY <1>1, <1>2, <2>1 DEF NothingLost, LeftToFree
  <2> QED
    BY <1>1, <1>2, <2>1, <2>2 DEF NothingLost, NoOrphan, NoLeak, Saving, Checking
<1> QED
  BY <1>3, <1>4

(* The inode goes when none of its sectors is marked any more. *)
LEMMA FreeInoLoses ==
  ASSUME TInv, TInv', IInv, NothingLost, Policy, NEW r \in Outcome, FreeIno(r)
  PROVE  NothingLost'
<1>1. op.pc = "free" /\ op.ino \in Ino /\ op.left = {}
  BY DEF FreeIno, IInv, InMemory, ReleaseInv
<1>2. bitmap' = bitmap /\ Live' = Live
  BY DEF FreeIno, Live, Used
<1>3. CASE dirty'
  BY <1>3, DirtyLoses
<1>4. CASE op.after = "orphans"
  <2>1. op'.pc = "orphans"
    BY <1>4 DEF FreeIno, TInv, TypeOK, Calls
  <2> QED
    BY <2>1, CheckingLoses
<1>5. CASE ~dirty' /\ op.after = "idle"
  <2>1. ~dirty /\ r = "ok" /\ op' = NoOp
    BY <1>5 DEF FreeIno, TInv, TypeOK
  <2>2. itable'[op.ino] = FreeInode /\ \A j \in Ino : j # op.ino => itable'[j] = itable[j]
    BY <1>1, <2>1 DEF FreeIno, Written, TInv, TypeOK
  <2>3. /\ \A i \in Ino : itable[i].type = "file" => i \in Live \/ i = op.ino
        /\ \A b \in bitmap : \E i \in Ino : b \in Owned(itable[i])
        /\ Owned(itable[op.ino]) \cap bitmap = {}
    BY <1>1, <1>5, <2>1 DEF NothingLost, NoOrphan, NoLeak, LeftToFree, Saving, Checking
  <2>4. \A i \in Ino : itable'[i].type = "file" => i \in Live'
    BY <1>2, <2>2, <2>3, EmptyInodes
  <2>5. \A b \in bitmap' : \E i \in Ino : b \in Owned(itable'[i])
    BY <1>2, <2>2, <2>3
  <2> QED
    BY <2>1, <2>4, <2>5, QuietLoses
<1> QED
  BY <1>3, <1>4, <1>5 DEF TInv, TypeOK, Calls

LEMMA OrphanLoses ==
  ASSUME TInv, TInv', IInv, Policy, NEW i \in Ino, Orphan(i)
  PROVE  NothingLost'
<1>1. op' = [Releasing(op, i, itable, "orphans") EXCEPT !.itodo = @ \ {i}] /\ itable' = itable
  BY DEF Orphan, Policy
<1>2. op'.pc = "free" /\ op'.ino = i /\ op'.left = Owned(itable'[i]) /\ op'.after = "orphans"
  BY <1>1 DEF Releasing, TInv, TypeOK, Calls
<1> QED
  BY <1>2, CheckingLoses DEF LeftToFree

(* The leaks the check has found are all there are. *)
LEMMA LeaksLoses ==
  ASSUME TInv, TInv', IInv, IInv', NothingLost, Policy, NEW r \in Outcome,
         OrphansDone \/ CheckDone \/ \E b \in Blk : Leak(b, r)
  PROVE  NothingLost'
<1>1. CASE OrphansDone
  <2>1. /\ op'.pc = "leaks" /\ bitmap' = bitmap /\ itable' = itable
        /\ op'.left = bitmap \ UNION {Owned(itable[j]) : j \in op.reach}
    BY <1>1 DEF OrphansDone, TInv, TypeOK, Calls
  <2>2. op.reach \subseteq Ino
    BY DEF TInv, TypeOK, Calls
  <2> QED
    BY <2>1, <2>2 DEF NothingLost, NoOrphan, NoLeak, LeftToFree, Checking
<1>2. ASSUME NEW b \in Blk, Leak(b, r) PROVE NothingLost'
  <2>1. /\ op.pc = "leaks" /\ op'.pc = "leaks" /\ op'.left = op.left \ {b} /\ itable' = itable
    BY <1>2 DEF Leak, TInv, TypeOK, Calls
  <2>2. CASE dirty'
    BY <2>2, DirtyLoses
  <2>3. CASE ~dirty'
    <3>1. ~dirty /\ bitmap' = bitmap \ {b}
      BY <1>2, <2>3 DEF Leak, Written, TInv, TypeOK
    <3> QED
      BY <2>1, <3>1 DEF NothingLost, NoOrphan, NoLeak, LeftToFree, Saving, Checking
  <2> QED
    BY <2>2, <2>3
<1>3. CASE CheckDone
  <2>1. /\ op.pc = "leaks" /\ op.left = {} /\ op' = NoOp /\ itable' = itable /\ bitmap' = bitmap
        /\ dirty' = dirty /\ Live' = Live
    BY <1>3 DEF CheckDone, Live, Used
  <2>2. CASE dirty'
    BY <2>2, DirtyLoses
  <2>3. CASE ~dirty'
    <3>1. \A i \in Ino : itable[i].type = "file" => i \in Live
      BY <2>1, <2>3 DEF IInv, InMemory, CheckInv
    <3>2. \A b \in bitmap : \E i \in Ino : b \in Owned(itable[i])
      BY <2>1, <2>3 DEF NothingLost, NoLeak, Saving
    <3> QED
      BY <2>1, <3>1, <3>2, QuietLoses
  <2> QED
    BY <2>2, <2>3
<1> QED
  BY <1>1, <1>2, <1>3

LEMMA WalkLoses ==
  ASSUME TInv, TInv', NEW r \in Outcome,
         \/ CheckStart \/ MarkDone \/ WalkDone
         \/ \E n \in Name : WalkRemove(n, r) \/ WalkReach(n)
         \/ \E b \in Blk : Mark(b, r)
  PROVE  NothingLost'
<1>1. CASE CheckStart
  <2>1. op'.pc = "walk"
    BY <1>1 DEF CheckStart, NoOp
  <2> QED
    BY <2>1, CheckingLoses
<1>2. CASE ~CheckStart
  <2>1. op'.pc \in {"walk", "mark", "orphans"}
    BY <1>2 DEF MarkDone, WalkDone, WalkRemove, WalkReach, Mark, TInv, TypeOK, Calls
  <2> QED
    BY <2>1, CheckingLoses
<1> QED
  BY <1>1, <1>2

LEMMA NothingLostInit == Init => NothingLost
<1> SUFFICES ASSUME Init PROVE NothingLost
  OBVIOUS
<1>1. op = NoOp /\ bitmap = {} /\ \A i \in Ino : itable[i].type # "file"
  BY EmptyInodes DEF Init, FreeInode
<1> QED
  BY <1>1, NoOpIdle DEF NothingLost, NoOrphan, NoLeak, LeftToFree

LEMMA NothingLostStep ==
  ASSUME TInv, IInv, NothingLost, Policy, [Next]_vars
  PROVE  NothingLost'
<1>0. TInv' /\ IInv'
  BY TypeStep, IStep
<1>1. CASE UNCHANGED vars
  BY <1>1 DEF vars, NothingLost, NoOrphan, NoLeak, LeftToFree, Saving, Checking, Live, Used
<1>2. CASE Start
  BY <1>0, <1>2, FilePutLoses, UnlinkLoses, RenameToLoses DEF Start, FileCopy, Intact
<1>3. CASE CheckStart
  BY <1>0, <1>3, WalkLoses DEF Outcome
<1>4. CASE Step
  <2>1. ASSUME NEW r \in Outcome, Alloc(r) \/ WriteData(r) \/ StoreIno(r) \/ Switch(r)
        PROVE  NothingLost'
    BY <1>0, <2>1, AllocLoses, WriteDataLoses, StoreInoLoses, SwitchLoses
  <2>2. ASSUME NEW r \in Outcome, RenameFrom(r) \/ FreeIno(r) \/ \E b \in Blk : FreeBit(b, r)
        PROVE  NothingLost'
    BY <1>0, <2>2, RenameFromLoses, FreeInoLoses, FreeBitLoses
  <2>3. ASSUME NEW r \in Outcome, NEW b \in Blk, Mark(b, r) \/ Leak(b, r)
        PROVE  NothingLost'
    BY <1>0, <2>3, WalkLoses, LeaksLoses
  <2>4. ASSUME NEW r \in Outcome, NEW n \in Name, WalkRemove(n, r) \/ WalkReach(n)
        PROVE  NothingLost'
    BY <1>0, <2>4, WalkLoses
  <2>5. CASE MarkDone \/ WalkDone \/ OrphansDone \/ CheckDone \/ \E i \in Ino : Orphan(i)
    BY <1>0, <2>5, WalkLoses, LeaksLoses, OrphanLoses DEF Outcome
  <2>6. "ok" \in Outcome /\ ~WalkUnreadable /\ ~CheckGivesUp
    BY DEF Outcome, WalkUnreadable, CheckGivesUp, Policy
  <2> QED
    BY <1>4, <2>1, <2>2, <2>3, <2>4, <2>5, <2>6 DEF Step
<1>5. CASE PowerCut
  BY <1>0, <1>5, DirtyLoses DEF PowerCut
<1> QED
  BY <1>1, <1>2, <1>3, <1>4, <1>5 DEF Next

LEMMA InductiveToo ==
  ASSUME Policy
  PROVE  Spec => [](TInv /\ IInv /\ NothingLost)
<1>1. Init => TInv /\ IInv /\ NothingLost
  BY TypeInit, IInit, NothingLostInit
<1>2. TInv /\ IInv /\ NothingLost /\ [Next]_vars => (TInv /\ IInv /\ NothingLost)'
  BY TypeStep, IStep, NothingLostStep
<1> QED
  BY <1>1, <1>2, PTL DEF Spec

(* Between calls, with no power cut and no lost write since the last check, the
   volume is what `part check` calls clean: every call that fails gives back
   what it took, and the check finds every orphan and every leak. *)
THEOREM CleanBetweenCalls ==
  ASSUME Policy
  PROVE  Spec => []CleanWhenQuiet
<1>1. ASSUME TInv, IInv, NothingLost, op.pc = "idle", ~dirty
      PROVE  /\ bitmap = UNION {Owned(itable[i]) : i \in Live}
             /\ {i \in Ino : itable[i].type # "free"} = Live
             /\ \A m, n \in Used : dir[m] = dir[n] => m = n
  <2>1. op.after = "idle"
    BY <1>1 DEF IInv, InMemory, CheckInv
  <2>2. /\ \A i \in Ino : itable[i].type = "file" => i \in Live
        /\ \A b \in bitmap : \E i \in Ino : b \in Owned(itable[i])
    BY <1>1, <2>1 DEF NothingLost, NoOrphan, NoLeak, Saving, Checking
  <2>3. \A i \in Ino : itable[i].type \in {"file", "free"}
    BY <1>1 DEF TInv, TypeOK, Inodes
  <2>4. \A i \in Ino : i \in Live \/ Owned(itable[i]) = {}
    BY <1>1, <2>2, <2>3, EmptyInodes DEF IInv, OnDisk, FreeIsEmpty
  <2>5. \A i \in Live : i \in Ino /\ itable[i].type = "file" /\ Owned(itable[i]) \subseteq bitmap
    BY <1>1, LiveMarked, LiveInodes DEF IInv, OnDisk
  <2>6. bitmap = UNION {Owned(itable[i]) : i \in Live}
    BY <2>2, <2>4, <2>5
  <2>7. {i \in Ino : itable[i].type # "free"} = Live
    BY <2>2, <2>3, <2>5
  <2>8. \A m, n \in Used : dir[m] = dir[n] => m = n
    BY <1>1 DEF IInv, InMemory, OneName
  <2> QED
    BY <2>6, <2>7, <2>8
<1>2. TInv /\ IInv /\ NothingLost => CleanWhenQuiet
  BY <1>1 DEF CleanWhenQuiet
<1> QED
  BY <1>2, InductiveToo, PTL

-----------------------------------------------------------------------------
(* The promise of MwfsAbs: every sector write is a step of the abstract file
   system, or changes nothing anybody reads. *)

Files == [n \in Name |-> Reading(n)]

(* No more than one file ever has two names. *)
TwinPair == \A l, m, n \in Twins : l = m \/ m = n \/ l = n

LEMMA ReadingNow ==
  ASSUME TInv, FilesIntact
  PROVE  \A n \in Name : /\ n \in Used => Reading(n) = itable[dir[n]].ver /\ Reading(n) \in Version
                         /\ n \notin Used => Reading(n) = NoVer
BY DEF FilesIntact, Intact, Reading

LEMMA ReadingNext ==
  ASSUME TInv', FilesIntact'
  PROVE  \A n \in Name : /\ n \in Used' => Reading(n)' = itable'[dir'[n]].ver /\ Reading(n)' \in Version
                         /\ n \notin Used' => Reading(n)' = NoVer
BY DEF FilesIntact, Intact, Reading

PendingIs ==
  /\ op.pc \in {"fill", "data", "store", "switch"} => Pending = Abs!Save(op.name, op.ver)
  /\ op.pc = "mvdel" => Pending = Abs!Move(op.name)
  /\ op.pc \in {"idle", "abort", "free", "walk", "mark", "orphans", "leaks"} => Pending = Abs!None

LEMMA PendingNow == PendingIs /\ PendingIs'
<1>1. PendingIs
  BY DEF PendingIs, Pending, Abs!Save, Abs!Move, Abs!None
<1>2. PendingIs'
  BY DEF PendingIs, Pending, Abs!Save, Abs!Move, Abs!None
<1> QED
  BY <1>1, <1>2

(* What a name reads as depends on the entries and on the inodes with a name. *)
LEMMA SameFiles ==
  ASSUME TInv, TInv', FilesIntact, FilesIntact', dir' = dir,
         \A i \in Live : itable'[i] = itable[i]
  PROVE  Files' = Files /\ Twins' = Twins
<1>1. Used' = Used
  BY DEF Used
<1>2. \A n \in Name : Reading(n)' = Reading(n)
  <2>1. \A n \in Name : /\ n \in Used' => Reading(n)' = itable'[dir'[n]].ver
                        /\ n \notin Used' => Reading(n)' = NoVer
    BY ReadingNext
  <2>2. \A n \in Used : itable'[dir'[n]] = itable[dir[n]]
    BY DEF Live
  <2> QED
    BY <1>1, <2>1, <2>2, ReadingNow
<1> QED
  BY <1>1, <1>2 DEF Files, Twins

(* A step that nobody can see, or that gives up what was pending. *)
LEMMA UnseenStep ==
  ASSUME Files' = Files, Twins' = Twins, Pending' = Pending \/ Pending' = Abs!None
  PROVE  [Abs!Next]_Abs!vars
<1>1. CASE Pending' = Pending
  BY <1>1 DEF Abs!vars, Files
<1>2. CASE Pending' # Pending /\ Pending' = Abs!None
  <2>1. Abs!Abandon
    BY <1>2 DEF Abs!Abandon, Files
  <2> QED
    BY <2>1 DEF Abs!Next
<1> QED
  BY <1>1, <1>2

LEMMA AfterRelease ==
  ASSUME Policy, NEW i, NEW table, NEW r, Release(i, table, r)
  PROVE  op'.pc = "free" /\ Pending' = Abs!None
<1>1. op'.pc = "free"
  BY DEF Release, Policy, Releasing, NoOp
<1> QED
  BY <1>1, PendingNow DEF PendingIs

LEMMA AfterReturn == op' = NoOp => Pending' = Abs!None
<1>1. op' = NoOp => op'.pc = "idle"
  BY NoOpIdle
<1> QED
  BY <1>1, PendingNow DEF PendingIs

LEMMA NoTwins ==
  ASSUME \A m, n \in Used : dir[m] = dir[n] => m = n
  PROVE  Twins = {}
BY DEF Twins

LEMMA NoTwinsNext ==
  ASSUME \A m, n \in Used' : dir'[m] = dir'[n] => m = n
  PROVE  Twins' = {}
BY DEF Twins

LEMMA StartQuiet ==
  ASSUME TInv, IInv, Policy, MayStart
  PROVE  Abs!Quiet
<1>1. Pending = Abs!None
  BY PendingNow DEF MayStart, PendingIs
<1>2. Twins = {}
  BY StartState, NoTwins
<1> QED
  BY <1>1, <1>2 DEF Abs!Quiet

LEMMA FilePutAbs ==
  ASSUME TInv, TInv', IInv, IInv', Policy, NEW r \in Outcome,
         NEW n \in Name, NEW v \in Version, NEW i \in Ino, FilePut(n, v, i, r)
  PROVE  [Abs!Next]_Abs!vars
<1>1. dir' = dir /\ Abs!Quiet
  BY StartQuiet DEF FilePut
<1>2. i \notin Live
  BY LiveMarked DEF FilePut, IInv, OnDisk
<1>3. \A j \in Live : itable'[j] = itable[j]
  BY <1>2, LiveInodes DEF FilePut, Written, TInv, TypeOK
<1>4. Files' = Files /\ Twins' = Twins
  BY <1>1, <1>3, SameFiles DEF IInv, OnDisk
<1>5. CASE op' = NoOp
  BY <1>4, <1>5, AfterReturn, UnseenStep
<1>6. CASE op' = [NoOp EXCEPT !.pc = NextFill(v, 0), !.name = n, !.ver = v, !.ino = i]
  <2>1. op'.pc \in {"fill", "store"} /\ op'.name = n /\ op'.ver = v
    BY <1>6 DEF NoOp, NextFill
  <2>2. Pending' = Abs!Save(n, v)
    BY <2>1, PendingNow DEF Abs!Save, PendingIs
  <2>3. Abs!BeginSave(n, v)
    BY <1>1, <1>4, <2>2 DEF Abs!BeginSave, Files, Abs!Save
  <2> QED
    BY <2>3 DEF Abs!Next
<1> QED
  BY <1>5, <1>6 DEF FilePut, Return

LEMMA FillAbs ==
  ASSUME TInv, TInv', IInv, IInv', Policy, NEW r \in Outcome, Alloc(r) \/ WriteData(r)
  PROVE  [Abs!Next]_Abs!vars
<1>1. dir' = dir /\ itable' = itable /\ op.pc \in {"fill", "data"}
  BY DEF Alloc, WriteData
<1>2. Files' = Files /\ Twins' = Twins
  BY <1>1, SameFiles DEF IInv, OnDisk
<1>3. /\ op'.pc \in {"fill", "data", "store", "abort"}
      /\ op'.name = op.name /\ op'.ver = op.ver
  <2>1. CASE Alloc(r)
    BY <2>1 DEF Alloc, NextFill, TInv, TypeOK, Calls
  <2>2. CASE WriteData(r)
    BY <2>2 DEF WriteData, NextFill, TInv, TypeOK, Calls
  <2> QED
    BY <2>1, <2>2
<1>4. Pending' = Pending \/ Pending' = Abs!None
  BY <1>1, <1>3, PendingNow DEF Abs!Save, PendingIs
<1> QED
  BY <1>2, <1>4, UnseenStep

LEMMA StoreInoAbs ==
  ASSUME TInv, TInv', IInv, IInv', Policy, NEW r \in Outcome, StoreIno(r)
  PROVE  [Abs!Next]_Abs!vars
<1>1. dir' = dir /\ op.pc \in {"store", "abort"} /\ op.ino \notin Live /\ op.ino \in Ino
  BY DEF StoreIno, IInv, InMemory, SaveInv, Saving
<1>2. \A j \in Live : itable'[j] = itable[j]
  BY <1>1, LiveInodes DEF StoreIno, Written, TInv, TypeOK
<1>3. Files' = Files /\ Twins' = Twins
  BY <1>1, <1>2, SameFiles DEF IInv, OnDisk
<1>4. CASE op.pc = "store" /\ op' = [op EXCEPT !.pc = "switch"]
  <2>1. op'.pc = "switch" /\ op'.name = op.name /\ op'.ver = op.ver
    BY <1>4 DEF TInv, TypeOK, Calls
  <2>2. Pending' = Pending
    BY <1>4, <2>1, PendingNow DEF Abs!Save, PendingIs
  <2> QED
    BY <1>3, <2>2, UnseenStep
<1>5. ASSUME NEW table, Release(op.ino, table, r)
      PROVE  [Abs!Next]_Abs!vars
  BY <1>3, <1>5, AfterRelease, UnseenStep
<1> QED
  BY <1>4, <1>5 DEF StoreIno

(* The one write that makes a save take effect. *)
LEMMA SwitchAbs ==
  ASSUME TInv, TInv', IInv, IInv', Policy, NEW r \in Outcome, Switch(r)
  PROVE  [Abs!Next]_Abs!vars
<1>0. op.pc = "switch" /\ Pending' = Abs!None
  BY AfterRelease, AfterReturn, LostOnly DEF Switch, Return
<1>1. /\ SaveInv /\ op.ino \in Ino /\ op.ino \notin Live /\ op.name \in Name
      /\ \A m, n \in Used : dir[m] = dir[n] => m = n
  BY <1>0, SaveState
<1>2. CASE r = "lost"
  <2>1. dir' = dir /\ itable' = itable
    BY <1>2 DEF Switch, Written
  <2>2. Files' = Files /\ Twins' = Twins
    BY <2>1, SameFiles DEF IInv, OnDisk
  <2> QED
    BY <1>0, <2>2, UnseenStep
<1>3. CASE r = "ok"
  <2>1. itable' = itable /\ dir' = [dir EXCEPT ![op.name] = op.ino]
    BY <1>3 DEF Switch, Written
  <2>2. dir'[op.name] = op.ino /\ \A n \in Name : n # op.name => dir'[n] = dir[n]
    BY <1>1, <2>1 DEF TInv, TypeOK
  <2>3. Used' = Used \cup {op.name}
    BY <1>1, <2>2, NoInoNotIno DEF Used
  <2>4. itable[op.ino].ver = op.ver /\ op.ver \in Version
    BY <1>0, <1>1 DEF SaveInv, Saving
  <2>5. \A n \in Name : Reading(n)' = IF n = op.name THEN op.ver ELSE Reading(n)
    <3>1. \A n \in Name : /\ n \in Used' => Reading(n)' = itable'[dir'[n]].ver
                          /\ n \notin Used' => Reading(n)' = NoVer
      BY ReadingNext DEF IInv, OnDisk
    <3>2. \A n \in Name : /\ n \in Used => Reading(n) = itable[dir[n]].ver
                          /\ n \notin Used => Reading(n) = NoVer
      BY ReadingNow DEF IInv, OnDisk
    <3> QED
      BY <1>1, <2>1, <2>2, <2>3, <2>4, <3>1, <3>2
  <2>6. Files' = [Files EXCEPT ![op.name] = op.ver]
    BY <2>5 DEF Files
  <2>7. \A n \in Used : dir[n] # op.ino
    BY <1>1 DEF Live
  <2>8. Twins = {} /\ Twins' = {}
    <3>1. \A m, n \in Used' : dir'[m] = dir'[n] => m = n
      BY <1>1, <2>2, <2>3, <2>7 DEF Used
    <3> QED
      BY <1>1, <3>1, NoTwins, NoTwinsNext
  <2>9. Abs!CommitSave(op.name, op.ver)
    BY <1>0, <2>6, <2>8, PendingNow DEF Abs!CommitSave, Files, PendingIs
  <2> QED
    BY <1>1, <2>4, <2>9 DEF Abs!Next
<1> QED
  BY <1>2, <1>3, LostOnly

(* Taking away an entry. *)
LEMMA EntryRemoved ==
  ASSUME TInv, TInv', IInv, IInv', itable' = itable, NEW n \in Name,
         dir' = [dir EXCEPT ![n] = NoIno]
  PROVE  /\ Files' = [Files EXCEPT ![n] = NoVer]
         /\ Used' = Used \ {n}
         /\ \A m \in Used' : dir'[m] = dir[m]
<1>1. \A m \in Name : dir'[m] = IF m = n THEN NoIno ELSE dir[m]
  BY DEF TInv, TypeOK
<1>2. Used' = Used \ {n}
  BY <1>1 DEF Used
<1>3. \A m \in Name : /\ m \in Used' => Reading(m)' = itable'[dir'[m]].ver
                      /\ m \notin Used' => Reading(m)' = NoVer
  BY ReadingNext DEF IInv, OnDisk
<1>4. \A m \in Name : Reading(m)' = IF m = n THEN NoVer ELSE Reading(m)
  BY <1>1, <1>2, <1>3, ReadingNow DEF IInv, OnDisk
<1>5. Files' = [Files EXCEPT ![n] = NoVer]
  BY <1>4 DEF Files
<1> QED
  BY <1>1, <1>2, <1>5 DEF Used

LEMMA UnlinkAbs ==
  ASSUME TInv, TInv', IInv, IInv', Policy, NEW r \in Outcome, NEW n \in Name, Unlink(n, r)
  PROVE  [Abs!Next]_Abs!vars
<1>1. itable' = itable /\ Abs!Quiet /\ Pending' = Abs!None /\ n \in Used
  BY StartQuiet, AfterRelease, AfterReturn DEF Unlink, Return, Used
<1>2. CASE r = "lost"
  <2>1. Files' = Files /\ Twins' = Twins
    BY <1>1, <1>2, SameFiles DEF Unlink, Written, IInv, OnDisk
  <2> QED
    BY <1>1, <2>1, UnseenStep
<1>3. CASE r = "ok"
  <2>1. dir' = [dir EXCEPT ![n] = NoIno]
    BY <1>3 DEF Unlink, Written
  <2>2. /\ Files' = [Files EXCEPT ![n] = NoVer]
        /\ Used' = Used \ {n} /\ \A m \in Used' : dir'[m] = dir[m]
    BY <1>1, <2>1, EntryRemoved
  <2>3. Twins = {} /\ Twins' = {}
    <3>1. \A l, m \in Used : dir[l] = dir[m] => l = m
      BY StartState DEF Unlink
    <3> QED
      BY <2>2, <3>1, NoTwins DEF Twins
  <2>4. Files[n] # NoVer
    BY <1>1, ReadingNow, NoVerNotVersion DEF Files, IInv, OnDisk
  <2>5. Abs!Delete(n)
    BY <1>1, <2>2, <2>3, <2>4 DEF Abs!Delete, Abs!Quiet, Files
  <2> QED
    BY <2>5 DEF Abs!Next
<1> QED
  BY <1>2, <1>3, LostOnly

LEMMA RenameToAbs ==
  ASSUME TInv, TInv', IInv, IInv', Policy, NEW r \in Outcome, NEW f \in Name, NEW t \in Name,
         RenameTo(f, t, r)
  PROVE  [Abs!Next]_Abs!vars /\ (Twins' = {} \/ Twins' = {f, t})
<1>1. itable' = itable /\ Abs!Quiet /\ f \in Used /\ f # t
  BY StartQuiet DEF RenameTo, Used
<1>2. \A l, m \in Used : dir[l] = dir[m] => l = m
  BY StartState DEF RenameTo
<1>3. CASE r = "lost"
  <2>1. Files' = Files /\ Twins' = Twins
    BY <1>1, <1>3, SameFiles DEF RenameTo, Written, IInv, OnDisk
  <2>2. Pending' = Abs!None
    BY <1>3, AfterReturn DEF RenameTo
  <2> QED
    BY <1>2, <2>1, <2>2, UnseenStep, NoTwins
<1>4. CASE r = "ok"
  <2>1. op' = [NoOp EXCEPT !.pc = "mvdel", !.name = f, !.old = dir[t]]
        /\ dir' = [dir EXCEPT ![t] = dir[f]]
    BY <1>4 DEF RenameTo, Written
  <2>2. op'.pc = "mvdel" /\ op'.name = f
    BY <2>1 DEF NoOp
  <2>3. Pending' = Abs!Move(f)
    BY <2>2, PendingNow DEF Abs!Move, PendingIs
  <2>4. \A m \in Name : dir'[m] = IF m = t THEN dir[f] ELSE dir[m]
    BY <2>1 DEF TInv, TypeOK
  <2>5. Used' = Used \cup {t}
    BY <1>1, <2>4 DEF Used
  <2>6. Twins' = {f, t}
    BY <1>1, <1>2, <2>4, <2>5 DEF Twins, Used
  <2>7. \A m \in Name : Reading(m)' = IF m = t THEN Reading(f) ELSE Reading(m)
    <3>1. \A m \in Name : /\ m \in Used' => Reading(m)' = itable'[dir'[m]].ver
                          /\ m \notin Used' => Reading(m)' = NoVer
      BY ReadingNext DEF IInv, OnDisk
    <3>2. \A m \in Name : /\ m \in Used => Reading(m) = itable[dir[m]].ver
                          /\ m \notin Used => Reading(m) = NoVer
      BY ReadingNow DEF IInv, OnDisk
    <3> QED
      BY <1>1, <2>4, <2>5, <3>1, <3>2
  <2>8. Files' = [Files EXCEPT ![t] = Files[f]]
    BY <2>7 DEF Files
  <2>9. Files[f] # NoVer
    BY <1>1, ReadingNow, NoVerNotVersion DEF Files, IInv, OnDisk
  <2>10. Abs!LinkNew(f, t)
    BY <1>1, <2>3, <2>6, <2>8, <2>9 DEF Abs!LinkNew, Files
  <2> QED
    BY <2>6, <2>10 DEF Abs!Next
<1> QED
  BY <1>3, <1>4, LostOnly

LEMMA RenameFromAbs ==
  ASSUME TInv, TInv', IInv, IInv', Policy, NEW r \in Outcome, RenameFrom(r)
  PROVE  [Abs!Next]_Abs!vars
<1>1. itable' = itable /\ op.pc = "mvdel" /\ Pending' = Abs!None
  BY AfterRelease, AfterReturn DEF RenameFrom, Return
<1>2. /\ op.name \in Used /\ Pending = Abs!Move(op.name)
      /\ \A l, m \in Used : (dir[l] = dir[m] /\ l # m) => op.name \in {l, m}
  BY <1>1, PendingNow DEF IInv, InMemory, MoveInv, OneName, PendingIs
<1>3. CASE r = "lost"
  <2>1. Files' = Files /\ Twins' = Twins
    BY <1>1, <1>3, SameFiles DEF RenameFrom, Written, IInv, OnDisk
  <2> QED
    BY <1>1, <2>1, UnseenStep
<1>4. CASE r = "ok"
  <2>1. dir' = [dir EXCEPT ![op.name] = NoIno] /\ op.name \in Name
    BY <1>2, <1>4 DEF RenameFrom, Written, Used
  <2>2. /\ Files' = [Files EXCEPT ![op.name] = NoVer]
        /\ Used' = Used \ {op.name} /\ \A m \in Used' : dir'[m] = dir[m]
    BY <1>1, <2>1, EntryRemoved
  <2>3. Twins' = {}
    BY <1>2, <2>2 DEF Twins
  <2>4. Abs!DropOld(op.name)
    BY <1>1, <1>2, <2>2, <2>3 DEF Abs!DropOld, Files
  <2> QED
    BY <2>1, <2>4 DEF Abs!Next
<1> QED
  BY <1>3, <1>4, LostOnly

(* The repair takes one of two names away, never the last. *)
LEMMA WalkRemoveAbs ==
  ASSUME TInv, TInv', IInv, IInv', TwinPair, Policy, NEW r \in Outcome, NEW n \in Name,
         WalkRemove(n, r)
  PROVE  [Abs!Next]_Abs!vars /\ Twins' \subseteq Twins
<1>1. itable' = itable /\ op.pc = "walk" /\ op'.pc = "walk"
  BY DEF WalkRemove, TInv, TypeOK, Calls
<1>2. Pending = Abs!None /\ Pending' = Abs!None
  BY <1>1, PendingNow DEF PendingIs
<1>3. CASE r = "lost"
  <2>1. Files' = Files /\ Twins' = Twins
    BY <1>1, <1>3, SameFiles DEF WalkRemove, Written, IInv, OnDisk
  <2> QED
    BY <1>2, <2>1, UnseenStep
<1>4. CASE r = "ok"
  <2>1. dir' = [dir EXCEPT ![n] = NoIno]
    BY <1>4 DEF WalkRemove, Written
  <2>2. /\ Files' = [Files EXCEPT ![n] = NoVer]
        /\ Used' = Used \ {n} /\ \A m \in Used' : dir'[m] = dir[m]
    BY <1>1, <2>1, EntryRemoved
  <2>3. /\ n \in op.todo /\ n \in Used
        /\ op.reach = {dir[m] : m \in Used \ op.todo}
    BY <1>1 DEF WalkRemove, IInv, InMemory, CheckInv
  <2>4. dir[n] \in op.reach
    BY <2>3, LiveMarked DEF WalkRemove, Policy, IInv, OnDisk, Live
  <2>5. n \in Twins
    BY <2>3, <2>4 DEF Twins
  <2>6. Twins' \subseteq Twins \ {n}
    BY <2>2 DEF Twins
  <2>7. Twins' = {}
    <3>1. \A m \in Twins' : \E l \in Twins' : l # m
      BY DEF Twins
    <3> QED
      BY <2>5, <2>6, <3>1 DEF TwinPair
  <2>8. Abs!Repair(n)
    BY <1>2, <2>2, <2>5, <2>7 DEF Abs!Repair, Files
  <2> QED
    BY <2>6, <2>8 DEF Abs!Next
<1> QED
  BY <1>3, <1>4, LostOnly

(* Releasing sectors and inodes, and everything else the check does, changes
   what no name reads as; a power cut forgets what was pending. *)
LEMMA UnseenSteps ==
  ASSUME TInv, TInv', IInv, IInv', Policy, NEW r \in Outcome,
         \/ CheckStart \/ PowerCut
         \/ FreeIno(r) \/ \E b \in Blk : FreeBit(b, r) \/ Mark(b, r) \/ Leak(b, r)
         \/ \E n \in Name : WalkReach(n)
         \/ \E i \in Ino : Orphan(i)
         \/ MarkDone \/ WalkDone \/ OrphansDone \/ CheckDone
  PROVE  [Abs!Next]_Abs!vars /\ Twins' = Twins
<1>1. dir' = dir
  BY DEF CheckStart, PowerCut, FreeIno, FreeBit, Mark, Leak, WalkReach, Orphan, MarkDone, WalkDone,
     OrphansDone, CheckDone
<1>2. \A i \in Live : itable'[i] = itable[i]
  <2>1. CASE FreeIno(r)
    <3>1. op.ino \notin Live
      BY <2>1 DEF FreeIno, IInv, InMemory, ReleaseInv
    <3> QED
      BY <2>1, <3>1, LiveInodes DEF FreeIno, Written, TInv, TypeOK
  <2>2. CASE ~FreeIno(r)
    BY <2>2 DEF CheckStart, PowerCut, FreeBit, Mark, Leak, WalkReach, Orphan, MarkDone, WalkDone,
       OrphansDone, CheckDone
  <2> QED
    BY <2>1, <2>2
<1>3. Files' = Files /\ Twins' = Twins
  BY <1>1, <1>2, SameFiles DEF IInv, OnDisk
<1>4. Pending' = Abs!None
  <2>1. CASE PowerCut \/ CheckDone
    BY <2>1, AfterReturn DEF PowerCut, CheckDone
  <2>2. CASE CheckStart
    <3>1. op'.pc = "walk"
      BY <2>2 DEF CheckStart, NoOp
    <3> QED
      BY <3>1, PendingNow DEF PendingIs
  <2>3. ASSUME NEW i \in Ino, Orphan(i) PROVE Pending' = Abs!None
    <3>1. op' = [Releasing(op, i, itable, "orphans") EXCEPT !.itodo = @ \ {i}]
      BY <2>3 DEF Orphan, Policy
    <3>2. op'.pc = "free"
      BY <3>1 DEF Releasing, TInv, TypeOK, Calls
    <3> QED
      BY <3>2, PendingNow DEF PendingIs
  <2>4. CASE FreeIno(r)
    <3>1. op'.pc \in {"idle", "orphans"}
      BY <2>4, NoOpIdle DEF FreeIno, TInv, TypeOK, Calls
    <3> QED
      BY <3>1, PendingNow DEF PendingIs
  <2>5. ASSUME NEW b \in Blk, FreeBit(b, r) \/ Mark(b, r) \/ Leak(b, r) PROVE Pending' = Abs!None
    <3>1. op'.pc \in {"free", "mark", "leaks"}
      BY <2>5 DEF FreeBit, Mark, Leak, TInv, TypeOK, Calls
    <3> QED
      BY <3>1, PendingNow DEF PendingIs
  <2>6. ASSUME NEW n \in Name, WalkReach(n) PROVE Pending' = Abs!None
    <3>1. op'.pc = "mark"
      BY <2>6 DEF WalkReach, TInv, TypeOK, Calls
    <3> QED
      BY <3>1, PendingNow DEF PendingIs
  <2>7. CASE MarkDone \/ WalkDone \/ OrphansDone
    <3>1. op'.pc \in {"walk", "orphans", "leaks"}
      BY <2>7 DEF MarkDone, WalkDone, OrphansDone, TInv, TypeOK, Calls
    <3> QED
      BY <3>1, PendingNow DEF PendingIs
  <2> QED
    BY <2>1, <2>2, <2>3, <2>4, <2>5, <2>6, <2>7
<1> QED
  BY <1>3, <1>4, UnseenStep

AbsInv == TInv /\ IInv /\ TwinPair

LEMMA AbsStep ==
  ASSUME AbsInv, Policy, [Next]_vars
  PROVE  [Abs!Next]_Abs!vars /\ AbsInv'
<1>0. TInv /\ IInv /\ TwinPair /\ TInv' /\ IInv'
  BY TypeStep, IStep DEF AbsInv
<1>1. ASSUME [Abs!Next]_Abs!vars, Twins' \subseteq Twins \/ Twins' = {} \/ \E f, t \in Name : Twins' = {f, t}
      PROVE  [Abs!Next]_Abs!vars /\ AbsInv'
  BY <1>0, <1>1 DEF AbsInv, TwinPair
<1>2. CASE UNCHANGED vars
  <2>1. Files' = Files /\ Twins' = Twins /\ Pending' = Pending
    BY <1>2 DEF vars, Files, Reading, Intact, Twins, Used, Pending
  <2> QED
    BY <1>1, <2>1, UnseenStep
<1>3. ASSUME op.pc # "mvdel", op'.pc # "mvdel", ~dirty', op'.pc \notin {"walk", "mark"}
      PROVE  Twins' = {}
  BY <1>0, <1>3, NoTwinsNext DEF IInv, InMemory, OneName
<1>4. CASE Start
  <2>1. PICK n \in Name, r \in Outcome :
          \/ \E i \in Ino, v \in Version : FilePut(n, v, i, r)
          \/ Unlink(n, r) \/ \E t \in Name : RenameTo(n, t, r)
    BY <1>4 DEF Start, FileCopy, Intact
  <2>2. ASSUME NEW i \in Ino, NEW v \in Version, FilePut(n, v, i, r)
        PROVE  [Abs!Next]_Abs!vars /\ Twins' = Twins
    <3>1. [Abs!Next]_Abs!vars
      BY <1>0, <2>2, FilePutAbs
    <3>2. dir' = dir
      BY <2>2 DEF FilePut
    <3> QED
      BY <3>1, <3>2 DEF Twins, Used
  <2>3. ASSUME Unlink(n, r) PROVE [Abs!Next]_Abs!vars /\ Twins' \subseteq Twins
    <3>1. [Abs!Next]_Abs!vars
      BY <1>0, <2>3, UnlinkAbs
    <3>2. \A m \in Name : dir'[m] \in {dir[m], NoIno}
      BY <1>0, <2>3 DEF Unlink, Written, TInv, TypeOK
    <3> QED
      BY <3>1, <3>2 DEF Twins, Used
  <2> QED
    BY <1>0, <1>1, <2>1, <2>2, <2>3, RenameToAbs
<1>5. CASE CheckStart \/ PowerCut
  BY <1>0, <1>1, <1>5, UnseenSteps DEF Outcome
<1>6. CASE Step
  <2>1. ASSUME NEW r \in Outcome, Alloc(r) \/ WriteData(r) \/ StoreIno(r)
        PROVE  [Abs!Next]_Abs!vars /\ AbsInv'
    <3>1. [Abs!Next]_Abs!vars
      BY <1>0, <2>1, FillAbs, StoreInoAbs
    <3>2. dir' = dir
      BY <2>1 DEF Alloc, WriteData, StoreIno
    <3>3. Twins' = Twins
      BY <3>2 DEF Twins, Used
    <3> QED
      BY <1>1, <3>1, <3>3
  <2>2. ASSUME NEW r \in Outcome, Switch(r) PROVE [Abs!Next]_Abs!vars /\ AbsInv'
    <3>1. [Abs!Next]_Abs!vars
      BY <1>0, <2>2, SwitchAbs
    <3>2. CASE r = "lost"
      <4>1. dir' = dir
        BY <2>2, <3>2 DEF Switch, Written
      <4> QED
        BY <1>1, <3>1, <4>1 DEF Twins, Used
    <3>3. CASE r = "ok"
      <4>1. op.pc = "switch" /\ ~dirty
        BY <1>0, <2>2, SaveState DEF Switch
      <4>2. ~dirty' /\ op'.pc \in {"idle", "free"}
        BY <2>2, <3>3, <4>1, NoOpIdle, AfterRelease DEF Switch, Release, Return, Policy
      <4> QED
        BY <1>1, <1>3, <3>1, <4>1, <4>2
    <3> QED
      BY <3>2, <3>3, LostOnly
  <2>3. ASSUME NEW r \in Outcome, RenameFrom(r) PROVE [Abs!Next]_Abs!vars /\ AbsInv'
    <3>1. [Abs!Next]_Abs!vars
      BY <1>0, <2>3, RenameFromAbs
    <3>2. \A m \in Name : dir'[m] \in {dir[m], NoIno}
      BY <1>0, <2>3 DEF RenameFrom, Written, TInv, TypeOK
    <3>3. Twins' \subseteq Twins
      BY <3>2 DEF Twins, Used
    <3> QED
      BY <1>1, <3>1, <3>3
  <2>4. ASSUME NEW r \in Outcome, NEW n \in Name, WalkRemove(n, r)
        PROVE  [Abs!Next]_Abs!vars /\ AbsInv'
    BY <1>0, <1>1, <2>4, WalkRemoveAbs
  <2>5. ASSUME NEW r \in Outcome, FreeIno(r) \/ \E b \in Blk : FreeBit(b, r) \/ Mark(b, r) \/ Leak(b, r)
        PROVE  [Abs!Next]_Abs!vars /\ AbsInv'
    BY <1>0, <1>1, <2>5, UnseenSteps
  <2>6. CASE \/ \E n \in Name : WalkReach(n)
             \/ \E i \in Ino : Orphan(i)
             \/ MarkDone \/ WalkDone \/ OrphansDone \/ CheckDone
    BY <1>0, <1>1, <2>6, UnseenSteps DEF Outcome
  <2>7. ~WalkUnreadable /\ ~CheckGivesUp
    BY DEF WalkUnreadable, CheckGivesUp, Policy
  <2> QED
    BY <1>6, <2>1, <2>2, <2>3, <2>4, <2>5, <2>6, <2>7 DEF Step
<1> QED
  BY <1>2, <1>4, <1>5, <1>6, <1>1 DEF Next

(* Every save, removal and rename is what MwfsAbs promises, cut off by a power
   failure at any sector write or not: a name keeps its old content or has its
   new content, no other name is touched, and only a rename that was cut in two
   leaves two names, one of which the repair takes away. *)
THEOREM KeepsThePromise ==
  ASSUME Policy
  PROVE  Spec => ImplementsAbs
<1>1. Init => Abs!Init /\ AbsInv
  <2> SUFFICES ASSUME Init PROVE Abs!Init /\ AbsInv
    OBVIOUS
  <2>1. Used = {} /\ Twins = {}
    BY DEF Init, Used, Twins
  <2>2. Files = [n \in Name |-> NoVer]
    BY <2>1 DEF Files, Reading
  <2>3. Pending = Abs!None
    BY NoOpIdle, PendingNow DEF Init, PendingIs
  <2>4. AbsInv
    BY <2>1, TypeInit, IInit DEF AbsInv, TwinPair
  <2> QED
    BY <2>1, <2>2, <2>3, <2>4 DEF Abs!Init, Files
<1>2. AbsInv /\ [Next]_vars => [Abs!Next]_Abs!vars /\ AbsInv'
  BY AbsStep
<1> QED
  BY <1>1, <1>2, PTL DEF Spec, ImplementsAbs, Abs!Spec
-----------------------------------------------------------------------------
(* Sectors have one owner whatever fails.  Nothing is said of names here: a file
   may be lost, but no sector comes to two inodes, as long as a volume that failed
   is checked before it is used. *)

Taking == op.pc \in {"fill", "data", "store", "abort"}

(* A save takes sectors nobody owns, and while it does nothing has failed. *)
TakesFree ==
  Taking =>
    /\ op.ino \in Ino
    /\ \A i \in Ino \ {op.ino} : Owned(itable[i]) \cap Owned(op) = {}
    /\ op.pc # "abort" => ~dirty /\ Owned(op) \subseteq bitmap

(* What a call gives back was its inode's alone. *)
GivesOwn ==
  /\ op.pc = "free" => op.ino \in Ino /\ op.left \subseteq Owned(itable[op.ino])
  /\ op.after = "orphans" => op.pc = "free" /\ op.ino \notin op.reach

(* What the check has reached it has marked, what it has passed and not reached is
   free, or it knows that it failed. *)
Passed == op.pc = "orphans" \/ op.after = "orphans"
ReachedMarked(extra) == \A i \in op.reach : Owned(itable[i]) \subseteq bitmap \cup extra
ChecksAll ==
  /\ op.pc \in {"walk", "mark"} /\ ~dirty => ReachedMarked(IF op.pc = "mark" THEN op.left ELSE {})
  /\ Passed => op.itodo \cap op.reach = {}
  /\ Passed /\ ~dirty =>
       /\ ReachedMarked({})
       /\ \A i \in Ino \ op.itodo :
            itable[i].type = "file" => i \in op.reach \/ (op.pc = "free" /\ i = op.ino)
  /\ op.pc = "leaks" /\ ~dirty =>
       /\ ReachedMarked({})
       /\ \A i \in op.reach : op.left \cap Owned(itable[i]) = {}
       /\ \A i \in Ino : itable[i].type = "file" => i \in op.reach

SInv == FreeIsEmpty /\ OneOwner /\ AllMarked /\ TakesFree /\ GivesOwn /\ ChecksAll

(* A call that ends, or that goes on to give an inode back. *)
LEMMA EndShares ==
  ASSUME op' = NoOp, FreeIsEmpty', OneOwner',
         dirty' \/ \A i \in Ino : (Owned(itable[i]) \subseteq bitmap)'
  PROVE  SInv'
<1>1. op'.pc = "idle" /\ op'.after = "idle"
  BY NoOpIdle
<1> QED
  BY <1>1 DEF SInv, AllMarked, Checking, TakesFree, Taking, GivesOwn, ChecksAll, Passed

LEMMA ReleaseShares ==
  ASSUME NEW i \in Ino, NEW table, NEW r \in Outcome, Release(i, table, r), itable' = table,
         FreeIsEmpty', OneOwner',
         dirty' \/ \A j \in Ino \ {i} : (Owned(itable[j]) \subseteq bitmap)'
  PROVE  SInv'
<1>1. CASE op' = NoOp /\ dirty' = TRUE
  BY <1>1, EndShares
<1>2. CASE op' = Releasing(NoOp, i, table, "idle")
  <2>1. op'.pc = "free" /\ op'.ino = i /\ op'.left = Owned(itable'[i]) /\ op'.after = "idle"
    BY <1>2 DEF Releasing, NoOp
  <2> QED
    BY <2>1 DEF SInv, AllMarked, Checking, TakesFree, Taking, GivesOwn, ChecksAll, Passed
<1> QED
  BY <1>1, <1>2 DEF Release

(* A call begins on a volume that is not to be checked. *)
LEMMA StartShares ==
  ASSUME TInv, SInv, CheckFirst, MayStart
  PROVE  /\ op.pc = "idle" /\ op.after = "idle" /\ dirty = FALSE
         /\ \A i \in Ino : Owned(itable[i]) \subseteq bitmap
<1>1. op.pc = "idle" /\ dirty = FALSE
  BY DEF MayStart, TInv, TypeOK
<1>2. op.after = "idle"
  BY <1>1 DEF SInv, GivesOwn, TInv, TypeOK, Calls
<1> QED
  BY <1>1, <1>2 DEF SInv, AllMarked, Checking

LEMMA FilePutShares ==
  ASSUME TInv, SInv, CheckFirst, NEW r \in Outcome,
         NEW n \in Name, NEW v \in Version, NEW i \in Ino, FilePut(n, v, i, r)
  PROVE  SInv'
<1> USE DEF FilePut
<1>1. /\ op.pc = "idle" /\ dirty = FALSE
      /\ \A j \in Ino : Owned(itable[j]) \subseteq bitmap
  BY StartShares
<1>2. itable[i] = FreeInode
  BY DEF SInv, FreeIsEmpty
<1>3. \A j \in Ino : j # i => itable'[j] = itable[j]
  BY DEF Written, TInv, TypeOK
<1>4. itable'[i] \in {FreeInode, NewInode}
  BY <1>2 DEF Written, TInv, TypeOK
<1>5. FreeIsEmpty'
  BY <1>3, <1>4, EmptyInodes DEF SInv, FreeIsEmpty
<1>6. OneOwner'
  BY <1>3, <1>4, EmptyInodes DEF SInv, OneOwner
<1>7. CASE op' = NoOp /\ dirty' = TRUE
  BY <1>5, <1>6, <1>7, EndShares
<1>8. CASE r = "ok" /\ op' = [NoOp EXCEPT !.pc = NextFill(v, 0), !.name = n, !.ver = v, !.ino = i]
           /\ dirty' = dirty
  <2>1. op'.pc \in {"store", "fill"} /\ op'.ptr = NoPtr /\ op'.ino = i /\ op'.after = "idle"
    BY <1>8 DEF NoOp, NextFill
  <2>2. Owned(op') = {}
    BY <2>1, NoPtrOwnsNothing
  <2>3. \A j \in Ino : Owned(itable'[j]) \subseteq bitmap'
    BY <1>1, <1>3, <1>4, EmptyInodes
  <2>4. AllMarked' /\ TakesFree'
    BY <1>1, <1>8, <2>1, <2>2, <2>3 DEF AllMarked, TakesFree
  <2>5. GivesOwn' /\ ChecksAll'
    BY <2>1 DEF GivesOwn, ChecksAll, Passed
  <2> QED
    BY <1>5, <1>6, <2>4, <2>5 DEF SInv
<1>9. r # "ok" => dirty' = TRUE
  BY DEF Return
<1> QED
  BY <1>7, <1>8, <1>9 DEF Return

(* While a save takes sectors, all that is owned is marked. *)
LEMMA TakingShares ==
  ASSUME TInv, SInv, Taking
  PROVE  /\ op.ino \in Ino /\ op.after = "idle"
         /\ \A i \in Ino \ {op.ino} : Owned(itable[i]) \cap Owned(op) = {}
         /\ op.pc # "abort" => ~dirty /\ Owned(op) \subseteq bitmap
         /\ ~dirty => \A i \in Ino : Owned(itable[i]) \subseteq bitmap
<1>1. op.after = "idle" /\ ~Checking
  BY DEF SInv, GivesOwn, Taking, TInv, TypeOK, Calls, Checking
<1> QED
  BY <1>1 DEF SInv, TakesFree, AllMarked, Taking

(* What the steps of a save keep, as long as it owns what it did or a sector more
   that nobody has. *)
LEMMA TakeShares ==
  ASSUME TInv, SInv, Taking, itable' = itable, op'.ino = op.ino, op'.after = op.after,
         op'.pc \in {"fill", "data", "store", "abort"},
         \A i \in Ino \ {op.ino} : Owned(itable[i]) \cap Owned(op') = {},
         op'.pc # "abort" => ~dirty' /\ Owned(op') \subseteq bitmap',
         ~dirty' => ~dirty /\ bitmap \subseteq bitmap'
  PROVE  SInv'
<1>1. FreeIsEmpty' /\ OneOwner'
  BY DEF SInv, FreeIsEmpty, OneOwner
<1>2. op.ino \in Ino /\ op'.after = "idle"
  BY TakingShares
<1>3. ~dirty' => \A i \in Ino : (Owned(itable[i]) \subseteq bitmap)'
  BY TakingShares
<1>4. AllMarked' /\ TakesFree'
  BY <1>2, <1>3 DEF AllMarked, TakesFree
<1>5. GivesOwn' /\ ChecksAll'
  BY <1>2 DEF GivesOwn, ChecksAll, Passed
<1> QED
  BY <1>1, <1>4, <1>5 DEF SInv

LEMMA AllocShares ==
  ASSUME TInv, TInv', SInv, NEW r \in Outcome, Alloc(r)
  PROVE  SInv'
<1>1. /\ op.pc = "fill" /\ Taking /\ ~dirty /\ itable' = itable
      /\ op \in Calls /\ op' \in Calls /\ op'.ino = op.ino /\ op'.after = op.after
  BY TakingShares DEF Alloc, Taking, TInv, TypeOK, Calls
<1>2. CASE op' = [op EXCEPT !.pc = "abort"] /\ (bitmap' = bitmap \/ dirty' = TRUE) /\ (~dirty' => ~dirty)
  <2>1. op'.pc = "abort" /\ op'.ptr = op.ptr
    BY <1>1, <1>2 DEF Calls
  <2>2. Owned(op') = Owned(op)
    BY <2>1 DEF Owned
  <2> QED
    BY <1>1, <1>2, <2>1, <2>2, TakeShares, TakingShares
<1>3. ASSUME NEW b \in Blk \ bitmap, bitmap' = bitmap \cup {b}, dirty' = FALSE,
             op' = [op EXCEPT !.pc = "data", !.k = @ + 1, !.ptr = [@ EXCEPT ![op.k + 1] = b]]
      PROVE  SInv'
  <2>1. op'.pc = "data" /\ op'.ptr = [op.ptr EXCEPT ![op.k + 1] = b]
    BY <1>1, <1>3 DEF Calls
  <2>2. Owned(op') \subseteq Owned(op) \cup {b}
    BY <1>1, <2>1 DEF Owned, Calls
  <2>3. \A i \in Ino : b \notin Owned(itable[i])
    BY <1>1, TakingShares
  <2> QED
    BY <1>1, <1>3, <2>1, <2>2, <2>3, TakeShares, TakingShares
<1>4. r = "ok" => dirty' = FALSE
  BY <1>1 DEF Alloc, TInv, TypeOK
<1>5. r # "ok" => dirty' = TRUE \/ UNCHANGED bitmap
  BY DEF Alloc
<1> QED
  BY <1>1, <1>2, <1>3, <1>4, <1>5 DEF Alloc, Written

LEMMA WriteDataShares ==
  ASSUME TInv, TInv', SInv, NEW r \in Outcome, WriteData(r)
  PROVE  SInv'
<1>1. /\ op.pc = "data" /\ Taking /\ ~dirty /\ itable' = itable /\ bitmap' = bitmap
      /\ op \in Calls /\ op' \in Calls
  BY TakingShares DEF WriteData, Taking, TInv, TypeOK
<1>2. /\ op'.ino = op.ino /\ op'.after = op.after /\ op'.pc \in {"fill", "store", "abort"}
      /\ op'.pc # "abort" => r = "ok"
  BY <1>1 DEF WriteData, NextFill, Calls
<1>3. Owned(op') \subseteq Owned(op)
  <2>1. op'.ptr = op.ptr \/ op'.ptr = [op.ptr EXCEPT ![op.k] = NoBlk]
    BY <1>1 DEF WriteData, Calls
  <2>2. op.ptr \in [Index -> Blk \cup {NoBlk}]
    BY <1>1 DEF Calls
  <2> QED
    BY <2>1, <2>2 DEF Owned
<1>4. r = "ok" => dirty' = dirty
  BY <1>1 DEF WriteData, TInv, TypeOK
<1> QED
  BY <1>1, <1>2, <1>3, <1>4, TakeShares, TakingShares

LEMMA StoreInoShares ==
  ASSUME TInv, TInv', SInv, NEW r \in Outcome, StoreIno(r)
  PROVE  SInv'
<1> DEFINE new == [type |-> "file", ptr |-> op.ptr,
                   ver |-> IF op.pc = "store" THEN op.ver ELSE NoVer]
           table == Written(r, [itable EXCEPT ![op.ino] = new], itable)
<1>1. /\ op.pc \in {"store", "abort"} /\ Taking /\ bitmap' = bitmap /\ itable' = table
      /\ op.ino \in Ino /\ op.after = "idle" /\ op \in Calls
  BY TakingShares DEF StoreIno, Taking, TInv, TypeOK
<1>2. new.type = "file" /\ Owned(new) = Owned(op)
  BY DEF Owned
<1>3. /\ itable'[op.ino] \in {itable[op.ino], new}
      /\ \A i \in Ino \ {op.ino} : itable'[i] = itable[i]
  <2>1. itable' \in {itable, [itable EXCEPT ![op.ino] = new]}
    BY <1>1 DEF Written
  <2>2. itable \in [Ino -> Inodes]
    BY DEF TInv, TypeOK
  <2> QED
    BY <1>1, <2>1, <2>2
<1>4. FreeIsEmpty'
  BY <1>2, <1>3 DEF SInv, FreeIsEmpty
<1>5. OneOwner'
  <2>1. \A i \in Ino \ {op.ino} : Owned(itable[i]) \cap Owned(op) = {}
    BY <1>1, TakingShares
  <2>2. \A i, j \in Ino : i # j => Owned(itable[i]) \cap Owned(itable[j]) = {}
    BY DEF SInv, OneOwner
  <2>3. Owned(itable'[op.ino]) \in {Owned(itable[op.ino]), Owned(op)}
    BY <1>2, <1>3
  <2>4. \A i, j \in Ino : i # j => Owned(itable'[i]) \cap Owned(itable'[j]) = {}
    <3> HIDE DEF table, new
    <3>1. \A i \in Ino \ {op.ino} : Owned(itable'[i]) = Owned(itable[i])
      BY <1>3
    <3>2. \A i \in Ino \ {op.ino} : Owned(itable'[i]) \cap Owned(itable'[op.ino]) = {}
      BY <1>1, <2>1, <2>2, <2>3, <3>1
    <3>3. \A i, j \in Ino \ {op.ino} : i # j => Owned(itable'[i]) \cap Owned(itable'[j]) = {}
      BY <2>2, <3>1
    <3> QED
      BY <3>2, <3>3
  <2> QED
    BY <2>4 DEF OneOwner
<1>6. CASE op.pc = "store" /\ r = "ok" /\ op' = [op EXCEPT !.pc = "switch"] /\ dirty' = dirty
  <2>1. op'.pc = "switch" /\ op'.after = "idle"
    BY <1>1, <1>6 DEF Calls
  <2>2. ~dirty' => \A i \in Ino : Owned(itable'[i]) \subseteq bitmap'
    BY <1>1, <1>2, <1>3, <1>6, TakingShares
  <2>3. AllMarked' /\ TakesFree'
    BY <2>1, <2>2 DEF AllMarked, TakesFree, Taking
  <2>4. GivesOwn' /\ ChecksAll'
    BY <2>1 DEF GivesOwn, ChecksAll, Passed
  <2> QED
    BY <1>4, <1>5, <2>3, <2>4 DEF SInv
<1>7. CASE Release(op.ino, table, r)
  <2>1. dirty' \/ \A i \in Ino \ {op.ino} : Owned(itable'[i]) \subseteq bitmap'
    BY <1>1, <1>3, <1>7, TakingShares DEF Release
  <2> QED
    BY <1>1, <1>4, <1>5, <1>7, <2>1, ReleaseShares
<1> QED
  BY <1>6, <1>7 DEF StoreIno

(* A step that leaves the inodes and the bitmap alone and then ends the call or
   goes on to give an inode back. *)
LEMMA HandOverShares ==
  ASSUME TInv, SInv, op.pc \in {"idle", "switch", "mvdel"}, NEW r \in Outcome, itable' = itable, bitmap' = bitmap,
         Return(r) \/ \E i \in Ino : Release(i, itable, r)
  PROVE  SInv'
<1>1. op.after = "idle" /\ ~Checking
  BY DEF SInv, GivesOwn, TInv, TypeOK, Calls, Checking
<1>2. FreeIsEmpty' /\ OneOwner'
  BY DEF SInv, FreeIsEmpty, OneOwner
<1>3. ~dirty => \A i \in Ino : Owned(itable[i]) \subseteq bitmap
  BY <1>1 DEF SInv, AllMarked
<1>4. CASE Return(r)
  <2>1. op' = NoOp /\ (~dirty' => ~dirty)
    BY <1>4 DEF Return
  <2> QED
    BY <1>2, <1>3, <2>1, EndShares
<1>5. ASSUME NEW i \in Ino, Release(i, itable, r) PROVE SInv'
  <2>1. ~dirty' => ~dirty
    BY <1>5 DEF Release
  <2> QED
    BY <1>2, <1>3, <1>5, <2>1, ReleaseShares
<1> QED
  BY <1>4, <1>5

LEMMA NamesShare ==
  ASSUME TInv, SInv, NEW r \in Outcome,
         Switch(r) \/ RenameFrom(r) \/ \E n \in Name : Unlink(n, r)
  PROVE  SInv'
<1>1. itable' = itable /\ bitmap' = bitmap /\ op.pc \in {"idle", "switch", "mvdel"}
  BY DEF Switch, RenameFrom, Unlink, MayStart
<1>2. Return(r) \/ \E i \in Ino : Release(i, itable, r)
  <2>1. CASE Switch(r)
    <3>1. op.ino \in Ino /\ op.name \in Name
      BY <2>1 DEF Switch, TInv, LocalsInv
    <3>2. dir[op.name] \in Ino \cup {NoIno}
      BY <3>1 DEF TInv, TypeOK
    <3> QED
      BY <2>1, <3>1, <3>2 DEF Switch
  <2>2. CASE RenameFrom(r)
    <3>1. op.old \in Ino \cup {NoIno}
      BY DEF TInv, TypeOK, Calls
    <3> QED
      BY <2>2, <3>1 DEF RenameFrom
  <2>3. ASSUME NEW n \in Name, Unlink(n, r)
        PROVE  Return(r) \/ \E i \in Ino : Release(i, itable, r)
    <3>1. dir[n] \in Ino
      BY <2>3 DEF Unlink, TInv, TypeOK
    <3> QED
      BY <2>3, <3>1 DEF Unlink
  <2> QED
    BY <2>1, <2>2, <2>3
<1> QED
  BY <1>1, <1>2, HandOverShares

LEMMA RenameToShares ==
  ASSUME TInv, SInv, NEW r \in Outcome, NEW f \in Name, NEW t \in Name, RenameTo(f, t, r)
  PROVE  SInv'
<1>1. itable' = itable /\ bitmap' = bitmap /\ op.pc = "idle"
  BY DEF RenameTo, MayStart
<1>2. CASE op' = NoOp
  <2>1. Return(r)
    BY <1>2 DEF RenameTo, Return
  <2> QED
    BY <1>1, <2>1, HandOverShares
<1>3. CASE op' = [NoOp EXCEPT !.pc = "mvdel", !.name = f, !.old = dir[t]]
  <2>1. op'.pc = "mvdel" /\ op'.after = "idle" /\ (~dirty' => ~dirty)
    BY <1>3 DEF NoOp, RenameTo
  <2>2. op.after = "idle" /\ ~Checking
    BY <1>1 DEF SInv, GivesOwn, TInv, TypeOK, Calls, Checking
  <2>3. FreeIsEmpty' /\ OneOwner'
    BY <1>1 DEF SInv, FreeIsEmpty, OneOwner
  <2>4. AllMarked'
    BY <1>1, <2>1, <2>2 DEF SInv, AllMarked
  <2>5. TakesFree' /\ GivesOwn' /\ ChecksAll'
    BY <2>1 DEF TakesFree, Taking, GivesOwn, ChecksAll, Passed
  <2> QED
    BY <2>3, <2>4, <2>5 DEF SInv
<1> QED
  BY <1>2, <1>3 DEF RenameTo

LEMMA FreeBitShares ==
  ASSUME TInv, SInv, NEW r \in Outcome, NEW b \in Blk, FreeBit(b, r)
  PROVE  SInv'
<1>1. /\ op.pc = "free" /\ b \in op.left /\ itable' = itable
      /\ bitmap \ {b} \subseteq bitmap' /\ (~dirty' => ~dirty)
  BY DEF FreeBit, Written
<1>2. op' = [op EXCEPT !.left = @ \ {b}] /\ op \in Calls
  BY DEF FreeBit, TInv, TypeOK
<1>3. /\ op'.pc = "free" /\ op'.ino = op.ino /\ op'.after = op.after /\ op'.reach = op.reach
      /\ op'.itodo = op.itodo /\ op'.left \subseteq op.left
  BY <1>1, <1>2 DEF Calls
<1>4. /\ op.ino \in Ino /\ op.left \subseteq Owned(itable[op.ino])
      /\ op.after = "orphans" => op.ino \notin op.reach
  BY <1>1 DEF SInv, GivesOwn
<1>5. \A i \in Ino : i # op.ino => b \notin Owned(itable[i])
  BY <1>1, <1>4 DEF SInv, OneOwner
<1>6. FreeIsEmpty' /\ OneOwner' /\ GivesOwn'
  BY <1>1, <1>3 DEF SInv, FreeIsEmpty, OneOwner, GivesOwn
<1>7. AllMarked'
  BY <1>1, <1>3, <1>5 DEF SInv, AllMarked, Checking
<1>8. ChecksAll'
  <2>1. op.reach \subseteq Ino
    BY <1>2 DEF Calls
  <2>2. op.after = "orphans" /\ ReachedMarked({}) => ReachedMarked({})'
    BY <1>1, <1>3, <1>4, <1>5, <2>1 DEF ReachedMarked
  <2> QED
    BY <1>1, <1>3, <2>2 DEF SInv, ChecksAll, Passed
<1> QED
  BY <1>1, <1>3, <1>6, <1>7, <1>8 DEF SInv, TakesFree, Taking

LEMMA FreeInoShares ==
  ASSUME TInv, SInv, NEW r \in Outcome, FreeIno(r)
  PROVE  SInv'
<1>1. /\ op.pc = "free" /\ op.ino \in Ino /\ bitmap' = bitmap /\ (~dirty' => ~dirty /\ r # "lost")
      /\ op \in Calls /\ (op.after = "orphans" => op.ino \notin op.reach)
  BY DEF FreeIno, SInv, GivesOwn, TInv, TypeOK
<1>2. /\ itable'[op.ino] \in {itable[op.ino], FreeInode}
      /\ r # "lost" => itable'[op.ino] = FreeInode
      /\ \A i \in Ino : i # op.ino => itable'[i] = itable[i]
  <2>1. itable \in [Ino -> Inodes]
    BY DEF TInv, TypeOK
  <2>2. itable' \in {itable, [itable EXCEPT ![op.ino] = FreeInode]}
    BY DEF FreeIno, Written
  <2>3. r # "lost" => itable' = [itable EXCEPT ![op.ino] = FreeInode]
    BY DEF FreeIno, Written
  <2> QED
    BY <1>1, <2>1, <2>2, <2>3
<1>3. \A i \in Ino : itable'[i] = itable[i] \/ itable'[i] = FreeInode
  BY <1>2
<1>4. FreeIsEmpty' /\ OneOwner'
  <2>1. \A i \in Ino : Owned(itable'[i]) \subseteq Owned(itable[i])
    BY <1>3, EmptyInodes
  <2> QED
    BY <1>3, <2>1 DEF SInv, FreeIsEmpty, OneOwner
<1>5. CASE op.after = "idle"
  <2>1. op' = NoOp
    BY <1>5 DEF FreeIno
  <2>2. ~dirty' => \A i \in Ino : Owned(itable'[i]) \subseteq bitmap'
    <3>1. ~Checking
      BY <1>1, <1>5 DEF Checking
    <3>2. ~dirty => \A i \in Ino : i # op.ino => Owned(itable[i]) \subseteq bitmap
      BY <3>1 DEF SInv, AllMarked
    <3> QED
      BY <1>1, <1>2, <3>2, EmptyInodes
  <2> QED
    BY <1>4, <2>1, <2>2, EndShares
<1>6. CASE op.after = "orphans"
  <2>1. op' = [op EXCEPT !.pc = op.after, !.after = "idle"]
    BY <1>6 DEF FreeIno
  <2>2. op'.pc = "orphans" /\ op'.after = "idle" /\ op'.reach = op.reach /\ op'.itodo = op.itodo
    BY <1>1, <1>6, <2>1 DEF Calls
  <2>3. AllMarked' /\ TakesFree' /\ GivesOwn'
    BY <2>2 DEF AllMarked, Checking, TakesFree, Taking, GivesOwn
  <2>4. op.reach \subseteq Ino
    BY <1>1 DEF Calls
  <2>5. ReachedMarked({}) => ReachedMarked({})'
    BY <1>1, <1>2, <1>6, <2>2, <2>4 DEF ReachedMarked
  <2>6. ~dirty' => \A i \in Ino \ op.itodo : itable'[i].type = "file" => i \in op.reach
    BY <1>1, <1>2, <1>6, EmptyInodes DEF SInv, ChecksAll, Passed
  <2>7. ChecksAll'
    BY <1>1, <1>6, <2>2, <2>5, <2>6 DEF SInv, ChecksAll, Passed
  <2> QED
    BY <1>4, <2>3, <2>7 DEF SInv
<1> QED
  BY <1>1, <1>5, <1>6 DEF Calls

(* A step of the check that leaves the inodes alone. *)
LEMMA CheckShares ==
  ASSUME TInv, SInv, itable' = itable, op'.pc \in {"walk", "mark", "orphans", "leaks"},
         op'.after = "idle", ChecksAll'
  PROVE  SInv'
BY DEF SInv, FreeIsEmpty, OneOwner, AllMarked, Checking, TakesFree, Taking, GivesOwn

LEMMA WalkShares ==
  ASSUME TInv, TInv', SInv, NEW r \in Outcome,
         \/ CheckStart \/ MarkDone \/ WalkUnreadable
         \/ \E n \in Name : WalkRemove(n, r) \/ WalkReach(n)
         \/ \E b \in Blk : Mark(b, r)
  PROVE  SInv'
<1>0. op \in Calls /\ itable' = itable /\ (op.pc # "free" => op.after = "idle")
  BY DEF SInv, GivesOwn, TInv, TypeOK, Calls, CheckStart, MarkDone, WalkUnreadable, WalkRemove, WalkReach, Mark
<1>1. CASE CheckStart
  <2>1. op'.pc = "walk" /\ op'.after = "idle" /\ op'.reach = {}
    BY <1>1 DEF CheckStart, NoOp
  <2> QED
    BY <1>0, <2>1, CheckShares DEF ChecksAll, Passed, ReachedMarked
<1>2. CASE MarkDone
  <2>1. op'.pc = "walk" /\ op'.after = "idle" /\ op'.reach = op.reach
    BY <1>0, <1>2 DEF MarkDone, Calls
  <2>2. ~dirty' => ReachedMarked({})'
    BY <1>0, <1>2, <2>1 DEF MarkDone, SInv, ChecksAll, ReachedMarked
  <2> QED
    BY <1>0, <2>1, <2>2, CheckShares DEF ChecksAll, Passed
<1>3. ASSUME WalkUnreadable \/ \E n \in Name : WalkRemove(n, r)
      PROVE  SInv'
  <2>1. /\ op.pc = "walk" /\ bitmap' = bitmap /\ (~dirty' => ~dirty)
        /\ \E S : op' = [op EXCEPT !.todo = S]
    BY <1>3 DEF WalkUnreadable, WalkRemove
  <2>2. op'.pc = "walk" /\ op'.after = "idle" /\ op'.reach = op.reach
    BY <1>0, <2>1 DEF Calls
  <2>3. ~dirty' => ReachedMarked({})'
    BY <1>0, <2>1, <2>2 DEF SInv, ChecksAll, ReachedMarked
  <2> QED
    BY <1>0, <2>2, <2>3, CheckShares DEF ChecksAll, Passed
<1>4. ASSUME NEW n \in Name, WalkReach(n) PROVE SInv'
  <2>1. /\ op.pc = "walk" /\ bitmap' = bitmap /\ dirty' = dirty
        /\ op' = [op EXCEPT !.pc = "mark", !.todo = @ \ {n}, !.reach = @ \cup {dir[n]},
                            !.left = Owned(itable[dir[n]]) \ bitmap]
    BY <1>4 DEF WalkReach
  <2>2. /\ op'.pc = "mark" /\ op'.after = "idle" /\ op'.reach = op.reach \cup {dir[n]}
        /\ op'.left = Owned(itable[dir[n]]) \ bitmap
    BY <1>0, <2>1 DEF Calls
  <2>3. ~dirty => \A i \in op.reach : Owned(itable[i]) \subseteq bitmap
    BY <2>1 DEF SInv, ChecksAll, ReachedMarked
  <2>4. ~dirty' => \A i \in op'.reach : Owned(itable'[i]) \subseteq bitmap' \cup op'.left
    BY <1>0, <2>1, <2>2, <2>3
  <2> QED
    BY <1>0, <2>2, <2>4, CheckShares DEF ChecksAll, Passed, ReachedMarked
<1>5. ASSUME NEW b \in Blk, Mark(b, r) PROVE SInv'
  <2>1. /\ op.pc = "mark" /\ (~dirty' => ~dirty /\ bitmap' = bitmap \cup {b})
        /\ op' = [op EXCEPT !.left = @ \ {b}]
    BY <1>5 DEF Mark, Written
  <2>2. op'.pc = "mark" /\ op'.after = "idle" /\ op'.reach = op.reach /\ op'.left = op.left \ {b}
    BY <1>0, <2>1 DEF Calls
  <2>3. ~dirty => \A i \in op.reach : Owned(itable[i]) \subseteq bitmap \cup op.left
    BY <2>1 DEF SInv, ChecksAll, ReachedMarked
  <2>4. ~dirty' => \A i \in op'.reach : Owned(itable'[i]) \subseteq bitmap' \cup op'.left
    BY <1>0, <2>1, <2>2, <2>3
  <2> QED
    BY <1>0, <2>2, <2>4, CheckShares DEF ChecksAll, Passed, ReachedMarked
<1> QED
  BY <1>1, <1>2, <1>3, <1>4, <1>5

LEMMA OrphanShares ==
  ASSUME TInv, SInv, NEW i \in Ino, Orphan(i)
  PROVE  SInv'
<1>1. /\ op.pc = "orphans" /\ op.after = "idle" /\ i \in op.itodo /\ op \in Calls
      /\ itable' = itable /\ bitmap' = bitmap /\ i \notin op.reach
  BY DEF Orphan, SInv, GivesOwn, ChecksAll, Passed, TInv, TypeOK, Calls
<1>2. ~dirty => /\ \A j \in op.reach : Owned(itable[j]) \subseteq bitmap
                /\ \A j \in Ino \ op.itodo : itable[j].type = "file" => j \in op.reach
  BY <1>1 DEF SInv, ChecksAll, Passed, ReachedMarked
<1>3. op.itodo \cap op.reach = {}
  BY <1>1 DEF SInv, ChecksAll, Passed
<1>4. CASE op' = [Releasing(op, i, itable, "orphans") EXCEPT !.itodo = @ \ {i}] /\ dirty' = dirty
  <2>1. /\ op'.pc = "free" /\ op'.ino = i /\ op'.left = Owned(itable[i]) /\ op'.after = "orphans"
        /\ op'.reach = op.reach /\ op'.itodo = op.itodo \ {i}
    BY <1>1, <1>4 DEF Releasing, Calls
  <2>2. AllMarked' /\ TakesFree' /\ GivesOwn'
    BY <1>1, <2>1 DEF AllMarked, Checking, TakesFree, Taking, GivesOwn
  <2>3. ~dirty' => ReachedMarked({})'
    BY <1>1, <1>2, <1>4, <2>1 DEF ReachedMarked
  <2>4. ~dirty' => \A j \in Ino \ op'.itodo : itable'[j].type = "file" => j \in op'.reach \/ j = op'.ino
    BY <1>1, <1>2, <1>4, <2>1
  <2>5. ChecksAll'
    BY <1>3, <2>1, <2>3, <2>4 DEF ChecksAll, Passed
  <2> QED
    BY <1>1, <2>2, <2>5 DEF SInv, FreeIsEmpty, OneOwner
<1>5. CASE op' = [op EXCEPT !.itodo = @ \ {i}] /\ dirty' = TRUE
  <2>1. op'.pc = "orphans" /\ op'.after = "idle" /\ op'.reach = op.reach /\ op'.itodo = op.itodo \ {i}
    BY <1>1, <1>5 DEF Calls
  <2> QED
    BY <1>1, <1>3, <1>5, <2>1, CheckShares DEF ChecksAll
<1> QED
  BY <1>4, <1>5 DEF Orphan

LEMMA RepairShares ==
  ASSUME TInv, TInv', SInv, NEW r \in Outcome,
         WalkDone \/ OrphansDone \/ \E b \in Blk : Leak(b, r)
  PROVE  SInv'
<1>0. op \in Calls /\ itable' = itable /\ (op.pc # "free" => op.after = "idle")
  BY DEF SInv, GivesOwn, TInv, TypeOK, Calls, WalkDone, OrphansDone, Leak
<1>1. CASE WalkDone
  <2>1. /\ op.pc = "walk" /\ bitmap' = bitmap /\ dirty' = dirty
        /\ op' = [op EXCEPT !.pc = "orphans", !.itodo = Ino \ op.reach]
    BY <1>1 DEF WalkDone
  <2>2. /\ op'.pc = "orphans" /\ op'.after = "idle" /\ op'.reach = op.reach
        /\ op'.itodo = Ino \ op.reach
    BY <1>0, <2>1 DEF Calls
  <2>3. ~dirty' => ReachedMarked({})'
    BY <1>0, <2>1, <2>2 DEF SInv, ChecksAll, ReachedMarked
  <2> QED
    BY <1>0, <2>2, <2>3, CheckShares DEF ChecksAll
<1>2. CASE OrphansDone
  <2>1. /\ op.pc = "orphans" /\ bitmap' = bitmap /\ dirty' = dirty
        /\ op' = [op EXCEPT !.pc = "leaks", !.left = bitmap \ UNION {Owned(itable[i]) : i \in op.reach}]
        /\ \A i \in op.itodo : itable[i].type = "free"
    BY <1>2 DEF OrphansDone
  <2>2. /\ op'.pc = "leaks" /\ op'.after = "idle" /\ op'.reach = op.reach
        /\ op'.left = bitmap \ UNION {Owned(itable[i]) : i \in op.reach}
    BY <1>0, <2>1 DEF Calls
  <2>3. ~dirty => /\ ReachedMarked({})
                  /\ \A i \in Ino : itable[i].type = "file" => i \in op.reach
    BY <1>0, <2>1 DEF SInv, ChecksAll, Passed
  <2>4. ~dirty' => ReachedMarked({})'
    BY <1>0, <2>1, <2>2, <2>3 DEF ReachedMarked
  <2> QED
    BY <1>0, <2>1, <2>2, <2>3, <2>4, CheckShares DEF ChecksAll, Passed
<1>3. ASSUME NEW b \in Blk, Leak(b, r) PROVE SInv'
  <2>1. /\ op.pc = "leaks" /\ b \in op.left /\ op' = [op EXCEPT !.left = @ \ {b}]
        /\ (~dirty' => ~dirty) /\ bitmap \ {b} \subseteq bitmap'
    BY <1>3 DEF Leak, Written
  <2>2. op'.pc = "leaks" /\ op'.after = "idle" /\ op'.reach = op.reach /\ op'.left = op.left \ {b}
    BY <1>0, <2>1 DEF Calls
  <2>3. ~dirty => /\ \A i \in op.reach : Owned(itable[i]) \subseteq bitmap
                  /\ \A i \in op.reach : op.left \cap Owned(itable[i]) = {}
                  /\ \A i \in Ino : itable[i].type = "file" => i \in op.reach
    BY <2>1 DEF SInv, ChecksAll, ReachedMarked
  <2>4. ~dirty' => ReachedMarked({})'
    BY <1>0, <2>1, <2>2, <2>3 DEF ReachedMarked
  <2> QED
    BY <1>0, <2>1, <2>2, <2>3, <2>4, CheckShares DEF ChecksAll, Passed
<1> QED
  BY <1>1, <1>2, <1>3

LEMMA EndingsShare ==
  ASSUME TInv, SInv, CheckDone \/ CheckGivesUp \/ PowerCut
  PROVE  SInv'
<1>1. FreeIsEmpty' /\ OneOwner' /\ op' = NoOp /\ itable' = itable /\ bitmap' = bitmap
  BY DEF CheckDone, CheckGivesUp, PowerCut, SInv, FreeIsEmpty, OneOwner
<1>2. CASE CheckDone
  <2>1. ~dirty => \A i \in Ino : Owned(itable[i]) \subseteq bitmap
    <3>1. ~dirty => \A i \in Ino : itable[i].type = "file" => Owned(itable[i]) \subseteq bitmap
      BY <1>2 DEF CheckDone, SInv, ChecksAll, ReachedMarked
    <3>2. \A i \in Ino : itable[i].type \in {"free", "file"}
      BY DEF TInv, TypeOK, Inodes
    <3>3. \A i \in Ino : itable[i].type = "free" => Owned(itable[i]) = {}
      BY EmptyInodes DEF SInv, FreeIsEmpty
    <3> QED
      BY <3>1, <3>2, <3>3
  <2> QED
    BY <1>1, <1>2, <2>1, EndShares DEF CheckDone
<1>3. CASE CheckGivesUp \/ PowerCut
  BY <1>1, <1>3, EndShares DEF CheckGivesUp, PowerCut
<1> QED
  BY <1>2, <1>3

LEMMA SharesInit == Init => SInv
<1> SUFFICES ASSUME Init PROVE SInv
  OBVIOUS
<1>1. op.pc = "idle" /\ op.after = "idle" /\ \A i \in Ino : itable[i] = FreeInode
  BY NoOpIdle DEF Init
<1>2. \A i \in Ino : Owned(itable[i]) = {}
  BY <1>1, EmptyInodes
<1>3. FreeIsEmpty /\ OneOwner /\ AllMarked
  BY <1>1, <1>2 DEF FreeIsEmpty, OneOwner, AllMarked
<1> QED
  BY <1>1, <1>3 DEF SInv, TakesFree, Taking, GivesOwn, ChecksAll, Passed

LEMMA SharesStep ==
  ASSUME TInv, SInv, CheckFirst, [Next]_vars
  PROVE  SInv'
<1>0. TInv' /\ "ok" \in Outcome
  BY TypeStep DEF Outcome
<1>1. CASE UNCHANGED vars
  BY <1>1 DEF vars, SInv, FreeIsEmpty, OneOwner, AllMarked, Checking, TakesFree, Taking, GivesOwn,
     ChecksAll, Passed, ReachedMarked
<1>2. CASE Start
  BY <1>2, FilePutShares, NamesShare, RenameToShares DEF Start, FileCopy, Intact
<1>3. CASE CheckStart \/ PowerCut
  BY <1>0, <1>3, WalkShares, EndingsShare
<1>4. CASE Step
  <2>1. ASSUME NEW r \in Outcome, Alloc(r) \/ WriteData(r) \/ StoreIno(r)
        PROVE  SInv'
    BY <1>0, <2>1, AllocShares, WriteDataShares, StoreInoShares
  <2>2. ASSUME NEW r \in Outcome, Switch(r) \/ RenameFrom(r) \/ FreeIno(r) \/ \E b \in Blk : FreeBit(b, r)
        PROVE  SInv'
    BY <2>2, NamesShare, FreeInoShares, FreeBitShares
  <2>3. ASSUME NEW r \in Outcome,
               \/ MarkDone \/ WalkUnreadable
               \/ \E n \in Name : WalkRemove(n, r) \/ WalkReach(n)
               \/ \E b \in Blk : Mark(b, r)
        PROVE  SInv'
    BY <1>0, <2>3, WalkShares
  <2>4. ASSUME NEW r \in Outcome,
               \/ WalkDone \/ OrphansDone \/ CheckDone \/ CheckGivesUp
               \/ \E b \in Blk : Leak(b, r)
               \/ \E i \in Ino : Orphan(i)
        PROVE  SInv'
    BY <1>0, <2>4, RepairShares, EndingsShare, OrphanShares
  <2> QED
    BY <1>0, <1>4, <2>1, <2>2, <2>3, <2>4 DEF Step
<1> QED
  BY <1>1, <1>2, <1>3, <1>4 DEF Next

(* Two files never come to own the same sector, whichever writes are lost, or
   land and are reported failed, and whichever sectors cannot be read, as long as
   a volume that failed is checked before it is used again. *)
THEOREM FilesStayApart ==
  ASSUME CheckFirst
  PROVE  Spec => []NoCrossLink
<1>1. Init => TInv /\ SInv
  BY TypeInit, SharesInit
<1>2. TInv /\ SInv /\ [Next]_vars => (TInv /\ SInv)'
  BY TypeStep, SharesStep
<1>3. TInv /\ SInv => NoCrossLink
  BY LiveInodes DEF SInv, OneOwner, NoCrossLink
<1> QED
  BY <1>1, <1>2, <1>3, PTL DEF Spec
=============================================================================
