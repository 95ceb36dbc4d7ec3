--------------------------------- MODULE Vfs ---------------------------------
(* Directories, volumes and paths (src/kernel/vfs.h and the directory operations
   of mwfs.h): the one namespace in which "/" is the root volume and /mnt/<id> the
   other volumes that are mounted, with the operations that the shell
   (apps/shell_fs.h) and MiniFiles (apps/minifiles.h) call.

   A volume is a table of inodes; a directory maps names to inodes, 0 standing for
   no entry.  An operation is one step here: what happens between its sector
   writes is the subject of Mwfs.  What can fail on the way is a copy, which then
   leaves nothing, and the removal of the source after a copy between volumes. *)
EXTENDS Integers, Sequences, SequencesExt, FiniteSets, FiniteSetsExt, TLAPS, WellFoundedInduction, FiniteSetTheorems

CONSTANTS
  Root, Vol,   (* the root volume, the others *)
  Mnt, Tok,    (* the name "mnt"; the names that occur, ids of volumes among them *)
  Text, None,
  Inodes,      (* inodes of each volume *)
  Slots,       (* VFS_MAX_VOLS - 1 *)
  Deep,        (* components that fit into VFS_PATH_MAX *)
  Sensible     (* nobody moves a directory into itself *)

ConstantsOK ==
  /\ Root \notin Vol /\ Vol \cup {Mnt} \subseteq Tok /\ Mnt \notin Vol /\ None \notin Text
  /\ Inodes \in Nat /\ Inodes >= 2 /\ {Slots, Deep} \subseteq Nat /\ Sensible \in BOOLEAN

VARIABLES
  fs,       (* the inodes of every volume *)
  mounts,   (* vfs_vols[1 ..]: the mounted ones *)
  cwd,      (* vfs_cwd *)
  told      (* "mv" when the last call was a move; no code reads it *)

vars == <<fs, mounts, cwd, told>>

Volume == Vol \cup {Root}
Ino == 1 .. Inodes
RootIno == 1
MntIno == 2
Unused == [type |-> "free", ents |-> [t \in Tok |-> 0], text |-> None]
Dir == [Unused EXCEPT !.type = "dir"]
File(x) == [type |-> "file", ents |-> Unused.ents, text |-> x]

Made == [i \in Ino |-> IF i = RootIno THEN Dir ELSE Unused]
(* vfs_make_root_layout() makes the standard directories, of which /mnt is kept. *)
RootMade == [Made EXCEPT ![MntIno] = Dir, ![RootIno].ents[Mnt] = MntIno]

Init ==
  /\ fs = [v \in Volume |-> IF v = Root THEN RootMade ELSE Made]
  /\ mounts = {} /\ cwd = <<>> /\ told = "no"

-----------------------------------------------------------------------------
(* Paths.  A canonical path is the sequence of its components. *)

Paths == UNION {[1 .. n -> Tok] : n \in 0 .. Deep}

(* vfs_norm(): a path too long stays so. *)
Taken(p, t) ==
  IF Len(p) > Deep THEN p
  ELSE IF t # ".." THEN Append(p, t)
  ELSE IF p = <<>> THEN p ELSE Front(p)
Norm(from, toks) ==
  LET P[i \in 0 .. Len(toks)] == IF i = 0 THEN from ELSE Taken(P[i - 1], toks[i]) IN P[Len(toks)]

(* vfs_resolve(): the node a canonical path names, or the place where it would be. *)
AtRoot == [err |-> "ok", vol |-> Root, ino |-> RootIno, type |-> "dir", pvol |-> Root, pino |-> 0, leaf |-> None,
           exists |-> TRUE, isMnt |-> FALSE, isMount |-> FALSE, depth |-> 0]

Child(n, t) ==
  LET i == fs[n.vol][n.ino].ents[t]
      inMnt == n.isMnt /\ t \in mounts
      isMnt == n.vol = Root /\ n.depth = 0 /\ t = Mnt /\ i # 0
      found(vol, ino, type) ==
        [err |-> "ok", vol |-> vol, ino |-> ino, type |-> type, pvol |-> n.vol, pino |-> n.ino, leaf |-> t,
         exists |-> ino # 0, isMnt |-> isMnt, isMount |-> inMnt, depth |-> n.depth + 1]
  IN IF inMnt THEN found(t, RootIno, "dir") ELSE found(n.vol, i, IF i = 0 THEN "none" ELSE fs[n.vol][i].type)

Step(n, t) ==
  IF n.err # "ok" THEN n
  ELSE IF ~ n.exists THEN [n EXCEPT !.err = "noent"]
  ELSE IF n.type # "dir" THEN [n EXCEPT !.err = "notdir"] ELSE Child(n, t)
Resolve(path) ==
  LET N[i \in 0 .. Len(path)] == IF i = 0 THEN AtRoot ELSE Step(N[i - 1], path[i]) IN N[Len(path)]

(* vfs_lookup(): a path that does not fit names nothing. *)
Lookup(path) == IF Len(path) > Deep THEN [AtRoot EXCEPT !.err = "name"] ELSE Resolve(path)

Stat(path) == LET n == Resolve(path) IN IF n.err = "ok" /\ ~ n.exists THEN [n EXCEPT !.err = "noent"] ELSE n

InPhysicalMnt(n) == n.pvol = Root /\ n.pino = MntIno
Permanent(n) == n.isMnt \/ n.isMount \/ n.ino = RootIno

-----------------------------------------------------------------------------
(* Directories of one volume: what mwfs_... makes of the table f, or why not. *)

Failed(f, err) == [f |-> f, err |-> err]
Done(f) == [f |-> f, err |-> "ok"]
Free(f, v) == {i \in Ino : f[v][i].type = "free"}
Entry(f, v, d, t, i) == [f EXCEPT ![v][d].ents[t] = i]
Released(f, v, i) == [f EXCEPT ![v][i] = Unused]

MakeDir(f, v, d, t) ==
  LET i == Min(Free(f, v))
  IN IF f[v][d].ents[t] # 0 THEN Failed(f, "exist")
     ELSE IF Free(f, v) = {} THEN Failed(f, "full")
     ELSE Done([Entry(f, v, d, t, i) EXCEPT ![v][i] = Dir])

(* The new inode is filled before the name points at it; then the old one goes. *)
FilePut(f, v, d, t, x) ==
  LET old == f[v][d].ents[t]
      i == Min(Free(f, v))
      new == [Entry(f, v, d, t, i) EXCEPT ![v][i] = File(x)]
  IN IF old # 0 /\ f[v][old].type = "dir" THEN Failed(f, "isdir")
     ELSE IF Free(f, v) = {} THEN Failed(f, "full")
     ELSE Done(IF old = 0 THEN new ELSE Released(new, v, old))

(* A directory goes with what is in it. *)
UnlinkFull(f, v, d, t) ==
  LET i == f[v][d].ents[t]
  IN IF i = 0 THEN Failed(f, "noent") ELSE Done(Released(Entry(f, v, d, t, 0), v, i))

Unlink(f, v, d, t) ==
  LET i == f[v][d].ents[t]
  IN IF i = 0 THEN Failed(f, "noent")
     ELSE IF f[v][i].type = "dir" /\ f[v][i].ents # Unused.ents THEN Failed(f, "notempty")
     ELSE Done(Released(Entry(f, v, d, t, 0), v, i))

(* The destination is switched over and the source's name removed; two names of
   one inode are left alone, and only a file replaces only a file. *)
Renamed(f, v, fd, ft, td, tt, release) ==
  LET i == f[v][fd].ents[ft]
      dst == f[v][td].ents[tt]
      moved == Entry(Entry(f, v, td, tt, i), v, fd, ft, 0)
  IN IF i = 0 THEN Failed(f, "noent")
     ELSE IF dst = 0 THEN Done(moved)
     ELSE IF dst = i THEN Done(f)
     ELSE IF "dir" \in {f[v][i].type, f[v][dst].type} THEN Failed(f, "exist")
     ELSE Done(IF release THEN Released(moved, v, dst) ELSE moved)
(* The inode that was replaced stays allocated. *)
RenameKeeping(f, v, fd, ft, td, tt) == Renamed(f, v, fd, ft, td, tt, FALSE)

Rename(f, v, fd, ft, td, tt) == Renamed(f, v, fd, ft, td, tt, TRUE)

-----------------------------------------------------------------------------
(* The operations. *)

Change(r) == fs' = r.f /\ told' = "no" /\ UNCHANGED <<mounts, cwd>>

Mkdir(path) ==
  LET n == Resolve(path)
  IN /\ n.err = "ok" /\ ~ n.exists /\ ~ InPhysicalMnt(n)
     /\ Change(MakeDir(fs, n.pvol, n.pino, n.leaf))

Write(path, x) ==
  LET n == Resolve(path)
  IN /\ n.err = "ok" /\ n.type # "dir" /\ ~ InPhysicalMnt(n)
     /\ Change(FilePut(fs, n.pvol, n.pino, n.leaf, x))

Rm(path) ==
  LET n == Stat(path)
  IN n.err = "ok" /\ ~ Permanent(n) /\ Change(Unlink(fs, n.pvol, n.pino, n.leaf))

(* "cp a /dir" and "mv a /dir" mean /dir/a. *)
Target(to, leaf) ==
  LET n == Lookup(to) IN IF n.err = "ok" /\ n.exists /\ n.type = "dir" THEN Lookup(Append(to, leaf)) ELSE n

(* A copy asks again where a directory of that name is in the directory. *)
CopyTarget(to, leaf) ==
  LET down(k) == to \o [i \in 1 .. k |-> leaf]
      isDir(k) == LET n == Lookup(down(k)) IN n.err = "ok" /\ n.exists /\ n.type = "dir"
  IN Lookup(down(Min({k \in 0 .. Deep + 1 : ~ isDir(k)})))

(* The physical /mnt is taken for a directory like others. *)
MayHoldAny(b) == b.err = "ok"

MayHold(b) == b.err = "ok" /\ ~ InPhysicalMnt(b)

Cp(from, to) ==
  LET a == Stat(from)
      b == CopyTarget(to, a.leaf)
  IN /\ a.err = "ok" /\ a.type = "file" /\ MayHold(b)
     /\ ~ (b.exists /\ b.vol = a.vol /\ b.ino = a.ino)
     /\ Change(FilePut(fs, b.pvol, b.pino, b.leaf, fs[a.vol][a.ino].text))

(* The source goes whatever became of the copy. *)
CarriedAnyway(a, b, fault) ==
  LET copy == IF fault = "copy" THEN Failed(fs, "io")
              ELSE FilePut(fs, b.pvol, b.pino, b.leaf, fs[a.vol][a.ino].text)
  IN IF fault = "remove" THEN copy ELSE Unlink(copy.f, a.pvol, a.pino, a.leaf)

(* Between volumes a file is copied and then removed, unless the copy failed. *)
Carried(a, b, fault) ==
  LET copy == IF fault = "copy" THEN Failed(fs, "io")
              ELSE FilePut(fs, b.pvol, b.pino, b.leaf, fs[a.vol][a.ino].text)
  IN IF copy.err # "ok" \/ fault = "remove" THEN copy ELSE Unlink(copy.f, a.pvol, a.pino, a.leaf)
Mv(from, to, fault) ==
  LET a == Stat(from)
      b == Target(to, a.leaf)
  IN /\ a.err = "ok" /\ ~ Permanent(a) /\ MayHold(b)
     /\ Sensible /\ a.type = "dir" => ~ IsPrefix(from, to)
     /\ IF b.pvol = a.pvol
        THEN fault = "none" /\ fs' = Rename(fs, a.pvol, a.pino, a.leaf, b.pino, b.leaf).f
        ELSE a.type = "file" /\ fs' = Carried(a, b, fault).f
     /\ told' = "mv" /\ UNCHANGED <<mounts, cwd>>

Chdir(abs, toks) ==
  LET path == Norm(IF abs THEN <<>> ELSE cwd, toks)
  IN /\ Len(path) <= Deep
     /\ LET n == Resolve(path) IN n.err = "ok" /\ n.exists /\ n.type = "dir"
     /\ cwd' = path /\ told' = "no" /\ UNCHANGED <<fs, mounts>>

Mount(v) ==
  /\ v \notin mounts /\ Cardinality(mounts) < Slots
  /\ mounts' = mounts \cup {v} /\ told' = "no" /\ UNCHANGED <<fs, cwd>>

(* Only a terminal at the mount point itself is sent away. *)
UnmountExactly(v) ==
  /\ v \in mounts
  /\ mounts' = mounts \ {v}
  /\ cwd' = IF cwd = <<Mnt, v>> THEN <<>> ELSE cwd
  /\ told' = "no" /\ UNCHANGED fs

(* The terminal does not stay in a volume that vanishes. *)
Unmount(v) ==
  /\ v \in mounts
  /\ mounts' = mounts \ {v}
  /\ cwd' = IF IsPrefix(<<Mnt, v>>, cwd) THEN <<>> ELSE cwd
  /\ told' = "no" /\ UNCHANGED fs

(* vfs_mount_root() at the next start: the table is empty again. *)
Reboot == mounts' = {} /\ cwd' = <<>> /\ told' = "no" /\ UNCHANGED fs

(* Other paths are refused by every operation. *)
Places == {p \in Paths : Resolve(p).err = "ok"}

Next ==
  \/ LET places == Places IN
     \/ \E p \in places : Mkdir(p) \/ Rm(p) \/ \E x \in Text : Write(p, x)
     \/ \E p, q \in places : Cp(p, q) \/ \E fault \in {"none", "copy", "remove"} : Mv(p, q, fault)
  \/ \E abs \in BOOLEAN, toks \in UNION {[1 .. n -> Tok \cup {".."}] : n \in 0 .. 2} : Chdir(abs, toks)
  \/ \E v \in Vol : Mount(v) \/ Unmount(v)
  \/ Reboot

Spec == Init /\ [][Next]_vars

-----------------------------------------------------------------------------
(* Types: inodes, the mount table and the current directory. *)
TypeOK ==
  /\ \A v \in Volume, i \in Ino :
       /\ fs[v][i].type \in {"free", "file", "dir"} /\ fs[v][i].ents \in [Tok -> 0 .. Inodes]
       /\ fs[v][i].text \in Text <=> fs[v][i].type = "file"
  /\ mounts \subseteq Vol /\ Cardinality(mounts) <= Slots /\ Len(cwd) <= Deep

(* What is reached from the root directory: every set that holds the root, and what its
   members name, holds it. *)
Reach(v) ==
  {i \in Ino :
     \A S \in SUBSET Ino :
       RootIno \in S /\ (\A d \in S, t \in Tok : fs[v][d].ents[t] \in S \cup {0}) => i \in S}

(* What is allocated has one name, and what is not has none. *)
Names(v, i) == {e \in Ino \X Tok : fs[v][e[1]].ents[e[2]] = i}
OneName ==
  \A v \in Volume, i \in Ino \ {RootIno} :
    Cardinality(Names(v, i)) = IF fs[v][i].type = "free" THEN 0 ELSE 1

(* Every volume is a tree: what is allocated is reached by its name, and no name
   leads to an inode that was given back.  A directory moved into itself is
   reachable under no name (mwfs.h:605 says it never is). *)
Tree == OneName /\ \A v \in Volume : Reach(v) = {i \in Ino : fs[v][i].type # "free"}

(* /mnt on the root volume stays, and stays empty: what is in it would be hidden
   by a mount and lost to the user (vfs.h:12). *)
MntStaysEmpty == fs[Root][RootIno].ents[Mnt] = MntIno /\ fs[Root][MntIno] = Dir

(* The terminal never stands in a volume that is gone (vfs.h:268). *)
CwdMounted == Len(cwd) >= 2 /\ cwd[1] = Mnt => cwd[2] \in mounts

(* A move, whichever of its steps fails, loses no file: where a file's name is
   gone, another name has been made to lead to its text (vfs.h:224). *)
Name == Volume \X Ino \X Tok
Leads(f, n) == f[n[1]][n[2]].ents[n[3]]
TextAt(f, n) == IF Leads(f, n) = 0 THEN None ELSE f[n[1]][Leads(f, n)].text
MoveKeeps ==
  [][told' = "mv" =>
       \A n \in Name : TextAt(fs, n) # None /\ TextAt(fs', n) = None =>
         \E m \in Name : TextAt(fs', m) = TextAt(fs, n) /\ Leads(fs', m) \notin {0, Leads(fs, m)}]_vars
-----------------------------------------------------------------------------
(* Induction, in the form the provers can use: over a set of numbers. *)
LEMMA Least ==
  ASSUME NEW S \in SUBSET Nat, S # {}
  PROVE  \E k \in S : \A y \in S : k <= y
<1>1. \E k \in S : \A y \in S : ~ (<<y, k>> \in OpToRel(<, Nat))
  BY NatLessThanWellFounded, WFMin, Zenon
<1>2. \A y, m \in Nat : y < m => <<y, m>> \in OpToRel(<, Nat)
  BY DEF OpToRel
<1>3. PICK k \in S : \A y \in S : ~ (<<y, k>> \in OpToRel(<, Nat))
  BY <1>1
<1>4. ASSUME NEW y \in S PROVE k <= y
  <2>1. k \in Nat /\ y \in Nat /\ ~ (y < k)
    BY <1>2, <1>3
  <2> QED
    BY <2>1
<1> QED
  BY <1>4

LEMMA NatSet ==
  ASSUME NEW S \in SUBSET Nat, 0 \in S, \A n \in S : n + 1 \in S
  PROVE  S = Nat
<1> SUFFICES ASSUME S # Nat PROVE FALSE
  OBVIOUS
<1> DEFINE T == Nat \ S
<1>1. T \subseteq Nat /\ T # {}
  OBVIOUS
<1>2. \E k \in T : \A y \in T : ~ (<<y, k>> \in OpToRel(<, Nat))
  BY <1>1, NatLessThanWellFounded, WFMin, Zenon
<1>3. PICK k \in T : \A y \in T : ~ (y < k)
  <2>1. \A y, m \in Nat : y < m => <<y, m>> \in OpToRel(<, Nat)
    BY DEF OpToRel
  <2> QED
    BY <1>1, <1>2, <2>1
<1>4. k # 0 /\ k - 1 \in Nat
  BY <1>1
<1>5. k - 1 \in S
  BY <1>3, <1>4
<1>6. (k - 1) + 1 = k
  BY <1>4
<1> QED
  BY <1>5, <1>6

LEMMA SubSeqsAgree ==
  ASSUME NEW S, NEW s \in Seq(S), NEW t \in Seq(S), NEW n \in Nat, n <= Len(s), n <= Len(t),
         \A i \in 1 .. n : s[i] = t[i]
  PROVE  SubSeq(s, 1, n) = SubSeq(t, 1, n)
<1> DEFINE x == SubSeq(s, 1, n)
           y == SubSeq(t, 1, n)
<1>1. x = [i \in 1 .. n |-> s[i]]
  OBVIOUS
<1>2. y = [i \in 1 .. n |-> t[i]]
  OBVIOUS
<1> QED
  BY <1>1, <1>2
-----------------------------------------------------------------------------
(* The tables of inodes, and what every operation leaves true of them: names lead
   from directories to what is allocated, one to each, none to a root, and /mnt
   stands empty on the root volume. *)
Inode ==
  {r \in [type : {"free", "file", "dir"}, ents : [Tok -> 0 .. Inodes], text : Text \cup {None}] :
     r.text \in Text <=> r.type = "file"}
Tables == [Volume -> [Ino -> Inode]]
Kind(f, v, i) == f[v][i].type
To(f, v, d, t) == f[v][d].ents[t]
Words(f, v, i) == f[v][i].text
Sound(f) ==
  /\ f \in Tables
  /\ \A v \in Volume : Kind(f, v, RootIno) = "dir"
  /\ \A v \in Volume, d \in Ino, t \in Tok : To(f, v, d, t) # 0 =>
       To(f, v, d, t) # RootIno /\ Kind(f, v, To(f, v, d, t)) # "free" /\ Kind(f, v, d) = "dir"
  /\ \A v \in Volume, d, e \in Ino, t, u \in Tok :
       To(f, v, d, t) # 0 /\ To(f, v, d, t) = To(f, v, e, u) => d = e /\ t = u
  /\ \A v \in Volume, i \in Ino :
       i # RootIno /\ Kind(f, v, i) # "free" => \E d \in Ino, t \in Tok : To(f, v, d, t) = i
  /\ To(f, Root, RootIno, Mnt) = MntIno /\ Kind(f, Root, MntIno) = "dir"
  /\ \A t \in Tok : To(f, Root, MntIno, t) = 0

LEMMA ConstantsAre ==
  ASSUME ConstantsOK
  PROVE  /\ Inodes \in Nat /\ Inodes >= 2 /\ Deep \in Nat /\ Slots \in Nat
         /\ RootIno \in Ino /\ MntIno \in Ino /\ RootIno # MntIno /\ 0 \notin Ino /\ Ino \subseteq 0 .. Inodes
         /\ 0 .. Inodes = Ino \cup {0}
         /\ Root \in Volume /\ Mnt \in Tok /\ Root \notin Vol /\ Vol \subseteq Volume /\ Vol \subseteq Tok /\ None \notin Text
<1>1. Inodes \in Nat /\ Inodes >= 2 /\ Deep \in Nat /\ Slots \in Nat
  BY DEF ConstantsOK
<1> QED
  BY <1>1 DEF ConstantsOK, RootIno, MntIno, Ino, Volume

LEMMA InodesAre ==
  ASSUME ConstantsOK
  PROVE  /\ Unused \in Inode /\ Unused.type = "free" /\ Unused.text = None /\ \A t \in Tok : Unused.ents[t] = 0
         /\ Dir \in Inode /\ Dir.type = "dir" /\ Dir.text = None /\ \A t \in Tok : Dir.ents[t] = 0
         /\ \A x \in Text : /\ File(x) \in Inode /\ File(x).type = "file" /\ File(x).text = x
                            /\ \A t \in Tok : File(x).ents[t] = 0
<1> DEFINE none == [t \in Tok |-> 0]
<1>1. none \in [Tok -> 0 .. Inodes] /\ \A t \in Tok : none[t] = 0
  BY ConstantsAre
<1> HIDE DEF none
<1>2. Unused = [type |-> "free", ents |-> none, text |-> None]
  BY DEF Unused, none
<1>3. Dir = [type |-> "dir", ents |-> none, text |-> None]
  BY <1>2 DEF Dir
<1>4. \A x : File(x) = [type |-> "file", ents |-> none, text |-> x]
  BY <1>2 DEF File
<1> QED
  BY <1>1, <1>2, <1>3, <1>4, ConstantsAre DEF Inode

LEMMA InodeIs ==
  ASSUME NEW f \in Tables, NEW v \in Volume, NEW i \in Ino
  PROVE  /\ f[v][i] \in Inode /\ f[v] \in [Ino -> Inode]
         /\ Kind(f, v, i) \in {"free", "file", "dir"} /\ Words(f, v, i) \in Text \cup {None}
         /\ Words(f, v, i) \in Text <=> Kind(f, v, i) = "file"
         /\ f[v][i].ents \in [Tok -> 0 .. Inodes]
         /\ \A t \in Tok : To(f, v, i, t) \in 0 .. Inodes
<1>1. f[v] \in [Ino -> Inode] /\ f[v][i] \in Inode
  BY DEF Tables
<1>2. PICK r \in Inode : r = f[v][i]
  BY <1>1
<1>3. /\ r.type \in {"free", "file", "dir"} /\ r.ents \in [Tok -> 0 .. Inodes] /\ r.text \in Text \cup {None}
      /\ r.text \in Text <=> r.type = "file"
  BY DEF Inode
<1> QED
  BY <1>1, <1>2, <1>3 DEF Kind, Words, To

(* Writing an inode, and an entry of a directory. *)
Put(f, v, i, r) == [f EXCEPT ![v][i] = r]
LEMMA PutIs ==
  ASSUME NEW f \in Tables, NEW v \in Volume, NEW i \in Ino, NEW r \in Inode, NEW g, g = Put(f, v, i, r)
  PROVE  /\ g \in Tables
         /\ \A w \in Volume, e \in Ino : g[w][e] = IF w = v /\ e = i THEN r ELSE f[w][e]
<1>1. f[v] \in [Ino -> Inode]
  BY DEF Tables
<1> DEFINE q == [f[v] EXCEPT ![i] = r]
<1>2. q \in [Ino -> Inode] /\ \A e \in Ino : q[e] = IF e = i THEN r ELSE f[v][e]
  BY <1>1
<1>3. g = [f EXCEPT ![v] = q]
  BY DEF Put
<1> HIDE DEF q
<1>4. \A w \in Volume : g[w] = IF w = v THEN q ELSE f[w]
  BY <1>3 DEF Tables
<1>5. g \in Tables
  BY <1>2, <1>3 DEF Tables
<1> QED
  BY <1>2, <1>4, <1>5

LEMMA PutSays ==
  ASSUME NEW f \in Tables, NEW v \in Volume, NEW i \in Ino, NEW r \in Inode, NEW g, g = Put(f, v, i, r)
  PROVE  /\ g \in Tables
         /\ \A w \in Volume, e \in Ino :
              /\ Kind(g, w, e) = IF w = v /\ e = i THEN r.type ELSE Kind(f, w, e)
              /\ Words(g, w, e) = IF w = v /\ e = i THEN r.text ELSE Words(f, w, e)
              /\ \A t \in Tok : To(g, w, e, t) = IF w = v /\ e = i THEN r.ents[t] ELSE To(f, w, e, t)
<1>1. g \in Tables
  BY PutIs
<1>2. \A w \in Volume, e \in Ino : g[w][e] = IF w = v /\ e = i THEN r ELSE f[w][e]
  BY PutIs
<1> QED
  BY <1>1, <1>2 DEF Kind, Words, To

LEMMA EntrySays ==
  ASSUME NEW f \in Tables, NEW v \in Volume, NEW d \in Ino, NEW t \in Tok, NEW i \in 0 .. Inodes,
         NEW g, g = Entry(f, v, d, t, i)
  PROVE  /\ g \in Tables
         /\ \A w \in Volume, e \in Ino :
              /\ Kind(g, w, e) = Kind(f, w, e) /\ Words(g, w, e) = Words(f, w, e)
              /\ \A u \in Tok : To(g, w, e, u) = IF w = v /\ e = d /\ u = t THEN i ELSE To(f, w, e, u)
<1>1. PICK r \in Inode : r = f[v][d]
  BY InodeIs
<1> DEFINE p == [r.ents EXCEPT ![t] = i]
           q == [r EXCEPT !.ents = p]
<1>2. r.ents \in [Tok -> 0 .. Inodes]
  BY DEF Inode
<1>3. p \in [Tok -> 0 .. Inodes] /\ \A u \in Tok : p[u] = IF u = t THEN i ELSE r.ents[u]
  BY <1>2
<1> HIDE DEF p
<1>4. q \in Inode /\ q.type = r.type /\ q.text = r.text /\ q.ents = p
  BY <1>3 DEF Inode
<1>5. g = Put(f, v, d, q)
  <2>1. g = [f EXCEPT ![v] = [f[v] EXCEPT ![d] = [f[v][d] EXCEPT !.ents = [f[v][d].ents EXCEPT ![t] = i]]]]
    BY DEF Entry
  <2>2. Put(f, v, d, q) = [f EXCEPT ![v] = [f[v] EXCEPT ![d] = q]]
    BY DEF Put
  <2> QED
    BY <1>1, <2>1, <2>2 DEF q, p
<1> HIDE DEF q
<1>6. /\ g \in Tables
      /\ \A w \in Volume, e \in Ino :
           /\ Kind(g, w, e) = IF w = v /\ e = d THEN q.type ELSE Kind(f, w, e)
           /\ Words(g, w, e) = IF w = v /\ e = d THEN q.text ELSE Words(f, w, e)
           /\ \A u \in Tok : To(g, w, e, u) = IF w = v /\ e = d THEN q.ents[u] ELSE To(f, w, e, u)
  <2>1. q \in Inode
    BY <1>4
  <2> QED
    BY <1>5, <2>1, PutSays
<1>7. Kind(f, v, d) = r.type /\ Words(f, v, d) = r.text /\ \A u \in Tok : To(f, v, d, u) = r.ents[u]
  BY <1>1 DEF Kind, Words, To
<1> QED
  BY <1>3, <1>4, <1>6, <1>7

(* Where the table of a volume has room, the lowest free inode is taken. *)
LEMMA FreeIs ==
  ASSUME ConstantsOK, NEW f \in Tables, NEW v \in Volume, Free(f, v) # {}
  PROVE  Min(Free(f, v)) \in Ino /\ Kind(f, v, Min(Free(f, v))) = "free"
<1> DEFINE S == Free(f, v)
<1>1. S \subseteq Nat /\ S # {}
  BY ConstantsAre DEF Free, Ino
<1>2. \E k \in S : \A y \in S : k <= y
  BY <1>1, Least
<1>3. Min(S) \in S
  BY <1>2 DEF Min
<1> QED
  BY <1>3 DEF Free, Kind

(* What each of the operations on a table does to names and inodes, and that it
   leaves a sound table. *)
LEMMA Entered ==
  ASSUME ConstantsOK, NEW f, Sound(f), NEW g \in Tables, NEW v \in Volume, NEW d \in Ino, NEW t \in Tok,
         NEW i \in Ino, NEW old, old = To(f, v, d, t), NEW kind \in {"file", "dir"},
         Kind(f, v, i) = "free", Kind(f, v, d) = "dir", ~ (v = Root /\ d = MntIno),
         old # 0 => Kind(f, v, old) = "file",
         \A w \in Volume, e \in Ino :
           Kind(g, w, e) = IF w = v /\ e = i THEN kind ELSE IF w = v /\ e = old THEN "free" ELSE Kind(f, w, e),
         \A w \in Volume, e \in Ino, u \in Tok :
           To(g, w, e, u) = IF w = v /\ e = d /\ u = t THEN i ELSE To(f, w, e, u)
  PROVE  Sound(g)
<1>1. f \in Tables /\ \A w \in Volume, e \in Ino, u \in Tok : To(f, w, e, u) \in Ino \cup {0}
  BY InodeIs, ConstantsAre DEF Sound
<1>2. ConstantsOK /\ RootIno \in Ino /\ MntIno \in Ino /\ RootIno # MntIno /\ 0 \notin Ino /\ Root \in Volume /\ Mnt \in Tok
  BY ConstantsAre
<1>3. i # RootIno /\ i # d /\ i # old /\ old # d /\ old # RootIno
  BY <1>2 DEF Sound
<1>4. \A w \in Volume : Kind(g, w, RootIno) = "dir"
  BY <1>2, <1>3 DEF Sound
<1>5. ASSUME NEW w \in Volume, NEW e \in Ino, NEW u \in Tok, To(g, w, e, u) # 0
      PROVE  To(g, w, e, u) # RootIno /\ Kind(g, w, To(g, w, e, u)) # "free" /\ Kind(g, w, e) = "dir"
  <2>1. CASE w = v /\ e = d /\ u = t
    BY <1>3, <2>1
  <2>2. CASE ~ (w = v /\ e = d /\ u = t)
    <3> DEFINE k == To(f, w, e, u)
    <3>1. To(g, w, e, u) = k /\ k \in Ino /\ k # RootIno /\ Kind(f, w, k) # "free" /\ Kind(f, w, e) = "dir"
      BY <1>1, <1>5, <2>2 DEF Sound
    <3>2. w = v => k # old
      BY <1>5, <2>2, <3>1 DEF Sound
    <3>3. ~ (w = v /\ e = old)
      BY <1>2, <3>1
    <3> QED
      BY <3>1, <3>2, <3>3
  <2> QED
    BY <2>1, <2>2
<1>6. ASSUME NEW w \in Volume, NEW e \in Ino, NEW c \in Ino, NEW u \in Tok, NEW s \in Tok,
             To(g, w, e, u) # 0, To(g, w, e, u) = To(g, w, c, s)
      PROVE  e = c /\ u = s
  <2>1. \A a \in Ino, b \in Tok : To(f, v, a, b) # i
    BY <1>2 DEF Sound
  <2> QED
    BY <1>6, <2>1 DEF Sound
<1>7. ASSUME NEW w \in Volume, NEW k \in Ino, k # RootIno, Kind(g, w, k) # "free"
      PROVE  \E e \in Ino, u \in Tok : To(g, w, e, u) = k
  <2>1. CASE w = v /\ k = i
    BY <2>1
  <2>2. CASE ~ (w = v /\ k = i)
    <3>1. Kind(f, w, k) # "free" /\ ~ (w = v /\ k = old)
      BY <1>7, <2>2
    <3>2. PICK e \in Ino, u \in Tok : To(f, w, e, u) = k
      BY <1>7, <3>1 DEF Sound
    <3> QED
      BY <3>1, <3>2
  <2> QED
    BY <2>1, <2>2
<1>8. To(g, Root, RootIno, Mnt) = MntIno /\ Kind(g, Root, MntIno) = "dir"
  <2>1. Kind(f, Root, MntIno) = "dir" /\ To(f, Root, RootIno, Mnt) = MntIno
    BY DEF Sound
  <2>2. ~ (v = Root /\ d = RootIno /\ t = Mnt)
    BY <1>2, <2>1
  <2>3. v = Root => i # MntIno /\ old # MntIno
    BY <1>2, <2>1
  <2> QED
    BY <1>2, <2>1, <2>2, <2>3
<1>9. \A u \in Tok : To(g, Root, MntIno, u) = 0
  BY <1>2 DEF Sound
<1> QED
  BY <1>4, <1>5, <1>6, <1>7, <1>8, <1>9 DEF Sound

LEMMA Removed ==
  ASSUME ConstantsOK, NEW f, Sound(f), NEW g \in Tables, NEW v \in Volume, NEW d \in Ino, NEW t \in Tok,
         NEW i \in Ino, i = To(f, v, d, t), \A u \in Tok : To(f, v, i, u) = 0,
         ~ (v = Root /\ d = RootIno /\ t = Mnt),
         \A w \in Volume, e \in Ino : Kind(g, w, e) = IF w = v /\ e = i THEN "free" ELSE Kind(f, w, e),
         \A w \in Volume, e \in Ino, u \in Tok :
           To(g, w, e, u) = IF w = v /\ e = d /\ u = t THEN 0 ELSE To(f, w, e, u)
  PROVE  Sound(g)
<1>1. f \in Tables /\ \A w \in Volume, e \in Ino, u \in Tok : To(f, w, e, u) \in Ino \cup {0}
  BY InodeIs, ConstantsAre DEF Sound
<1>2. RootIno \in Ino /\ MntIno \in Ino /\ RootIno # MntIno /\ 0 \notin Ino /\ Root \in Volume /\ Mnt \in Tok
  BY ConstantsAre
<1>3. i # RootIno /\ i # d
  BY <1>2 DEF Sound
<1>4. \A w \in Volume : Kind(g, w, RootIno) = "dir"
  BY <1>2, <1>3 DEF Sound
<1>5. ASSUME NEW w \in Volume, NEW e \in Ino, NEW u \in Tok, To(g, w, e, u) # 0
      PROVE  To(g, w, e, u) # RootIno /\ Kind(g, w, To(g, w, e, u)) # "free" /\ Kind(g, w, e) = "dir"
  <2> DEFINE k == To(f, w, e, u)
  <2>1. To(g, w, e, u) = k /\ k \in Ino /\ k # RootIno /\ Kind(f, w, k) # "free" /\ Kind(f, w, e) = "dir"
        /\ ~ (w = v /\ e = d /\ u = t)
    BY <1>1, <1>5 DEF Sound
  <2>2. w = v => k # i
    BY <1>2, <2>1 DEF Sound
  <2>3. ~ (w = v /\ e = i)
    BY <1>5, <2>1
  <2> QED
    BY <2>1, <2>2, <2>3
<1>6. ASSUME NEW w \in Volume, NEW e \in Ino, NEW c \in Ino, NEW u \in Tok, NEW s \in Tok,
             To(g, w, e, u) # 0, To(g, w, e, u) = To(g, w, c, s)
      PROVE  e = c /\ u = s
  BY <1>6 DEF Sound
<1>7. ASSUME NEW w \in Volume, NEW k \in Ino, k # RootIno, Kind(g, w, k) # "free"
      PROVE  \E e \in Ino, u \in Tok : To(g, w, e, u) = k
  <2>1. Kind(f, w, k) # "free" /\ ~ (w = v /\ k = i)
    BY <1>7
  <2>2. PICK e \in Ino, u \in Tok : To(f, w, e, u) = k
    BY <1>7, <2>1 DEF Sound
  <2> QED
    BY <2>1, <2>2
<1>8. To(g, Root, RootIno, Mnt) = MntIno /\ Kind(g, Root, MntIno) = "dir"
  <2>1. Kind(f, Root, MntIno) = "dir" /\ To(f, Root, RootIno, Mnt) = MntIno
    BY DEF Sound
  <2>2. v = Root => i # MntIno
    BY <1>2, <2>1 DEF Sound
  <2> QED
    BY <1>2, <2>1, <2>2
<1>9. \A u \in Tok : To(g, Root, MntIno, u) = 0
  BY <1>2 DEF Sound
<1> QED
  BY <1>4, <1>5, <1>6, <1>7, <1>8, <1>9 DEF Sound

LEMMA Moved ==
  ASSUME ConstantsOK, NEW f, Sound(f), NEW g \in Tables, NEW v \in Volume, NEW fd \in Ino, NEW ft \in Tok,
         NEW td \in Ino, NEW tt \in Tok, NEW i \in Ino, i = To(f, v, fd, ft), NEW dst, dst = To(f, v, td, tt), dst # i,
         dst # 0 => Kind(f, v, i) = "file" /\ Kind(f, v, dst) = "file",
         Kind(f, v, td) = "dir", ~ (v = Root /\ td = MntIno), ~ (v = Root /\ fd = RootIno /\ ft = Mnt),
         \A w \in Volume, e \in Ino : Kind(g, w, e) = IF w = v /\ e = dst THEN "free" ELSE Kind(f, w, e),
         \A w \in Volume, e \in Ino, u \in Tok :
           To(g, w, e, u) = IF w = v /\ e = fd /\ u = ft THEN 0
                            ELSE IF w = v /\ e = td /\ u = tt THEN i ELSE To(f, w, e, u)
  PROVE  Sound(g)
<1>1. f \in Tables /\ \A w \in Volume, e \in Ino, u \in Tok : To(f, w, e, u) \in Ino \cup {0}
  BY InodeIs, ConstantsAre DEF Sound
<1>2. RootIno \in Ino /\ MntIno \in Ino /\ RootIno # MntIno /\ 0 \notin Ino /\ Root \in Volume /\ Mnt \in Tok
  BY ConstantsAre
<1>3. i # RootIno /\ dst # RootIno /\ dst # td /\ dst # fd /\ Kind(f, v, i) # "free" /\ dst \in Ino \cup {0}
      /\ ~ (fd = td /\ ft = tt)
  BY <1>1, <1>2 DEF Sound
<1>4. \A w \in Volume : Kind(g, w, RootIno) = "dir"
  BY <1>2, <1>3 DEF Sound
<1>5. ASSUME NEW w \in Volume, NEW e \in Ino, NEW u \in Tok, To(g, w, e, u) # 0
      PROVE  To(g, w, e, u) # RootIno /\ Kind(g, w, To(g, w, e, u)) # "free" /\ Kind(g, w, e) = "dir"
  <2>1. CASE w = v /\ e = td /\ u = tt
    BY <1>3, <2>1
  <2>2. CASE ~ (w = v /\ e = td /\ u = tt)
    <3> DEFINE k == To(f, w, e, u)
    <3>1. To(g, w, e, u) = k /\ k \in Ino /\ k # RootIno /\ Kind(f, w, k) # "free" /\ Kind(f, w, e) = "dir"
          /\ ~ (w = v /\ e = fd /\ u = ft)
      BY <1>1, <1>5, <2>2 DEF Sound
    <3>2. w = v => k # dst
      BY <1>2, <2>2, <3>1 DEF Sound
    <3>3. ~ (w = v /\ e = dst)
      BY <1>2, <1>5, <3>1
    <3> QED
      BY <3>1, <3>2, <3>3
  <2> QED
    BY <2>1, <2>2
<1>6. ASSUME NEW w \in Volume, NEW e \in Ino, NEW c \in Ino, NEW u \in Tok, NEW s \in Tok,
             To(g, w, e, u) # 0, To(g, w, e, u) = To(g, w, c, s)
      PROVE  e = c /\ u = s
  <2>1. \A a \in Ino, b \in Tok : To(f, v, a, b) = i => a = fd /\ b = ft
    BY <1>2 DEF Sound
  <2> QED
    BY <1>6, <2>1 DEF Sound
<1>7. ASSUME NEW w \in Volume, NEW k \in Ino, k # RootIno, Kind(g, w, k) # "free"
      PROVE  \E e \in Ino, u \in Tok : To(g, w, e, u) = k
  <2>1. CASE w = v /\ k = i
    BY <1>3, <2>1
  <2>2. CASE ~ (w = v /\ k = i)
    <3>1. Kind(f, w, k) # "free" /\ ~ (w = v /\ k = dst)
      BY <1>7
    <3>2. PICK e \in Ino, u \in Tok : To(f, w, e, u) = k
      BY <1>7, <3>1 DEF Sound
    <3> QED
      BY <2>2, <3>1, <3>2
  <2> QED
    BY <2>1, <2>2
<1>8. To(g, Root, RootIno, Mnt) = MntIno /\ Kind(g, Root, MntIno) = "dir"
  <2>1. Kind(f, Root, MntIno) = "dir" /\ To(f, Root, RootIno, Mnt) = MntIno
    BY DEF Sound
  <2>2. v = Root => dst # MntIno
    BY <1>2, <2>1
  <2>3. ~ (v = Root /\ td = RootIno /\ tt = Mnt)
    BY <1>2, <2>1, <2>2
  <2> QED
    BY <1>2, <2>1, <2>2, <2>3
<1>9. \A u \in Tok : To(g, Root, MntIno, u) = 0
  BY <1>2 DEF Sound
<1> QED
  BY <1>4, <1>5, <1>6, <1>7, <1>8, <1>9 DEF Sound

(* A name is given to an inode that was free. *)
Named(f, g, v, d, t) ==
  \E i \in Ino :
    /\ Kind(f, v, i) = "free"
    /\ \A w \in Volume, b \in Ino, u \in Tok :
         To(g, w, b, u) = IF w = v /\ b = d /\ u = t THEN i ELSE To(f, w, b, u)

LEMMA MakeDirIs ==
  ASSUME ConstantsOK, NEW f, Sound(f), NEW v \in Volume, NEW d \in Ino, NEW t \in Tok,
         Kind(f, v, d) = "dir", ~ (v = Root /\ d = MntIno), NEW h, h = MakeDir(f, v, d, t).f
  PROVE  Sound(h) /\ (h = f \/ Named(f, h, v, d, t))
<1> DEFINE i == Min(Free(f, v))
           e == Entry(f, v, d, t, i)
           g == Put(e, v, i, Dir)
<1>1. CASE To(f, v, d, t) # 0 \/ Free(f, v) = {}
  BY <1>1 DEF MakeDir, To, Failed
<1>2. CASE ~ (To(f, v, d, t) # 0 \/ Free(f, v) = {})
  <2>1. MakeDir(f, v, d, t) = Done(g)
    BY <1>2 DEF MakeDir, To, Put
  <2>2. f \in Tables
    BY DEF Sound
  <2>3. i \in Ino /\ Kind(f, v, i) = "free" /\ i \in 0 .. Inodes
    BY <1>2, <2>2, FreeIs, ConstantsAre
  <2> HIDE DEF i
  <2>4. /\ e \in Tables
        /\ \A w \in Volume, b \in Ino :
             /\ Kind(e, w, b) = Kind(f, w, b)
             /\ \A u \in Tok : To(e, w, b, u) = IF w = v /\ b = d /\ u = t THEN i ELSE To(f, w, b, u)
    BY <2>2, <2>3, EntrySays
  <2> HIDE DEF e
  <2>5. Dir \in Inode /\ Dir.type = "dir" /\ \A u \in Tok : Dir.ents[u] = 0
    BY InodesAre
  <2>6. /\ g \in Tables
        /\ \A w \in Volume, b \in Ino :
             /\ Kind(g, w, b) = IF w = v /\ b = i THEN Dir.type ELSE Kind(e, w, b)
             /\ \A u \in Tok : To(g, w, b, u) = IF w = v /\ b = i THEN Dir.ents[u] ELSE To(e, w, b, u)
    BY <2>3, <2>4, <2>5, PutSays
  <2> HIDE DEF g
  <2>7. \A u \in Tok : To(f, v, i, u) = 0
    BY <2>3 DEF Sound
  <2>8. i # d /\ 0 \notin Ino
    BY <2>3, ConstantsAre
  <2>9. \A w \in Volume, b \in Ino : Kind(g, w, b) = IF w = v /\ b = i THEN "dir" ELSE IF w = v /\ b = 0 THEN "free" ELSE Kind(f, w, b)
    BY <2>4, <2>5, <2>6, <2>8
  <2>10. \A w \in Volume, b \in Ino, u \in Tok : To(g, w, b, u) = IF w = v /\ b = d /\ u = t THEN i ELSE To(f, w, b, u)
    BY <2>4, <2>5, <2>6, <2>7, <2>8
  <2>11. Sound(g)
    <3>1. To(f, v, d, t) = 0
      BY <1>2
    <3> QED
      BY <2>3, <2>6, <2>9, <2>10, <3>1, Entered
  <2>12. Named(f, g, v, d, t)
    BY <2>3, <2>10 DEF Named
  <2> QED
    BY <2>1, <2>11, <2>12 DEF Done
<1> QED
  BY <1>1, <1>2

(* A file is written, under a name that is new or was another file's. *)
LEMMA FilePutIs ==
  ASSUME ConstantsOK, NEW f, Sound(f), NEW v \in Volume, NEW d \in Ino, NEW t \in Tok, NEW x \in Text,
         Kind(f, v, d) = "dir", ~ (v = Root /\ d = MntIno), NEW r, r = FilePut(f, v, d, t, x)
  PROVE  /\ Sound(r.f)
         /\ r.err # "ok" => r.f = f
         /\ r.err = "ok" => \E i \in Ino :
              /\ Kind(f, v, i) = "free"
              /\ To(f, v, d, t) # 0 => Kind(f, v, To(f, v, d, t)) = "file"
              /\ \A w \in Volume, b \in Ino :
                   /\ Kind(r.f, w, b) = IF w = v /\ b = i THEN "file"
                                        ELSE IF w = v /\ b = To(f, v, d, t) THEN "free" ELSE Kind(f, w, b)
                   /\ Words(r.f, w, b) = IF w = v /\ b = i THEN x
                                         ELSE IF w = v /\ b = To(f, v, d, t) THEN None ELSE Words(f, w, b)
                   /\ \A u \in Tok : To(r.f, w, b, u) = IF w = v /\ b = d /\ u = t THEN i ELSE To(f, w, b, u)
<1> DEFINE old == To(f, v, d, t)
           i == Min(Free(f, v))
           e == Entry(f, v, d, t, i)
           n == Put(e, v, i, File(x))
           g == IF old = 0 THEN n ELSE Put(n, v, old, Unused)
<1>1. CASE (old # 0 /\ Kind(f, v, old) = "dir") \/ Free(f, v) = {}
  BY <1>1 DEF FilePut, To, Kind, Failed
<1>2. CASE ~ ((old # 0 /\ Kind(f, v, old) = "dir") \/ Free(f, v) = {})
  <2>1. r = Done(g)
    BY <1>2 DEF FilePut, To, Kind, Put, Released
  <2>2. f \in Tables /\ old \in Ino \cup {0} /\ 0 \notin Ino
    <3>1. f \in Tables
      BY DEF Sound
    <3> QED
      BY <3>1, InodeIs, ConstantsAre
  <2>3. i \in Ino /\ Kind(f, v, i) = "free" /\ i \in 0 .. Inodes
    BY <1>2, <2>2, FreeIs, ConstantsAre
  <2>4. old # 0 => old \in Ino /\ Kind(f, v, old) = "file"
    <3>1. old # 0 => Kind(f, v, old) # "free" /\ Kind(f, v, old) # "dir"
      BY <1>2 DEF Sound
    <3> QED
      BY <2>2, <3>1, InodeIs
  <2>5. old # i /\ i # d /\ old # d
    BY <2>2, <2>3, <2>4
  <2> HIDE DEF i
  <2>6. /\ e \in Tables
        /\ \A w \in Volume, b \in Ino :
             /\ Kind(e, w, b) = Kind(f, w, b) /\ Words(e, w, b) = Words(f, w, b)
             /\ \A u \in Tok : To(e, w, b, u) = IF w = v /\ b = d /\ u = t THEN i ELSE To(f, w, b, u)
    BY <2>2, <2>3, EntrySays
  <2> HIDE DEF e
  <2>7. /\ File(x) \in Inode /\ File(x).type = "file" /\ File(x).text = x /\ \A u \in Tok : File(x).ents[u] = 0
        /\ Unused \in Inode /\ Unused.type = "free" /\ Unused.text = None /\ \A u \in Tok : Unused.ents[u] = 0
    BY InodesAre
  <2>8. /\ n \in Tables
        /\ \A w \in Volume, b \in Ino :
             /\ Kind(n, w, b) = IF w = v /\ b = i THEN File(x).type ELSE Kind(e, w, b)
             /\ Words(n, w, b) = IF w = v /\ b = i THEN File(x).text ELSE Words(e, w, b)
             /\ \A u \in Tok : To(n, w, b, u) = IF w = v /\ b = i THEN File(x).ents[u] ELSE To(e, w, b, u)
    BY <2>3, <2>6, <2>7, PutSays
  <2> HIDE DEF n
  <2>9. /\ old # 0 =>
             /\ g \in Tables
             /\ \A w \in Volume, b \in Ino :
                  /\ Kind(g, w, b) = IF w = v /\ b = old THEN Unused.type ELSE Kind(n, w, b)
                  /\ Words(g, w, b) = IF w = v /\ b = old THEN Unused.text ELSE Words(n, w, b)
                  /\ \A u \in Tok : To(g, w, b, u) = IF w = v /\ b = old THEN Unused.ents[u] ELSE To(n, w, b, u)
        /\ old = 0 => g = n
    BY <2>4, <2>7, <2>8, PutSays
  <2>10. \A u \in Tok : To(f, v, i, u) = 0 /\ (old # 0 => To(f, v, old, u) = 0)
    BY <2>3, <2>4 DEF Sound
  <2> HIDE DEF g, old
  <2>11. g \in Tables
    BY <2>8, <2>9
  <2>12. \A w \in Volume, b \in Ino :
           /\ Kind(g, w, b) = IF w = v /\ b = i THEN "file" ELSE IF w = v /\ b = old THEN "free" ELSE Kind(f, w, b)
           /\ Words(g, w, b) = IF w = v /\ b = i THEN x ELSE IF w = v /\ b = old THEN None ELSE Words(f, w, b)
    <3>1. CASE old = 0
      BY <2>2, <2>5, <2>6, <2>7, <2>8, <2>9, <3>1
    <3>2. CASE old # 0
      BY <2>5, <2>6, <2>7, <2>8, <2>9, <3>2
    <3> QED
      BY <3>1, <3>2
  <2>13. \A w \in Volume, b \in Ino, u \in Tok : To(g, w, b, u) = IF w = v /\ b = d /\ u = t THEN i ELSE To(f, w, b, u)
    <3>1. CASE old = 0
      BY <2>5, <2>6, <2>7, <2>8, <2>9, <2>10, <3>1
    <3>2. CASE old # 0
      BY <2>5, <2>6, <2>7, <2>8, <2>9, <2>10, <3>2
    <3> QED
      BY <3>1, <3>2
  <2>14. Sound(g)
    BY <2>3, <2>4, <2>11, <2>12, <2>13, Entered DEF old
  <2>15. r.f = g /\ r.err = "ok"
    BY <2>1 DEF Done
  <2> QED
    BY <2>3, <2>4, <2>12, <2>13, <2>14, <2>15 DEF old
<1> QED
  BY <1>1, <1>2

(* A file or an empty directory goes, with its name. *)
LEMMA UnlinkIs ==
  ASSUME ConstantsOK, NEW f, Sound(f), NEW v \in Volume, NEW d \in Ino, NEW t \in Tok,
         ~ (v = Root /\ d = RootIno /\ t = Mnt), NEW r, r = Unlink(f, v, d, t)
  PROVE  /\ Sound(r.f)
         /\ r.err # "ok" => r.f = f
         /\ r.err = "ok" => \A w \in Volume, b \in Ino :
              /\ Kind(r.f, w, b) = IF w = v /\ b = To(f, v, d, t) THEN "free" ELSE Kind(f, w, b)
              /\ Words(r.f, w, b) = IF w = v /\ b = To(f, v, d, t) THEN None ELSE Words(f, w, b)
              /\ \A u \in Tok : To(r.f, w, b, u) = IF w = v /\ b = d /\ u = t THEN 0 ELSE To(f, w, b, u)
<1> DEFINE i == To(f, v, d, t)
           e == Entry(f, v, d, t, 0)
           g == Put(e, v, i, Unused)
<1>1. CASE i = 0 \/ (Kind(f, v, i) = "dir" /\ f[v][i].ents # Unused.ents)
  BY <1>1 DEF Unlink, To, Kind, Failed
<1>2. CASE ~ (i = 0 \/ (Kind(f, v, i) = "dir" /\ f[v][i].ents # Unused.ents))
  <2>1. r = Done(g)
    BY <1>2 DEF Unlink, To, Kind, Put, Released
  <2>2. f \in Tables /\ i \in Ino /\ 0 \in 0 .. Inodes /\ i # d
    <3>1. f \in Tables /\ i \in Ino
      BY <1>2, InodeIs, ConstantsAre DEF Sound
    <3>2. CASE Kind(f, v, i) = "dir"
      <4>1. f[v][i].ents = Unused.ents
        BY <1>2, <3>2
      <4>2. To(f, v, i, t) = 0
        BY <4>1, InodesAre DEF To
      <4> QED
        BY <1>2, <3>1, <4>2, ConstantsAre
    <3>3. CASE Kind(f, v, i) # "dir"
      <4>1. Kind(f, v, d) = "dir"
        BY <1>2 DEF Sound
      <4> QED
        BY <3>1, <3>3, <4>1, ConstantsAre
    <3> QED
      BY <3>2, <3>3
  <2>3. \A u \in Tok : To(f, v, i, u) = 0
    <3>1. CASE Kind(f, v, i) = "dir"
      <4>1. f[v][i].ents = Unused.ents
        BY <1>2, <3>1
      <4> QED
        BY <4>1, InodesAre DEF To
    <3>2. CASE Kind(f, v, i) # "dir"
      BY <2>2, <3>2 DEF Sound
    <3> QED
      BY <3>1, <3>2
  <2> HIDE DEF i
  <2>4. /\ e \in Tables
        /\ \A w \in Volume, b \in Ino :
             /\ Kind(e, w, b) = Kind(f, w, b) /\ Words(e, w, b) = Words(f, w, b)
             /\ \A u \in Tok : To(e, w, b, u) = IF w = v /\ b = d /\ u = t THEN 0 ELSE To(f, w, b, u)
    BY <2>2, EntrySays
  <2> HIDE DEF e
  <2>5. /\ Unused \in Inode /\ Unused.type = "free" /\ Unused.text = None /\ \A u \in Tok : Unused.ents[u] = 0
    BY InodesAre
  <2>6. /\ g \in Tables
        /\ \A w \in Volume, b \in Ino :
             /\ Kind(g, w, b) = IF w = v /\ b = i THEN Unused.type ELSE Kind(e, w, b)
             /\ Words(g, w, b) = IF w = v /\ b = i THEN Unused.text ELSE Words(e, w, b)
             /\ \A u \in Tok : To(g, w, b, u) = IF w = v /\ b = i THEN Unused.ents[u] ELSE To(e, w, b, u)
    BY <2>2, <2>4, <2>5, PutSays
  <2> HIDE DEF g
  <2>7. \A w \in Volume, b \in Ino :
          /\ Kind(g, w, b) = IF w = v /\ b = i THEN "free" ELSE Kind(f, w, b)
          /\ Words(g, w, b) = IF w = v /\ b = i THEN None ELSE Words(f, w, b)
    BY <2>4, <2>5, <2>6
  <2>8. \A w \in Volume, b \in Ino, u \in Tok : To(g, w, b, u) = IF w = v /\ b = d /\ u = t THEN 0 ELSE To(f, w, b, u)
    BY <2>2, <2>3, <2>4, <2>5, <2>6
  <2>9. Sound(g)
    BY <2>2, <2>3, <2>6, <2>7, <2>8, Removed DEF i
  <2>10. r.f = g /\ r.err = "ok"
    BY <2>1 DEF Done
  <2> QED
    BY <2>7, <2>8, <2>9, <2>10 DEF i
<1> QED
  BY <1>1, <1>2

(* A file or a directory gets another name. *)
LEMMA RenameIs ==
  ASSUME ConstantsOK, NEW f, Sound(f), NEW v \in Volume, NEW fd \in Ino, NEW ft \in Tok, NEW td \in Ino, NEW tt \in Tok,
         Kind(f, v, td) = "dir", ~ (v = Root /\ td = MntIno), ~ (v = Root /\ fd = RootIno /\ ft = Mnt),
         NEW g, g = Rename(f, v, fd, ft, td, tt).f
  PROVE  /\ Sound(g)
         /\ g = f \/
              /\ To(f, v, fd, ft) # 0 /\ To(f, v, td, tt) # To(f, v, fd, ft)
              /\ To(f, v, td, tt) # 0 =>
                   Kind(f, v, To(f, v, fd, ft)) = "file" /\ Kind(f, v, To(f, v, td, tt)) = "file"
              /\ \A w \in Volume, b \in Ino :
                   /\ Kind(g, w, b) = IF w = v /\ b = To(f, v, td, tt) THEN "free" ELSE Kind(f, w, b)
                   /\ Words(g, w, b) = IF w = v /\ b = To(f, v, td, tt) THEN None ELSE Words(f, w, b)
                   /\ \A u \in Tok : To(g, w, b, u) = IF w = v /\ b = fd /\ u = ft THEN 0
                                                      ELSE IF w = v /\ b = td /\ u = tt THEN To(f, v, fd, ft)
                                                      ELSE To(f, w, b, u)
<1> DEFINE i == To(f, v, fd, ft)
           dst == To(f, v, td, tt)
           e == Entry(f, v, td, tt, i)
           m == Entry(e, v, fd, ft, 0)
           h == IF dst = 0 THEN m ELSE Put(m, v, dst, Unused)
<1>1. CASE i = 0 \/ dst = i \/ (dst # 0 /\ "dir" \in {Kind(f, v, i), Kind(f, v, dst)})
  BY <1>1 DEF Rename, Renamed, To, Kind, Failed, Done
<1>2. CASE ~ (i = 0 \/ dst = i \/ (dst # 0 /\ "dir" \in {Kind(f, v, i), Kind(f, v, dst)}))
  <2>1. g = h
    BY <1>2 DEF Rename, Renamed, To, Kind, Put, Released, Done
  <2>2. f \in Tables /\ i \in Ino /\ dst \in Ino \cup {0} /\ 0 \notin Ino /\ 0 \in 0 .. Inodes /\ i \in 0 .. Inodes
    <3>1. f \in Tables
      BY DEF Sound
    <3> QED
      BY <1>2, <3>1, InodeIs, ConstantsAre
  <2>3. dst # 0 => dst \in Ino /\ Kind(f, v, dst) = "file" /\ Kind(f, v, i) = "file"
    <3>1. dst # 0 => Kind(f, v, dst) # "free" /\ Kind(f, v, dst) # "dir" /\ Kind(f, v, i) # "free" /\ Kind(f, v, i) # "dir"
      BY <1>2 DEF Sound
    <3> QED
      BY <2>2, <3>1, InodeIs
  <2>4. dst # i /\ dst # td /\ ~ (fd = td /\ ft = tt)
    BY <1>2, <2>2, <2>3
  <2>5. dst # fd
    <3>1. Kind(f, v, fd) = "dir"
      BY <1>2 DEF Sound
    <3> QED
      BY <2>2, <2>3, <3>1
  <2>6. /\ e \in Tables
        /\ \A w \in Volume, b \in Ino :
             /\ Kind(e, w, b) = Kind(f, w, b) /\ Words(e, w, b) = Words(f, w, b)
             /\ \A u \in Tok : To(e, w, b, u) = IF w = v /\ b = td /\ u = tt THEN i ELSE To(f, w, b, u)
    BY <2>2, EntrySays
  <2> HIDE DEF e
  <2>7. /\ m \in Tables
        /\ \A w \in Volume, b \in Ino :
             /\ Kind(m, w, b) = Kind(e, w, b) /\ Words(m, w, b) = Words(e, w, b)
             /\ \A u \in Tok : To(m, w, b, u) = IF w = v /\ b = fd /\ u = ft THEN 0 ELSE To(e, w, b, u)
    BY <2>2, <2>6, EntrySays
  <2> HIDE DEF m
  <2>8. /\ Unused \in Inode /\ Unused.type = "free" /\ Unused.text = None /\ \A u \in Tok : Unused.ents[u] = 0
    BY InodesAre
  <2>9. /\ dst # 0 =>
             /\ h \in Tables
             /\ \A w \in Volume, b \in Ino :
                  /\ Kind(h, w, b) = IF w = v /\ b = dst THEN Unused.type ELSE Kind(m, w, b)
                  /\ Words(h, w, b) = IF w = v /\ b = dst THEN Unused.text ELSE Words(m, w, b)
                  /\ \A u \in Tok : To(h, w, b, u) = IF w = v /\ b = dst THEN Unused.ents[u] ELSE To(m, w, b, u)
        /\ dst = 0 => h = m
    BY <2>3, <2>7, <2>8, PutSays
  <2>10. \A u \in Tok : dst # 0 => To(f, v, dst, u) = 0
    BY <2>3 DEF Sound
  <2> HIDE DEF h, dst, i
  <2>11. h \in Tables
    BY <2>7, <2>9
  <2>12. \A w \in Volume, b \in Ino :
           /\ Kind(h, w, b) = IF w = v /\ b = dst THEN "free" ELSE Kind(f, w, b)
           /\ Words(h, w, b) = IF w = v /\ b = dst THEN None ELSE Words(f, w, b)
    <3>1. CASE dst = 0
      BY <2>2, <2>6, <2>7, <2>9, <3>1
    <3>2. CASE dst # 0
      BY <2>6, <2>7, <2>8, <2>9, <3>2
    <3> QED
      BY <3>1, <3>2
  <2>13. \A w \in Volume, b \in Ino, u \in Tok :
           To(h, w, b, u) = IF w = v /\ b = fd /\ u = ft THEN 0
                            ELSE IF w = v /\ b = td /\ u = tt THEN i ELSE To(f, w, b, u)
    <3>1. CASE dst = 0
      BY <2>6, <2>7, <2>9, <3>1
    <3>2. CASE dst # 0
      BY <2>4, <2>5, <2>6, <2>7, <2>8, <2>9, <2>10, <3>2
    <3> QED
      BY <3>1, <3>2
  <2>14. Sound(h)
    BY <2>2, <2>3, <2>4, <2>11, <2>12, <2>13, Moved DEF i, dst
  <2> QED
    BY <1>2, <2>1, <2>3, <2>4, <2>12, <2>13, <2>14 DEF i, dst
<1> QED
  BY <1>1, <1>2

-----------------------------------------------------------------------------
(* A volume is a tree when no set of inodes without the root holds, with each of its
   members, the directory that member is in: what is in no such set is reached. *)
Knot(f, v, S) == S # {} /\ RootIno \notin S /\ \A j \in S : \E d \in S, t \in Tok : To(f, v, d, t) = j
Grounded(f) == \A v \in Volume, S \in SUBSET Ino : ~ Knot(f, v, S)

LEMMA NamedGrounded ==
  ASSUME ConstantsOK, NEW f, Sound(f), Grounded(f), NEW v \in Volume, NEW d \in Ino, NEW t \in Tok,
         Kind(f, v, d) = "dir", NEW g, Named(f, g, v, d, t)
  PROVE  Grounded(g)
<1> SUFFICES ASSUME NEW w \in Volume, NEW S \in SUBSET Ino, Knot(g, w, S) PROVE FALSE
  BY DEF Grounded
<1>1. PICK i \in Ino :
        /\ Kind(f, v, i) = "free"
        /\ \A x \in Volume, b \in Ino, u \in Tok :
             To(g, x, b, u) = IF x = v /\ b = d /\ u = t THEN i ELSE To(f, x, b, u)
  BY DEF Named
<1>2. \A u \in Tok : To(f, v, i, u) = 0
  BY <1>1 DEF Sound
<1>3. d # i /\ 0 \notin Ino
  BY <1>1, ConstantsAre
<1>4. S # {} /\ RootIno \notin S /\ \A j \in S : \E e \in S, u \in Tok : To(g, w, e, u) = j
  BY DEF Knot
<1>5. CASE w # v
  <2>1. \A e \in S, u \in Tok : To(g, w, e, u) = To(f, w, e, u)
    BY <1>1, <1>5
  <2>2. ASSUME NEW j \in S PROVE \E e \in S, u \in Tok : To(f, w, e, u) = j
    <3>1. PICK e \in S, u \in Tok : To(g, w, e, u) = j
      BY <1>4
    <3> QED
      BY <2>1, <3>1
  <2>3. Knot(f, w, S)
    BY <1>4, <2>2 DEF Knot
  <2> QED
    BY <2>3 DEF Grounded
<1>6. CASE w = v
  <2> DEFINE T == S \ {i}
  <2>1. T # {}
    <3>1. CASE i \in S
      <4>1. PICK e \in S, u \in Tok : To(g, v, e, u) = i
        BY <1>4, <1>6, <3>1
      <4>2. To(f, v, e, u) # i
        BY <1>1, <1>3 DEF Sound
      <4>3. e = d
        BY <1>1, <4>1, <4>2
      <4> QED
        BY <1>3, <4>3
    <3>2. CASE i \notin S
      BY <1>4, <3>2
    <3> QED
      BY <3>1, <3>2
  <2>2. ASSUME NEW j \in T PROVE \E e \in T, u \in Tok : To(f, v, e, u) = j
    <3>1. PICK e \in S, u \in Tok : To(g, v, e, u) = j
      BY <1>4, <1>6
    <3>2. To(f, v, e, u) = j /\ j # 0
      BY <1>1, <1>3, <3>1
    <3>3. e # i
      BY <1>2, <3>2
    <3> QED
      BY <3>2, <3>3
  <2>3. Knot(f, v, T) /\ T \in SUBSET Ino
    BY <1>4, <2>1, <2>2 DEF Knot
  <2> QED
    BY <2>3 DEF Grounded
<1> QED
  BY <1>5, <1>6

LEMMA LessGrounded ==
  ASSUME ConstantsOK, NEW f, Grounded(f), NEW g,
         \A w \in Volume, b \in Ino, u \in Tok : To(g, w, b, u) \in {0, To(f, w, b, u)}
  PROVE  Grounded(g)
<1> SUFFICES ASSUME NEW w \in Volume, NEW S \in SUBSET Ino, Knot(g, w, S) PROVE FALSE
  BY DEF Grounded
<1>1. 0 \notin Ino
  BY ConstantsAre
<1>2. Knot(f, w, S)
  BY <1>1 DEF Knot
<1> QED
  BY <1>2 DEF Grounded

(* A name is moved, away from what it may have replaced. *)
Relinked(f, g, v, fd, ft, td, tt, i) ==
  \A w \in Volume, b \in Ino, u \in Tok :
    To(g, w, b, u) = IF w = v /\ b = fd /\ u = ft THEN 0
                     ELSE IF w = v /\ b = td /\ u = tt THEN i ELSE To(f, w, b, u)

(* With each of its members, a set holds the directory that member is in. *)
Upward(f, v, A) == \A j \in A, d \in Ino, t \in Tok : To(f, v, d, t) = j => d \in A

(* The new directory lies in such a set, and the inode that moves does not. *)
LEMMA MovedGrounded ==
  ASSUME ConstantsOK, NEW f, Sound(f), Grounded(f), NEW g, NEW v \in Volume, NEW fd \in Ino, NEW ft \in Tok,
         NEW td \in Ino, NEW tt \in Tok, NEW i \in Ino, i = To(f, v, fd, ft),
         Relinked(f, g, v, fd, ft, td, tt, i), NEW A \in SUBSET Ino, td \in A, i \notin A, Upward(f, v, A)
  PROVE  Grounded(g)
<1> SUFFICES ASSUME NEW w \in Volume, NEW S \in SUBSET Ino, Knot(g, w, S) PROVE FALSE
  BY DEF Grounded
<1> USE DEF Relinked, Upward
<1>1. S # {} /\ RootIno \notin S /\ \A j \in S : \E e \in S, u \in Tok : To(g, w, e, u) = j
  BY DEF Knot
<1>2. 0 \notin Ino
  BY ConstantsAre
<1>3. ASSUME NEW j \in S, ~ (w = v /\ j = i), NEW e \in S, NEW u \in Tok, To(g, w, e, u) = j
      PROVE  To(f, w, e, u) = j
  BY <1>2, <1>3
<1>4. CASE ~ (w = v /\ i \in S)
  <2>1. ASSUME NEW j \in S PROVE \E e \in S, u \in Tok : To(f, w, e, u) = j
    BY <1>1, <1>3, <1>4
  <2>2. Knot(f, w, S)
    BY <1>1, <2>1 DEF Knot
  <2> QED
    BY <2>2 DEF Grounded
<1>5. CASE w = v /\ i \in S
  <2> DEFINE T == S \cap A
  <2>1. td \in T
    <3>1. PICK e \in S, u \in Tok : To(g, v, e, u) = i
      BY <1>1, <1>5
    <3>2. ASSUME ~ (e = td /\ u = tt) PROVE FALSE
      <4>1. To(f, v, e, u) = i /\ ~ (e = fd /\ u = ft)
        BY <1>2, <3>1, <3>2
      <4> QED
        BY <1>2, <4>1 DEF Sound
    <3> QED
      BY <3>2
  <2>2. ASSUME NEW j \in T PROVE \E e \in T, u \in Tok : To(f, v, e, u) = j
    <3>1. PICK e \in S, u \in Tok : To(g, v, e, u) = j
      BY <1>1, <1>5
    <3>2. To(f, v, e, u) = j
      BY <1>3, <1>5, <3>1
    <3>3. e \in A
      BY <3>2
    <3> QED
      BY <3>2, <3>3
  <2>3. Knot(f, v, T) /\ T \in SUBSET Ino
    BY <1>1, <2>1, <2>2 DEF Knot
  <2> QED
    BY <2>3 DEF Grounded
<1> QED
  BY <1>4, <1>5

-----------------------------------------------------------------------------
(* Where a path leads. *)
Nodes ==
  [err : {"ok", "noent", "notdir"}, vol : Volume, ino : 0 .. Inodes, type : {"none", "free", "file", "dir"},
   pvol : Volume, pino : 0 .. Inodes, leaf : Tok \cup {None}, exists : BOOLEAN, isMnt : BOOLEAN, isMount : BOOLEAN,
   depth : Nat]
NodeOK(n) ==
  /\ n.exists <=> n.ino # 0
  /\ n.pino = 0 => n.vol = Root /\ n.ino = RootIno /\ n.type = "dir" /\ ~ n.isMnt /\ ~ n.isMount
  /\ n.pino = 0 <=> n.depth = 0
  /\ n.pino # 0 => n.leaf \in Tok /\ Kind(fs, n.pvol, n.pino) = "dir"
  /\ n.isMount => n.vol \in mounts /\ n.ino = RootIno /\ n.type = "dir" /\ n.pvol = Root /\ n.pino = MntIno
  /\ n.pino # 0 /\ ~ n.isMount =>
       /\ n.vol = n.pvol /\ n.ino = To(fs, n.pvol, n.pino, n.leaf)
       /\ n.type = IF n.ino = 0 THEN "none" ELSE Kind(fs, n.vol, n.ino)
  /\ n.isMnt => n.vol = Root /\ n.ino = MntIno /\ n.depth = 1
  /\ n.pino = RootIno /\ n.pvol = Root /\ n.leaf = Mnt => n.isMnt

LEMMA ChildIs ==
  ASSUME ConstantsOK, Sound(fs), mounts \subseteq Vol, NEW n \in Nodes, NodeOK(n), n.exists, n.type = "dir", n.err = "ok",
         NEW t \in Tok
  PROVE  /\ Child(n, t) \in Nodes /\ NodeOK(Child(n, t)) /\ Child(n, t).err = "ok"
         /\ Child(n, t).pino = n.ino /\ Child(n, t).pvol = n.vol /\ Child(n, t).leaf = t
         /\ Child(n, t).isMount <=> n.isMnt /\ t \in mounts
         /\ Child(n, t).isMount => Child(n, t).vol = t
         /\ Child(n, t).depth = n.depth + 1
<1> DEFINE i == To(fs, n.vol, n.ino, t)
           inMnt == n.isMnt /\ t \in mounts
           isMnt == n.vol = Root /\ n.depth = 0 /\ t = Mnt /\ i # 0
           c == Child(n, t)
<1>2. /\ n.vol \in Volume /\ n.ino \in 0 .. Inodes /\ n.pvol \in Volume /\ n.pino \in 0 .. Inodes /\ n.depth \in Nat
      /\ n.exists \in BOOLEAN /\ n.isMnt \in BOOLEAN /\ n.isMount \in BOOLEAN
  BY DEF Nodes
<1>3. n.ino \in Ino /\ fs \in Tables
  BY <1>2, ConstantsAre DEF NodeOK, Sound
<1>4. i \in 0 .. Inodes /\ (i # 0 => i \in Ino /\ Kind(fs, n.vol, i) \in {"free", "file", "dir"})
  <2>1. i \in 0 .. Inodes
    BY <1>2, <1>3, InodeIs
  <2>2. i # 0 => i \in Ino
    BY <2>1, ConstantsAre
  <2> QED
    BY <1>2, <1>3, <2>1, <2>2, InodeIs
<1>5. Kind(fs, n.vol, n.ino) = "dir"
  <2>1. CASE n.pino = 0 \/ n.isMount
    <3>1. n.ino = RootIno
      BY <2>1 DEF NodeOK
    <3> QED
      BY <1>2, <3>1 DEF Sound
  <2>2. CASE ~ (n.pino = 0 \/ n.isMount)
    BY <1>3, <2>2, ConstantsAre DEF NodeOK
  <2> QED
    BY <2>1, <2>2
<1>6. n.vol = Root /\ n.ino = RootIno => n.depth = 0
  <2>1. CASE n.pino = 0
    BY <2>1 DEF NodeOK
  <2>2. CASE n.isMount
    BY <2>2, ConstantsAre DEF NodeOK
  <2>3. CASE n.pino # 0 /\ ~ n.isMount
    <3>1. n.ino = To(fs, n.pvol, n.pino, n.leaf) /\ n.leaf \in Tok /\ n.pino \in Ino
      BY <1>2, <2>3, ConstantsAre DEF NodeOK
    <3> QED
      <4>1. To(fs, n.pvol, n.pino, n.leaf) # RootIno
        BY <1>2, <3>1, ConstantsAre DEF Sound
      <4> QED
        BY <3>1, <4>1
  <2> QED
    BY <1>2, <2>1, <2>2, <2>3
<1>7. n.err = "ok" /\ n.vol \in Volume /\ (inMnt => t \in Volume)
  BY ConstantsAre DEF Nodes
<1>9. inMnt \in BOOLEAN /\ isMnt \in BOOLEAN /\ (i # 0) \in BOOLEAN /\ (RootIno # 0) \in BOOLEAN
  OBVIOUS
<1>10. CASE inMnt
  <2>1. n.isMnt /\ t \in mounts /\ n.vol = Root /\ n.ino = MntIno /\ n.depth = 1
    BY <1>10 DEF NodeOK
  <2>2. ~ isMnt
    BY <2>1
  <2> HIDE DEF isMnt, inMnt, i, c
  <2>3. c = [err |-> "ok", vol |-> t, ino |-> RootIno, type |-> "dir", pvol |-> n.vol, pino |-> n.ino, leaf |-> t,
             exists |-> RootIno # 0, isMnt |-> isMnt, isMount |-> inMnt, depth |-> n.depth + 1]
    BY <1>10 DEF Child, c, isMnt, inMnt, i, To
  <2>4. /\ c.err = "ok" /\ c.vol = t /\ c.ino = RootIno /\ c.type = "dir" /\ c.pvol = Root /\ c.pino = MntIno /\ c.leaf = t
        /\ c.exists /\ ~ c.isMnt /\ c.isMount /\ c.depth = 2
    <3>1. /\ c.err = "ok" /\ c.vol = t /\ c.ino = RootIno /\ c.type = "dir" /\ c.pvol = n.vol /\ c.pino = n.ino
          /\ c.leaf = t /\ c.exists = (RootIno # 0) /\ c.isMnt = isMnt /\ c.isMount = inMnt /\ c.depth = n.depth + 1
      BY <2>3
    <3>2. c.exists
      <4>1. RootIno # 0
        BY DEF RootIno
      <4> QED
        BY <3>1, <4>1
    <3>3. ~ c.isMnt /\ c.isMount
      BY <1>10, <2>2, <3>1
    <3>4. c.depth = 2
      BY <2>1, <3>1
    <3> QED
      BY <2>1, <3>1, <3>2, <3>3, <3>4
  <2>5. c \in Nodes
    BY <1>2, <1>3, <1>7, <1>9, <1>10, <2>1, <2>3, ConstantsAre DEF Nodes
  <2>6. NodeOK(c)
    BY <1>5, <2>1, <2>4, ConstantsAre DEF NodeOK
  <2> QED
    BY <2>1, <2>4, <2>5, <2>6 DEF c
<1>11. CASE ~ inMnt
  <2>1. isMnt => n.ino = RootIno /\ n.vol = Root /\ n.depth = 0 /\ i = MntIno
    <3>1. isMnt => n.vol = Root /\ n.depth = 0 /\ t = Mnt
      OBVIOUS
    <3>2. n.vol = Root /\ n.depth = 0 => n.ino = RootIno
      BY DEF NodeOK
    <3> QED
      BY <3>1, <3>2 DEF Sound
  <2>2. n.ino = RootIno /\ n.vol = Root /\ t = Mnt => isMnt
    BY <1>6, ConstantsAre DEF Sound
  <2> DEFINE kind == IF i = 0 THEN "none" ELSE Kind(fs, n.vol, i)
  <2>3. kind \in {"none", "free", "file", "dir"}
    BY <1>4
  <2> HIDE DEF isMnt, inMnt, i, c
  <2>4. c = [err |-> "ok", vol |-> n.vol, ino |-> i, type |-> kind, pvol |-> n.vol, pino |-> n.ino, leaf |-> t,
             exists |-> i # 0, isMnt |-> isMnt, isMount |-> inMnt, depth |-> n.depth + 1]
    BY <1>11 DEF Child, c, isMnt, inMnt, i, To, kind, Kind
  <2> HIDE DEF kind
  <2>5. /\ c.err = "ok" /\ c.vol = n.vol /\ c.ino = i /\ c.type = kind /\ c.pvol = n.vol /\ c.pino = n.ino /\ c.leaf = t
        /\ (c.exists <=> i # 0) /\ (c.isMnt <=> isMnt) /\ ~ c.isMount /\ c.depth = n.depth + 1
    BY <1>7, <1>11, <2>4
  <2>6. c \in Nodes
    BY <1>2, <1>3, <1>4, <1>7, <1>9, <2>3, <2>4, ConstantsAre DEF Nodes
  <2>7. NodeOK(c)
    BY <1>2, <1>3, <1>5, <2>1, <2>2, <2>5, ConstantsAre DEF NodeOK, i, kind
  <2> QED
    BY <1>11, <2>5, <2>6, <2>7 DEF c, inMnt
<1> QED
  BY <1>10, <1>11

LEMMA RootNode ==
  ASSUME ConstantsOK, Sound(fs)
  PROVE  AtRoot \in Nodes /\ NodeOK(AtRoot) /\ AtRoot.err = "ok" /\ AtRoot.exists /\ AtRoot.type = "dir"
         /\ AtRoot.vol = Root /\ AtRoot.ino = RootIno /\ AtRoot.pino = 0
<1>1. 0 \in 0 .. Inodes /\ RootIno \in 0 .. Inodes /\ Root \in Volume /\ RootIno # 0
  BY ConstantsAre
<1>2. AtRoot \in Nodes
  BY <1>1 DEF AtRoot, Nodes
<1>3. NodeOK(AtRoot)
  BY <1>1 DEF AtRoot, NodeOK
<1> QED
  BY <1>2, <1>3 DEF AtRoot

LEMMA StepIs ==
  ASSUME ConstantsOK, Sound(fs), mounts \subseteq Vol, NEW n \in Nodes, NodeOK(n), NEW t \in Tok
  PROVE  /\ Step(n, t) \in Nodes /\ NodeOK(Step(n, t))
         /\ Step(n, t).err = "ok" => n.err = "ok" /\ n.exists /\ n.type = "dir" /\ Step(n, t) = Child(n, t)
<1>1. CASE n.err # "ok"
  BY <1>1 DEF Step
<1>2. ASSUME NEW e \in {"noent", "notdir"}
      PROVE  [n EXCEPT !.err = e] \in Nodes /\ NodeOK([n EXCEPT !.err = e]) /\ [n EXCEPT !.err = e].err # "ok"
  <2> DEFINE m == [n EXCEPT !.err = e]
  <2>1. m \in Nodes /\ m.err = e
    BY DEF Nodes
  <2>2. /\ m.vol = n.vol /\ m.ino = n.ino /\ m.type = n.type /\ m.pvol = n.pvol /\ m.pino = n.pino /\ m.leaf = n.leaf
        /\ m.exists = n.exists /\ m.isMnt = n.isMnt /\ m.isMount = n.isMount /\ m.depth = n.depth
    BY DEF Nodes
  <2> HIDE DEF m
  <2>3. NodeOK(m)
    BY <2>2 DEF NodeOK
  <2> QED
    BY <2>1, <2>3 DEF m
<1>3. CASE n.err = "ok" /\ ~ n.exists
  BY <1>2, <1>3 DEF Step
<1>4. CASE n.err = "ok" /\ n.exists /\ n.type # "dir"
  BY <1>2, <1>4 DEF Step
<1>5. CASE n.err = "ok" /\ n.exists /\ n.type = "dir"
  BY <1>5, ChildIs DEF Step
<1> QED
  BY <1>1, <1>3, <1>4, <1>5

LEMMA ResolveIs ==
  ASSUME ConstantsOK, Sound(fs), mounts \subseteq Vol, NEW p \in Seq(Tok)
  PROVE  \E N \in [0 .. Len(p) -> Nodes] :
           /\ N[0] = AtRoot /\ Resolve(p) = N[Len(p)]
           /\ \A i \in 1 .. Len(p) : N[i] = Step(N[i - 1], p[i])
           /\ \A i \in 0 .. Len(p) : NodeOK(N[i])
<1> DEFINE L == Len(p)
           IsIt(N, k) == N = [i \in 0 .. k |-> IF i = 0 THEN AtRoot ELSE Step(N[i - 1], p[i])]
           T == {k \in Nat : \E N : IsIt(N, k)}
<1>1. L \in Nat /\ \A i \in 1 .. L : p[i] \in Tok
  BY SMT
<1>2. 0 \in T
  <2> DEFINE N == [i \in 0 .. 0 |-> AtRoot]
  <2>1. IsIt(N, 0)
    OBVIOUS
  <2> QED
    BY <2>1
<1>3. ASSUME NEW k \in T PROVE k + 1 \in T
  <2>1. PICK N : IsIt(N, k)
    BY <1>3
  <2> DEFINE M == [i \in 0 .. k + 1 |-> IF i <= k THEN N[i] ELSE Step(N[k], p[k + 1])]
  <2>2. k \in Nat
    BY <1>3
  <2>3. ASSUME NEW i \in 0 .. k + 1 PROVE M[i] = IF i = 0 THEN AtRoot ELSE Step(M[i - 1], p[i])
    <3>1. CASE i = 0
      BY <2>1, <2>2, <3>1
    <3>2. CASE i # 0 /\ i <= k
      <4>1. M[i] = N[i] /\ M[i - 1] = N[i - 1] /\ i \in 0 .. k
        BY <2>2, <2>3, <3>2
      <4>2. N[i] = Step(N[i - 1], p[i])
        BY <2>1, <3>2, <4>1
      <4> QED
        BY <3>2, <4>1, <4>2
    <3>3. CASE i = k + 1
      <4>1. M[i] = Step(N[k], p[k + 1]) /\ M[i - 1] = N[k] /\ i # 0
        BY <2>2, <2>3, <3>3
      <4> QED
        BY <3>3, <4>1
    <3> QED
      BY <2>2, <2>3, <3>1, <3>2, <3>3
  <2>4. DOMAIN M = 0 .. k + 1 /\ M = [i \in 0 .. k + 1 |-> M[i]]
    OBVIOUS
  <2> HIDE DEF M
  <2>5. IsIt(M, k + 1)
    BY <2>3, <2>4
  <2> HIDE DEF IsIt
  <2> QED
    BY <2>2, <2>5
<1>4. T = Nat
  <2>1. T \in SUBSET Nat
    OBVIOUS
  <2> HIDE DEF T
  <2> QED
    BY <1>2, <1>3, <2>1, NatSet
<1>5. \E N : IsIt(N, L)
  BY <1>1, <1>4
<1> DEFINE N == CHOOSE f : IsIt(f, L)
<1>6. Resolve(p) = N[L]
  BY DEF Resolve
<1>7. IsIt(N, L)
  <2> HIDE DEF IsIt
  <2> QED
    BY <1>5
<1> HIDE DEF N
<1>8. N[0] = AtRoot /\ \A i \in 1 .. L : N[i] = Step(N[i - 1], p[i])
  <2>1. \A i \in 0 .. L : N[i] = IF i = 0 THEN AtRoot ELSE Step(N[i - 1], p[i])
    BY <1>7
  <2> QED
    BY <1>1, <2>1
<1>9. DOMAIN N = 0 .. L /\ N = [i \in 0 .. L |-> N[i]]
  <2>1. DOMAIN N = 0 .. L
    BY <1>7
  <2>2. \A i \in 0 .. L : N[i] = IF i = 0 THEN AtRoot ELSE Step(N[i - 1], p[i])
    BY <1>7
  <2>3. [i \in 0 .. L |-> N[i]] = [i \in 0 .. L |-> IF i = 0 THEN AtRoot ELSE Step(N[i - 1], p[i])]
    BY <2>2
  <2> QED
    BY <1>7, <2>1, <2>3
<1> HIDE DEF IsIt, L
<1> DEFINE S == {k \in Nat : k <= L => N[k] \in Nodes /\ NodeOK(N[k])}
<1>10. 0 \in S
  BY <1>8, RootNode
<1>11. ASSUME NEW k \in S PROVE k + 1 \in S
  <2>1. CASE k + 1 <= L
    <3>1. k \in Nat /\ k <= L /\ k + 1 \in 1 .. L /\ (k + 1) - 1 = k
      BY <1>1, <2>1
    <3>2. N[k] \in Nodes /\ NodeOK(N[k])
      BY <1>11, <3>1
    <3>3. N[k + 1] = Step(N[k], p[k + 1]) /\ p[k + 1] \in Tok
      BY <1>1, <1>8, <3>1 DEF L
    <3>4. N[k + 1] \in Nodes /\ NodeOK(N[k + 1])
      BY <3>2, <3>3, StepIs
    <3> QED
      BY <3>1, <3>4
  <2>2. CASE ~ (k + 1 <= L)
    BY <1>11, <2>2
  <2> QED
    BY <2>1, <2>2
<1>12. S = Nat
  <2>1. S \in SUBSET Nat
    OBVIOUS
  <2> HIDE DEF S
  <2> QED
    BY <1>10, <1>11, <2>1, NatSet
<1>13. \A i \in 0 .. L : N[i] \in Nodes /\ NodeOK(N[i])
  BY <1>1, <1>12
<1>14. N \in [0 .. L -> Nodes]
  BY <1>9, <1>13
<1> QED
  BY <1>6, <1>8, <1>13, <1>14 DEF L

LEMMA PathNode ==
  ASSUME ConstantsOK, Sound(fs), mounts \subseteq Vol, NEW p \in Seq(Tok)
  PROVE  Resolve(p) \in Nodes /\ NodeOK(Resolve(p))
<1>1. Len(p) \in Nat /\ Len(p) \in 0 .. Len(p)
  BY SMT
<1> QED
  BY <1>1, ResolveIs

(* The walk down a path that leads somewhere: each node but the last is a directory,
   and the next is what it holds under the next name. *)
Walk(N, p) ==
  /\ N \in [0 .. Len(p) -> Nodes] /\ N[0] = AtRoot
  /\ \A i \in 0 .. Len(p) : NodeOK(N[i])
  /\ \A i \in 1 .. Len(p) :
       /\ N[i - 1].exists /\ N[i - 1].type = "dir"
       /\ N[i].pino = N[i - 1].ino /\ N[i].pvol = N[i - 1].vol /\ N[i].leaf = p[i]
       /\ N[i].isMount <=> N[i - 1].isMnt /\ p[i] \in mounts
       /\ N[i].isMount => N[i].vol = p[i]

LEMMA WalkIs ==
  ASSUME ConstantsOK, Sound(fs), mounts \subseteq Vol, NEW p \in Seq(Tok), Resolve(p).err = "ok"
  PROVE  \E N : Walk(N, p) /\ N[Len(p)] = Resolve(p)
<1> DEFINE L == Len(p)
<1>1. L \in Nat /\ \A i \in 1 .. L : p[i] \in Tok
  BY SMT
<1>2. PICK N \in [0 .. L -> Nodes] :
        /\ N[0] = AtRoot /\ Resolve(p) = N[L]
        /\ \A i \in 1 .. L : N[i] = Step(N[i - 1], p[i])
        /\ \A i \in 0 .. L : NodeOK(N[i])
  BY ResolveIs
<1> HIDE DEF L
<1>3. ASSUME NEW i \in 1 .. L, N[i].err = "ok"
      PROVE  /\ N[i - 1].err = "ok" /\ N[i - 1].exists /\ N[i - 1].type = "dir"
             /\ N[i].pino = N[i - 1].ino /\ N[i].pvol = N[i - 1].vol /\ N[i].leaf = p[i]
             /\ N[i].isMount <=> N[i - 1].isMnt /\ p[i] \in mounts
             /\ N[i].isMount => N[i].vol = p[i]
  <2> DEFINE n == N[i - 1]
  <2>1. n \in Nodes /\ NodeOK(n) /\ p[i] \in Tok /\ N[i] = Step(n, p[i])
    BY <1>1, <1>2
  <2> HIDE DEF n
  <2>2. n.err = "ok" /\ n.exists /\ n.type = "dir" /\ N[i] = Child(n, p[i])
    BY <1>3, <2>1, StepIs
  <2>3. /\ N[i].pino = n.ino /\ N[i].pvol = n.vol /\ N[i].leaf = p[i]
        /\ N[i].isMount <=> n.isMnt /\ p[i] \in mounts
        /\ N[i].isMount => N[i].vol = p[i]
    BY <2>1, <2>2, ChildIs
  <2> QED
    BY <2>2, <2>3 DEF n
<1> DEFINE S == {k \in Nat : k <= L => N[L - k].err = "ok"}
<1>4. 0 \in S
  BY <1>1, <1>2
<1>5. ASSUME NEW k \in S PROVE k + 1 \in S
  <2> SUFFICES ASSUME k + 1 <= L PROVE N[L - (k + 1)].err = "ok"
    OBVIOUS
  <2>1. L - k \in 1 .. L /\ (L - k) - 1 = L - (k + 1) /\ k <= L
    BY <1>1
  <2>2. N[L - k].err = "ok"
    BY <1>5, <2>1
  <2> QED
    BY <1>3, <2>1, <2>2
<1>6. S = Nat
  <2>1. S \in SUBSET Nat
    OBVIOUS
  <2> HIDE DEF S
  <2> QED
    BY <1>4, <1>5, <2>1, NatSet
<1>7. ASSUME NEW i \in 1 .. L PROVE N[i].err = "ok"
  <2>1. L - i \in Nat /\ L - i <= L /\ L - (L - i) = i
    BY <1>1
  <2>2. L - i \in S
    BY <1>6, <2>1
  <2> QED
    BY <2>1, <2>2
<1>8. Walk(N, p)
  BY <1>2, <1>3, <1>7 DEF Walk, L
<1> QED
  BY <1>2, <1>8 DEF L

(* A node that a walk comes to by a step was in the directory the walk came from. *)
LEMMA WalkStep ==
  ASSUME ConstantsOK, Sound(fs), mounts \subseteq Vol, NEW p \in Seq(Tok), NEW N, Walk(N, p), NEW k \in 1 .. Len(p)
  PROVE  /\ N[k] \in Nodes /\ N[k - 1] \in Nodes /\ k - 1 \in 0 .. Len(p) /\ p[k] \in Tok
         /\ N[k].pino = N[k - 1].ino /\ N[k].pvol = N[k - 1].vol /\ N[k].leaf = p[k]
         /\ N[k].pino \in Ino /\ N[k].pvol \in Volume
         /\ N[k].isMount => N[k].vol = p[k] /\ N[k].vol \in Vol /\ N[k].ino = RootIno /\ N[k].pvol = Root /\ N[k].pino = MntIno
         /\ ~ N[k].isMount =>
              /\ N[k].vol = N[k].pvol /\ N[k].ino = To(fs, N[k].pvol, N[k].pino, p[k])
              /\ N[k].ino # RootIno
<1>1. k \in 0 .. Len(p) /\ k - 1 \in 0 .. Len(p) /\ p[k] \in Tok
  BY SMT
<1>2. /\ N[k] \in Nodes /\ N[k - 1] \in Nodes /\ NodeOK(N[k]) /\ NodeOK(N[k - 1]) /\ N[k - 1].exists
      /\ N[k].pino = N[k - 1].ino /\ N[k].pvol = N[k - 1].vol /\ N[k].leaf = p[k]
      /\ N[k].isMount => N[k].vol = p[k]
  BY <1>1 DEF Walk
<1>3. N[k].pino # 0
  BY <1>2 DEF NodeOK
<1>4. N[k].pino \in Ino /\ N[k].pvol \in Volume
  <2>1. N[k].pino \in 0 .. Inodes /\ N[k].pvol \in Volume
    BY <1>2 DEF Nodes
  <2> QED
    BY <1>3, <2>1, ConstantsAre
<1>5. N[k].isMount => N[k].vol \in Vol /\ N[k].ino = RootIno /\ N[k].pvol = Root /\ N[k].pino = MntIno
  BY <1>2 DEF NodeOK
<1>6. ~ N[k].isMount => N[k].vol = N[k].pvol /\ N[k].ino = To(fs, N[k].pvol, N[k].pino, p[k])
  BY <1>2, <1>3 DEF NodeOK
<1>7. To(fs, N[k].pvol, N[k].pino, p[k]) # RootIno
  <2>1. \A v \in Volume, d \in Ino, t \in Tok : To(fs, v, d, t) # 0 => To(fs, v, d, t) # RootIno
    BY DEF Sound
  <2> QED
    BY <1>1, <1>4, <2>1, ConstantsAre
<1> QED
  BY <1>1, <1>2, <1>4, <1>5, <1>6, <1>7

(* What is found at the end of two walks was found the same way. *)
LEMMA SameNode ==
  ASSUME ConstantsOK, Sound(fs), mounts \subseteq Vol, NEW p \in Seq(Tok), NEW q \in Seq(Tok),
         NEW M, Walk(M, p), NEW N, Walk(N, q)
  PROVE  \A k \in 0 .. Len(p), l \in 0 .. Len(q) :
           M[k].vol = N[l].vol /\ M[k].ino = N[l].ino /\ M[k].ino # 0 => k = l /\ \A i \in 1 .. k : p[i] = q[i]
<1> DEFINE Same(k, l) == M[k].vol = N[l].vol /\ M[k].ino = N[l].ino /\ M[k].ino # 0
           S == {k \in Nat : k <= Len(p) =>
                   \A l \in 0 .. Len(q) : Same(k, l) => k = l /\ \A i \in 1 .. k : p[i] = q[i]}
<1>1. Len(p) \in Nat /\ Len(q) \in Nat /\ Root \notin Vol /\ MntIno # 0 /\ RootIno # 0
  BY ConstantsAre
<1>2. M[0].vol = Root /\ M[0].ino = RootIno /\ N[0].vol = Root /\ N[0].ino = RootIno
  BY DEF Walk, AtRoot
<1>3. ASSUME NEW l \in 0 .. Len(q), N[l].vol = Root, N[l].ino = RootIno PROVE l = 0
  <2> SUFFICES ASSUME l # 0 PROVE FALSE
    OBVIOUS
  <2>1. l \in 1 .. Len(q)
    BY <1>1
  <2>2. N[l].isMount => N[l].vol \in Vol
    BY <2>1, WalkStep
  <2>3. ~ N[l].isMount => N[l].ino # RootIno
    BY <2>1, WalkStep
  <2> QED
    BY <1>1, <1>3, <2>2, <2>3
<1>4. ASSUME NEW k \in 0 .. Len(p), M[k].vol = Root, M[k].ino = RootIno PROVE k = 0
  <2> SUFFICES ASSUME k # 0 PROVE FALSE
    OBVIOUS
  <2>1. k \in 1 .. Len(p)
    BY <1>1
  <2>2. M[k].isMount => M[k].vol \in Vol
    BY <2>1, WalkStep
  <2>3. ~ M[k].isMount => M[k].ino # RootIno
    BY <2>1, WalkStep
  <2> QED
    BY <1>1, <1>4, <2>2, <2>3
<1>5. 0 \in S
  BY <1>1, <1>2, <1>3
<1>6. ASSUME NEW k \in S PROVE k + 1 \in S
  <2> SUFFICES ASSUME k + 1 <= Len(p), NEW l \in 0 .. Len(q), Same(k + 1, l)
               PROVE  k + 1 = l /\ \A i \in 1 .. k + 1 : p[i] = q[i]
    OBVIOUS
  <2>1. k \in Nat /\ k + 1 \in 1 .. Len(p) /\ (k + 1) - 1 = k /\ k \in 0 .. Len(p) /\ k + 1 \in 0 .. Len(p)
    BY <1>1
  <2>2. l \in 1 .. Len(q) /\ l - 1 \in 0 .. Len(q)
    <3>1. l # 0
      BY <1>2, <1>4, <2>1
    <3> QED
      BY <1>1, <3>1
  <2> DEFINE m == M[k + 1]
             n == N[l]
  <2>3. /\ m.pino = M[k].ino /\ m.pvol = M[k].vol /\ m.pino \in Ino /\ m.pvol \in Volume /\ p[k + 1] \in Tok
        /\ m.isMount => m.vol = p[k + 1] /\ m.ino = RootIno /\ m.pvol = Root /\ m.pino = MntIno
        /\ ~ m.isMount => m.vol = m.pvol /\ m.ino = To(fs, m.pvol, m.pino, p[k + 1]) /\ m.ino # RootIno
    BY <2>1, WalkStep
  <2>4. /\ n.pino = N[l - 1].ino /\ n.pvol = N[l - 1].vol /\ n.pino \in Ino /\ n.pvol \in Volume /\ q[l] \in Tok
        /\ n.isMount => n.vol = q[l] /\ n.ino = RootIno /\ n.pvol = Root /\ n.pino = MntIno
        /\ ~ n.isMount => n.vol = n.pvol /\ n.ino = To(fs, n.pvol, n.pino, q[l]) /\ n.ino # RootIno
    BY <2>2, WalkStep
  <2>5. m.vol = n.vol /\ m.ino = n.ino /\ m.ino # 0
    OBVIOUS
  <2> HIDE DEF m, n
  <2>6. m.pvol = n.pvol /\ m.pino = n.pino /\ p[k + 1] = q[l]
    <3>1. CASE m.isMount
      BY <2>3, <2>4, <2>5, <3>1
    <3>2. CASE ~ m.isMount
      <4>1. ~ n.isMount
        BY <2>3, <2>4, <2>5, <3>2
      <4>2. /\ m.pvol = n.pvol /\ To(fs, m.pvol, m.pino, p[k + 1]) # 0
            /\ To(fs, m.pvol, m.pino, p[k + 1]) = To(fs, m.pvol, n.pino, q[l])
        BY <2>3, <2>4, <2>5, <3>2, <4>1
      <4>3. m.pino = n.pino /\ p[k + 1] = q[l]
        BY <2>3, <2>4, <4>2 DEF Sound
      <4> QED
        BY <4>2, <4>3
    <3> QED
      BY <3>1, <3>2
  <2>7. Same(k, l - 1)
    BY <2>3, <2>4, <2>6, ConstantsAre
  <2> HIDE DEF Same
  <2>8. k = l - 1 /\ \A i \in 1 .. k : p[i] = q[i]
    BY <1>6, <2>1, <2>2, <2>7
  <2> QED
    BY <2>1, <2>2, <2>6, <2>8
<1>7. S = Nat
  <2>1. S \in SUBSET Nat
    OBVIOUS
  <2> HIDE DEF S
  <2> QED
    BY <1>5, <1>6, <2>1, NatSet
<1> QED
  BY <1>1, <1>7

(* Below /mnt there is something only in what is mounted there. *)
LEMMA BelowMnt ==
  ASSUME ConstantsOK, Sound(fs), mounts \subseteq Vol, NEW p \in Seq(Tok), Len(p) >= 2, p[1] = Mnt,
         Resolve(p).err = "ok", Resolve(p).exists
  PROVE  p[2] \in mounts
<1> SUFFICES ASSUME p[2] \notin mounts PROVE FALSE
  OBVIOUS
<1>1. PICK N : Walk(N, p) /\ N[Len(p)] = Resolve(p)
  BY WalkIs
<1>2. Len(p) \in Nat /\ Len(p) >= 2 /\ 1 \in 1 .. Len(p) /\ 2 \in 1 .. Len(p) /\ 1 - 1 = 0 /\ 2 - 1 = 1
  BY SMT
<1>3. N[1].pino = RootIno /\ N[1].pvol = Root /\ N[1].leaf = Mnt
  BY <1>1, <1>2 DEF Walk, AtRoot
<1>4. N[1].isMnt /\ N[1].vol = Root /\ N[1].ino = MntIno
  BY <1>1, <1>2, <1>3 DEF Walk, NodeOK
<1>5. ~ N[2].isMount
  BY <1>1, <1>2 DEF Walk
<1>6. N[2].ino = To(fs, Root, MntIno, p[2]) /\ p[2] \in Tok
  <2>1. /\ N[2].pino = N[2 - 1].ino /\ N[2].pvol = N[2 - 1].vol
        /\ N[2].ino = To(fs, N[2].pvol, N[2].pino, p[2]) /\ p[2] \in Tok
    BY <1>1, <1>2, <1>5, WalkStep
  <2> QED
    BY <1>2, <1>4, <2>1
<1>7. N[2].ino = 0
  BY <1>6 DEF Sound
<1>8. ~ N[2].exists
  BY <1>1, <1>2, <1>7 DEF Walk, NodeOK
<1>9. CASE Len(p) = 2
  BY <1>1, <1>8, <1>9
<1>10. CASE Len(p) # 2
  <2> DEFINE L == Len(p)
  <2>0. L \in Nat /\ L >= 2 /\ L # 2
    BY <1>2, <1>10
  <2> HIDE DEF L
  <2>1. 3 \in 1 .. L /\ 3 - 1 = 2
    BY <2>0
  <2> QED
    BY <1>1, <1>8, <2>1 DEF Walk, L
<1> QED
  BY <1>9, <1>10

-----------------------------------------------------------------------------
(* Every operation leaves the volumes sound. *)
IInv ==
  /\ Sound(fs)
  /\ Sensible => Grounded(fs)
  /\ mounts \subseteq Vol /\ IsFiniteSet(mounts) /\ Cardinality(mounts) <= Slots
  /\ cwd \in Seq(Tok) /\ Len(cwd) <= Deep
  /\ CwdMounted

(* A place in a directory that a name can be given to. *)
Spot(n) == n.pvol \in Volume /\ n.pino \in Ino /\ n.leaf \in Tok /\ Kind(fs, n.pvol, n.pino) = "dir"

LEMMA PathsAre ==
  ASSUME ConstantsOK, NEW p \in Paths
  PROVE  p \in Seq(Tok) /\ Len(p) <= Deep
<1>1. PICK n \in 0 .. Deep : p \in [1 .. n -> Tok]
  BY DEF Paths
<1>2. n \in Nat /\ n <= Deep
  BY ConstantsAre
<1>3. p \in Seq(Tok)
  BY <1>1, <1>2
<1>4. Len(p) = n
  BY <1>1, <1>2
<1> QED
  BY <1>2, <1>3, <1>4

LEMMA PlacesAre ==
  ASSUME ConstantsOK, NEW p \in Places
  PROVE  p \in Seq(Tok) /\ Len(p) <= Deep /\ Resolve(p).err = "ok"
<1>1. p \in Paths /\ Resolve(p).err = "ok"
  BY DEF Places
<1> QED
  BY <1>1, PathsAre

LEMMA SpotIs ==
  ASSUME ConstantsOK, Sound(fs), mounts \subseteq Vol, NEW n \in Nodes, NodeOK(n)
  PROVE  /\ n.pino # 0 => Spot(n)
         /\ ~ (n.exists /\ n.type = "dir") => Spot(n)
<1>1. n.pvol \in Volume /\ n.pino \in 0 .. Inodes
  BY DEF Nodes
<1>2. ASSUME n.pino # 0 PROVE Spot(n)
  <2>1. n.pino \in Ino
    BY <1>1, <1>2, ConstantsAre
  <2>2. n.leaf \in Tok /\ Kind(fs, n.pvol, n.pino) = "dir"
    BY <1>2 DEF NodeOK
  <2> QED
    BY <1>1, <2>1, <2>2 DEF Spot
<1>3. ASSUME n.pino = 0 PROVE n.exists /\ n.type = "dir"
  <2>1. n.ino = RootIno /\ n.type = "dir" /\ (n.exists <=> n.ino # 0)
    BY <1>3 DEF NodeOK
  <2> QED
    BY <2>1, ConstantsAre
<1> QED
  BY <1>2, <1>3

(* A path that is not empty ends in a directory's entry. *)
LEMMA LongPath ==
  ASSUME ConstantsOK, Sound(fs), mounts \subseteq Vol, NEW p \in Seq(Tok), Len(p) >= 1, Resolve(p).err = "ok"
  PROVE  Resolve(p).pino # 0
<1> DEFINE L == Len(p)
<1>1. L \in Nat /\ L >= 1 /\ L - 1 \in 0 .. L /\ L \in 1 .. L
  BY SMT
<1>2. PICK N \in [0 .. L -> Nodes] :
        /\ N[0] = AtRoot /\ Resolve(p) = N[L]
        /\ \A i \in 1 .. L : N[i] = Step(N[i - 1], p[i])
        /\ \A i \in 0 .. L : NodeOK(N[i])
  BY ResolveIs
<1>3. p[L] \in Tok
  BY <1>1
<1> DEFINE n == N[L - 1]
<1>4. n \in Nodes /\ NodeOK(n) /\ N[L] = Step(n, p[L])
  BY <1>1, <1>2
<1>5. Step(n, p[L]).err = "ok"
  BY <1>2, <1>4
<1> HIDE DEF n
<1>6. n.err = "ok" /\ n.exists /\ n.type = "dir" /\ Step(n, p[L]) = Child(n, p[L])
  BY <1>3, <1>4, <1>5, StepIs
<1>7. Child(n, p[L]).pino = n.ino
  BY <1>3, <1>4, <1>6, ChildIs
<1>8. n.ino # 0
  BY <1>4, <1>6 DEF NodeOK
<1> QED
  BY <1>2, <1>4, <1>6, <1>7, <1>8

LEMMA StatIs ==
  ASSUME ConstantsOK, Sound(fs), mounts \subseteq Vol, NEW p \in Seq(Tok), NEW n, n = Stat(p), n.err = "ok"
  PROVE  n = Resolve(p) /\ n \in Nodes /\ NodeOK(n) /\ n.exists
<1> DEFINE r == Resolve(p)
<1>1. r \in Nodes /\ NodeOK(r)
  BY PathNode
<1>2. n = IF r.err = "ok" /\ ~ r.exists THEN [r EXCEPT !.err = "noent"] ELSE r
  BY DEF Stat
<1> HIDE DEF r
<1>3. [r EXCEPT !.err = "noent"].err = "noent"
  BY <1>1 DEF Nodes
<1>4. ~ (r.err = "ok" /\ ~ r.exists)
  BY <1>2, <1>3
<1>5. n = r
  BY <1>2, <1>4
<1>6. n.exists
  BY <1>4, <1>5
<1> QED
  BY <1>1, <1>5, <1>6 DEF r

(* What may be removed or moved is an entry of a directory, and not /mnt. *)
LEMMA Removable ==
  ASSUME ConstantsOK, Sound(fs), mounts \subseteq Vol, NEW n \in Nodes, NodeOK(n), ~ Permanent(n)
  PROVE  /\ Spot(n) /\ ~ (n.pvol = Root /\ n.pino = RootIno /\ n.leaf = Mnt)
         /\ n.vol = n.pvol /\ n.ino = To(fs, n.pvol, n.pino, n.leaf)
         /\ n.type = "file" => n.ino \in Ino /\ Kind(fs, n.vol, n.ino) = "file"
<1>1. ~ n.isMnt /\ ~ n.isMount /\ n.ino # RootIno
  BY DEF Permanent
<1>2. n.pino # 0
  BY <1>1 DEF NodeOK
<1>3. Spot(n)
  BY <1>2, SpotIs
<1>4. ~ (n.pvol = Root /\ n.pino = RootIno /\ n.leaf = Mnt)
  BY <1>1 DEF NodeOK
<1>5. /\ n.vol = n.pvol /\ n.ino = To(fs, n.pvol, n.pino, n.leaf)
      /\ n.type = IF n.ino = 0 THEN "none" ELSE Kind(fs, n.vol, n.ino)
  BY <1>1, <1>2 DEF NodeOK
<1>6. n.ino \in 0 .. Inodes
  BY DEF Nodes
<1>7. n.type = "file" => n.ino \in Ino /\ Kind(fs, n.vol, n.ino) = "file"
  BY <1>5, <1>6, ConstantsAre
<1> QED
  BY <1>3, <1>4, <1>5, <1>7

(* A file is never a mount point or a root. *)
LEMMA FileNode ==
  ASSUME ConstantsOK, Sound(fs), mounts \subseteq Vol, NEW n \in Nodes, NodeOK(n), n.type = "file"
  PROVE  n.vol \in Volume /\ n.ino \in Ino /\ Kind(fs, n.vol, n.ino) = "file" /\ fs[n.vol][n.ino].text \in Text
         /\ n.pino # 0
<1>1. n.pino # 0 /\ ~ n.isMount
  BY DEF NodeOK
<1>2. n.type = IF n.ino = 0 THEN "none" ELSE Kind(fs, n.vol, n.ino)
  BY <1>1 DEF NodeOK
<1>3. n.ino \in 0 .. Inodes /\ n.vol \in Volume
  BY DEF Nodes
<1>4. n.ino \in Ino /\ Kind(fs, n.vol, n.ino) = "file"
  BY <1>2, <1>3, ConstantsAre
<1>5. fs \in Tables
  BY DEF Sound
<1>6. Words(fs, n.vol, n.ino) \in Text
  BY <1>3, <1>4, <1>5, InodeIs
<1> QED
  BY <1>1, <1>3, <1>4, <1>6 DEF Words

(* A path leads through the end of another. *)
Through(q, p) == Len(p) < Len(q) /\ \A i \in 1 .. Len(p) : p[i] = q[i]

(* The directories above the end of a path: they hold what is above each of them, and
   not a file, nor what only a longer path than this goes through. *)
LEMMA Above ==
  ASSUME ConstantsOK, Sound(fs), mounts \subseteq Vol, NEW from \in Seq(Tok), NEW q \in Seq(Tok), Len(q) >= 1,
         Resolve(from).err = "ok", Resolve(q).err = "ok",
         NEW a, a = Resolve(from), a.exists, ~ Permanent(a), NEW b, b = Resolve(q), a.vol = b.pvol,
         a.type = "dir" => ~ Through(q, from)
  PROVE  \E A \in SUBSET Ino : b.pino \in A /\ a.ino \notin A /\ Upward(fs, b.pvol, A)
<1>1. PICK M : Walk(M, from) /\ M[Len(from)] = a
  BY WalkIs
<1>2. PICK N : Walk(N, q) /\ N[Len(q)] = b
  BY WalkIs
<1> DEFINE L == Len(q)
           K == Len(from)
           v == b.pvol
           A == {j \in Ino : \E k \in 0 .. L - 1 : N[k].vol = v /\ N[k].ino = j}
<1>3. L \in Nat /\ K \in Nat /\ L >= 1 /\ L - 1 \in 0 .. L - 1 /\ L \in 1 .. L /\ K \in 0 .. K
  BY SMT
<1>4. ASSUME NEW k \in 0 .. L - 1
      PROVE  k \in 0 .. L /\ N[k] \in Nodes /\ NodeOK(N[k]) /\ N[k].exists /\ N[k].type = "dir"
  <2>1. k \in 0 .. L /\ k + 1 \in 1 .. L /\ (k + 1) - 1 = k
    BY <1>3
  <2> QED
    BY <1>2, <2>1 DEF Walk
<1>5. b.pino \in A
  <2>1. b.pino = N[L - 1].ino /\ b.pvol = N[L - 1].vol /\ b.pino \in Ino
    BY <1>2, <1>3, WalkStep
  <2> QED
    BY <1>3, <2>1
<1>6. a \in Nodes /\ NodeOK(a) /\ a.ino # 0 /\ a.ino # RootIno /\ ~ a.isMount
  <2>1. a \in Nodes /\ NodeOK(a)
    BY PathNode
  <2> QED
    BY <2>1 DEF Permanent, NodeOK
<1>7. ASSUME a.ino \in A PROVE FALSE
  <2>1. PICK k \in 0 .. L - 1 : N[k].vol = v /\ N[k].ino = a.ino
    BY <1>7
  <2> HIDE DEF L, K, A
  <2>2. k \in 0 .. L /\ M[K].vol = N[k].vol /\ M[K].ino = N[k].ino /\ M[K].ino # 0
    BY <1>1, <1>4, <1>6, <2>1 DEF K
  <2>3. K = k /\ \A i \in 1 .. K : from[i] = q[i]
    BY <1>1, <1>2, <1>3, <2>2, SameNode DEF K, L
  <2>4. K < L
    BY <1>3, <2>1, <2>3
  <2>5. a.type # "dir"
    BY <2>3, <2>4 DEF K, L, Through
  <2>6. a.pino # 0 /\ a.type = Kind(fs, a.vol, a.ino)
    BY <1>6 DEF NodeOK
  <2>7. /\ N[k] \in Nodes /\ NodeOK(N[k]) /\ N[k].type = "dir" /\ N[k].ino # 0 /\ N[k].ino # RootIno
        /\ N[k].vol = a.vol /\ N[k].ino = a.ino
    BY <1>4, <1>6, <2>1
  <2>8. N[k].pino # 0 /\ ~ N[k].isMount
    BY <2>7 DEF NodeOK
  <2>9. N[k].type = Kind(fs, a.vol, a.ino)
    BY <2>7, <2>8 DEF NodeOK
  <2> QED
    BY <2>5, <2>6, <2>7, <2>9
<1>8. ASSUME NEW j \in A, NEW d \in Ino, NEW t \in Tok, To(fs, v, d, t) = j PROVE d \in A
  <2>1. PICK k \in 0 .. L - 1 : N[k].vol = v /\ N[k].ino = j
    BY <1>8
  <2>2. v \in Volume /\ j \in Ino /\ j # 0
    <3>1. v \in Volume
      BY PathNode DEF Nodes
    <3> QED
      BY <3>1, ConstantsAre
  <2>3. j # RootIno
    BY <1>8, <2>2 DEF Sound
  <2>4. k # 0
    BY <1>2, <2>1, <2>3 DEF Walk, AtRoot
  <2>5. k \in 1 .. L /\ k - 1 \in 0 .. L - 1
    BY <1>3, <2>1, <2>4
  <2> HIDE DEF v
  <2>6. /\ N[k].pino = N[k - 1].ino /\ N[k].pvol = N[k - 1].vol /\ N[k].pino \in Ino /\ q[k] \in Tok
        /\ N[k].vol = N[k].pvol /\ N[k].ino = To(fs, N[k].pvol, N[k].pino, q[k])
    <3>1. /\ N[k].pino = N[k - 1].ino /\ N[k].pvol = N[k - 1].vol /\ N[k].pino \in Ino /\ q[k] \in Tok
          /\ N[k].isMount => N[k].ino = RootIno
          /\ ~ N[k].isMount => N[k].vol = N[k].pvol /\ N[k].ino = To(fs, N[k].pvol, N[k].pino, q[k])
      BY <1>2, <2>5, WalkStep
    <3>2. ~ N[k].isMount
      BY <2>1, <2>3, <3>1
    <3> QED
      BY <3>1, <3>2
  <2>7. N[k].pvol = v /\ To(fs, v, N[k].pino, q[k]) = To(fs, v, d, t) /\ To(fs, v, d, t) # 0
    BY <1>8, <2>1, <2>2, <2>6
  <2>8. d = N[k].pino
    BY <2>2, <2>6, <2>7 DEF Sound
  <2> QED
    BY <2>5, <2>6, <2>7, <2>8
<1>9. A \in SUBSET Ino
  OBVIOUS
<1> HIDE DEF A
<1> QED
  BY <1>5, <1>7, <1>8, <1>9 DEF Upward

LEMMA FilePutGrounded ==
  ASSUME ConstantsOK, NEW f, Sound(f), Grounded(f), NEW v \in Volume, NEW d \in Ino, NEW t \in Tok, NEW x \in Text,
         Kind(f, v, d) = "dir", ~ (v = Root /\ d = MntIno), NEW r, r = FilePut(f, v, d, t, x)
  PROVE  Grounded(r.f)
<1>1. CASE r.err # "ok"
  <2>1. r.f = f
    BY <1>1, FilePutIs
  <2> QED
    BY <2>1
<1>2. CASE r.err = "ok"
  <2>1. PICK i \in Ino :
          /\ Kind(f, v, i) = "free"
          /\ \A w \in Volume, b \in Ino, u \in Tok :
               To(r.f, w, b, u) = IF w = v /\ b = d /\ u = t THEN i ELSE To(f, w, b, u)
    BY <1>2, FilePutIs
  <2>2. Named(f, r.f, v, d, t)
    BY <2>1 DEF Named
  <2> QED
    BY <2>2, NamedGrounded
<1> QED
  BY <1>1, <1>2

LEMMA UnlinkGrounded ==
  ASSUME ConstantsOK, NEW f, Sound(f), Grounded(f), NEW v \in Volume, NEW d \in Ino, NEW t \in Tok,
         ~ (v = Root /\ d = RootIno /\ t = Mnt), NEW r, r = Unlink(f, v, d, t)
  PROVE  Grounded(r.f)
<1>1. CASE r.err # "ok"
  <2>1. r.f = f
    BY <1>1, UnlinkIs
  <2> QED
    BY <2>1
<1>2. CASE r.err = "ok"
  <2>1. \A w \in Volume, b \in Ino, u \in Tok : To(r.f, w, b, u) \in {0, To(f, w, b, u)}
    BY <1>2, UnlinkIs
  <2> QED
    BY <2>1, LessGrounded
<1> QED
  BY <1>1, <1>2

LEMMA MkdirSound ==
  ASSUME ConstantsOK, Sound(fs), mounts \subseteq Vol, NEW p \in Places, Mkdir(p)
  PROVE  Sound(fs') /\ (Grounded(fs) => Grounded(fs'))
<1> DEFINE n == Resolve(p)
           r == MakeDir(fs, n.pvol, n.pino, n.leaf)
<1>1. n \in Nodes /\ NodeOK(n)
  BY PlacesAre, PathNode
<1>2. ~ n.exists /\ ~ InPhysicalMnt(n) /\ fs' = r.f
  BY DEF Mkdir, Change
<1>3. Spot(n)
  BY <1>1, <1>2, SpotIs
<1> DEFINE h == r.f
<1>4. Sound(h) /\ (h = fs \/ Named(fs, h, n.pvol, n.pino, n.leaf))
  BY <1>2, <1>3, MakeDirIs DEF Spot, InPhysicalMnt
<1> HIDE DEF h, n
<1>5. Grounded(fs) => Grounded(h)
  BY <1>3, <1>4, NamedGrounded DEF Spot
<1> QED
  BY <1>2, <1>4, <1>5 DEF h, n

LEMMA WriteSound ==
  ASSUME ConstantsOK, Sound(fs), mounts \subseteq Vol, NEW p \in Places, NEW x \in Text, Write(p, x)
  PROVE  Sound(fs') /\ (Grounded(fs) => Grounded(fs'))
<1> DEFINE n == Resolve(p)
           r == FilePut(fs, n.pvol, n.pino, n.leaf, x)
<1>1. n \in Nodes /\ NodeOK(n)
  BY PlacesAre, PathNode
<1>2. n.type # "dir" /\ ~ InPhysicalMnt(n) /\ fs' = r.f
  BY DEF Write, Change
<1>3. Spot(n)
  BY <1>1, <1>2, SpotIs
<1>4. Sound(r.f)
  BY <1>2, <1>3, FilePutIs DEF Spot, InPhysicalMnt
<1>5. Grounded(fs) => Grounded(r.f)
  BY <1>2, <1>3, FilePutGrounded DEF Spot, InPhysicalMnt
<1> QED
  BY <1>2, <1>4, <1>5

LEMMA RmSound ==
  ASSUME ConstantsOK, Sound(fs), mounts \subseteq Vol, NEW p \in Places, Rm(p)
  PROVE  Sound(fs') /\ (Grounded(fs) => Grounded(fs'))
<1> DEFINE n == Stat(p)
           r == Unlink(fs, n.pvol, n.pino, n.leaf)
<1>1. n.err = "ok" /\ ~ Permanent(n) /\ fs' = r.f
  BY DEF Rm, Change
<1>2. p \in Seq(Tok)
  BY PlacesAre
<1>3. n \in Nodes /\ NodeOK(n)
  BY <1>1, <1>2, StatIs
<1>4. Spot(n) /\ ~ (n.pvol = Root /\ n.pino = RootIno /\ n.leaf = Mnt)
  BY <1>1, <1>3, Removable
<1>5. Sound(r.f)
  BY <1>4, UnlinkIs DEF Spot
<1>6. Grounded(fs) => Grounded(r.f)
  BY <1>4, UnlinkGrounded DEF Spot
<1> QED
  BY <1>1, <1>5, <1>6

(* What can take a new name: the node of a path, in a directory that may hold it. *)
Holder(b) == b \in Nodes /\ NodeOK(b) /\ Spot(b) /\ ~ (b.pvol = Root /\ b.pino = MntIno)

LEMMA LookupIs ==
  ASSUME ConstantsOK, Sound(fs), mounts \subseteq Vol, NEW p \in Seq(Tok), NEW n, n = Lookup(p), n.err = "ok"
  PROVE  n = Resolve(p) /\ n \in Nodes /\ NodeOK(n) /\ Len(p) <= Deep
<1>1. [AtRoot EXCEPT !.err = "name"].err = "name"
  BY DEF AtRoot
<1>2. ~ (Len(p) > Deep)
  BY <1>1 DEF Lookup
<1>3. n = Resolve(p)
  BY <1>2 DEF Lookup
<1>4. Len(p) <= Deep
  BY <1>2, ConstantsAre
<1> QED
  BY <1>3, <1>4, PathNode

LEMMA TargetIs ==
  ASSUME ConstantsOK, Sound(fs), mounts \subseteq Vol, NEW to \in Seq(Tok), NEW leaf \in Tok,
         NEW b, b = Target(to, leaf), MayHold(b)
  PROVE  /\ Holder(b)
         /\ \E q \in {to, Append(to, leaf)} : b = Resolve(q) /\ Resolve(q).err = "ok" /\ Len(q) >= 1
<1> DEFINE n == Lookup(to)
<1>1. b.err = "ok" /\ ~ InPhysicalMnt(b)
  BY DEF MayHold
<1>2. CASE n.err = "ok" /\ n.exists /\ n.type = "dir"
  <2> DEFINE q == Append(to, leaf)
  <2>1. q \in Seq(Tok) /\ Len(q) >= 1
    BY SMT
  <2>2. b = Lookup(q)
    BY <1>2 DEF Target
  <2> HIDE DEF q, n
  <2>3. b = Resolve(q) /\ b \in Nodes /\ NodeOK(b)
    BY <1>1, <2>1, <2>2, LookupIs
  <2>4. b.pino # 0
    BY <1>1, <2>1, <2>3, LongPath
  <2>5. Holder(b)
    BY <1>1, <2>3, <2>4, SpotIs DEF Holder, InPhysicalMnt
  <2> QED
    BY <1>1, <2>1, <2>3, <2>5 DEF q
<1>3. CASE ~ (n.err = "ok" /\ n.exists /\ n.type = "dir")
  <2>1. b = n
    BY <1>3 DEF Target
  <2>2. n.err = "ok"
    BY <1>1, <2>1
  <2>3. b = Resolve(to) /\ b \in Nodes /\ NodeOK(b)
    BY <2>1, <2>2, LookupIs
  <2>4. ~ (b.exists /\ b.type = "dir")
    BY <1>3, <2>1, <2>2
  <2>5. Holder(b)
    BY <1>1, <2>3, <2>4, SpotIs DEF Holder, InPhysicalMnt
  <2>6. Len(to) >= 1
    <3>1. CASE to = <<>>
      <4>1. Resolve(to) = AtRoot
        BY <3>1, ResolveIs
      <4> QED
        BY <2>3, <2>4, <4>1 DEF AtRoot
    <3>2. CASE to # <<>>
      BY <3>2
    <3> QED
      BY <3>1, <3>2
  <2> QED
    BY <1>1, <2>3, <2>5, <2>6
<1> QED
  BY <1>2, <1>3

LEMMA CopyTargetIs ==
  ASSUME ConstantsOK, Sound(fs), mounts \subseteq Vol, NEW to \in Seq(Tok), NEW leaf \in Tok,
         NEW b, b = CopyTarget(to, leaf), MayHold(b)
  PROVE  Holder(b)
<1> DEFINE down(k) == to \o [i \in 1 .. k |-> leaf]
           isDir(k) == Lookup(down(k)).err = "ok" /\ Lookup(down(k)).exists /\ Lookup(down(k)).type = "dir"
           K == {k \in 0 .. Deep + 1 : ~ isDir(k)}
           L == Len(to)
<1>1. L \in Nat /\ Deep \in Nat
  BY ConstantsAre
<1>2. ASSUME NEW k \in 0 .. Deep + 1 PROVE down(k) \in Seq(Tok) /\ Len(down(k)) = L + k
  <2>1. k \in Nat
    BY <1>1
  <2>2. [i \in 1 .. k |-> leaf] \in Seq(Tok) /\ Len([i \in 1 .. k |-> leaf]) = k
    BY <2>1
  <2> QED
    BY <2>1, <2>2
<1>3. b = Lookup(down(Min(K)))
  BY DEF CopyTarget
<1> HIDE DEF down
<1>4. Deep + 1 \in K
  <2>1. Deep + 1 \in 0 .. Deep + 1
    BY <1>1
  <2>2. Len(down(Deep + 1)) > Deep
    BY <1>1, <1>2, <2>1
  <2>3. Lookup(down(Deep + 1)).err # "ok"
    BY <2>2 DEF Lookup, AtRoot
  <2> QED
    BY <2>1, <2>3
<1>5. K \in SUBSET Nat
  BY <1>1
<1>6. PICK k \in K : \A y \in K : k <= y
  BY <1>4, <1>5, Least
<1>7. Min(K) \in K
  BY <1>6 DEF Min
<1> DEFINE m == Min(K)
<1>8. m \in 0 .. Deep + 1 /\ ~ isDir(m) /\ b = Lookup(down(m))
  BY <1>3, <1>7
<1> HIDE DEF m, K
<1>9. b.err = "ok" /\ ~ InPhysicalMnt(b)
  BY DEF MayHold
<1>10. b \in Nodes /\ NodeOK(b)
  BY <1>2, <1>8, <1>9, LookupIs
<1>11. ~ (b.exists /\ b.type = "dir")
  BY <1>8, <1>9
<1> QED
  BY <1>9, <1>10, <1>11, SpotIs DEF Holder, InPhysicalMnt

LEMMA CpSound ==
  ASSUME ConstantsOK, Sound(fs), mounts \subseteq Vol, NEW p \in Places, NEW q \in Places, Cp(p, q)
  PROVE  Sound(fs') /\ (Grounded(fs) => Grounded(fs'))
<1> DEFINE a == Stat(p)
           b == CopyTarget(q, a.leaf)
           x == fs[a.vol][a.ino].text
           r == FilePut(fs, b.pvol, b.pino, b.leaf, x)
<1>1. a.err = "ok" /\ a.type = "file" /\ MayHold(b) /\ fs' = r.f
  BY DEF Cp, Change
<1>2. p \in Seq(Tok) /\ q \in Seq(Tok)
  BY PlacesAre
<1>3. a \in Nodes /\ NodeOK(a)
  BY <1>1, <1>2, StatIs
<1>4. x \in Text /\ a.pino # 0
  BY <1>1, <1>3, FileNode
<1>5. a.leaf \in Tok
  BY <1>3, <1>4 DEF NodeOK
<1>6. Holder(b)
  BY <1>1, <1>2, <1>5, CopyTargetIs
<1>7. Sound(r.f)
  BY <1>4, <1>6, FilePutIs DEF Holder, Spot
<1>8. Grounded(fs) => Grounded(r.f)
  BY <1>4, <1>6, FilePutGrounded DEF Holder, Spot
<1> QED
  BY <1>1, <1>7, <1>8

-----------------------------------------------------------------------------
(* A move: what it leaves of the tables, and which names lead where. *)
Kept(f, g) ==
  \A n \in Name : TextAt(f, n) # None /\ TextAt(g, n) = None =>
    \E m \in Name : TextAt(g, m) = TextAt(f, n) /\ Leads(g, m) \notin {0, Leads(f, m)}

LEMMA NameIs ==
  ASSUME ConstantsOK, NEW f \in Tables, NEW v \in Volume, NEW d \in Ino, NEW t \in Tok
  PROVE  /\ <<v, d, t>> \in Name /\ Leads(f, <<v, d, t>>) = To(f, v, d, t) /\ To(f, v, d, t) \in 0 .. Inodes
         /\ TextAt(f, <<v, d, t>>) = IF To(f, v, d, t) = 0 THEN None ELSE Words(f, v, To(f, v, d, t))
  BY InodeIs DEF Name, Leads, TextAt, To, Words

(* Enough to follow one name of the old table at a time. *)
LEMMA KeptBy ==
  ASSUME ConstantsOK, NEW f \in Tables, NEW g \in Tables,
         \A v \in Volume, d \in Ino, t \in Tok :
           To(f, v, d, t) # 0 /\ Words(f, v, To(f, v, d, t)) # None =>
             \/ To(g, v, d, t) # 0 /\ Words(g, v, To(g, v, d, t)) # None
             \/ \E w \in Volume, e \in Ino, u \in Tok :
                  /\ To(g, w, e, u) \notin {0, To(f, w, e, u)}
                  /\ Words(g, w, To(g, w, e, u)) = Words(f, v, To(f, v, d, t))
  PROVE  Kept(f, g)
<1> SUFFICES ASSUME NEW n \in Name, TextAt(f, n) # None, TextAt(g, n) = None
             PROVE  \E m \in Name : TextAt(g, m) = TextAt(f, n) /\ Leads(g, m) \notin {0, Leads(f, m)}
  BY DEF Kept
<1>1. PICK v \in Volume, d \in Ino, t \in Tok : n = <<v, d, t>>
  BY DEF Name
<1>2. To(f, v, d, t) # 0 /\ TextAt(f, n) = Words(f, v, To(f, v, d, t)) /\ Words(f, v, To(f, v, d, t)) # None
  BY <1>1, NameIs
<1>3. ~ (To(g, v, d, t) # 0 /\ Words(g, v, To(g, v, d, t)) # None)
  BY <1>1, NameIs
<1>4. PICK w \in Volume, e \in Ino, u \in Tok :
        /\ To(g, w, e, u) \notin {0, To(f, w, e, u)}
        /\ Words(g, w, To(g, w, e, u)) = Words(f, v, To(f, v, d, t))
  BY <1>2, <1>3
<1> DEFINE m == <<w, e, u>>
<1>5. m \in Name /\ Leads(g, m) = To(g, w, e, u) /\ Leads(f, m) = To(f, w, e, u)
  BY NameIs
<1>6. TextAt(g, m) = Words(g, w, To(g, w, e, u))
  BY <1>4, NameIs
<1> QED
  BY <1>2, <1>4, <1>5, <1>6

LEMMA NothingMoved ==
  ASSUME ConstantsOK, NEW f \in Tables
  PROVE  Kept(f, f)
  BY DEF Kept

LEMMA RenameKeeps ==
  ASSUME ConstantsOK, NEW f, Sound(f), NEW v \in Volume, NEW fd \in Ino, NEW ft \in Tok, NEW td \in Ino, NEW tt \in Tok,
         Kind(f, v, td) = "dir", ~ (v = Root /\ td = MntIno), ~ (v = Root /\ fd = RootIno /\ ft = Mnt),
         NEW g, g = Rename(f, v, fd, ft, td, tt).f
  PROVE  Sound(g) /\ Kept(f, g)
<1> DEFINE i == To(f, v, fd, ft)
           dst == To(f, v, td, tt)
<1>1. Sound(g) /\ f \in Tables /\ g \in Tables
  <2>1. Sound(g)
    BY RenameIs
  <2> QED
    BY <2>1 DEF Sound
<1>2. CASE g = f
  BY <1>1, <1>2, NothingMoved
<1>3. CASE g # f
  <2>1. i # 0 /\ dst # i /\ (dst # 0 => Kind(f, v, i) = "file" /\ Kind(f, v, dst) = "file")
    BY <1>3, RenameIs
  <2>2. \A w \in Volume, b \in Ino :
          /\ Words(g, w, b) = IF w = v /\ b = dst THEN None ELSE Words(f, w, b)
          /\ \A u \in Tok : To(g, w, b, u) = IF w = v /\ b = fd /\ u = ft THEN 0
                                             ELSE IF w = v /\ b = td /\ u = tt THEN i ELSE To(f, w, b, u)
    BY <1>3, RenameIs
  <2>3. i \in 0 .. Inodes /\ dst \in 0 .. Inodes
    BY <1>1, InodeIs
  <2>4. i \in Ino
    BY <2>1, <2>3, ConstantsAre
  <2>5. ~ (td = fd /\ tt = ft)
    BY <2>1
  <2> HIDE DEF i, dst
  <2>6. Words(g, v, i) = Words(f, v, i)
    BY <2>1, <2>2, <2>4
  <2>7. To(g, v, td, tt) = i
    BY <2>2, <2>5
  <2> SUFFICES ASSUME NEW w \in Volume, NEW d \in Ino, NEW t \in Tok,
                      To(f, w, d, t) # 0, Words(f, w, To(f, w, d, t)) # None
               PROVE  \/ To(g, w, d, t) # 0 /\ Words(g, w, To(g, w, d, t)) # None
                      \/ \E x \in Volume, e \in Ino, u \in Tok :
                           /\ To(g, x, e, u) \notin {0, To(f, x, e, u)}
                           /\ Words(g, x, To(g, x, e, u)) = Words(f, w, To(f, w, d, t))
    BY <1>1, KeptBy
  <2>8. CASE w = v /\ d = fd /\ t = ft
    <3>1. To(g, v, td, tt) \notin {0, To(f, v, td, tt)}
      BY <2>1, <2>7 DEF dst
    <3>2. Words(g, v, To(g, v, td, tt)) = Words(f, w, To(f, w, d, t))
      BY <2>6, <2>7, <2>8 DEF i
    <3> QED
      BY <3>1, <3>2
  <2>9. CASE w = v /\ d = td /\ t = tt
    <3>1. dst # 0 /\ Kind(f, v, i) = "file"
      BY <2>1, <2>9 DEF dst
    <3>2. Words(f, v, i) # None
      BY <1>1, <2>4, <3>1, InodeIs, ConstantsAre
    <3> QED
      BY <2>1, <2>6, <2>7, <2>9, <3>2
  <2>10. CASE ~ (w = v /\ d = fd /\ t = ft) /\ ~ (w = v /\ d = td /\ t = tt)
    <3> DEFINE l == To(f, w, d, t)
    <3>1. To(g, w, d, t) = l
      BY <2>2, <2>10
    <3>2. ~ (w = v /\ l = dst)
      BY <2>10 DEF dst, Sound
    <3>3. l \in Ino
      BY <1>1, InodeIs, ConstantsAre
    <3> HIDE DEF l
    <3>4. Words(g, w, l) = Words(f, w, l)
      BY <2>2, <3>2, <3>3
    <3> QED
      BY <3>1, <3>4 DEF l
  <2> QED
    BY <2>8, <2>9, <2>10
<1> QED
  BY <1>1, <1>2, <1>3

(* The copy of a file shows under its name, and no name loses its text. *)
LEMMA CopyKeeps ==
  ASSUME ConstantsOK, NEW f, Sound(f), NEW v \in Volume, NEW d \in Ino, NEW t \in Tok, NEW x \in Text,
         Kind(f, v, d) = "dir", ~ (v = Root /\ d = MntIno), NEW r, r = FilePut(f, v, d, t, x), r.err = "ok",
         NEW g, g = r.f
  PROVE  /\ Sound(g)
         /\ To(g, v, d, t) \notin {0, To(f, v, d, t)} /\ To(g, v, d, t) \in Ino /\ Words(g, v, To(g, v, d, t)) = x
         /\ \A w \in Volume, e \in Ino, u \in Tok :
              ~ (w = v /\ e = d /\ u = t) =>
                /\ To(g, w, e, u) = To(f, w, e, u)
                /\ To(f, w, e, u) # 0 => Words(g, w, To(f, w, e, u)) = Words(f, w, To(f, w, e, u))
<1> DEFINE old == To(f, v, d, t)
<1>1. PICK i \in Ino :
        /\ Kind(f, v, i) = "free"
        /\ old # 0 => Kind(f, v, old) = "file"
        /\ \A w \in Volume, b \in Ino :
             /\ Words(g, w, b) = IF w = v /\ b = i THEN x ELSE IF w = v /\ b = old THEN None ELSE Words(f, w, b)
             /\ \A u \in Tok : To(g, w, b, u) = IF w = v /\ b = d /\ u = t THEN i ELSE To(f, w, b, u)
  BY FilePutIs
<1>2. Sound(g) /\ f \in Tables
  BY FilePutIs DEF Sound
<1>3. i # 0 /\ i # old
  BY <1>1, ConstantsAre
<1>4. To(g, v, d, t) = i /\ Words(g, v, i) = x
  BY <1>1
<1>5. ASSUME NEW w \in Volume, NEW e \in Ino, NEW u \in Tok, ~ (w = v /\ e = d /\ u = t)
      PROVE  /\ To(g, w, e, u) = To(f, w, e, u)
             /\ To(f, w, e, u) # 0 => Words(g, w, To(f, w, e, u)) = Words(f, w, To(f, w, e, u))
  <2> DEFINE l == To(f, w, e, u)
  <2>1. To(g, w, e, u) = l
    BY <1>1, <1>5
  <2>2. ASSUME l # 0 PROVE Words(g, w, l) = Words(f, w, l)
    <3>1. l \in Ino
      BY <1>2, <2>2, InodeIs, ConstantsAre
    <3>2. Kind(f, w, l) # "free"
      BY <2>2 DEF Sound
    <3>3. ~ (w = v /\ l = old)
      BY <1>5, <2>2 DEF Sound
    <3>4. ~ (w = v /\ l = i)
      BY <1>1, <3>2
    <3> HIDE DEF l
    <3> QED
      BY <1>1, <3>1, <3>3, <3>4
  <2> QED
    BY <2>1, <2>2
<1> HIDE DEF old
<1> QED
  BY <1>2, <1>3, <1>4, <1>5 DEF old

LEMMA CarriedKeeps ==
  ASSUME ConstantsOK, Sound(fs), mounts \subseteq Vol, NEW a \in Nodes, NodeOK(a), a.type = "file", ~ Permanent(a),
         NEW b, Holder(b), b.pvol # a.pvol, NEW fault, NEW g, g = Carried(a, b, fault).f
  PROVE  Sound(g) /\ Kept(fs, g)
<1> DEFINE x == fs[a.vol][a.ino].text
           put == FilePut(fs, b.pvol, b.pino, b.leaf, x)
           copy == IF fault = "copy" THEN Failed(fs, "io") ELSE put
           gone == Unlink(copy.f, a.pvol, a.pino, a.leaf)
<1>1. /\ Spot(a) /\ ~ (a.pvol = Root /\ a.pino = RootIno /\ a.leaf = Mnt)
      /\ a.vol = a.pvol /\ a.ino = To(fs, a.pvol, a.pino, a.leaf) /\ a.ino \in Ino /\ a.vol \in Volume
  BY Removable DEF Spot
<1>2. x \in Text /\ x = Words(fs, a.pvol, a.ino)
  BY <1>1, FileNode DEF Words
<1>3. b.pvol \in Volume /\ b.pino \in Ino /\ b.leaf \in Tok /\ Kind(fs, b.pvol, b.pino) = "dir"
      /\ ~ (b.pvol = Root /\ b.pino = MntIno)
  BY DEF Holder, Spot
<1>4. fs \in Tables
  BY DEF Sound
<1>5. g = IF copy.err # "ok" \/ fault = "remove" THEN copy.f ELSE gone.f
  BY DEF Carried
<1>6. CASE copy.err # "ok"
  <2>1. copy.f = fs
    <3>1. CASE fault = "copy"
      BY <3>1 DEF Failed
    <3>2. CASE fault # "copy"
      <4>1. copy = put
        BY <3>2
      <4>2. put.err # "ok"
        BY <1>6, <4>1
      <4> HIDE DEF copy, x
      <4>3. put.f = fs
        BY <1>2, <1>3, <4>2, FilePutIs
      <4> QED
        BY <4>1, <4>3
    <3> QED
      BY <3>1, <3>2
  <2>2. g = fs
    BY <1>5, <1>6, <2>1
  <2> QED
    BY <1>4, <2>2, NothingMoved
<1>7. CASE copy.err = "ok"
  <2>1. copy = put /\ put.err = "ok"
    <3>1. Failed(fs, "io").err # "ok"
      BY DEF Failed
    <3> QED
      BY <1>7, <3>1
  <2> DEFINE h == put.f
  <2> HIDE DEF x, copy
  <2>2. /\ Sound(h)
        /\ LET m == To(h, b.pvol, b.pino, b.leaf)
           IN m \notin {0, To(fs, b.pvol, b.pino, b.leaf)} /\ m \in Ino /\ Words(h, b.pvol, m) = x
        /\ \A w \in Volume, e \in Ino, u \in Tok :
             ~ (w = b.pvol /\ e = b.pino /\ u = b.leaf) =>
               /\ To(h, w, e, u) = To(fs, w, e, u)
               /\ To(fs, w, e, u) # 0 => Words(h, w, To(fs, w, e, u)) = Words(fs, w, To(fs, w, e, u))
    BY <1>2, <1>3, <2>1, CopyKeeps
  <2> HIDE DEF put, h
  <2>3. h \in Tables
    BY <2>2 DEF Sound
  <2>4. copy.f = h
    BY <2>1 DEF h
  <2>5. x # None
    BY <1>2, ConstantsAre
  <2>6. \A w \in Volume, e \in Ino, u \in Tok :
          To(fs, w, e, u) # 0 /\ Words(fs, w, To(fs, w, e, u)) # None =>
            To(h, w, e, u) # 0 /\ Words(h, w, To(h, w, e, u)) # None
    <3> SUFFICES ASSUME NEW w \in Volume, NEW e \in Ino, NEW u \in Tok,
                        To(fs, w, e, u) # 0, Words(fs, w, To(fs, w, e, u)) # None
                 PROVE  To(h, w, e, u) # 0 /\ Words(h, w, To(h, w, e, u)) # None
      OBVIOUS
    <3>1. CASE w = b.pvol /\ e = b.pino /\ u = b.leaf
      BY <2>2, <2>5, <3>1
    <3>2. CASE ~ (w = b.pvol /\ e = b.pino /\ u = b.leaf)
      <4>1. To(h, w, e, u) = To(fs, w, e, u) /\ Words(h, w, To(fs, w, e, u)) = Words(fs, w, To(fs, w, e, u))
        BY <2>2, <3>2
      <4> QED
        BY <4>1
    <3> QED
      BY <3>1, <3>2
  <2>7. Kept(fs, h)
    BY <1>4, <2>3, <2>6, KeptBy
  <2>8. CASE fault = "remove"
    BY <1>5, <2>2, <2>4, <2>7, <2>8
  <2>9. CASE fault # "remove"
    <3> DEFINE r == Unlink(h, a.pvol, a.pino, a.leaf)
    <3>1. g = r.f
      BY <1>5, <1>7, <2>4, <2>9
    <3>2. a.pvol \in Volume /\ a.pino \in Ino /\ a.leaf \in Tok
      BY <1>1 DEF Spot
    <3>3. CASE r.err # "ok"
      <4>1. r.f = h
        BY <1>1, <2>2, <3>2, <3>3, UnlinkIs
      <4> QED
        BY <2>2, <2>7, <3>1, <4>1
    <3>4. CASE r.err = "ok"
      <4> DEFINE i == To(h, a.pvol, a.pino, a.leaf)
      <4>1. Sound(g)
        BY <1>1, <2>2, <3>1, <3>2, UnlinkIs
      <4>2. \A w \in Volume, e \in Ino :
              /\ Words(g, w, e) = IF w = a.pvol /\ e = i THEN None ELSE Words(h, w, e)
              /\ \A u \in Tok : To(g, w, e, u) = IF w = a.pvol /\ e = a.pino /\ u = a.leaf THEN 0 ELSE To(h, w, e, u)
        BY <1>1, <2>2, <3>1, <3>2, <3>4, UnlinkIs
      <4>3. g \in Tables
        BY <4>1 DEF Sound
      <4>4. i = a.ino /\ Words(fs, a.pvol, a.ino) = x
        BY <1>1, <1>2, <1>3, <2>2, <3>2
      <4> DEFINE j == To(h, b.pvol, b.pino, b.leaf)
      <4>5. /\ To(g, b.pvol, b.pino, b.leaf) = j /\ Words(g, b.pvol, j) = x
            /\ j \notin {0, To(fs, b.pvol, b.pino, b.leaf)}
        BY <1>3, <2>2, <4>2
      <4> HIDE DEF i, j, r
      <4> SUFFICES ASSUME NEW w \in Volume, NEW d \in Ino, NEW t \in Tok,
                          To(fs, w, d, t) # 0, Words(fs, w, To(fs, w, d, t)) # None
                   PROVE  \/ To(g, w, d, t) # 0 /\ Words(g, w, To(g, w, d, t)) # None
                          \/ \E v \in Volume, e \in Ino, u \in Tok :
                               /\ To(g, v, e, u) \notin {0, To(fs, v, e, u)}
                               /\ Words(g, v, To(g, v, e, u)) = Words(fs, w, To(fs, w, d, t))
        BY <1>4, <4>1, <4>3, KeptBy
      <4>6. CASE w = a.pvol /\ d = a.pino /\ t = a.leaf
        <5>1. Words(fs, w, To(fs, w, d, t)) = x
          BY <1>1, <4>4, <4>6
        <5> QED
          BY <1>3, <4>5, <5>1
      <4>7. CASE ~ (w = a.pvol /\ d = a.pino /\ t = a.leaf)
        <5> DEFINE l == To(h, w, d, t)
        <5>1. l # 0 /\ Words(h, w, l) # None
          BY <2>6
        <5>2. To(g, w, d, t) = l
          BY <4>2, <4>7
        <5>3. ~ (w = a.pvol /\ l = i)
          BY <2>2, <3>2, <4>7, <5>1 DEF i, Sound
        <5>4. l \in Ino
          BY <2>3, <5>1, InodeIs, ConstantsAre
        <5> HIDE DEF l
        <5>5. Words(g, w, l) = Words(h, w, l)
          BY <4>2, <5>3, <5>4
        <5> QED
          BY <5>1, <5>2, <5>5
      <4> QED
        BY <4>6, <4>7
    <3> QED
      BY <3>3, <3>4
  <2> QED
    BY <2>8, <2>9
<1> QED
  BY <1>6, <1>7

LEMMA MvKeeps ==
  ASSUME ConstantsOK, Sound(fs), mounts \subseteq Vol, NEW p \in Places, NEW q \in Places, NEW fault, Mv(p, q, fault)
  PROVE  Sound(fs') /\ Kept(fs, fs')
<1> DEFINE a == Stat(p)
           b == Target(q, a.leaf)
<1>1. /\ a.err = "ok" /\ ~ Permanent(a) /\ MayHold(b)
      /\ IF b.pvol = a.pvol
         THEN fs' = Rename(fs, a.pvol, a.pino, a.leaf, b.pino, b.leaf).f
         ELSE a.type = "file" /\ fs' = Carried(a, b, fault).f
  BY DEF Mv
<1>2. p \in Seq(Tok) /\ q \in Seq(Tok)
  BY PlacesAre
<1>3. a \in Nodes /\ NodeOK(a)
  BY <1>1, <1>2, StatIs
<1>4. Spot(a) /\ ~ (a.pvol = Root /\ a.pino = RootIno /\ a.leaf = Mnt)
  BY <1>1, <1>3, Removable
<1>5. Holder(b)
  BY <1>1, <1>2, <1>4, TargetIs DEF Spot
<1> HIDE DEF a, b
<1>6. CASE b.pvol = a.pvol
  <2> DEFINE g == Rename(fs, a.pvol, a.pino, a.leaf, b.pino, b.leaf).f
  <2>1. fs' = g
    BY <1>1, <1>6
  <2>2. a.pvol \in Volume /\ a.pino \in Ino /\ a.leaf \in Tok
    BY <1>4 DEF Spot
  <2>3. b.pino \in Ino /\ b.leaf \in Tok /\ Kind(fs, a.pvol, b.pino) = "dir" /\ ~ (a.pvol = Root /\ b.pino = MntIno)
    BY <1>5, <1>6 DEF Holder, Spot
  <2>4. Sound(g) /\ Kept(fs, g)
    BY <1>4, <2>2, <2>3, RenameKeeps
  <2> QED
    BY <2>1, <2>4
<1>7. CASE b.pvol # a.pvol
  <2> DEFINE g == Carried(a, b, fault).f
  <2>1. a.type = "file" /\ fs' = g
    BY <1>1, <1>7
  <2>2. Sound(g) /\ Kept(fs, g)
    BY <1>1, <1>3, <1>5, <1>7, <2>1, CarriedKeeps
  <2> QED
    BY <2>1, <2>2
<1> QED
  BY <1>6, <1>7

LEMMA CarriedGrounded ==
  ASSUME ConstantsOK, Sound(fs), Grounded(fs), mounts \subseteq Vol, NEW a \in Nodes, NodeOK(a), a.type = "file",
         ~ Permanent(a), NEW b, Holder(b), NEW fault, NEW g, g = Carried(a, b, fault).f
  PROVE  Grounded(g)
<1> DEFINE x == fs[a.vol][a.ino].text
           put == FilePut(fs, b.pvol, b.pino, b.leaf, x)
           copy == IF fault = "copy" THEN Failed(fs, "io") ELSE put
           h == copy.f
           gone == Unlink(h, a.pvol, a.pino, a.leaf)
<1>1. /\ a.pvol \in Volume /\ a.pino \in Ino /\ a.leaf \in Tok
      /\ ~ (a.pvol = Root /\ a.pino = RootIno /\ a.leaf = Mnt) /\ x \in Text
  BY Removable, FileNode DEF Spot
<1>2. b.pvol \in Volume /\ b.pino \in Ino /\ b.leaf \in Tok /\ Kind(fs, b.pvol, b.pino) = "dir"
      /\ ~ (b.pvol = Root /\ b.pino = MntIno)
  BY DEF Holder, Spot
<1>3. g \in {h, gone.f}
  BY DEF Carried
<1>4. Sound(h) /\ Grounded(h)
  <2>1. CASE fault = "copy"
    BY <2>1 DEF Failed
  <2>2. CASE fault # "copy"
    <3> HIDE DEF x
    <3>1. Sound(put.f)
      BY <1>1, <1>2, FilePutIs
    <3>2. Grounded(put.f)
      BY <1>1, <1>2, FilePutGrounded
    <3> QED
      BY <2>2, <3>1, <3>2
  <2> QED
    BY <2>1, <2>2
<1> HIDE DEF h
<1>5. Grounded(gone.f)
  BY <1>1, <1>4, UnlinkGrounded
<1> QED
  BY <1>3, <1>4, <1>5

(* A directory that is not moved into itself takes what is below it along. *)
LEMMA MvGrounded ==
  ASSUME ConstantsOK, Sound(fs), Grounded(fs), mounts \subseteq Vol, Sensible,
         NEW p \in Places, NEW q \in Places, NEW fault, Mv(p, q, fault)
  PROVE  Grounded(fs')
<1> DEFINE a == Stat(p)
           b == Target(q, a.leaf)
<1>1. /\ a.err = "ok" /\ ~ Permanent(a) /\ MayHold(b)
      /\ a.type = "dir" => ~ IsPrefix(p, q)
      /\ IF b.pvol = a.pvol
         THEN fs' = Rename(fs, a.pvol, a.pino, a.leaf, b.pino, b.leaf).f
         ELSE a.type = "file" /\ fs' = Carried(a, b, fault).f
  BY DEF Mv
<1>2. p \in Seq(Tok) /\ q \in Seq(Tok) /\ Resolve(p).err = "ok"
  BY PlacesAre
<1>3. a \in Nodes /\ NodeOK(a) /\ a = Resolve(p) /\ a.exists
  BY <1>1, <1>2, StatIs
<1>4. Spot(a) /\ ~ (a.pvol = Root /\ a.pino = RootIno /\ a.leaf = Mnt)
      /\ a.vol = a.pvol /\ a.ino = To(fs, a.pvol, a.pino, a.leaf)
  BY <1>1, <1>3, Removable
<1>5. Holder(b) /\ \E w \in {q, Append(q, a.leaf)} : b = Resolve(w) /\ Resolve(w).err = "ok" /\ Len(w) >= 1
  BY <1>1, <1>2, <1>4, TargetIs DEF Spot
<1> HIDE DEF a, b
<1>6. CASE b.pvol = a.pvol
  <2> DEFINE v == a.pvol
             g == Rename(fs, v, a.pino, a.leaf, b.pino, b.leaf).f
  <2>1. fs' = g
    BY <1>1, <1>6
  <2>2. v \in Volume /\ a.pino \in Ino /\ a.leaf \in Tok
    BY <1>4 DEF Spot
  <2>3. b.pino \in Ino /\ b.leaf \in Tok /\ Kind(fs, v, b.pino) = "dir" /\ ~ (v = Root /\ b.pino = MntIno)
    BY <1>5, <1>6 DEF Holder, Spot
  <2>4. a.ino \in Ino
    <3>1. a.ino \in 0 .. Inodes /\ a.ino # 0
      BY <1>3 DEF Nodes, NodeOK
    <3> QED
      BY <3>1, ConstantsAre
  <2>5. PICK w \in {q, Append(q, a.leaf)} : b = Resolve(w) /\ Resolve(w).err = "ok" /\ Len(w) >= 1
    BY <1>5
  <2>6. w \in Seq(Tok) /\ Len(q) \in Nat /\ Len(w) <= Len(q) + 1 /\ \A i \in 1 .. Len(q) : w[i] = q[i]
    <3>1. CASE w = q
      BY <1>2, <3>1
    <3>2. CASE w = Append(q, a.leaf)
      <4> DEFINE z == Append(q, a.leaf)
      <4>1. z \in Seq(Tok) /\ Len(q) \in Nat /\ Len(z) = Len(q) + 1
        BY <1>2, <2>2
      <4>2. \A i \in 1 .. Len(q) : z[i] = q[i]
        BY <1>2, <2>2
      <4> QED
        BY <3>2, <4>1, <4>2
    <3> QED
      BY <3>1, <3>2
  <2>7. ASSUME Through(w, p) PROVE IsPrefix(p, q)
    <3>1. Len(p) \in Nat /\ Len(w) \in Nat /\ Len(p) < Len(w) /\ \A i \in 1 .. Len(p) : p[i] = w[i]
      BY <1>2, <2>6, <2>7 DEF Through
    <3>2. Len(p) <= Len(q)
      BY <2>6, <3>1
    <3>3. \A i \in 1 .. Len(p) : p[i] = q[i]
      BY <2>6, <3>1, <3>2
    <3>4. SubSeq(p, 1, Len(p)) = SubSeq(q, 1, Len(p))
      BY <1>2, <3>1, <3>2, <3>3, SubSeqsAgree
    <3> QED
      BY <3>2, <3>4 DEF IsPrefix
  <2>8. PICK A \in SUBSET Ino : b.pino \in A /\ a.ino \notin A /\ Upward(fs, b.pvol, A)
    <3>1. a.vol = b.pvol /\ (a.type = "dir" => ~ Through(w, p))
      BY <1>1, <1>4, <1>6, <2>7
    <3>2. Len(w) >= 1 /\ Resolve(w).err = "ok" /\ w \in Seq(Tok) /\ b = Resolve(w)
      BY <2>5, <2>6
    <3> HIDE DEF v, g
    <3>3. p \in Seq(Tok) /\ Resolve(p).err = "ok" /\ a = Resolve(p) /\ a.exists /\ ~ Permanent(a)
      BY <1>1, <1>2, <1>3
    <3> QED
      BY <3>1, <3>2, <3>3, Above
  <2>9. CASE g = fs
    BY <2>1, <2>9
  <2>10. CASE g # fs
    <3>1. Relinked(fs, g, v, a.pino, a.leaf, b.pino, b.leaf, a.ino)
      BY <1>4, <2>2, <2>3, <2>10, RenameIs DEF Relinked
    <3> HIDE DEF g, v
    <3>2. Upward(fs, v, A)
      BY <1>6, <2>8 DEF v
    <3>3. Grounded(g)
      BY <1>4, <2>2, <2>3, <2>4, <2>8, <3>1, <3>2, MovedGrounded DEF v
    <3> QED
      BY <2>1, <3>3 DEF g
  <2> QED
    BY <2>9, <2>10
<1>7. CASE b.pvol # a.pvol
  <2> DEFINE g == Carried(a, b, fault).f
  <2>1. a.type = "file" /\ fs' = g
    BY <1>1, <1>7
  <2>2. Grounded(g)
    BY <1>1, <1>3, <1>5, <2>1, CarriedGrounded
  <2> QED
    BY <2>1, <2>2
<1> QED
  BY <1>6, <1>7

-----------------------------------------------------------------------------
(* The current directory and the mounts. *)
LEMMA NormIs ==
  ASSUME ConstantsOK, NEW from \in Seq(Tok), NEW toks \in Seq(Tok \cup {".."})
  PROVE  Norm(from, toks) \in Seq(Tok)
<1> DEFINE L == Len(toks)
           IsIt(P, k) == P = [i \in 0 .. k |-> IF i = 0 THEN from ELSE Taken(P[i - 1], toks[i])]
           T == {k \in Nat : \E P : IsIt(P, k)}
<1>1. L \in Nat /\ \A i \in 1 .. L : toks[i] \in Tok \cup {".."}
  BY SMT
<1>2. 0 \in T
  <2> DEFINE P == [i \in 0 .. 0 |-> from]
  <2>1. IsIt(P, 0)
    OBVIOUS
  <2> QED
    BY <2>1
<1>3. ASSUME NEW k \in T PROVE k + 1 \in T
  <2>1. PICK P : IsIt(P, k)
    BY <1>3
  <2> DEFINE Q == [i \in 0 .. k + 1 |-> IF i <= k THEN P[i] ELSE Taken(P[k], toks[k + 1])]
  <2>2. k \in Nat
    BY <1>3
  <2>3. ASSUME NEW i \in 0 .. k + 1 PROVE Q[i] = IF i = 0 THEN from ELSE Taken(Q[i - 1], toks[i])
    <3>1. CASE i = 0
      BY <2>1, <2>2, <3>1
    <3>2. CASE i # 0 /\ i <= k
      <4>1. Q[i] = P[i] /\ Q[i - 1] = P[i - 1] /\ i \in 0 .. k
        BY <2>2, <2>3, <3>2
      <4>2. P[i] = Taken(P[i - 1], toks[i])
        BY <2>1, <3>2, <4>1
      <4> QED
        BY <3>2, <4>1, <4>2
    <3>3. CASE i = k + 1
      <4>1. Q[i] = Taken(P[k], toks[k + 1]) /\ Q[i - 1] = P[k] /\ i # 0
        BY <2>2, <2>3, <3>3
      <4> QED
        BY <3>3, <4>1
    <3> QED
      BY <2>2, <2>3, <3>1, <3>2, <3>3
  <2>4. DOMAIN Q = 0 .. k + 1 /\ Q = [i \in 0 .. k + 1 |-> Q[i]]
    OBVIOUS
  <2> HIDE DEF Q
  <2>5. IsIt(Q, k + 1)
    BY <2>3, <2>4
  <2> HIDE DEF IsIt
  <2> QED
    BY <2>2, <2>5
<1>4. T = Nat
  <2>1. T \in SUBSET Nat
    OBVIOUS
  <2> HIDE DEF T
  <2> QED
    BY <1>2, <1>3, <2>1, NatSet
<1>5. \E P : IsIt(P, L)
  BY <1>1, <1>4
<1> DEFINE P == CHOOSE f : IsIt(f, L)
<1>6. Norm(from, toks) = P[L]
  BY DEF Norm
<1>7. IsIt(P, L)
  <2> HIDE DEF IsIt
  <2> QED
    BY <1>5
<1> HIDE DEF P
<1>8. P[0] = from /\ \A i \in 1 .. L : P[i] = Taken(P[i - 1], toks[i])
  <2>1. \A i \in 0 .. L : P[i] = IF i = 0 THEN from ELSE Taken(P[i - 1], toks[i])
    BY <1>7
  <2> QED
    BY <1>1, <2>1
<1>9. ASSUME NEW p \in Seq(Tok), NEW t \in Tok \cup {".."} PROVE Taken(p, t) \in Seq(Tok)
  <2>1. CASE Len(p) > Deep
    BY <2>1 DEF Taken
  <2>2. CASE ~ (Len(p) > Deep) /\ t # ".."
    <3>1. Taken(p, t) = Append(p, t) /\ t \in Tok
      BY <2>2 DEF Taken
    <3> QED
      BY <3>1
  <2>3. CASE ~ (Len(p) > Deep) /\ t = ".." /\ p = <<>>
    BY <2>3 DEF Taken
  <2>4. CASE ~ (Len(p) > Deep) /\ t = ".." /\ p # <<>>
    <3>1. Taken(p, t) = SubSeq(p, 1, Len(p) - 1)
      BY <2>4 DEF Taken, Front
    <3>2. SubSeq(p, 1, Len(p) - 1) \in Seq(Tok)
      OBVIOUS
    <3> QED
      BY <3>1, <3>2
  <2> QED
    BY <2>1, <2>2, <2>3, <2>4
<1> DEFINE S == {k \in Nat : k <= L => P[k] \in Seq(Tok)}
<1>10. 0 \in S
  BY <1>8
<1>11. ASSUME NEW k \in S PROVE k + 1 \in S
  <2>1. k \in Nat
    BY <1>11
  <2>2. ASSUME k + 1 <= L PROVE P[k + 1] \in Seq(Tok)
    <3>1. k <= L /\ k + 1 \in 1 .. L /\ (k + 1) - 1 = k
      BY <1>1, <2>1, <2>2
    <3>2. P[k] \in Seq(Tok) /\ toks[k + 1] \in Tok \cup {".."}
      BY <1>1, <1>11, <3>1
    <3>3. P[k + 1] = Taken(P[k], toks[k + 1])
      BY <1>8, <3>1
    <3> QED
      BY <1>9, <3>2, <3>3
  <2> QED
    BY <2>1, <2>2
<1>12. S = Nat
  <2>1. S \in SUBSET Nat
    OBVIOUS
  <2> HIDE DEF S
  <2> QED
    BY <1>10, <1>11, <2>1, NatSet
<1>13. P[L] \in Seq(Tok)
  BY <1>1, <1>12
<1> QED
  BY <1>6, <1>13

LEMMA ChdirStands ==
  ASSUME ConstantsOK, IInv, NEW abs \in BOOLEAN, NEW toks \in Seq(Tok \cup {".."}), Chdir(abs, toks)
  PROVE  cwd' \in Seq(Tok) /\ Len(cwd') <= Deep /\ CwdMounted'
<1> DEFINE from == IF abs THEN <<>> ELSE cwd
           path == Norm(from, toks)
<1>1. /\ Len(path) <= Deep /\ cwd' = path /\ mounts' = mounts
      /\ Resolve(path).err = "ok" /\ Resolve(path).exists
  BY DEF Chdir
<1>2. from \in Seq(Tok)
  BY DEF IInv
<1>3. path \in Seq(Tok)
  BY <1>2, NormIs
<1> HIDE DEF path
<1>4. ASSUME Len(path) >= 2, path[1] = Mnt PROVE path[2] \in mounts
  BY <1>1, <1>3, <1>4, BelowMnt DEF IInv
<1> QED
  BY <1>1, <1>3, <1>4 DEF CwdMounted

LEMMA MountsAre ==
  ASSUME ConstantsOK, IInv
  PROVE  /\ \A v \in Vol : Mount(v) =>
              mounts' \subseteq Vol /\ IsFiniteSet(mounts') /\ Cardinality(mounts') <= Slots /\ CwdMounted'
         /\ \A v \in Vol : Unmount(v) =>
              mounts' \subseteq Vol /\ IsFiniteSet(mounts') /\ Cardinality(mounts') <= Slots
<1>1. /\ mounts \subseteq Vol /\ IsFiniteSet(mounts) /\ Cardinality(mounts) <= Slots /\ CwdMounted
      /\ Cardinality(mounts) \in Nat /\ Slots \in Nat
  BY ConstantsAre, FS_CardinalityType DEF IInv
<1>2. ASSUME NEW v \in Vol, Mount(v)
      PROVE  mounts' \subseteq Vol /\ IsFiniteSet(mounts') /\ Cardinality(mounts') <= Slots /\ CwdMounted'
  <2>1. v \notin mounts /\ Cardinality(mounts) < Slots /\ mounts' = mounts \cup {v} /\ cwd' = cwd
    BY <1>2 DEF Mount
  <2>2. IsFiniteSet(mounts \cup {v}) /\ Cardinality(mounts \cup {v}) = Cardinality(mounts) + 1
    BY <1>1, <2>1, FS_AddElement
  <2>3. Cardinality(mounts \cup {v}) <= Slots
    BY <1>1, <2>1, <2>2
  <2> QED
    BY <1>1, <2>1, <2>2, <2>3 DEF CwdMounted
<1>3. ASSUME NEW v \in Vol, Unmount(v)
      PROVE  mounts' \subseteq Vol /\ IsFiniteSet(mounts') /\ Cardinality(mounts') <= Slots
  <2>1. v \in mounts /\ mounts' = mounts \ {v}
    BY <1>3 DEF Unmount
  <2>2. IsFiniteSet(mounts \ {v}) /\ Cardinality(mounts \ {v}) = Cardinality(mounts) - 1
    BY <1>1, <2>1, FS_RemoveElement
  <2>3. Cardinality(mounts \ {v}) <= Slots
    BY <1>1, <2>2
  <2> QED
    BY <1>1, <2>1, <2>2, <2>3
<1> QED
  BY <1>2, <1>3

LEMMA UnmountLeaves ==
  ASSUME ConstantsOK, IInv, NEW v \in Vol, Unmount(v)
  PROVE  cwd' \in Seq(Tok) /\ Len(cwd') <= Deep /\ CwdMounted'
<1>1. /\ mounts' = mounts \ {v}
      /\ cwd' = IF IsPrefix(<<Mnt, v>>, cwd) THEN <<>> ELSE cwd
  BY DEF Unmount
<1>2. cwd \in Seq(Tok) /\ Len(cwd) <= Deep /\ CwdMounted /\ Deep \in Nat
  BY ConstantsAre DEF IInv
<1>3. CASE IsPrefix(<<Mnt, v>>, cwd)
  <2>1. cwd' = <<>>
    BY <1>1, <1>3
  <2>2. Len(<<>>) = 0 /\ <<>> \in Seq(Tok)
    OBVIOUS
  <2> QED
    BY <1>2, <2>1, <2>2 DEF CwdMounted
<1>4. CASE ~ IsPrefix(<<Mnt, v>>, cwd)
  <2>1. cwd' = cwd
    BY <1>1, <1>4
  <2>2. ASSUME Len(cwd) >= 2, cwd[1] = Mnt PROVE cwd[2] \in mounts \ {v}
    <3>1. cwd[2] \in mounts
      BY <1>2, <2>2 DEF CwdMounted
    <3>2. ASSUME cwd[2] = v PROVE FALSE
      <4> DEFINE s == <<Mnt, v>>
      <4>1. s \in Seq(Tok) /\ Len(s) = 2 /\ s[1] = Mnt /\ s[2] = v
        BY ConstantsAre
      <4> HIDE DEF s
      <4>2. SubSeq(s, 1, 2) = SubSeq(cwd, 1, 2)
        <5>1. \A i \in 1 .. 2 : s[i] = cwd[i]
          BY <2>2, <3>2, <4>1
        <5> QED
          BY <1>2, <2>2, <4>1, <5>1, SubSeqsAgree
      <4>3. IsPrefix(<<Mnt, v>>, cwd)
        BY <1>2, <2>2, <4>1, <4>2 DEF IsPrefix, s
      <4> QED
        BY <1>4, <4>3
    <3> QED
      BY <3>1, <3>2
  <2> QED
    BY <1>1, <1>2, <2>1, <2>2 DEF CwdMounted
<1> QED
  BY <1>3, <1>4

-----------------------------------------------------------------------------
(* What the sound volumes mean. *)
LEMMA RootsSound ==
  ASSUME ConstantsOK, Init
  PROVE  IInv
<1>1. /\ fs = [v \in Volume |-> IF v = Root THEN RootMade ELSE Made] /\ mounts = {} /\ cwd = <<>>
  BY DEF Init
<1> DEFINE base == [v \in Volume |-> Made]
           one == Put(base, Root, MntIno, Dir)
           two == Entry(one, Root, RootIno, Mnt, MntIno)
<1>2. base \in Tables
  BY InodesAre DEF Made, Tables
<1>3. \A v \in Volume, d \in Ino :
        /\ Kind(base, v, d) = IF d = RootIno THEN "dir" ELSE "free"
        /\ \A t \in Tok : To(base, v, d, t) = 0
  BY InodesAre DEF Kind, To, Made
<1>4. fs = two
  <2>1. Root \in Volume /\ RootIno \in Ino /\ MntIno \in Ino /\ RootIno # MntIno
    BY ConstantsAre
  <2>2. one = [v \in Volume |-> IF v = Root THEN [Made EXCEPT ![MntIno] = Dir] ELSE Made]
    BY <2>1 DEF Put
  <2> DEFINE m == [Made EXCEPT ![MntIno] = Dir]
  <2>3. two = [v \in Volume |-> IF v = Root THEN [m EXCEPT ![RootIno].ents[Mnt] = MntIno] ELSE Made]
    BY <2>1, <2>2 DEF Entry
  <2>4. RootMade = [m EXCEPT ![RootIno].ents[Mnt] = MntIno]
    BY <2>1 DEF RootMade, Made
  <2> QED
    BY <1>1, <2>3, <2>4
<1>5. one \in Tables /\ \A w \in Volume, e \in Ino :
        /\ Kind(one, w, e) = IF w = Root /\ e = MntIno THEN "dir" ELSE IF e = RootIno THEN "dir" ELSE "free"
        /\ \A t \in Tok : To(one, w, e, t) = 0
  <2> HIDE DEF base
  <2>1. Root \in Volume /\ MntIno \in Ino /\ Dir \in Inode /\ Dir.type = "dir" /\ \A t \in Tok : Dir.ents[t] = 0
    BY InodesAre, ConstantsAre
  <2>2. one \in Tables /\ \A w \in Volume, e \in Ino :
          /\ Kind(one, w, e) = IF w = Root /\ e = MntIno THEN Dir.type ELSE Kind(base, w, e)
          /\ \A t \in Tok : To(one, w, e, t) = IF w = Root /\ e = MntIno THEN Dir.ents[t] ELSE To(base, w, e, t)
    BY <1>2, <2>1, PutSays
  <2> HIDE DEF one
  <2> QED
    BY <1>3, <2>1, <2>2
<1> HIDE DEF base, one
<1>6. two \in Tables /\ \A w \in Volume, e \in Ino :
        /\ Kind(two, w, e) = IF w = Root /\ e = MntIno THEN "dir" ELSE IF e = RootIno THEN "dir" ELSE "free"
        /\ \A t \in Tok : To(two, w, e, t) = IF w = Root /\ e = RootIno /\ t = Mnt THEN MntIno ELSE 0
  BY <1>5, EntrySays, ConstantsAre
<1> HIDE DEF two
<1>7. Sound(two)
  <2>1. MntIno # 0 /\ RootIno # MntIno /\ Mnt \in Tok /\ Root \in Volume /\ RootIno \in Ino /\ MntIno \in Ino
    BY ConstantsAre
  <2>2. \A v \in Volume : Kind(two, v, RootIno) = "dir"
    BY <1>6, <2>1
  <2>3. \A v \in Volume, d \in Ino, t \in Tok : To(two, v, d, t) # 0 =>
          To(two, v, d, t) # RootIno /\ Kind(two, v, To(two, v, d, t)) # "free" /\ Kind(two, v, d) = "dir"
    BY <1>6, <2>1
  <2>4. \A v \in Volume, d, e \in Ino, t, u \in Tok :
          To(two, v, d, t) # 0 /\ To(two, v, d, t) = To(two, v, e, u) => d = e /\ t = u
    BY <1>6, <2>1
  <2>5. \A v \in Volume, i \in Ino :
          i # RootIno /\ Kind(two, v, i) # "free" => \E d \in Ino, t \in Tok : To(two, v, d, t) = i
    BY <1>6, <2>1
  <2>6. To(two, Root, RootIno, Mnt) = MntIno /\ Kind(two, Root, MntIno) = "dir"
    BY <1>6, <2>1
  <2>7. \A t \in Tok : To(two, Root, MntIno, t) = 0
    BY <1>6, <2>1
  <2> QED
    BY <1>6, <2>2, <2>3, <2>4, <2>5, <2>6, <2>7 DEF Sound
<1>10. Grounded(two)
  <2> SUFFICES ASSUME NEW w \in Volume, NEW S \in SUBSET Ino, Knot(two, w, S) PROVE FALSE
    BY DEF Grounded
  <2>1. PICK j \in S : TRUE
    BY DEF Knot
  <2>2. PICK d \in S, t \in Tok : To(two, w, d, t) = j
    BY DEF Knot
  <2>3. d = RootIno
    BY <1>6, <2>2, ConstantsAre
  <2> QED
    BY <2>3 DEF Knot
<1>8. IsFiniteSet(mounts) /\ Cardinality(mounts) <= Slots
  BY <1>1, FS_EmptySet, ConstantsAre
<1>9. cwd \in Seq(Tok) /\ Len(cwd) <= Deep /\ CwdMounted
  <2>1. Len(cwd) = 0 /\ cwd \in Seq(Tok)
    BY <1>1
  <2> QED
    BY <2>1, ConstantsAre DEF CwdMounted
<1> QED
  BY <1>1, <1>4, <1>7, <1>8, <1>9, <1>10 DEF IInv

LEMMA FilesTyped ==
  ASSUME ConstantsOK, IInv
  PROVE  TypeOK
<1>1. fs \in Tables /\ mounts \subseteq Vol /\ Cardinality(mounts) <= Slots /\ Len(cwd) <= Deep
  BY DEF IInv, Sound
<1>2. ASSUME NEW v \in Volume, NEW i \in Ino
      PROVE  /\ fs[v][i].type \in {"free", "file", "dir"} /\ fs[v][i].ents \in [Tok -> 0 .. Inodes]
             /\ fs[v][i].text \in Text <=> fs[v][i].type = "file"
  BY <1>1, InodeIs DEF Kind, Words
<1> QED
  BY <1>1, <1>2 DEF TypeOK

LEMMA MntIsEmpty ==
  ASSUME ConstantsOK, IInv
  PROVE  MntStaysEmpty
<1> DEFINE r == fs[Root][MntIno]
<1>1. /\ fs \in Tables /\ To(fs, Root, RootIno, Mnt) = MntIno /\ Kind(fs, Root, MntIno) = "dir"
      /\ \A t \in Tok : To(fs, Root, MntIno, t) = 0
  BY DEF IInv, Sound
<1>2. r \in Inode
  BY <1>1, InodeIs, ConstantsAre
<1>3. r.type = "dir" /\ \A t \in Tok : r.ents[t] = 0
  BY <1>1 DEF Kind, To
<1> HIDE DEF r
<1>4. PICK q \in [type : {"free", "file", "dir"}, ents : [Tok -> 0 .. Inodes], text : Text \cup {None}] :
        r = q /\ (q.text \in Text <=> q.type = "file")
  BY <1>2 DEF Inode
<1>5. r.text = None
  BY <1>3, <1>4
<1>6. r.ents = [t \in Tok |-> 0]
  BY <1>3, <1>4
<1>7. r = [type |-> r.type, ents |-> r.ents, text |-> r.text]
  BY <1>4
<1>8. Dir = [type |-> "dir", ents |-> [t \in Tok |-> 0], text |-> None]
  BY DEF Dir, Unused
<1>9. r = Dir
  BY <1>3, <1>5, <1>6, <1>7, <1>8
<1> QED
  BY <1>1, <1>9 DEF MntStaysEmpty, To, r

LEMMA NamedOnce ==
  ASSUME ConstantsOK, IInv
  PROVE  OneName
<1> SUFFICES ASSUME NEW v \in Volume, NEW i \in Ino \ {RootIno}
             PROVE  Cardinality(Names(v, i)) = IF fs[v][i].type = "free" THEN 0 ELSE 1
  BY DEF OneName
<1>1. Names(v, i) = {e \in Ino \X Tok : To(fs, v, e[1], e[2]) = i}
  BY DEF Names, To
<1>2. i # 0 /\ i \in Ino
  BY ConstantsAre
<1>3. CASE fs[v][i].type = "free"
  <2>1. \A d \in Ino, t \in Tok : To(fs, v, d, t) # i
    BY <1>2, <1>3 DEF IInv, Sound, Kind
  <2>2. Names(v, i) = {}
    BY <1>1, <2>1
  <2> QED
    BY <1>3, <2>2, FS_EmptySet
<1>4. CASE fs[v][i].type # "free"
  <2>1. PICK d \in Ino, t \in Tok : To(fs, v, d, t) = i
    BY <1>2, <1>4 DEF IInv, Sound, Kind
  <2>2. \A e \in Ino, u \in Tok : To(fs, v, e, u) = i => e = d /\ u = t
    BY <1>2, <2>1 DEF IInv, Sound
  <2>3. Names(v, i) = {<<d, t>>}
    BY <1>1, <2>1, <2>2
  <2> QED
    BY <1>4, <2>3, FS_Singleton
<1> QED
  BY <1>3, <1>4

(* What is allocated and not in a set that holds the root and what its members name
   would be a knot, for what it is in is allocated and not in that set either. *)
LEMMA TreesStand ==
  ASSUME ConstantsOK, IInv, Sensible
  PROVE  Tree
<1>1. OneName
  BY NamedOnce
<1>2. Sound(fs) /\ Grounded(fs) /\ fs \in Tables
  BY DEF IInv, Sound
<1>3. ASSUME NEW v \in Volume PROVE Reach(v) = {i \in Ino : fs[v][i].type # "free"}
  <2> DEFINE R == {i \in Ino : Kind(fs, v, i) # "free"}
             Holds(S) == RootIno \in S /\ \A d \in S, t \in Tok : To(fs, v, d, t) \in S \cup {0}
  <2>1. Reach(v) = {i \in Ino : \A S \in SUBSET Ino : Holds(S) => i \in S}
    BY DEF Reach, To
  <2>2. Holds(R)
    <3>1. RootIno \in R
      BY <1>2, ConstantsAre DEF Sound
    <3>2. ASSUME NEW d \in Ino, NEW t \in Tok, To(fs, v, d, t) # 0 PROVE To(fs, v, d, t) \in R
      <4>1. To(fs, v, d, t) \in 0 .. Inodes
        BY <1>2, InodeIs
      <4>2. Kind(fs, v, To(fs, v, d, t)) # "free"
        BY <1>2, <3>2 DEF Sound
      <4> QED
        BY <3>2, <4>1, <4>2, ConstantsAre
    <3> QED
      BY <3>1, <3>2
  <2>3. ASSUME NEW i \in R, NEW S \in SUBSET Ino, Holds(S) PROVE i \in S
    <3> SUFFICES ASSUME i \notin S PROVE FALSE
      OBVIOUS
    <3> DEFINE B == R \ S
    <3>1. ASSUME NEW j \in B PROVE \E d \in B, t \in Tok : To(fs, v, d, t) = j
      <4>1. j \in Ino /\ j # RootIno /\ j # 0 /\ Kind(fs, v, j) # "free" /\ j \notin S
        BY <2>3, ConstantsAre
      <4>2. PICK d \in Ino, t \in Tok : To(fs, v, d, t) = j
        BY <1>2, <4>1 DEF Sound
      <4>3. Kind(fs, v, d) = "dir"
        BY <1>2, <4>1, <4>2 DEF Sound
      <4>4. d \notin S
        BY <2>3, <4>1, <4>2
      <4> QED
        BY <4>2, <4>3, <4>4
    <3>2. B # {} /\ RootIno \notin B /\ B \in SUBSET Ino
      BY <2>3
    <3> HIDE DEF B
    <3>3. Knot(fs, v, B)
      BY <3>1, <3>2 DEF Knot
    <3> QED
      BY <1>2, <3>2, <3>3 DEF Grounded
  <2>4. R = {i \in Ino : fs[v][i].type # "free"} /\ R \in SUBSET Ino
    BY DEF Kind
  <2> HIDE DEF R, Holds
  <2>5. Reach(v) \subseteq R
    BY <2>1, <2>2, <2>4
  <2>6. R \subseteq Reach(v)
    BY <2>1, <2>3, <2>4
  <2> QED
    BY <2>4, <2>5, <2>6
<1> QED
  BY <1>1, <1>3 DEF Tree

LEMMA StepKeeps ==
  ASSUME ConstantsOK, IInv, [Next]_vars
  PROVE  IInv' /\ (told' = "mv" => Kept(fs, fs'))
<1>1. Sound(fs) /\ mounts \subseteq Vol /\ fs \in Tables
  BY DEF IInv, Sound
<1>2. ASSUME Sound(fs'), Sensible => Grounded(fs'), mounts' = mounts, cwd' = cwd PROVE IInv'
  BY <1>2 DEF IInv, CwdMounted
<1>3. ASSUME NEW p \in Places, Mkdir(p) PROVE IInv' /\ told' = "no"
  <2>1. Sound(fs') /\ (Sensible => Grounded(fs')) /\ mounts' = mounts /\ cwd' = cwd /\ told' = "no"
    BY <1>1, <1>3, MkdirSound DEF IInv, Mkdir, Change
  <2> QED
    BY <1>2, <2>1
<1>4. ASSUME NEW p \in Places, Rm(p) PROVE IInv' /\ told' = "no"
  <2>1. Sound(fs') /\ (Sensible => Grounded(fs')) /\ mounts' = mounts /\ cwd' = cwd /\ told' = "no"
    BY <1>1, <1>4, RmSound DEF IInv, Rm, Change
  <2> QED
    BY <1>2, <2>1
<1>5. ASSUME NEW p \in Places, NEW x \in Text, Write(p, x) PROVE IInv' /\ told' = "no"
  <2>1. Sound(fs') /\ (Sensible => Grounded(fs')) /\ mounts' = mounts /\ cwd' = cwd /\ told' = "no"
    BY <1>1, <1>5, WriteSound DEF IInv, Write, Change
  <2> QED
    BY <1>2, <2>1
<1>6. ASSUME NEW p \in Places, NEW q \in Places, Cp(p, q) PROVE IInv' /\ told' = "no"
  <2>1. Sound(fs') /\ (Sensible => Grounded(fs')) /\ mounts' = mounts /\ cwd' = cwd /\ told' = "no"
    BY <1>1, <1>6, CpSound DEF IInv, Cp, Change
  <2> QED
    BY <1>2, <2>1
<1>7. ASSUME NEW p \in Places, NEW q \in Places, NEW fault, Mv(p, q, fault) PROVE IInv' /\ Kept(fs, fs')
  <2>1. Sound(fs') /\ Kept(fs, fs') /\ mounts' = mounts /\ cwd' = cwd
    BY <1>1, <1>7, MvKeeps DEF Mv
  <2>2. Sensible => Grounded(fs')
    BY <1>1, <1>7, MvGrounded DEF IInv
  <2> QED
    BY <1>2, <2>1, <2>2
<1>8. ASSUME NEW abs \in BOOLEAN, NEW toks \in UNION {[1 .. n -> Tok \cup {".."}] : n \in 0 .. 2}, Chdir(abs, toks)
      PROVE  IInv' /\ told' = "no"
  <2>1. PICK n \in 0 .. 2 : toks \in [1 .. n -> Tok \cup {".."}]
    OBVIOUS
  <2>2. toks \in Seq(Tok \cup {".."})
    <3>1. n \in Nat
      OBVIOUS
    <3> QED
      BY <2>1, <3>1
  <2>3. fs' = fs /\ mounts' = mounts /\ told' = "no"
    BY <1>8 DEF Chdir
  <2>4. cwd' \in Seq(Tok) /\ Len(cwd') <= Deep /\ CwdMounted'
    BY <1>8, <2>2, ChdirStands
  <2> QED
    BY <2>3, <2>4 DEF IInv
<1>9. ASSUME NEW v \in Vol, Mount(v) PROVE IInv' /\ told' = "no"
  <2>1. fs' = fs /\ cwd' = cwd /\ told' = "no"
    BY <1>9 DEF Mount
  <2>2. mounts' \subseteq Vol /\ IsFiniteSet(mounts') /\ Cardinality(mounts') <= Slots /\ CwdMounted'
    BY <1>9, MountsAre
  <2> QED
    BY <2>1, <2>2 DEF IInv
<1>10. ASSUME NEW v \in Vol, Unmount(v) PROVE IInv' /\ told' = "no"
  <2>1. fs' = fs /\ told' = "no"
    BY <1>10 DEF Unmount
  <2>2. mounts' \subseteq Vol /\ IsFiniteSet(mounts') /\ Cardinality(mounts') <= Slots
    BY <1>10, MountsAre
  <2>3. cwd' \in Seq(Tok) /\ Len(cwd') <= Deep /\ CwdMounted'
    BY <1>10, UnmountLeaves
  <2> QED
    BY <2>1, <2>2, <2>3 DEF IInv
<1>11. ASSUME Reboot PROVE IInv' /\ told' = "no"
  <2>1. mounts' = {} /\ cwd' = <<>> /\ told' = "no" /\ fs' = fs
    BY <1>11 DEF Reboot
  <2>2. IsFiniteSet(mounts') /\ Cardinality(mounts') <= Slots
    BY <2>1, FS_EmptySet, ConstantsAre
  <2>3. cwd' \in Seq(Tok) /\ Len(cwd') = 0
    BY <2>1
  <2>4. CwdMounted' /\ Len(cwd') <= Deep
    BY <2>3, ConstantsAre DEF CwdMounted
  <2> QED
    BY <2>1, <2>2, <2>3, <2>4 DEF IInv
<1>12. ASSUME UNCHANGED vars PROVE IInv' /\ Kept(fs, fs')
  <2>1. fs' = fs /\ mounts' = mounts /\ cwd' = cwd
    BY <1>12 DEF vars
  <2>2. Sensible => Grounded(fs')
    BY <2>1 DEF IInv
  <2> QED
    BY <1>1, <1>2, <2>1, <2>2, NothingMoved
<1>13. CASE Next
  BY <1>3, <1>4, <1>5, <1>6, <1>7, <1>8, <1>9, <1>10, <1>11, <1>13 DEF Next
<1> QED
  BY <1>12, <1>13

(* Inodes, the mount table and the current directory keep their types. *)
THEOREM TreesTyped == ASSUME ConstantsOK PROVE Spec => []TypeOK
<1>1. Init => IInv
  BY RootsSound
<1>2. IInv /\ [Next]_vars => IInv'
  BY StepKeeps
<1>3. IInv => TypeOK
  BY FilesTyped
<1> QED
  BY <1>1, <1>2, <1>3, PTL DEF Spec

(* Whatever is made, written, copied, moved, removed, mounted and unmounted, what
   is allocated on a volume has exactly one name, /mnt of the root volume stays
   and stays empty, and the terminal stands in nothing that is unmounted. *)
THEOREM NamesAreOne == ASSUME ConstantsOK PROVE Spec => [](OneName /\ MntStaysEmpty /\ CwdMounted)
<1>1. Init => IInv
  BY RootsSound
<1>2. IInv /\ [Next]_vars => IInv'
  BY StepKeeps
<1>3. IInv => OneName /\ MntStaysEmpty /\ CwdMounted
  BY NamedOnce, MntIsEmpty DEF IInv
<1> QED
  BY <1>1, <1>2, <1>3, PTL DEF Spec

(* vfs_rename(), within a volume and between two, with a copy or a removal that
   fails: where a file's name is gone, another name leads to its text now. *)
THEOREM MovesKeep == ASSUME ConstantsOK PROVE Spec => MoveKeeps
<1>1. Init => IInv
  BY RootsSound
<1>2. IInv /\ [Next]_vars => IInv'
  BY StepKeeps
<1>3. IInv /\ [Next]_vars =>
        [told' = "mv" =>
           \A n \in Name : TextAt(fs, n) # None /\ TextAt(fs', n) = None =>
             \E m \in Name : TextAt(fs', m) = TextAt(fs, n) /\ Leads(fs', m) \notin {0, Leads(fs, m)}]_vars
  BY StepKeeps DEF Kept
<1> QED
  BY <1>1, <1>2, <1>3, PTL DEF Spec, MoveKeeps

(* Where no directory is moved into itself, every volume stays a tree: all that is
   allocated is reached from the root, and nothing else is. *)
THEOREM TreesStay == ASSUME ConstantsOK, Sensible PROVE Spec => []Tree
<1>1. Init => IInv
  BY RootsSound
<1>2. IInv /\ [Next]_vars => IInv'
  BY StepKeeps
<1>3. IInv => Tree
  BY TreesStand
<1> QED
  BY <1>1, <1>2, <1>3, PTL DEF Spec
=============================================================================
