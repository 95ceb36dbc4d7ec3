------------------------------ MODULE MCMachine ------------------------------
(* The machine below the desktop: the memory manager, the program window, the
   installer, directories and paths, partitions.  They share no state, so a
   behaviour runs one of them, chosen at the start, and a run explores the sum of
   their states and not the product. *)
EXTENDS Integers, Sequences, FiniteSets, FiniteSetTheorems, WellFoundedInduction, TLAPS

CONSTANTS
  Parts,                               (* the parts a run explores *)
  nil, root, vol, mnt, sub, words,
  NPages, Chunks, Sizes,                                (* of Mm      *)
  Prog, Refused, Key, Ring, Blocks, Spins, TickMod,     (* of ProgWin *)
  InstTargets, WholeDisks, Chainable, System, Had,      (* of Install *)
  Sensible,                            (* of Vfs     *)
  DiskSize, Align, Prim, Rootfs, InstallSize, BootTable, Wants, MaxVolumes, MaxMounts,
  BootBase                             (* of Parts: 0, or the partition the system runs from *)

VARIABLES part, mm, held, runs, cpu, pw, sys, owed, inst, ui, disk,
          fs, vols, cwd, told, boot, table, mounts, ask

memVars == <<mm, held, runs>>
progVars == <<cpu, pw, sys, owed>>
instVars == <<inst, ui, disk>>
treeVars == <<fs, vols, cwd, told>>
diskVars == <<boot, table, mounts, ask>>

Mem == INSTANCE Mm WITH
  BitmapPages <- 1, MinPages <- 1, Units <- 5, Runs <- {1, 2}

Window == INSTANCE ProgWin WITH None <- nil

Job == INSTANCE Install WITH Target <- InstTargets, Whole <- WholeDisks, None <- nil

Paths == INSTANCE Vfs WITH
  Root <- root, Vol <- {vol}, Mnt <- mnt, Tok <- {mnt, sub, vol}, Text <- {words}, None <- nil,
  Inodes <- 3, Slots <- 1, Deep <- 3, mounts <- vols

Disk == INSTANCE Parts WITH
  Size <- DiskSize, Install <- InstallSize, Table <- BootTable, Volumes <- MaxVolumes, Mounts <- MaxMounts,
  disk <- table

(* For BootTable: a system in a partition, or on the whole disk with a blank table. *)
Entries ==
  [e \in 1 .. Prim |->
    IF e = 1 /\ BootBase # 0 THEN [start |-> BootBase, n |-> InstallSize + 1, type |-> "data", active |-> TRUE]
    ELSE [start |-> 0, n |-> 0, type |-> "none", active |-> FALSE]]

ASSUME InstancesOK ==
  /\ Mem!ConstantsOK /\ Window!ConstantsOK /\ Job!ConstantsOK
  /\ Paths!ConstantsOK /\ Disk!ConstantsOK

(* The parts that do not run start in one state and not in each. *)
Init ==
  /\ part \in Parts /\ Mem!Init /\ Window!Init /\ Job!Init /\ Paths!Init /\ Disk!Init
  /\ part # "inst" => \A t \in InstTargets : disk[t].code = "other"
  /\ part # "disk" => boot

InMem(A) == part = "mem" /\ A /\ UNCHANGED <<part, progVars, instVars, treeVars, diskVars>>
InWindow(A) == part = "prog" /\ A /\ UNCHANGED <<part, memVars, instVars, treeVars, diskVars>>
InJob(A) == part = "inst" /\ A /\ UNCHANGED <<part, memVars, progVars, treeVars, diskVars>>
InPaths(A) == part = "tree" /\ A /\ UNCHANGED <<part, memVars, progVars, instVars, diskVars>>
InDisk(A) == part = "disk" /\ A /\ UNCHANGED <<part, memVars, progVars, instVars, treeVars>>

Next ==
  \/ InMem(Mem!Next) \/ InWindow(Window!Next) \/ InJob(Job!Next)
  \/ InPaths(Paths!Next) \/ InDisk(Disk!Next)

Spec == Init /\ [][Next]_<<part, memVars, progVars, instVars, treeVars, diskVars>>

(* The properties; each named part of them is stated, with the code it is about, in the
   module it comes from.  Those that take long are looked at where their part runs. *)
TypeOK == Mem!TypeOK /\ Window!TypeOK /\ Job!TypeOK /\ Paths!TypeOK /\ Disk!TypeOK

(* Every sequence of allocations and frees leaves a heap that is whole, gives no byte to
   two owners, finds the room there is, takes back just what is held and gives its pages
   back. *)
MemorySound ==
  part = "mem" =>
    Mem!Healthy /\ Mem!NobodysTwice /\ Mem!FindsRoom /\ Mem!FreesWhatIsHeld /\ Mem!HeapShrinks

(* A program that is left at any of its calls, or ended at any of them, leaves nothing of
   itself in the kernel, and what was typed into it reaches it in order. *)
ProgramsApart == Window!NothingLeft /\ Window!PointsHome /\ Window!OwnCode /\ Window!KeysInOrder

(* What is on disks hangs together: the new boot sector comes after the rest of the new
   system and DONE after a comparison, directories are a tree below their roots with nothing in the one that is mounted over,
   partitions do not overlap, the gap that is offered is free, and the system's own boot
   sector and entry stay. *)
DisksSound ==
  /\ Job!BootSectorLast /\ Job!DoneMeansVerified
  /\ part = "tree" => Paths!Tree /\ Paths!CwdMounted /\ Paths!MntStaysEmpty
  /\ part = "disk" => Disk!Disjoint /\ Disk!FindsGap /\ Disk!BootKept

(* Steps: a sleep is not cut short; boot code of others is kept and one job runs at a
   time; a move keeps what it moves. *)
StepsSound == Window!SleepsEnough /\ Job!BootcodeKept /\ Job!OneJob /\ Paths!MoveKeeps

(* The tree alone, where the user moves a directory into itself as well (Vfs, Sensible). *)
Tree == part = "tree" => Paths!Tree

(* The installer alone: what its comments say of an installation that fails half. *)
NeverHalf == part = "inst" => Job!NeverHalfBootable

-----------------------------------------------------------------------------
(* The program window.  What the properties rest on, and the proof that every step keeps it. *)

Runs == [used : BOOLEAN, finished : BOOLEAN, faulted : BOOLEAN, prog : Prog \cup {nil},
         keyq : [0 .. Ring - 1 -> Key \cup {nil}], kh : 0 .. Ring - 1, kt : 0 .. Ring - 1,
         spin : 0 .. Spins, at : {"fresh", "run", "poll", "sleep", "beep"},
         until : 0 .. TickMod - 1, due : 0 .. 2, mem : SUBSET Blocks, surface : BOOLEAN, stack : BOOLEAN]
Pointers == [bb : {"screen", "surface"}, mem : {"legacy", "window"}, code : Prog \cup {nil},
             speaker : BOOLEAN, guards : 0 .. 1, held : SUBSET Blocks, ms : 0 .. TickMod - 1]
RunTypes ==
  /\ cpu \in {"kernel", "window", "full"} /\ pw \in Runs /\ sys \in Pointers /\ owed \in Seq(Key)

(* The processor is the window's only while its program runs, the full screen's
   only while there is no window; the guard page is there with the stack. *)
Whose ==
  /\ cpu = "window" => pw.used
  /\ cpu = "full" => ~ pw.used
  /\ cpu # "full" => sys.held = {}
  /\ ~ pw.finished
  /\ sys.guards = IF pw.stack THEN 1 ELSE 0
  /\ pw.used => pw.stack
  /\ ~ pw.used => pw.mem = {} /\ ~ pw.stack /\ ~ pw.surface /\ ~ sys.speaker

Count == (pw.kt - pw.kh) % Ring
Ordered == pw.used => Len(owed) = Count /\ \A i \in 1 .. Count : owed[i] = pw.keyq[(pw.kh + i - 1) % Ring]

(* While a sleep has time to go the clock is short of its end by just that time. *)
Due == pw.due > 0 => (pw.until - sys.ms) % TickMod = pw.due
ClockWide == TickMod \div 2 > 2

RunInv == RunTypes /\ Whose /\ Window!PointsHome /\ Window!OwnCode /\ Ordered

(* The ring's arithmetic. *)
LEMMA RingPlace ==
  ASSUME NEW R \in Nat \ {0}, NEW h \in 0 .. R - 1, NEW i \in 0 .. R
  PROVE  (h + i) % R = IF h + i < R THEN h + i ELSE h + i - R
<1>1. CASE h + i < R
  <2>1. (h + i) % R = h + i
    BY <1>1
  <2> QED
    BY <1>1, <2>1
<1>2. CASE ~ (h + i < R)
  <2>1. (h + i) % R = h + i - R
    BY <1>2
  <2> QED
    BY <1>2, <2>1
<1> QED
  BY <1>1, <1>2

LEMMA RingCount ==
  ASSUME NEW R \in Nat \ {0}, NEW h \in 0 .. R - 1, NEW t \in 0 .. R - 1
  PROVE  (t - h) % R = IF h <= t THEN t - h ELSE t - h + R
<1>1. CASE h <= t
  <2>1. (t - h) % R = t - h
    BY <1>1
  <2> QED
    BY <1>1, <2>1
<1>2. CASE ~ (h <= t)
  <2>1. (t - h) % R = t - h + R
    BY <1>2
  <2> QED
    BY <1>2, <2>1
<1> QED
  BY <1>1, <1>2

(* A key that fits goes to the place after the last one. *)
LEMMA RingPush ==
  ASSUME NEW R \in Nat \ {0}, NEW h \in 0 .. R - 1, NEW t \in 0 .. R - 1, (t + 1) % R # h
  PROVE  /\ (((t + 1) % R) - h) % R = ((t - h) % R) + 1
         /\ (h + (((t - h) % R) + 1) - 1) % R = t
         /\ \A i \in 1 .. (t - h) % R : (h + i - 1) % R # t /\ (h + i - 1) % R \in 0 .. R - 1
<1> DEFINE n == (t - h) % R
           s == (t + 1) % R
<1>1. n = IF h <= t THEN t - h ELSE t - h + R
  BY RingCount
<1>2. s = (IF t + 1 < R THEN t + 1 ELSE 0) /\ s \in 0 .. R - 1
  <2>0. 1 \in 0 .. R
    OBVIOUS
  <2>1. s = IF t + 1 < R THEN t + 1 ELSE t + 1 - R
    BY <2>0, RingPlace, Zenon
  <2> HIDE DEF s
  <2> QED
    BY <2>1
<1>3. (s - h) % R = IF h <= s THEN s - h ELSE s - h + R
  BY <1>2, RingCount
<1>4. (s - h) % R = n + 1
  BY <1>1, <1>2, <1>3
<1>5. n \in 0 .. R - 1
  BY <1>1
<1>6. \A i \in 1 .. n + 1 : (h + i - 1) % R = IF h + i - 1 < R THEN h + i - 1 ELSE h + i - 1 - R
  <2> TAKE i \in 1 .. n + 1
  <2>1. i - 1 \in 0 .. R
    BY <1>5
  <2>2. (h + (i - 1)) % R = IF h + (i - 1) < R THEN h + (i - 1) ELSE h + (i - 1) - R
    BY <2>1, RingPlace, Zenon
  <2>3. h + (i - 1) = h + i - 1
    OBVIOUS
  <2> QED
    BY <2>2, <2>3
<1> HIDE DEF n, s
<1>7. (h + (n + 1) - 1) % R = t
  BY <1>1, <1>5, <1>6
<1>8. \A i \in 1 .. n : (h + i - 1) % R # t /\ (h + i - 1) % R \in 0 .. R - 1
  BY <1>1, <1>5, <1>6
<1> QED
  BY <1>4, <1>7, <1>8 DEF n, s

(* The oldest key leaves, and the others move up by one. *)
LEMMA RingPop ==
  ASSUME NEW R \in Nat \ {0}, NEW h \in 0 .. R - 1, NEW t \in 0 .. R - 1, h # t
  PROVE  /\ (h + 1) % R \in 0 .. R - 1
         /\ (t - h) % R \in 1 .. R - 1
         /\ (t - ((h + 1) % R)) % R = ((t - h) % R) - 1
         /\ \A i \in 1 .. ((t - h) % R) - 1 : (((h + 1) % R) + i - 1) % R = (h + (i + 1) - 1) % R
<1> DEFINE n == (t - h) % R
           g == (h + 1) % R
<1>1. n = (IF h <= t THEN t - h ELSE t - h + R) /\ n \in 1 .. R - 1
  <2>1. n = IF h <= t THEN t - h ELSE t - h + R
    BY RingCount
  <2> HIDE DEF n
  <2> QED
    BY <2>1
<1>2. g = (IF h + 1 < R THEN h + 1 ELSE 0) /\ g \in 0 .. R - 1
  <2>0. 1 \in 0 .. R
    OBVIOUS
  <2>1. g = IF h + 1 < R THEN h + 1 ELSE h + 1 - R
    BY <2>0, RingPlace, Zenon
  <2> HIDE DEF g
  <2> QED
    BY <2>1
<1>3. (t - g) % R = IF g <= t THEN t - g ELSE t - g + R
  BY <1>2, RingCount
<1>4. (t - g) % R = n - 1
  BY <1>1, <1>2, <1>3
<1>5. \A i \in 1 .. n - 1 : (g + i - 1) % R = (h + (i + 1) - 1) % R
  <2> TAKE i \in 1 .. n - 1
  <2>1. i - 1 \in 0 .. R /\ i \in 0 .. R
    BY <1>1
  <2>2. (g + (i - 1)) % R = IF g + (i - 1) < R THEN g + (i - 1) ELSE g + (i - 1) - R
    BY <1>2, <2>1, RingPlace, Zenon
  <2>3. (h + i) % R = IF h + i < R THEN h + i ELSE h + i - R
    BY <2>1, RingPlace, Zenon
  <2>4. g + (i - 1) = g + i - 1 /\ h + (i + 1) - 1 = h + i
    BY <1>2
  <2> HIDE DEF g, n
  <2>5. (g + (i - 1)) % R = (h + i) % R
    BY <1>1, <1>2, <2>1, <2>2, <2>3
  <2> QED
    BY <2>4, <2>5
<1>6. g \in 0 .. R - 1 /\ n \in 1 .. R - 1
  BY <1>1, <1>2, Zenon
<1> QED
  BY <1>4, <1>5, <1>6, Zenon

(* What the ring holds, as a sequence. *)
LEMMA RingHolds ==
  ASSUME Window!ConstantsOK, RunTypes, Ordered
  PROVE  Window!KeysInOrder
<1> SUFFICES ASSUME pw.used PROVE Window!RingIs = owed
  BY DEF Window!KeysInOrder
<1>1. Len(owed) = Count /\ \A i \in 1 .. Count : owed[i] = pw.keyq[(pw.kh + i - 1) % Ring]
  BY DEF Ordered
<1>2. owed = [i \in 1 .. Len(owed) |-> owed[i]]
  BY DEF RunTypes
<1>3. owed = [i \in 1 .. Count |-> pw.keyq[(pw.kh + i - 1) % Ring]]
  BY <1>1, <1>2, Zenon
<1> QED
  BY <1>3 DEF Window!RingIs, Count

(* A step that leaves the ring and the keys that are owed. *)
LEMMA SameKeys ==
  ASSUME RunInv, pw'.used => pw.used, owed' = owed, pw'.keyq = pw.keyq, pw'.kh = pw.kh, pw'.kt = pw.kt
  PROVE  Ordered'
BY DEF RunInv, Ordered, Count

LEMMA PushKeyInv ==
  ASSUME Window!ConstantsOK, RunInv, NEW k \in Key, Window!PushKey(k)
  PROVE  RunInv'
<1>1. Ring \in Nat \ {0} /\ pw.kh \in 0 .. Ring - 1 /\ pw.kt \in 0 .. Ring - 1
      /\ pw.keyq \in [0 .. Ring - 1 -> Key \cup {nil}] /\ owed \in Seq(Key)
  BY DEF Window!ConstantsOK, RunInv, RunTypes, Runs
<1> DEFINE next == (pw.kt + 1) % Ring
<1>2. CASE next = pw.kh
  <2>1. pw' = pw /\ owed' = owed /\ cpu' = cpu /\ sys' = sys
    BY <1>2 DEF Window!PushKey, Window!Pushed
  <2> QED
    BY <2>1 DEF RunInv, RunTypes, Whose, Window!PointsHome, Window!OwnCode, Ordered, Count
<1>3. CASE next # pw.kh
  <2>1. next \in 0 .. Ring - 1
    BY <1>1
  <2>2. pw' = [pw EXCEPT !.keyq[pw.kt] = k, !.kt = next]
    BY <1>3 DEF Window!PushKey, Window!Pushed
  <2>3. /\ pw' \in Runs /\ pw'.kt = next /\ pw'.kh = pw.kh /\ pw'.keyq = [pw.keyq EXCEPT ![pw.kt] = k]
        /\ pw'.used = pw.used /\ pw'.finished = pw.finished /\ pw'.stack = pw.stack /\ pw'.prog = pw.prog
        /\ pw'.mem = pw.mem /\ pw'.surface = pw.surface
    BY <1>1, <2>1, <2>2 DEF RunInv, RunTypes, Runs
  <2>4. /\ (next - pw.kh) % Ring = ((pw.kt - pw.kh) % Ring) + 1
        /\ (pw.kh + (((pw.kt - pw.kh) % Ring) + 1) - 1) % Ring = pw.kt
        /\ \A i \in 1 .. (pw.kt - pw.kh) % Ring : /\ (pw.kh + i - 1) % Ring # pw.kt
                                                  /\ (pw.kh + i - 1) % Ring \in 0 .. Ring - 1
    BY <1>1, <1>3, RingPush, Zenon
  <2>5. Count' = Count + 1 /\ (pw.kh + (Count + 1) - 1) % Ring = pw.kt
        /\ \A i \in 1 .. Count : /\ (pw.kh + i - 1) % Ring # pw.kt
                                 /\ (pw.kh + i - 1) % Ring \in 0 .. Ring - 1
    BY <2>3, <2>4 DEF Count
  <2>6. Count \in Nat
    BY <1>1 DEF Count
  <2>7. pw' # pw
    <3>1. next # pw.kt
      BY <1>1, <1>3, <2>4, <2>6 DEF Count
    <3> QED
      BY <2>3, <3>1
  <2>8. owed' = Append(owed, k) /\ cpu' = cpu /\ sys' = sys /\ pw.used
    BY <2>7 DEF Window!PushKey
  <2>9. Len(owed) = Count /\ \A i \in 1 .. Count : owed[i] = pw.keyq[(pw.kh + i - 1) % Ring]
    BY <2>8 DEF RunInv, Ordered
  <2>10. /\ owed' \in Seq(Key) /\ Len(owed') = Count + 1 /\ owed'[Count + 1] = k
         /\ \A i \in 1 .. Count : owed'[i] = owed[i]
    BY <1>1, <2>6, <2>8, <2>9
  <2>11. \A i \in 1 .. Count + 1 : owed'[i] = pw'.keyq[(pw'.kh + i - 1) % Ring]
    <3> TAKE i \in 1 .. Count + 1
    <3>1. CASE i = Count + 1
      <4>1. pw'.keyq[pw.kt] = k
        BY <1>1, <2>3
      <4>2. (pw'.kh + i - 1) % Ring = pw.kt
        BY <2>3, <2>5, <3>1, Zenon
      <4> QED
        BY <2>10, <3>1, <4>1, <4>2, Zenon
    <3>2. CASE i # Count + 1
      <4>1. i \in 1 .. Count
        BY <2>6, <3>2
      <4>2. (pw.kh + i - 1) % Ring # pw.kt /\ (pw.kh + i - 1) % Ring \in 0 .. Ring - 1
        BY <2>5, <4>1
      <4> DEFINE at == (pw.kh + i - 1) % Ring
      <4>3. owed'[i] = pw.keyq[at]
        BY <2>9, <2>10, <4>1
      <4> HIDE DEF at
      <4>4. pw'.keyq[at] = pw.keyq[at]
        BY <1>1, <2>3, <4>2 DEF at
      <4> QED
        BY <2>3, <4>3, <4>4 DEF at
    <3> QED
      BY <3>1, <3>2
  <2>12. Ordered'
    <3> HIDE DEF next
    <3> QED
      BY <2>5, <2>10, <2>11 DEF Ordered
  <2>13. RunTypes' /\ Whose' /\ Window!PointsHome' /\ Window!OwnCode'
    BY <2>3, <2>8, <2>10 DEF RunInv, RunTypes, Whose, Window!PointsHome, Window!OwnCode
  <2> QED
    BY <2>12, <2>13 DEF RunInv
<1> QED
  BY <1>2, <1>3

(* Looking at the queue hands over the key that has waited longest. *)
LEMMA PopKeys ==
  ASSUME Window!ConstantsOK, RunInv, pw.used,
         owed' = IF Window!Empty(pw) THEN owed ELSE Tail(owed),
         pw'.keyq = pw.keyq, pw'.kh = Window!Popped(pw).kh, pw'.kt = pw.kt
  PROVE  Ordered' /\ owed' \in Seq(Key) /\ Window!Popped(pw).kh \in 0 .. Ring - 1
<1>1. Ring \in Nat \ {0} /\ pw.kh \in 0 .. Ring - 1 /\ pw.kt \in 0 .. Ring - 1 /\ owed \in Seq(Key)
      /\ pw \in Runs
  BY DEF Window!ConstantsOK, RunInv, RunTypes, Runs
<1>2. CASE Window!Empty(pw)
  <2>1. Window!Popped(pw) = pw /\ owed' = owed
    BY <1>2 DEF Window!Popped
  <2> QED
    BY <1>1, <2>1, SameKeys
<1>3. CASE ~ Window!Empty(pw)
  <2>1. pw.kh # pw.kt /\ owed' = Tail(owed)
    BY <1>3 DEF Window!Empty
  <2>2. Window!Popped(pw).kh = (pw.kh + 1) % Ring
    BY <1>1, <1>3 DEF Window!Popped, Runs
  <2>3. /\ (pw.kh + 1) % Ring \in 0 .. Ring - 1
        /\ (pw.kt - pw.kh) % Ring \in 1 .. Ring - 1
        /\ (pw.kt - ((pw.kh + 1) % Ring)) % Ring = ((pw.kt - pw.kh) % Ring) - 1
        /\ \A i \in 1 .. ((pw.kt - pw.kh) % Ring) - 1 :
             (((pw.kh + 1) % Ring) + i - 1) % Ring = (pw.kh + (i + 1) - 1) % Ring
    BY <1>1, <2>1, RingPop, Zenon
  <2>4. /\ Count \in 1 .. Ring - 1 /\ Count' = Count - 1
        /\ \A i \in 1 .. Count - 1 : (pw'.kh + i - 1) % Ring = (pw.kh + (i + 1) - 1) % Ring
    BY <2>2, <2>3, Zenon DEF Count
  <2>5. Len(owed) = Count /\ \A i \in 1 .. Count : owed[i] = pw.keyq[(pw.kh + i - 1) % Ring]
    BY DEF RunInv, Ordered
  <2>6. Count \in Nat /\ Count > 0
    BY <1>1, <2>4
  <2>7. /\ owed' \in Seq(Key) /\ Len(owed') = Count - 1
        /\ \A i \in 1 .. Count - 1 : owed'[i] = owed[i + 1]
    BY <1>1, <2>1, <2>5, <2>6
  <2>8. \A i \in 1 .. Count - 1 : owed'[i] = pw'.keyq[(pw'.kh + i - 1) % Ring]
    <3> TAKE i \in 1 .. Count - 1
    <3>1. i + 1 \in 1 .. Count
      BY <2>6
    <3>2. owed[i + 1] = pw.keyq[(pw.kh + (i + 1) - 1) % Ring]
      BY <2>5, <3>1, Zenon
    <3>3. (pw'.kh + i - 1) % Ring = (pw.kh + (i + 1) - 1) % Ring
      BY <2>4, Zenon
    <3> QED
      BY <2>7, <3>2, <3>3, Zenon
  <2> QED
    BY <2>2, <2>3, <2>4, <2>7, <2>8 DEF Ordered
<1> QED
  BY <1>2, <1>3

(* Freeing a run changes the speaker and the guard in the table, no more. *)
LEMMA FreedPointers ==
  ASSUME NEW s \in Pointers, NEW p \in Runs, p.stack => s.guards = 1
  PROVE  /\ Window!Freed(s, p) \in Pointers
         /\ ~ Window!Freed(s, p).speaker /\ (p.stack => Window!Freed(s, p).guards = 0)
         /\ (~ p.stack => Window!Freed(s, p).guards = s.guards)
         /\ Window!Freed(s, p).bb = s.bb /\ Window!Freed(s, p).mem = s.mem /\ Window!Freed(s, p).held = s.held
         /\ Window!Freed(s, p).code = s.code
<1> DEFINE g == IF p.stack THEN s.guards - 1 ELSE s.guards
<1>1. Window!Freed(s, p) = [s EXCEPT !.speaker = FALSE, !.guards = g]
  BY DEF Window!Freed
<1>2. p.stack \in BOOLEAN /\ g = (IF p.stack THEN 0 ELSE s.guards) /\ g \in 0 .. 1
  BY DEF Pointers, Runs
<1> HIDE DEF g
<1> QED
  BY <1>1, <1>2 DEF Pointers

LEMMA RestoredPointers ==
  ASSUME NEW s \in Pointers
  PROVE  /\ Window!Restored(s) \in Pointers /\ Window!Restored(s).bb = "screen" /\ Window!Restored(s).mem = "legacy"
         /\ Window!Restored(s).guards = s.guards /\ Window!Restored(s).held = s.held /\ Window!Restored(s).code = s.code
         /\ Window!Restored(s).speaker = s.speaker
BY DEF Window!Restored, Pointers

(* What the kernel does again once the processor comes back, whatever brought it:
   a yield, the program's end, an exception. *)
LEMMA BackInv ==
  ASSUME Window!ConstantsOK, RunInv, cpu = "window", NEW p \in Runs, Window!Back(p), owed' = owed,
         p.used, p.prog = pw.prog, p.stack = pw.stack,
         p.keyq = pw.keyq, p.kh = pw.kh, p.kt = pw.kt
  PROVE  RunInv'
<1>1. pw \in Runs /\ sys \in Pointers /\ owed \in Seq(Key)
  BY DEF RunInv, RunTypes
<1>2. pw.used /\ pw.stack /\ sys.guards = 1 /\ sys.held = {}
  BY <1>1 DEF RunInv, Whose, Runs
<1>3. CASE p.finished
  <2>1. /\ pw' \in Runs /\ pw'.mem = {} /\ ~ pw'.stack /\ ~ pw'.surface /\ ~ pw'.used /\ ~ pw'.finished
    BY <1>1, <1>3 DEF Window!Back, Window!Closed, Window!FreeRun, Runs
  <2>2. /\ sys' \in Pointers /\ sys'.bb = "screen" /\ sys'.mem = "legacy" /\ ~ sys'.speaker
        /\ sys'.guards = 0 /\ sys'.held = {} /\ cpu' = "kernel"
    <3>1. sys' = Window!Restored(Window!Freed(sys, p)) /\ cpu' = "kernel"
      BY <1>3 DEF Window!Back
    <3>2. /\ Window!Freed(sys, p) \in Pointers /\ ~ Window!Freed(sys, p).speaker /\ Window!Freed(sys, p).guards = 0
          /\ Window!Freed(sys, p).held = {}
      BY <1>1, <1>2, FreedPointers
    <3> QED
      BY <3>1, <3>2, RestoredPointers
  <2>3. RunTypes' /\ Whose' /\ Window!PointsHome' /\ Window!OwnCode' /\ Ordered'
    BY <1>1, <2>1, <2>2 DEF RunTypes, Whose, Window!PointsHome, Window!OwnCode, Ordered
  <2> QED
    BY <2>3 DEF RunInv
<1>4. CASE ~ p.finished
  <2>1. pw' = p /\ cpu' = "kernel"
    BY <1>4 DEF Window!Back
  <2>2. /\ sys' \in Pointers /\ sys'.bb = "screen" /\ sys'.mem = "legacy"
        /\ sys'.guards = 1 /\ sys'.held = {} /\ sys'.code = sys.code
    BY <1>1, <1>2, <1>4 DEF Window!Back, Window!Restored, Pointers
  <2>3. RunTypes' /\ Whose' /\ Window!PointsHome'
    BY <1>1, <1>2, <1>4, <2>1, <2>2 DEF RunTypes, Whose, Window!PointsHome
  <2>4. Window!OwnCode' /\ Ordered'
    BY <1>2, <2>1, <2>2, SameKeys DEF RunInv, Window!OwnCode
  <2> QED
    BY <2>3, <2>4 DEF RunInv
<1> QED
  BY <1>3, <1>4

(* A launch finds nothing of the run before, and leaves nothing when there is no
   memory for the surface or the stack. *)
LEMMA StartInv ==
  ASSUME Window!ConstantsOK, RunInv, cpu = "kernel", cpu' = cpu, ~ pw.used,
         NEW who \in Prog \cup {nil}, NEW code \in Prog \cup {nil}, who # nil => code = who,
         NEW got \in SUBSET {"surface", "stack"}, Window!Start(who, code, got)
  PROVE  RunInv'
<1>1. pw \in Runs /\ sys \in Pointers /\ owed \in Seq(Key) /\ Ring \in Nat \ {0} /\ Spins \in Nat
  BY DEF RunInv, RunTypes, Window!ConstantsOK
<1>2. ~ pw.stack /\ ~ sys.speaker /\ sys.guards = 0 /\ sys.held = {} /\ ~ pw.finished
      /\ sys.bb = "screen" /\ sys.mem = "legacy"
  BY <1>1 DEF RunInv, Whose, Window!PointsHome, Pointers
<1>3. CASE got = {"surface", "stack"}
  <2>1. "stack" \in got
    BY <1>3
  <2>2. /\ pw' \in Runs /\ pw'.used /\ ~ pw'.finished /\ pw'.stack /\ pw'.prog = who
        /\ pw'.kh = 0 /\ pw'.kt = 0
    BY <1>1, <1>3 DEF Window!Start, Window!Fresh, Runs
  <2>3. owed' = <<>>
    BY <1>3 DEF Window!Start
  <2>4. /\ sys' \in Pointers /\ sys'.bb = "screen" /\ sys'.mem = "legacy" /\ sys'.guards = 1
        /\ sys'.held = {} /\ sys'.code = code
    <3> DEFINE taken == [pw EXCEPT !.surface = "surface" \in got, !.stack = "stack" \in got]
    <3>1. taken.stack
      BY <1>1, <2>1 DEF Runs
    <3>2. sys' = [sys EXCEPT !.code = code, !.guards = IF taken.stack THEN @ + 1 ELSE @]
      BY <1>3 DEF Window!Start
    <3>3. sys' = [sys EXCEPT !.code = code, !.guards = 1]
      BY <1>1, <1>2, <3>1, <3>2
    <3> HIDE DEF taken
    <3>4. 1 \in 0 .. 1
      OBVIOUS
    <3> QED
      BY <1>1, <1>2, <3>3, <3>4 DEF Pointers
  <2>5. RunTypes' /\ Whose' /\ Window!PointsHome' /\ Window!OwnCode'
    BY <2>2, <2>3, <2>4 DEF RunTypes, Whose, Window!PointsHome, Window!OwnCode
  <2>6. Ordered'
    <3>1. Count' = 0
      BY <1>1, <2>2 DEF Count
    <3> QED
      BY <2>3, <3>1 DEF Ordered
  <2> QED
    BY <2>5, <2>6 DEF RunInv
<1>4. CASE got # {"surface", "stack"}
  <2> DEFINE taken == [pw EXCEPT !.surface = "surface" \in got, !.stack = "stack" \in got]
             guarded == [sys EXCEPT !.code = code, !.guards = IF taken.stack THEN @ + 1 ELSE @]
  <2>1. pw' = Window!FreeRun(taken) /\ sys' = Window!Freed(guarded, taken) /\ owed' = owed
    BY <1>4 DEF Window!Start
  <2>2. taken \in Runs /\ ~ taken.used /\ ~ taken.finished
    <3> DEFINE u == "surface" \in got
               t == "stack" \in got
    <3>1. u \in BOOLEAN /\ t \in BOOLEAN
      OBVIOUS
    <3>2. taken = [pw EXCEPT !.surface = u, !.stack = t]
      OBVIOUS
    <3> HIDE DEF u, t, taken
    <3> QED
      BY <1>1, <1>2, <3>1, <3>2, ZenonT(40) DEF Runs
  <2>3. /\ guarded \in Pointers /\ guarded.guards = (IF taken.stack THEN 1 ELSE 0)
        /\ guarded.bb = "screen" /\ guarded.mem = "legacy" /\ guarded.held = {}
    <3> DEFINE g == IF taken.stack THEN 1 ELSE 0
    <3>1. guarded = [sys EXCEPT !.code = code, !.guards = g]
      BY <1>1, <1>2
    <3>2. g \in 0 .. 1
      OBVIOUS
    <3> HIDE DEF g, taken
    <3> QED
      BY <1>1, <1>2, <3>1, <3>2 DEF g, Pointers
  <2> HIDE DEF taken, guarded
  <2>4. /\ pw' \in Runs /\ ~ pw'.used /\ ~ pw'.finished /\ pw'.mem = {} /\ ~ pw'.stack /\ ~ pw'.surface
    BY <2>1, <2>2 DEF Window!FreeRun, Runs
  <2>5. /\ sys' \in Pointers /\ sys'.bb = "screen" /\ sys'.mem = "legacy" /\ sys'.guards = 0
        /\ sys'.held = {} /\ ~ sys'.speaker
    BY <2>1, <2>2, <2>3, FreedPointers
  <2>6. RunTypes' /\ Whose' /\ Window!PointsHome' /\ Window!OwnCode' /\ Ordered'
    BY <1>1, <2>1, <2>4, <2>5 DEF RunTypes, Whose, Window!PointsHome, Window!OwnCode, Ordered
  <2> QED
    BY <2>6 DEF RunInv
<1> QED
  BY <1>3, <1>4

LEMMA LaunchInv ==
  ASSUME Window!ConstantsOK, RunInv, NEW p \in Prog, NEW got \in SUBSET {"surface", "stack"}, Window!Launch(p, got)
  PROVE  RunInv'
<1>1. CASE Window!Load(p) = nil
  <2>1. sys' = [sys EXCEPT !.code = nil] /\ pw' = pw /\ owed' = owed /\ cpu' = cpu /\ ~ pw.used
    BY <1>1 DEF Window!Launch
  <2> QED
    BY <2>1 DEF RunInv, RunTypes, Pointers, Whose, Window!PointsHome, Window!OwnCode, Ordered
<1>2. CASE Window!Load(p) # nil
  <2>1. Window!Start(p, p, got) /\ cpu = "kernel" /\ cpu' = cpu /\ ~ pw.used
    BY <1>2 DEF Window!Launch
  <2> QED
    BY <2>1, StartInv
<1> QED
  BY <1>1, <1>2

LEMMA LaunchFnInv ==
  ASSUME Window!ConstantsOK, RunInv, NEW got \in SUBSET {"surface", "stack"}, Window!LaunchFn(got)
  PROVE  RunInv'
<1>1. sys.code \in Prog \cup {nil}
  BY DEF RunInv, RunTypes, Pointers
<1>2. Window!Start(nil, sys.code, got) /\ cpu = "kernel" /\ cpu' = cpu /\ ~ pw.used
  BY DEF Window!LaunchFn
<1> QED
  BY <1>1, <1>2, StartInv

LEMMA CloseInv ==
  ASSUME RunInv, Window!Close
  PROVE  RunInv'
<1>1. pw \in Runs /\ sys \in Pointers
  BY DEF RunInv, RunTypes
<1>2. pw.stack /\ sys.guards = 1 /\ sys.held = {} /\ sys.bb = "screen" /\ sys.mem = "legacy"
  BY <1>1 DEF Window!Close, RunInv, Whose, Window!PointsHome, Pointers
<1>3. pw' \in Runs /\ ~ pw'.used /\ ~ pw'.finished /\ pw'.mem = {} /\ ~ pw'.stack /\ ~ pw'.surface
  BY <1>1 DEF Window!Close, Window!Closed, Window!FreeRun, Runs
<1>4. /\ sys' \in Pointers /\ sys'.bb = "screen" /\ sys'.mem = "legacy" /\ sys'.guards = 0
      /\ sys'.held = {} /\ ~ sys'.speaker /\ cpu' = cpu /\ cpu = "kernel" /\ owed' = owed
  <2>1. sys' = Window!Freed(sys, pw) /\ cpu' = cpu /\ cpu = "kernel" /\ owed' = owed
    BY <1>1 DEF Window!Close, Runs
  <2> QED
    BY <1>1, <1>2, <2>1, FreedPointers
<1> QED
  BY <1>3, <1>4 DEF RunInv, RunTypes, Whose, Window!PointsHome, Window!OwnCode, Ordered

LEMMA RunStepInv ==
  ASSUME RunInv, Window!Step
  PROVE  RunInv'
<1>1. pw' = pw /\ owed' = owed /\ cpu' = "window" /\ cpu = "kernel" /\ pw.used
  BY DEF Window!Step
<1>2. /\ sys' \in Pointers /\ sys'.bb = "surface" /\ sys'.mem = "window" /\ sys'.guards = sys.guards
      /\ sys'.held = sys.held /\ sys'.code = sys.code /\ sys'.speaker = sys.speaker
  BY DEF Window!Step, RunInv, RunTypes, Pointers
<1> QED
  BY <1>1, <1>2 DEF RunInv, RunTypes, Whose, Window!PointsHome, Window!OwnCode, Ordered, Count

LEMMA PassesInv ==
  ASSUME Window!ConstantsOK, RunInv, Window!Passes
  PROVE  RunInv'
<1>1. pw \in Runs /\ sys \in Pointers /\ TickMod \in Nat \ {0} /\ cpu' = cpu /\ owed' = owed
  BY DEF Window!Passes, RunInv, RunTypes, Window!ConstantsOK
<1>2. /\ sys' \in Pointers /\ sys'.bb = sys.bb /\ sys'.mem = sys.mem /\ sys'.guards = sys.guards
      /\ sys'.held = sys.held /\ sys'.code = sys.code /\ sys'.speaker = sys.speaker
  <2>1. (sys.ms + 1) % TickMod \in 0 .. TickMod - 1
    BY <1>1 DEF Pointers
  <2> QED
    BY <1>1, <2>1 DEF Window!Passes, Pointers
<1>3. /\ pw' \in Runs /\ pw'.used = pw.used /\ pw'.finished = pw.finished /\ pw'.stack = pw.stack
      /\ pw'.surface = pw.surface /\ pw'.mem = pw.mem /\ pw'.prog = pw.prog
      /\ pw'.keyq = pw.keyq /\ pw'.kh = pw.kh /\ pw'.kt = pw.kt
  BY <1>1 DEF Window!Passes, Runs
<1>4. Ordered'
  BY <1>1, <1>3, SameKeys
<1> QED
  BY <1>1, <1>2, <1>3, <1>4 DEF RunInv, RunTypes, Whose, Window!PointsHome, Window!OwnCode

(* A yield changes nothing but where the program goes on. *)
LEMMA YieldingRuns ==
  ASSUME Window!ConstantsOK, RunInv, NEW at \in {"fresh", "run", "poll", "sleep", "beep"}
  PROVE  LET p == Window!Yielding(at)
         IN /\ p \in Runs /\ p.used = pw.used /\ p.prog = pw.prog /\ p.stack = pw.stack /\ ~ p.finished
            /\ p.mem = pw.mem /\ p.surface = pw.surface /\ p.at = at /\ p.due = pw.due /\ p.until = pw.until
            /\ p.keyq = pw.keyq /\ p.kh = pw.kh /\ p.kt = pw.kt
<1>1. pw \in Runs /\ ~ pw.finished /\ 0 \in 0 .. Spins
  BY DEF RunInv, RunTypes, Whose, Window!ConstantsOK
<1> QED
  BY <1>1 DEF Window!Yielding, Runs

LEMMA PresentInv ==
  ASSUME Window!ConstantsOK, RunInv, Window!Present
  PROVE  RunInv'
<1> DEFINE p == Window!Yielding("run")
<1>1. cpu = "window" /\ Window!Back(p) /\ owed' = owed /\ pw.used
  BY DEF Window!Present, RunInv, Whose
<1>2. /\ p \in Runs /\ p.used = pw.used /\ p.prog = pw.prog /\ p.stack = pw.stack
      /\ p.keyq = pw.keyq /\ p.kh = pw.kh /\ p.kt = pw.kt
  BY YieldingRuns
<1> HIDE DEF p
<1> QED
  BY <1>1, <1>2, BackInv

(* A step of the program that keeps the processor and no more than moves in its
   own state. *)
LEMMA OwnStep ==
  ASSUME Window!ConstantsOK, RunInv, cpu = "window", cpu' = cpu, pw' \in Runs, owed' \in Seq(Key), Ordered',
         pw'.used = pw.used, ~ pw'.finished, pw'.stack = pw.stack, pw'.prog = pw.prog,
         sys' \in Pointers, sys'.bb = sys.bb, sys'.mem = sys.mem, sys'.guards = sys.guards,
         sys'.held = sys.held, sys'.code = sys.code
  PROVE  RunInv'
<1>1. pw.used
  BY DEF RunInv, Whose
<1> QED
  BY <1>1 DEF RunInv, RunTypes, Whose, Window!PointsHome, Window!OwnCode

LEMMA PollInv ==
  ASSUME Window!ConstantsOK, RunInv, Window!Poll
  PROVE  RunInv'
<1>1. cpu = "window" /\ pw.used /\ pw \in Runs /\ sys \in Pointers /\ ~ pw.finished /\ owed \in Seq(Key)
  BY DEF Window!Poll, RunInv, Whose, RunTypes
<1>2. CASE ~ Window!Empty(pw)
  <2>1. pw' = [Window!Popped(pw) EXCEPT !.spin = 0] /\ owed' = Tail(owed) /\ cpu' = cpu /\ sys' = sys
    BY <1>2 DEF Window!Poll
  <2>2. Window!Popped(pw) = [pw EXCEPT !.kh = (pw.kh + 1) % Ring]
    BY <1>2 DEF Window!Popped
  <2>3. pw'.keyq = pw.keyq /\ pw'.kt = pw.kt /\ pw'.kh = Window!Popped(pw).kh
    BY <1>1, <2>1, <2>2 DEF Runs
  <2>4. Ordered' /\ owed' \in Seq(Key) /\ Window!Popped(pw).kh \in 0 .. Ring - 1
    BY <1>1, <1>2, <2>1, <2>3, PopKeys
  <2>5. pw' \in Runs /\ pw'.used = pw.used /\ ~ pw'.finished /\ pw'.stack = pw.stack /\ pw'.prog = pw.prog
    <3>1. pw' = [pw EXCEPT !.kh = Window!Popped(pw).kh, !.spin = 0] /\ 0 \in 0 .. Spins
      BY <1>1, <2>1, <2>2 DEF Runs, Window!ConstantsOK
    <3> QED
      BY <1>1, <2>4, <3>1 DEF Runs
  <2> QED
    BY <1>1, <2>1, <2>4, <2>5, OwnStep
<1>3. CASE Window!Empty(pw) /\ pw.spin + 1 >= Spins
  <2> DEFINE p == Window!Yielding("poll")
  <2>1. Window!Back(p) /\ owed' = owed
    BY <1>3 DEF Window!Poll
  <2>2. /\ p \in Runs /\ p.used = pw.used /\ p.prog = pw.prog /\ p.stack = pw.stack
        /\ p.keyq = pw.keyq /\ p.kh = pw.kh /\ p.kt = pw.kt
    BY YieldingRuns
  <2> HIDE DEF p
  <2> QED
    BY <1>1, <2>1, <2>2, BackInv
<1>4. CASE Window!Empty(pw) /\ ~ (pw.spin + 1 >= Spins)
  <2>1. pw' = [pw EXCEPT !.spin = @ + 1] /\ owed' = owed /\ cpu' = cpu /\ sys' = sys
    BY <1>4 DEF Window!Poll
  <2>2. /\ pw' \in Runs /\ pw'.used = pw.used /\ ~ pw'.finished /\ pw'.stack = pw.stack
        /\ pw'.prog = pw.prog /\ pw'.keyq = pw.keyq /\ pw'.kt = pw.kt /\ pw'.kh = pw.kh
    <3>1. pw' = [pw EXCEPT !.spin = pw.spin + 1] /\ pw.spin + 1 \in 0 .. Spins
      BY <1>1, <1>4, <2>1 DEF Runs, Window!ConstantsOK
    <3> QED
      BY <1>1, <3>1 DEF Runs
  <2>3. Ordered'
    BY <2>1, <2>2, SameKeys
  <2> QED
    BY <1>1, <2>1, <2>2, <2>3, OwnStep
<1> QED
  BY <1>2, <1>3, <1>4

LEMMA PolledAgainInv ==
  ASSUME Window!ConstantsOK, RunInv, Window!PolledAgain
  PROVE  RunInv'
<1>1. cpu = "window" /\ pw.used /\ pw \in Runs /\ sys \in Pointers /\ ~ pw.finished
      /\ cpu' = cpu /\ sys' = sys
  BY DEF Window!PolledAgain, RunInv, Whose, RunTypes
<1>2. /\ pw' = [Window!Popped(pw) EXCEPT !.at = "run"]
      /\ owed' = IF Window!Empty(pw) THEN owed ELSE Tail(owed)
  BY DEF Window!PolledAgain
<1>3. Window!Popped(pw) = [pw EXCEPT !.kh = Window!Popped(pw).kh]
  BY <1>1 DEF Window!Popped, Runs
<1>4. pw'.keyq = pw.keyq /\ pw'.kt = pw.kt /\ pw'.kh = Window!Popped(pw).kh
  BY <1>1, <1>2, <1>3 DEF Runs
<1>5. Ordered' /\ owed' \in Seq(Key) /\ Window!Popped(pw).kh \in 0 .. Ring - 1
  BY <1>1, <1>2, <1>4, PopKeys
<1>6. pw' \in Runs /\ pw'.used = pw.used /\ ~ pw'.finished /\ pw'.stack = pw.stack /\ pw'.prog = pw.prog
  BY <1>1, <1>2, <1>3, <1>5 DEF Runs
<1> QED
  BY <1>1, <1>5, <1>6, OwnStep

LEMMA SleepInv ==
  ASSUME Window!ConstantsOK, RunInv, NEW n \in 1 .. 2, NEW beep \in BOOLEAN, Window!Sleep(n, beep)
  PROVE  RunInv'
<1> DEFINE y == Window!Yielding(IF beep THEN "beep" ELSE "sleep")
           s == [sys EXCEPT !.speaker = @ \/ beep]
<1>1. /\ cpu = "window" /\ cpu' = "kernel" /\ owed' = owed
      /\ pw' = [y EXCEPT !.until = (sys.ms + n) % TickMod, !.due = n]
      /\ sys' = Window!Restored(s)
  BY DEF Window!Sleep
<1>2. /\ y \in Runs /\ y.used = pw.used /\ y.prog = pw.prog /\ y.stack = pw.stack /\ ~ y.finished
      /\ y.keyq = pw.keyq /\ y.kh = pw.kh /\ y.kt = pw.kt
  BY YieldingRuns
<1>3. (sys.ms + n) % TickMod \in 0 .. TickMod - 1
  BY DEF RunInv, RunTypes, Pointers, Window!ConstantsOK
<1>4. /\ s \in Pointers /\ s.guards = sys.guards /\ s.held = sys.held /\ s.code = sys.code
  BY DEF RunInv, RunTypes, Pointers
<1> HIDE DEF y, s
<1>5. /\ pw' \in Runs /\ pw'.used = pw.used /\ pw'.prog = pw.prog /\ pw'.stack = pw.stack /\ ~ pw'.finished
      /\ pw'.keyq = pw.keyq /\ pw'.kh = pw.kh /\ pw'.kt = pw.kt
  <2>1. n \in 0 .. 2
    OBVIOUS
  <2> QED
    BY <1>1, <1>2, <1>3, <2>1 DEF Runs
<1>6. /\ sys' \in Pointers /\ sys'.bb = "screen" /\ sys'.mem = "legacy" /\ sys'.guards = sys.guards
      /\ sys'.held = sys.held /\ sys'.code = sys.code
  BY <1>1, <1>4 DEF Window!Restored, Pointers
<1>7. Ordered'
  BY <1>1, <1>5, SameKeys
<1> QED
  BY <1>1, <1>5, <1>6, <1>7 DEF RunInv, RunTypes, Whose, Window!PointsHome, Window!OwnCode

LEMMA WokenInv ==
  ASSUME Window!ConstantsOK, RunInv, Window!Woken
  PROVE  RunInv'
<1>1. cpu = "window" /\ pw.used /\ pw \in Runs /\ sys \in Pointers /\ ~ pw.finished
      /\ owed' = owed /\ owed \in Seq(Key) /\ pw.at \in {"fresh", "run", "poll", "sleep", "beep"}
  BY DEF Window!Woken, RunInv, Whose, RunTypes
<1>2. CASE Window!Positive(pw.until - sys.ms)
  <2> DEFINE p == Window!Yielding(pw.at)
  <2>1. Window!Back(p)
    BY <1>2 DEF Window!Woken
  <2>2. /\ p \in Runs /\ p.used = pw.used /\ p.prog = pw.prog /\ p.stack = pw.stack
        /\ p.keyq = pw.keyq /\ p.kh = pw.kh /\ p.kt = pw.kt
    BY <1>1, YieldingRuns
  <2> HIDE DEF p
  <2> QED
    BY <1>1, <2>1, <2>2, BackInv
<1>3. CASE ~ Window!Positive(pw.until - sys.ms)
  <2>1. /\ pw' = [pw EXCEPT !.at = "run"] /\ cpu' = cpu
        /\ sys' = [sys EXCEPT !.speaker = IF pw.at = "beep" THEN FALSE ELSE @]
    BY <1>3 DEF Window!Woken
  <2>2. /\ pw' \in Runs /\ pw'.used = pw.used /\ ~ pw'.finished /\ pw'.stack = pw.stack
        /\ pw'.prog = pw.prog /\ pw'.keyq = pw.keyq /\ pw'.kt = pw.kt /\ pw'.kh = pw.kh
    BY <1>1, <2>1 DEF Runs
  <2>3. /\ sys' \in Pointers /\ sys'.bb = sys.bb /\ sys'.mem = sys.mem /\ sys'.guards = sys.guards
        /\ sys'.held = sys.held /\ sys'.code = sys.code
    BY <1>1, <2>1 DEF Pointers
  <2>4. Ordered'
    BY <1>1, <2>2, SameKeys
  <2> QED
    BY <1>1, <2>1, <2>2, <2>3, <2>4, OwnStep
<1> QED
  BY <1>2, <1>3

(* The table of blocks is the one of whoever executes. *)
LEMMA HoldingInv ==
  ASSUME Window!ConstantsOK, RunInv, Window!Running, NEW blocks \in SUBSET Blocks, Window!Holding(blocks), cpu' = cpu, owed' = owed
  PROVE  RunInv'
<1>1. pw \in Runs /\ sys \in Pointers /\ owed \in Seq(Key)
  BY DEF RunInv, RunTypes
<1>2. CASE sys.mem = "window"
  <2>1. cpu = "window" /\ pw.used /\ ~ pw.finished
    BY <1>2 DEF RunInv, Window!PointsHome, Whose
  <2>2. pw' = [pw EXCEPT !.mem = blocks] /\ sys' = sys
    BY <1>2 DEF Window!Holding
  <2>3. /\ pw' \in Runs /\ pw'.used = pw.used /\ ~ pw'.finished /\ pw'.stack = pw.stack
        /\ pw'.prog = pw.prog /\ pw'.keyq = pw.keyq /\ pw'.kt = pw.kt /\ pw'.kh = pw.kh
    BY <1>1, <2>1, <2>2 DEF Runs
  <2>4. Ordered'
    BY <2>3, SameKeys
  <2> QED
    BY <1>1, <2>1, <2>2, <2>3, <2>4, OwnStep
<1>3. CASE sys.mem # "window"
  <2>1. cpu = "full"
    BY <1>3 DEF RunInv, Window!PointsHome, Window!Running
  <2>2. sys' = [sys EXCEPT !.held = blocks] /\ pw' = pw
    BY <1>3 DEF Window!Holding
  <2>3. /\ sys' \in Pointers /\ sys'.bb = sys.bb /\ sys'.mem = sys.mem /\ sys'.guards = sys.guards
        /\ sys'.code = sys.code /\ sys'.speaker = sys.speaker
    BY <1>1, <2>2 DEF Pointers
  <2> QED
    BY <1>1, <2>1, <2>2, <2>3 DEF RunInv, RunTypes, Whose, Window!PointsHome, Window!OwnCode, Ordered, Count
<1> QED
  BY <1>2, <1>3

LEMMA MemInv ==
  ASSUME Window!ConstantsOK, RunInv, NEW b \in Blocks, Window!MemAlloc(b) \/ Window!MemFree(b)
  PROVE  RunInv'
<1>1. Window!Held \in SUBSET Blocks
  BY DEF Window!Held, RunInv, RunTypes, Runs, Pointers
<1>2. Window!Running /\ cpu' = cpu /\ owed' = owed /\ (Window!Holding(Window!Held \cup {b}) \/ Window!Holding(Window!Held \ {b}))
  BY DEF Window!MemAlloc, Window!MemFree
<1>3. Window!Held \cup {b} \in SUBSET Blocks /\ Window!Held \ {b} \in SUBSET Blocks
  BY <1>1
<1> QED
  BY <1>2, <1>3, HoldingInv

LEMMA EndsInv ==
  ASSUME Window!ConstantsOK, RunInv, Window!Returns \/ Window!Fault
  PROVE  RunInv'
<1>1. cpu = "window" /\ pw.used /\ pw \in Runs /\ owed' = owed
  BY DEF Window!Returns, Window!Fault, RunInv, Whose, RunTypes
<1>2. PICK p \in {[pw EXCEPT !.finished = TRUE], [pw EXCEPT !.finished = TRUE, !.faulted = TRUE]} : Window!Back(p)
  BY DEF Window!Returns, Window!Fault
<1>3. /\ p \in Runs /\ p.used = pw.used /\ p.prog = pw.prog /\ p.stack = pw.stack
      /\ p.keyq = pw.keyq /\ p.kh = pw.kh /\ p.kt = pw.kt
  <2>1. CASE p = [pw EXCEPT !.finished = TRUE]
    BY <1>1, <2>1 DEF Runs
  <2>2. CASE p = [pw EXCEPT !.finished = TRUE, !.faulted = TRUE]
    BY <1>1, <2>2 DEF Runs
  <2> QED
    BY <1>2, <2>1, <2>2
<1> QED
  BY <1>1, <1>2, <1>3, BackInv

LEMMA FullInv ==
  ASSUME Window!ConstantsOK, RunInv, (\E p \in Prog : Window!RunFull(p)) \/ Window!ReturnsFull
  PROVE  RunInv'
<1>1. pw' = pw /\ owed' = owed /\ cpu # "window" /\ ~ pw.used /\ cpu' # "window"
      /\ cpu' \in {"kernel", "full"}
  BY DEF Window!RunFull, Window!ReturnsFull, RunInv, Whose
<1>2. /\ sys' \in Pointers /\ sys'.bb = sys.bb /\ sys'.mem = sys.mem /\ sys'.guards = sys.guards
      /\ sys'.held = {} /\ sys'.speaker = sys.speaker
  BY DEF Window!RunFull, Window!ReturnsFull, Window!Load, RunInv, RunTypes, Pointers
<1> QED
  BY <1>1, <1>2 DEF RunInv, RunTypes, Whose, Window!PointsHome, Window!OwnCode, Ordered

LEMMA RunInitInv ==
  ASSUME Window!ConstantsOK, Window!Init
  PROVE  RunInv
<1>1. Window!NoRun \in Runs
  BY DEF Window!NoRun, Runs, Window!ConstantsOK
<1>2. sys \in Pointers
  BY DEF Window!Init, Pointers, Window!ConstantsOK
<1>3. RunTypes /\ Whose
  BY <1>1, <1>2 DEF Window!Init, Window!NoRun, RunTypes, Whose
<1>4. Window!PointsHome /\ Window!OwnCode /\ Ordered
  BY DEF Window!Init, Window!NoRun, Window!PointsHome, Window!OwnCode, Ordered
<1> QED
  BY <1>3, <1>4 DEF RunInv

LEMMA RunNextInv ==
  ASSUME Window!ConstantsOK, RunInv, [Window!Next]_(Window!vars)
  PROVE  RunInv'
<1>1. CASE UNCHANGED Window!vars
  BY <1>1 DEF Window!vars, RunInv, RunTypes, Whose, Window!PointsHome, Window!OwnCode, Ordered, Count
<1>2. CASE \E k \in Key : Window!PushKey(k)
  BY <1>2, PushKeyInv
<1>3. CASE \E got \in SUBSET {"surface", "stack"} : Window!LaunchFn(got) \/ \E p \in Prog : Window!Launch(p, got)
  BY <1>3, LaunchFnInv, LaunchInv
<1>4. CASE Window!Close \/ Window!Step \/ Window!Passes
  BY <1>4, CloseInv, RunStepInv, PassesInv
<1>5. CASE Window!Present \/ Window!Poll \/ Window!PolledAgain \/ Window!Woken
  BY <1>5, PresentInv, PollInv, PolledAgainInv, WokenInv
<1>6. CASE Window!Returns \/ Window!Fault
  BY <1>6, EndsInv
<1>7. CASE \E n \in 1 .. 2, beep \in BOOLEAN : Window!Sleep(n, beep)
  BY <1>7, SleepInv
<1>8. CASE \E b \in Blocks : Window!MemAlloc(b) \/ Window!MemFree(b)
  BY <1>8, MemInv
<1>9. CASE (\E p \in Prog : Window!RunFull(p)) \/ Window!ReturnsFull
  BY <1>9, FullInv
<1> QED
  BY <1>1, <1>2, <1>3, <1>4, <1>5, <1>6, <1>7, <1>8, <1>9 DEF Window!Next

(* The clock and the end of a sleep. *)
LEMMA TicksOn ==
  ASSUME NEW T \in Nat \ {0, 1, 2, 3}, NEW u \in 0 .. T - 1, NEW m \in 0 .. T - 1, (u - m) % T \in 1 .. 2
  PROVE  (u - ((m + 1) % T)) % T = ((u - m) % T) - 1
<1>1. (u - m) % T = IF m <= u THEN u - m ELSE u - m + T
  BY RingCount
<1>2. 1 \in 0 .. T
  OBVIOUS
<1>3. (m + 1) % T = IF m + 1 < T THEN m + 1 ELSE m + 1 - T
  BY <1>2, RingPlace, Zenon
<1> DEFINE n == (m + 1) % T
<1>4. n = (IF m + 1 < T THEN m + 1 ELSE 0) /\ n \in 0 .. T - 1
  <2> HIDE DEF n
  <2>1. n = IF m + 1 < T THEN m + 1 ELSE m + 1 - T
    BY <1>3 DEF n
  <2> QED
    BY <2>1
<1>5. (u - n) % T = IF n <= u THEN u - n ELSE u - n + T
  BY <1>4, RingCount
<1> QED
  BY <1>1, <1>4, <1>5

LEMMA SleepsFor ==
  ASSUME NEW T \in Nat \ {0, 1, 2, 3}, NEW m \in 0 .. T - 1, NEW n \in 1 .. 2
  PROVE  (((m + n) % T) - m) % T = n
<1>1. n \in 0 .. T
  OBVIOUS
<1> DEFINE e == (m + n) % T
<1>2. e = IF m + n < T THEN m + n ELSE m + n - T
  BY <1>1, RingPlace, Zenon
<1>3. e \in 0 .. T - 1
  BY <1>2
<1>4. (e - m) % T = IF m <= e THEN e - m ELSE e - m + T
  BY <1>3, RingCount
<1> QED
  BY <1>2, <1>4

(* The time a sleep still has to run, and the difference the code reads, agree. *)
LEMMA DueNext ==
  ASSUME Window!ConstantsOK, ClockWide, RunInv, Due, [Window!Next]_(Window!vars)
  PROVE  Due'
<1>1. /\ pw \in Runs /\ sys \in Pointers /\ TickMod \in Nat \ {0, 1, 2, 3} /\ pw.due \in 0 .. 2
      /\ pw.until \in 0 .. TickMod - 1 /\ sys.ms \in 0 .. TickMod - 1
  BY DEF RunInv, RunTypes, Runs, Pointers, Window!ConstantsOK, ClockWide
<1>2. CASE Window!Passes
  <2>1. pw'.until = pw.until /\ pw'.due = (IF pw.due > 0 THEN pw.due - 1 ELSE 0)
        /\ sys'.ms = (sys.ms + 1) % TickMod
    BY <1>1, <1>2 DEF Window!Passes, Runs, Pointers
  <2>2. SUFFICES ASSUME pw'.due > 0 PROVE (pw'.until - sys'.ms) % TickMod = pw'.due
    BY DEF Due
  <2>3. pw.due > 0 /\ pw'.due = pw.due - 1
    BY <1>1, <2>1, <2>2
  <2>4. (pw.until - sys.ms) % TickMod = pw.due
    BY <2>3 DEF Due
  <2>5. (pw.until - sys.ms) % TickMod \in 1 .. 2
    BY <1>1, <2>3, <2>4
  <2>6. (pw.until - ((sys.ms + 1) % TickMod)) % TickMod = ((pw.until - sys.ms) % TickMod) - 1
    BY <1>1, <2>5, TicksOn, Zenon
  <2> QED
    BY <2>1, <2>3, <2>4, <2>6
<1>3. CASE \E n \in 1 .. 2, beep \in BOOLEAN : Window!Sleep(n, beep)
  <2>1. PICK n \in 1 .. 2, beep \in BOOLEAN : Window!Sleep(n, beep)
    BY <1>3
  <2> DEFINE y == Window!Yielding(IF beep THEN "beep" ELSE "sleep")
             s == [sys EXCEPT !.speaker = @ \/ beep]
  <2>2. pw' = [y EXCEPT !.until = (sys.ms + n) % TickMod, !.due = n] /\ sys' = Window!Restored(s)
    BY <2>1 DEF Window!Sleep
  <2>3. y \in Runs
    BY YieldingRuns
  <2>4. s.ms = sys.ms /\ s \in Pointers
    BY <1>1 DEF Pointers
  <2> HIDE DEF y, s
  <2>5. pw'.until = (sys.ms + n) % TickMod /\ pw'.due = n
    BY <2>2, <2>3 DEF Runs
  <2>6. sys'.ms = sys.ms
    BY <2>2, <2>4 DEF Window!Restored, Pointers
  <2>7. (((sys.ms + n) % TickMod) - sys.ms) % TickMod = n
    BY <1>1, SleepsFor, Zenon
  <2> QED
    BY <2>5, <2>6, <2>7 DEF Due
<1>4. CASE pw'.until = pw.until /\ pw'.due = pw.due /\ sys'.ms = sys.ms
  BY <1>4 DEF Due
<1>5. CASE UNCHANGED Window!vars
  BY <1>4, <1>5 DEF Window!vars
<1>6. CASE \E k \in Key : Window!PushKey(k)
  BY <1>1, <1>4, <1>6 DEF Window!PushKey, Window!Pushed, Runs
<1>7. ASSUME NEW who \in Prog \cup {nil}, NEW code \in Prog \cup {nil},
             NEW got \in SUBSET {"surface", "stack"}, Window!Start(who, code, got)
      PROVE  Due'
  <2> DEFINE taken == [pw EXCEPT !.surface = "surface" \in got, !.stack = "stack" \in got]
             guarded == [sys EXCEPT !.code = code, !.guards = IF taken.stack THEN @ + 1 ELSE @]
  <2>1. (pw' = Window!Fresh(pw, who) /\ sys' = guarded) \/ (pw' = Window!FreeRun(taken) /\ sys' = Window!Freed(guarded, taken))
    BY <1>7 DEF Window!Start
  <2>2. taken.until = pw.until /\ taken.due = pw.due
    BY <1>1 DEF Runs
  <2>3. guarded.ms = sys.ms
    BY <1>1 DEF Pointers
  <2>4. Window!Fresh(pw, who).until = pw.until /\ Window!Fresh(pw, who).due = pw.due
    BY <1>1 DEF Window!Fresh, Runs
  <2>5. Window!FreeRun(taken).until = taken.until /\ Window!FreeRun(taken).due = taken.due
    BY <1>1 DEF Window!FreeRun, Runs
  <2>6. Window!Freed(guarded, taken).ms = guarded.ms
    BY <1>1 DEF Window!Freed, Pointers
  <2> HIDE DEF taken, guarded
  <2> QED
    BY <1>4, <2>1, <2>2, <2>3, <2>4, <2>5, <2>6
<1>8. CASE \E got \in SUBSET {"surface", "stack"} : Window!LaunchFn(got) \/ \E p \in Prog : Window!Launch(p, got)
  <2>1. sys.code \in Prog \cup {nil}
    BY <1>1 DEF Pointers
  <2>2. CASE \E got \in SUBSET {"surface", "stack"} : Window!LaunchFn(got)
    BY <1>7, <2>1, <2>2 DEF Window!LaunchFn
  <2>3. CASE \E got \in SUBSET {"surface", "stack"}, p \in Prog : Window!Launch(p, got)
    <3>1. PICK got \in SUBSET {"surface", "stack"}, p \in Prog : Window!Launch(p, got)
      BY <2>3
    <3>2. CASE Window!Load(p) = nil
      BY <1>1, <1>4, <3>1, <3>2 DEF Window!Launch, Pointers
    <3>3. CASE Window!Load(p) # nil
      BY <1>7, <3>1, <3>3 DEF Window!Launch
    <3> QED
      BY <3>2, <3>3
  <2> QED
    BY <1>8, <2>2, <2>3
<1>9. ASSUME NEW p \in Runs, Window!Back(p), p.until = pw.until, p.due = pw.due
      PROVE  Due'
  <2>1. Window!Closed(p).until = p.until /\ Window!Closed(p).due = p.due
    BY DEF Window!Closed, Window!FreeRun, Runs
  <2>2. Window!Freed(sys, p).ms = sys.ms /\ Window!Restored(Window!Freed(sys, p)).ms = sys.ms /\ Window!Restored(sys).ms = sys.ms
    BY <1>1 DEF Window!Freed, Window!Restored, Pointers
  <2> QED
    BY <1>4, <1>9, <2>1, <2>2 DEF Window!Back
<1>10. CASE Window!Close
  BY <1>1, <1>4, <1>10 DEF Window!Close, Window!Closed, Window!FreeRun, Window!Freed, Runs, Pointers
<1>11. CASE Window!Step
  BY <1>1, <1>4, <1>11 DEF Window!Step, Pointers
<1>12. \A at \in {"fresh", "run", "poll", "sleep", "beep"} : Window!Back(Window!Yielding(at)) => Due'
  BY <1>9, YieldingRuns
<1>13. CASE Window!Present
  BY <1>12, <1>13 DEF Window!Present
<1>14. Window!Popped(pw).until = pw.until /\ Window!Popped(pw).due = pw.due /\ Window!Popped(pw) \in Runs
  <2> DEFINE h == (pw.kh + 1) % Ring
  <2>1. h \in 0 .. Ring - 1
    BY <1>1 DEF Runs, Window!ConstantsOK
  <2>2. Window!Popped(pw) = IF Window!Empty(pw) THEN pw ELSE [pw EXCEPT !.kh = h]
    BY <1>1 DEF Window!Popped, Runs
  <2> HIDE DEF h
  <2>3. CASE Window!Empty(pw)
    BY <1>1, <2>2, <2>3
  <2>4. CASE ~ Window!Empty(pw)
    <3>1. Window!Popped(pw) = [pw EXCEPT !.kh = h]
      BY <2>2, <2>4
    <3> QED
      BY <1>1, <2>1, <3>1 DEF Runs
  <2> QED
    BY <2>3, <2>4
<1>15. CASE Window!Poll
  <2>1. CASE pw' = [Window!Popped(pw) EXCEPT !.spin = 0] /\ sys' = sys
    BY <1>4, <1>14, <2>1 DEF Runs
  <2>2. CASE pw' = [pw EXCEPT !.spin = @ + 1] /\ sys' = sys
    BY <1>1, <1>4, <2>2 DEF Runs
  <2> QED
    BY <1>12, <1>15, <2>1, <2>2 DEF Window!Poll
<1>16. CASE Window!PolledAgain
  BY <1>4, <1>14, <1>16 DEF Window!PolledAgain, Runs
<1>17. CASE Window!Woken
  <2>1. pw.at \in {"fresh", "run", "poll", "sleep", "beep"}
    BY <1>1 DEF Runs
  <2>2. CASE Window!Positive(pw.until - sys.ms)
    BY <1>12, <1>17, <2>1, <2>2 DEF Window!Woken
  <2>3. CASE ~ Window!Positive(pw.until - sys.ms)
    BY <1>1, <1>4, <1>17, <2>3 DEF Window!Woken, Runs, Pointers
  <2> QED
    BY <2>2, <2>3
<1>18. CASE Window!Returns \/ Window!Fault
  <2>1. PICK p \in {[pw EXCEPT !.finished = TRUE], [pw EXCEPT !.finished = TRUE, !.faulted = TRUE]} : Window!Back(p)
    BY <1>18 DEF Window!Returns, Window!Fault
  <2>2. p \in Runs /\ p.until = pw.until /\ p.due = pw.due
    <3>1. CASE p = [pw EXCEPT !.finished = TRUE]
      BY <1>1, <3>1 DEF Runs
    <3>2. CASE p = [pw EXCEPT !.finished = TRUE, !.faulted = TRUE]
      BY <1>1, <3>2 DEF Runs
    <3> QED
      BY <2>1, <3>1, <3>2
  <2> QED
    BY <1>9, <2>1, <2>2
<1>19. CASE \E b \in Blocks : Window!MemAlloc(b) \/ Window!MemFree(b)
  <2>1. PICK blocks : Window!Holding(blocks)
    BY <1>19 DEF Window!MemAlloc, Window!MemFree
  <2> QED
    BY <1>1, <1>4, <2>1 DEF Window!Holding, Runs, Pointers
<1>20. CASE (\E p \in Prog : Window!RunFull(p)) \/ Window!ReturnsFull
  BY <1>1, <1>4, <1>20 DEF Window!RunFull, Window!ReturnsFull, Pointers
<1> QED
  BY <1>2, <1>3, <1>5, <1>6, <1>8, <1>10, <1>11, <1>13, <1>15, <1>16, <1>17, <1>18, <1>19, <1>20 DEF Window!Next

LEMMA WakesInTime ==
  ASSUME Window!ConstantsOK, ClockWide, RunInv, Due, Window!Woken, pw'.at = "run"
  PROVE  pw.due = 0
<1>1. /\ pw \in Runs /\ TickMod \in Nat /\ TickMod \div 2 > 2 /\ pw.due \in 0 .. 2
      /\ pw.at \in {"sleep", "beep"} /\ ~ pw.finished
  BY DEF RunInv, RunTypes, Whose, Runs, Window!ConstantsOK, ClockWide, Window!Woken
<1>2. CASE Window!Positive(pw.until - sys.ms)
  <2>1. Window!Back(Window!Yielding(pw.at))
    BY <1>2 DEF Window!Woken
  <2>2. ~ Window!Yielding(pw.at).finished /\ Window!Yielding(pw.at).at = pw.at
    BY <1>1, YieldingRuns
  <2> QED
    BY <1>1, <2>1, <2>2 DEF Window!Back
<1>3. CASE ~ Window!Positive(pw.until - sys.ms)
  <2> SUFFICES ASSUME pw.due # 0 PROVE FALSE
    OBVIOUS
  <2>1. (pw.until - sys.ms) % TickMod = pw.due
    BY <1>1 DEF Due
  <2>2. pw.due \in 1 .. TickMod \div 2 - 1
    BY <1>1
  <2> QED
    BY <1>3, <2>1, <2>2, Zenon DEF Window!Positive
<1> QED
  BY <1>2, <1>3

(* What the properties say follows. *)
LEMMA InvGives ==
  ASSUME Window!ConstantsOK, RunInv
  PROVE  Window!TypeOK /\ Window!NothingLeft /\ Window!PointsHome /\ Window!OwnCode /\ Window!KeysInOrder
<1>1. Window!TypeOK
  BY DEF RunInv, RunTypes, Runs, Pointers, Window!TypeOK
<1>2. Window!NothingLeft
  BY DEF RunInv, Whose, Window!NothingLeft, RunTypes, Runs
<1> QED
  BY <1>1, <1>2, RingHolds DEF RunInv

(* Theorems. *)

(* Whatever programs there are, however large the ring and the table: the fields
   of pw_t and of the system table keep their types. *)
THEOREM RunsTyped == ASSUME Window!ConstantsOK PROVE Window!Spec => []Window!TypeOK
<1>1. Window!Init => RunInv
  BY RunInitInv
<1>2. RunInv /\ [Window!Next]_(Window!vars) => RunInv'
  BY RunNextInv
<1>3. RunInv => Window!TypeOK
  BY InvGives
<1> QED
  BY <1>1, <1>2, <1>3, PTL DEF Window!Spec

(* Nothing stays of a run that is over, the kernel never executes with the
   program's pointers nor a program with the kernel's, the code loaded is that of
   the program in the window, and its keys come in the order they were typed -
   through launches, yields, exceptions, closings and runs on the full screen. *)
THEOREM RunsApart ==
  ASSUME Window!ConstantsOK PROVE Window!Spec => [](Window!NothingLeft /\ Window!PointsHome /\ Window!OwnCode /\ Window!KeysInOrder)
<1>1. Window!Init => RunInv
  BY RunInitInv
<1>2. RunInv /\ [Window!Next]_(Window!vars) => RunInv'
  BY RunNextInv
<1>3. RunInv => Window!NothingLeft /\ Window!PointsHome /\ Window!OwnCode /\ Window!KeysInOrder
  BY InvGives
<1> QED
  BY <1>1, <1>2, <1>3, PTL DEF Window!Spec

(* The clock may wrap in the middle of a sleep: no sleep ends before its time, as
   long as no sleep is half the clock's range long. *)
THEOREM SleepsThrough == ASSUME Window!ConstantsOK, ClockWide PROVE Window!Spec => Window!SleepsEnough
<1>1. Window!Init => RunInv /\ Due
  BY RunInitInv DEF Window!Init, Window!NoRun, Due
<1>2. RunInv /\ Due /\ [Window!Next]_(Window!vars) => (RunInv /\ Due)'
  BY RunNextInv, DueNext
<1>3. RunInv /\ Due /\ [Window!Next]_(Window!vars) => [Window!Woken /\ pw'.at = "run" => pw.due = 0]_(Window!vars)
  BY WakesInTime
<1> QED
  BY <1>1, <1>2, <1>3, PTL DEF Window!Spec, Window!SleepsEnough

-----------------------------------------------------------------------------
(* The installer.  What the properties rest on, and the proof that every step keeps it. *)

Jobs == [phase : {"idle", "write", "verify", "bootcode", "done", "failed"}, t : InstTargets \cup {nil},
         next : Job!Lba, formatted : BOOLEAN,
         err : {"none", "format", "write", "read_source", "verify", "read_target"},
         mbr : {"none", "kept", "unsupported", "chain"}]
Pages == [owns : BOOLEAN, page : {"shut", "pick", "confirm", "run", "done", "fail"},
          pick : InstTargets \cup {nil}, pending : InstTargets \cup {nil}]
Sector == {"blank", "old", "new", "bad"}
Roots == Sector \cup {"flawed"}
Targets == [sec : [Job!Lba -> Sector], root : Roots, code : {"blank", "other", "chain"}]
JobTypes == inst \in Jobs /\ ui \in Pages /\ disk \in [InstTargets -> Targets]

(* A job has a target, and so has a question; nobody is asked while a job runs. *)
Asked ==
  /\ inst.phase \in {"write", "verify", "bootcode", "done"} => inst.t \in InstTargets
  /\ ui.page = "confirm" => ui.pick \in InstTargets
  /\ ui.pending # nil => ~ Job!Active

(* What is on the job's target at each phase: the boot sector comes last and only after
   a root volume whose format was accepted. *)
Writes ==
  inst.phase = "write" =>
    /\ disk[inst.t].sec[0] # "new"
    /\ inst.formatted => disk[inst.t].root \in Job!KeptRoot
    /\ \A k \in Job!Lba : k < inst.next => disk[inst.t].sec[Job!LbaFor(k)] \in Job!Kept
Verifies ==
  inst.phase = "verify" =>
    /\ disk[inst.t].root \in Job!KeptRoot /\ \A l \in Job!Lba : disk[inst.t].sec[l] \in Job!Kept
    /\ \A k \in Job!Lba : k < inst.next => disk[inst.t].sec[Job!LbaFor(k)] = "new"
Verified ==
  inst.phase \in {"bootcode", "done"} =>
    Job!RootOpens /\ \A l \in Job!Lba : disk[inst.t].sec[l] = "new"

JobInv == JobTypes /\ Asked /\ Writes /\ Verifies /\ Verified /\ Job!BootSectorLast

(* The order of the sectors ends with the boot sector and misses none. *)
LEMMA LastIsBoot ==
  ASSUME Job!ConstantsOK, NEW k \in Job!Lba
  PROVE  /\ Job!LbaFor(k) = IF k + 1 = System THEN 0 ELSE k + 1
         /\ Job!LbaFor(k) \in Job!Lba /\ (Job!LbaFor(k) = 0 <=> k + 1 = System)
<1>1. System \in Nat \ {0, 1} /\ k \in 0 .. System - 1
  BY DEF Job!ConstantsOK, Job!Lba
<1>2. CASE k + 1 = System
  <2>1. (k + 1) % System = 0
    BY <1>1, <1>2
  <2> QED
    BY <1>1, <1>2, <2>1 DEF Job!LbaFor, Job!Lba
<1>3. CASE k + 1 # System
  <2>1. (k + 1) % System = k + 1
    BY <1>1, <1>3
  <2> QED
    BY <1>1, <1>3, <2>1 DEF Job!LbaFor, Job!Lba
<1> QED
  BY <1>2, <1>3

LEMMA EverySector ==
  ASSUME Job!ConstantsOK, NEW l \in Job!Lba
  PROVE  \E k \in Job!Lba : Job!LbaFor(k) = l
<1>1. System \in Nat \ {0, 1} /\ l \in 0 .. System - 1
  BY DEF Job!ConstantsOK, Job!Lba
<1> DEFINE k == IF l = 0 THEN System - 1 ELSE l - 1
<1>2. k \in Job!Lba
  BY <1>1 DEF Job!Lba
<1>3. Job!LbaFor(k) = l
  BY <1>1, <1>2, LastIsBoot
<1> QED
  BY <1>2, <1>3

(* Beginning a job makes what was new on its target old. *)
LEMMA BeginInv ==
  ASSUME Job!ConstantsOK, JobInv, NEW t \in InstTargets, inst' = Job!Begin(t), Job!Taking(t),
         ui' \in Pages, ui'.page = "confirm" => ui'.pick \in InstTargets, ui'.pending = nil
  PROVE  JobInv'
<1>1. disk \in [InstTargets -> Targets] /\ 0 \in Job!Lba
  BY DEF JobInv, JobTypes, Job!ConstantsOK, Job!Lba
<1>2. inst' \in Jobs /\ inst'.phase = "write" /\ inst'.t = t /\ inst'.next = 0 /\ ~ inst'.formatted
  BY <1>1 DEF Job!Begin, Job!Idle, Jobs
<1> DEFINE d == [disk[t] EXCEPT !.sec = [l \in Job!Lba |-> Job!Earlier(@[l])], !.root = Job!Earlier(@)]
<1>3. disk' = [disk EXCEPT ![t] = d]
  BY <1>1 DEF Job!Taking
<1>4. d \in Targets /\ d.sec = [l \in Job!Lba |-> Job!Earlier(disk[t].sec[l])]
  <2>1. disk[t] \in Targets
    BY <1>1
  <2>2. (\A x \in Sector : Job!Earlier(x) \in Sector) /\ \A x \in Roots : Job!Earlier(x) \in Roots
    BY DEF Job!Earlier, Job!KeptRoot, Job!Kept, Sector, Roots
  <2>3. [l \in Job!Lba |-> Job!Earlier(disk[t].sec[l])] \in [Job!Lba -> Sector] /\ Job!Earlier(disk[t].root) \in Roots
    BY <2>1, <2>2 DEF Targets
  <2> QED
    BY <2>1, <2>3 DEF Targets
<1>5. d.sec[0] # "new"
  BY <1>1, <1>4 DEF Job!Earlier, Job!KeptRoot, Job!Kept
<1> HIDE DEF d
<1>6. /\ disk' \in [InstTargets -> Targets] /\ disk'[t] = d /\ \A u \in InstTargets \ {t} : disk'[u] = disk[u]
  BY <1>1, <1>3, <1>4
<1>7. JobTypes' /\ Asked'
  BY <1>2, <1>6 DEF JobTypes, Asked
<1>8. Writes'
  BY <1>2, <1>5, <1>6 DEF Writes, Job!ConstantsOK, Job!Lba
<1>9. Job!BootSectorLast'
  BY <1>5, <1>6 DEF JobInv, Job!BootSectorLast
<1> QED
  BY <1>2, <1>7, <1>8, <1>9 DEF JobInv, Verifies, Verified

(* A job that fails leaves its target as it is, and that is no begun new system. *)
LEMMA FailInv ==
  ASSUME JobInv, NEW err \in {"format", "write", "read_source", "verify", "read_target"},
         Job!Fail(err), disk' = disk, ui' \in Pages, ui'.page = "confirm" => ui'.pick \in InstTargets,
         Job!Active
  PROVE  JobInv'
<1>1. inst' \in Jobs /\ inst'.phase = "failed" /\ inst'.t = inst.t
  BY DEF JobInv, JobTypes, Job!Fail, Jobs
<1> QED
  BY <1>1 DEF JobInv, JobTypes, Asked, Writes, Verifies, Verified, Job!BootSectorLast, Job!Active

(* The steps of a job.  What the shell or the window does to its own state beside
   it is the same in each. *)
StepsBeside == ui' \in Pages /\ (ui'.page = "confirm" => ui'.pick \in InstTargets) /\ ui'.pending = ui.pending

LEMMA TargetTyped ==
  ASSUME Job!ConstantsOK, JobInv, inst.phase \in {"write", "verify", "bootcode", "done"}
  PROVE  /\ inst \in Jobs /\ inst.t \in InstTargets /\ disk \in [InstTargets -> Targets]
         /\ disk[inst.t] \in Targets /\ inst.next \in Job!Lba /\ 0 \in Job!Lba
         /\ ~ (inst.phase = "done") => ui.pending = nil
BY DEF JobInv, JobTypes, Asked, Job!Active, Jobs, Job!ConstantsOK, Job!Lba

(* What changes on the job's target alone. *)
LEMMA OnTarget ==
  ASSUME Job!ConstantsOK, JobInv, inst.phase \in {"write", "verify", "bootcode"},
         inst' \in Jobs, inst'.t = inst.t, NEW d \in Targets, disk' = [disk EXCEPT ![inst.t] = d],
         StepsBeside, ui.pending = nil,
         d.sec[0] = "new" => d.root \in Job!KeptRoot /\ \A l \in Job!Lba : d.sec[l] \in Job!Kept
  PROVE  /\ JobTypes' /\ Asked' /\ Job!BootSectorLast' /\ disk'[inst'.t] = d
<1>1. inst.t \in InstTargets /\ disk \in [InstTargets -> Targets]
  BY TargetTyped
<1>2. /\ disk' \in [InstTargets -> Targets] /\ disk'[inst.t] = d
      /\ \A u \in InstTargets \ {inst.t} : disk'[u] = disk[u]
  BY <1>1
<1>3. JobTypes' /\ Asked'
  BY <1>1, <1>2 DEF JobTypes, Asked, StepsBeside
<1>4. Job!BootSectorLast'
  BY <1>2 DEF JobInv, Job!BootSectorLast
<1> QED
  BY <1>2, <1>3, <1>4

LEMMA FormatInv ==
  ASSUME Job!ConstantsOK, JobInv, NEW ok \in BOOLEAN, Job!Format(ok), StepsBeside
  PROVE  JobInv'
<1>1. inst.phase = "write" /\ Job!LbaFor(inst.next) = 0 /\ ~ inst.formatted
  BY DEF Job!Format, Job!Formats
<1>2. /\ inst \in Jobs /\ inst.t \in InstTargets /\ disk \in [InstTargets -> Targets] /\ disk[inst.t] \in Targets
      /\ inst.next \in Job!Lba /\ ui.pending = nil
  BY <1>1, TargetTyped
<1>3. disk[inst.t].sec[0] # "new" /\ \A k \in Job!Lba : k < inst.next => disk[inst.t].sec[Job!LbaFor(k)] \in Job!Kept
  BY <1>1 DEF JobInv, Writes
<1>4. ASSUME NEW laid \in Roots, Job!Laid(laid) \/ (UNCHANGED disk /\ laid = disk[inst.t].root)
      PROVE  \E d \in Targets : d.sec = disk[inst.t].sec /\ d.root = laid /\ disk' = [disk EXCEPT ![inst.t] = d]
  <2> DEFINE d == [disk[inst.t] EXCEPT !.root = laid]
  <2>1. d \in Targets /\ d.sec = disk[inst.t].sec /\ d.root = laid
    BY <1>2 DEF Targets
  <2>2. disk' = [disk EXCEPT ![inst.t] = d]
    BY <1>2, <1>4 DEF Job!Laid, Targets
  <2> QED
    BY <2>1, <2>2
<1>5. CASE ok
  <2>1. inst' = [inst EXCEPT !.formatted = TRUE] /\ \E laid \in Job!KeptRoot : Job!Laid(laid)
    BY <1>5 DEF Job!Format
  <2>2. PICK laid \in Job!KeptRoot : Job!Laid(laid)
    BY <2>1
  <2>3. laid \in Roots
    BY DEF Job!KeptRoot, Job!Kept, Roots, Sector
  <2>4. PICK d \in Targets : d.sec = disk[inst.t].sec /\ d.root = laid /\ disk' = [disk EXCEPT ![inst.t] = d]
    BY <1>4, <2>2, <2>3
  <2>5. /\ inst' \in Jobs /\ inst'.t = inst.t /\ inst'.phase = "write" /\ inst'.next = inst.next
    BY <1>1, <1>2, <2>1 DEF Jobs
  <2>6. JobTypes' /\ Asked' /\ Job!BootSectorLast' /\ disk'[inst'.t] = d
    BY <1>1, <1>2, <1>3, <2>4, <2>5, OnTarget
  <2>7. Writes'
    BY <1>3, <2>4, <2>5, <2>6 DEF Writes
  <2> QED
    BY <2>5, <2>6, <2>7 DEF JobInv, Verifies, Verified
<1>6. CASE ~ ok
  <2>1. inst' = [inst EXCEPT !.phase = "failed", !.err = "format"] /\ (UNCHANGED disk \/ Job!Laid("blank"))
    BY <1>6 DEF Job!Format, Job!Fail
  <2>2. PICK d \in Targets : d.sec = disk[inst.t].sec /\ disk' = [disk EXCEPT ![inst.t] = d]
    BY <1>2, <1>4, <2>1 DEF Targets, Roots, Sector
  <2>3. /\ inst' \in Jobs /\ inst'.t = inst.t /\ inst'.phase = "failed"
    BY <1>2, <2>1 DEF Jobs
  <2>4. JobTypes' /\ Asked' /\ Job!BootSectorLast'
    BY <1>1, <1>2, <1>3, <2>2, <2>3, OnTarget
  <2> QED
    BY <2>3, <2>4 DEF JobInv, Writes, Verifies, Verified
<1> QED
  BY <1>5, <1>6

LEMMA AdvanceJob ==
  ASSUME Job!ConstantsOK, inst \in Jobs, NEW next \in {"verify", "bootcode"}, inst' = Job!Advance(next)
  PROVE  /\ inst' \in Jobs /\ inst'.t = inst.t /\ inst'.formatted = inst.formatted
         /\ \/ inst.next + 1 < System /\ inst'.next = inst.next + 1 /\ inst'.phase = inst.phase
            \/ inst.next + 1 = System /\ inst'.next = 0 /\ inst'.phase = next
<1>1. System \in Nat \ {0, 1} /\ inst.next \in 0 .. System - 1
  BY DEF Job!ConstantsOK, Jobs, Job!Lba
<1>2. CASE inst.next + 1 < System
  <2>1. inst' = [inst EXCEPT !.next = inst.next + 1] /\ inst.next + 1 \in Job!Lba
    BY <1>1, <1>2 DEF Job!Advance, Job!Lba
  <2> QED
    BY <1>2, <2>1 DEF Jobs
<1>3. CASE ~ (inst.next + 1 < System)
  <2>1. inst' = [inst EXCEPT !.phase = next, !.next = 0] /\ inst.next + 1 = System /\ 0 \in Job!Lba
    BY <1>1, <1>3 DEF Job!Advance, Job!Lba
  <2> QED
    BY <2>1 DEF Jobs
<1> QED
  BY <1>2, <1>3

LEMMA WriteInv ==
  ASSUME Job!ConstantsOK, JobInv, NEW kept \in Job!Kept, Job!Write(kept), StepsBeside
  PROVE  JobInv'
<1>1. inst.phase = "write" /\ ~ Job!Formats /\ inst' = Job!Advance("verify")
  BY DEF Job!Write
<1>2. /\ inst \in Jobs /\ inst.t \in InstTargets /\ disk \in [InstTargets -> Targets] /\ disk[inst.t] \in Targets
      /\ inst.next \in Job!Lba /\ ui.pending = nil /\ 0 \in Job!Lba
  BY <1>1, TargetTyped
<1>3. /\ disk[inst.t].sec[0] # "new" /\ (inst.formatted => disk[inst.t].root \in Job!KeptRoot)
      /\ \A k \in Job!Lba : k < inst.next => disk[inst.t].sec[Job!LbaFor(k)] \in Job!Kept
  BY <1>1 DEF JobInv, Writes
<1> DEFINE at == Job!LbaFor(inst.next)
           d == [disk[inst.t] EXCEPT !.sec[at] = kept]
<1>4. at \in Job!Lba /\ (at = 0 <=> inst.next + 1 = System) /\ kept \in Sector
  BY <1>2, LastIsBoot DEF Job!Kept, Sector
<1>5. disk' = [disk EXCEPT ![inst.t] = d]
  BY <1>2 DEF Job!Write, Job!Puts
<1>6. d.sec = [disk[inst.t].sec EXCEPT ![at] = kept] /\ d.root = disk[inst.t].root /\ d \in Targets
  BY <1>2, <1>4 DEF Targets
<1> HIDE DEF d
<1>7. /\ inst' \in Jobs /\ inst'.t = inst.t /\ inst'.formatted = inst.formatted
      /\ \/ inst.next + 1 < System /\ inst'.next = inst.next + 1 /\ inst'.phase = "write"
         \/ inst.next + 1 = System /\ inst'.next = 0 /\ inst'.phase = "verify"
  BY <1>1, <1>2, AdvanceJob
<1> HIDE DEF at
<1>8. \A k \in Job!Lba : k <= inst.next => d.sec[Job!LbaFor(k)] \in Job!Kept
  <2> SUFFICES ASSUME NEW k \in Job!Lba, k <= inst.next PROVE d.sec[Job!LbaFor(k)] \in Job!Kept
    OBVIOUS
  <2>1. Job!LbaFor(k) \in Job!Lba /\ disk[inst.t].sec \in [Job!Lba -> Sector]
    BY <1>2, LastIsBoot DEF Targets
  <2>2. CASE Job!LbaFor(k) = at
    BY <1>4, <1>6, <2>1, <2>2
  <2>3. CASE Job!LbaFor(k) # at
    <3>1. k < inst.next
      BY <1>2, <2>3 DEF at, Job!Lba, Job!ConstantsOK
    <3> QED
      BY <1>3, <1>6, <2>1, <2>3, <3>1
  <2> QED
    BY <2>2, <2>3
<1>9. CASE inst.next + 1 < System
  <2>1. inst'.next = inst.next + 1 /\ inst'.phase = "write"
    BY <1>7, <1>9 DEF Job!ConstantsOK
  <2>2. at # 0 /\ d.sec[0] # "new"
    <3>1. at # 0
      BY <1>4, <1>9 DEF Job!ConstantsOK
    <3>2. disk[inst.t].sec \in [Job!Lba -> Sector]
      BY <1>2 DEF Targets
    <3> QED
      BY <1>2, <1>3, <1>6, <3>1, <3>2
  <2>3. JobTypes' /\ Asked' /\ Job!BootSectorLast' /\ disk'[inst'.t] = d
    BY <1>1, <1>2, <1>5, <1>6, <1>7, <2>2, OnTarget
  <2>4. \A k \in Job!Lba : k < inst.next + 1 => k <= inst.next
    BY <1>2 DEF Job!Lba, Job!ConstantsOK
  <2>5. Writes'
    BY <1>3, <1>6, <1>7, <1>8, <2>1, <2>2, <2>3, <2>4 DEF Writes
  <2> QED
    BY <2>1, <2>3, <2>5 DEF JobInv, Verifies, Verified
<1>10. CASE inst.next + 1 = System
  <2>1. inst'.next = 0 /\ inst'.phase = "verify"
    BY <1>7, <1>10 DEF Job!ConstantsOK
  <2>2. inst.formatted /\ d.root \in Job!KeptRoot
    BY <1>1, <1>3, <1>4, <1>6, <1>10 DEF Job!Formats, at
  <2>3. \A l \in Job!Lba : d.sec[l] \in Job!Kept
    <3> TAKE l \in Job!Lba
    <3>1. PICK k \in Job!Lba : Job!LbaFor(k) = l
      BY EverySector
    <3>2. k <= inst.next
      BY <1>2, <1>10 DEF Job!Lba, Job!ConstantsOK
    <3> QED
      BY <1>8, <3>1, <3>2
  <2>4. JobTypes' /\ Asked' /\ Job!BootSectorLast' /\ disk'[inst'.t] = d
    BY <1>1, <1>2, <1>5, <1>6, <1>7, <2>2, <2>3, OnTarget
  <2>5. Verifies'
    BY <2>1, <2>2, <2>3, <2>4 DEF Verifies, Job!Lba, Job!ConstantsOK
  <2> QED
    BY <2>1, <2>4, <2>5 DEF JobInv, Writes, Verified
<1> QED
  BY <1>2, <1>9, <1>10 DEF Job!Lba, Job!ConstantsOK

(* What a refused write leaves: of the boot sector too only what an accepted one does. *)
LEMMA RefusedInv ==
  ASSUME Job!ConstantsOK, JobInv, Job!WriteRefused, StepsBeside
  PROVE  JobInv'
<1>1. inst.phase = "write" /\ ~ Job!Formats /\ Job!Fail("write")
  BY DEF Job!WriteRefused
<1>2. /\ inst \in Jobs /\ inst.t \in InstTargets /\ disk \in [InstTargets -> Targets] /\ disk[inst.t] \in Targets
      /\ inst.next \in Job!Lba /\ ui.pending = nil /\ 0 \in Job!Lba
  BY <1>1, TargetTyped
<1>3. /\ disk[inst.t].sec[0] # "new" /\ (inst.formatted => disk[inst.t].root \in Job!KeptRoot)
      /\ \A k \in Job!Lba : k < inst.next => disk[inst.t].sec[Job!LbaFor(k)] \in Job!Kept
  BY <1>1 DEF JobInv, Writes
<1>4. CASE UNCHANGED disk
  BY <1>1, <1>2, <1>4, FailInv DEF StepsBeside, Job!Active
<1>5. CASE \E kept \in Job!Kept : Job!Puts(kept)
  <2>1. PICK kept \in Job!Kept : Job!Puts(kept)
    BY <1>5
  <2> DEFINE at == Job!LbaFor(inst.next)
             d == [disk[inst.t] EXCEPT !.sec[at] = kept]
  <2>2. at \in Job!Lba /\ (at = 0 <=> inst.next + 1 = System) /\ kept \in Sector
    BY <1>2, LastIsBoot DEF Job!Kept, Sector
  <2>3. disk' = [disk EXCEPT ![inst.t] = d]
    BY <1>2, <2>1 DEF Job!Puts
  <2>4. d.sec = [disk[inst.t].sec EXCEPT ![at] = kept] /\ d.root = disk[inst.t].root /\ d \in Targets
    BY <1>2, <2>2 DEF Targets
  <2> HIDE DEF d
  <2>5. /\ inst' \in Jobs /\ inst'.t = inst.t /\ inst'.phase = "failed"
    BY <1>1, <1>2 DEF Job!Fail, Jobs
  <2>6. ASSUME d.sec[0] = "new" PROVE d.root \in Job!KeptRoot /\ \A l \in Job!Lba : d.sec[l] \in Job!Kept
    <3>1. disk[inst.t].sec \in [Job!Lba -> Sector]
      BY <1>2 DEF Targets
    <3>2. at = 0 /\ inst.next + 1 = System
      BY <1>2, <1>3, <2>2, <2>4, <2>6, <3>1
    <3>3. inst.formatted
      BY <1>1, <3>2 DEF Job!Formats
    <3>4. ASSUME NEW l \in Job!Lba PROVE d.sec[l] \in Job!Kept
      <4>1. PICK k \in Job!Lba : Job!LbaFor(k) = l
        BY EverySector
      <4>2. k < inst.next \/ k = inst.next
        BY <1>2, <3>2 DEF Job!Lba, Job!ConstantsOK
      <4> HIDE DEF at
      <4>3. CASE l = at
        BY <2>1, <2>4, <3>1, <4>3
      <4>4. CASE l # at
        BY <1>3, <2>4, <3>1, <4>1, <4>2, <4>4 DEF at
      <4> QED
        BY <4>3, <4>4
    <3> QED
      BY <1>3, <2>4, <3>3, <3>4
  <2>7. JobTypes' /\ Asked' /\ Job!BootSectorLast'
    BY <1>1, <1>2, <2>3, <2>4, <2>5, <2>6, OnTarget
  <2> QED
    BY <2>5, <2>7 DEF JobInv, Writes, Verifies, Verified
<1> QED
  BY <1>4, <1>5 DEF Job!WriteRefused

LEMMA VerifyInv ==
  ASSUME Job!ConstantsOK, JobInv, Job!Verify, StepsBeside
  PROVE  JobInv'
<1>1. inst.phase = "verify" /\ disk' = disk
  BY DEF Job!Verify
<1>2. /\ inst \in Jobs /\ inst.t \in InstTargets /\ disk \in [InstTargets -> Targets] /\ disk[inst.t] \in Targets
      /\ inst.next \in Job!Lba /\ ui.pending = nil
  BY <1>1, TargetTyped
<1>3. CASE Job!Fail("verify") \/ Job!Fail("format")
  BY <1>1, <1>2, <1>3, FailInv DEF StepsBeside, Job!Active
<1>4. CASE inst' = Job!Advance("bootcode") /\ Job!Same /\ (inst.next + 1 = System => Job!RootOpens)
  <2>1. /\ disk[inst.t].root \in Job!KeptRoot /\ \A l \in Job!Lba : disk[inst.t].sec[l] \in Job!Kept
        /\ \A k \in Job!Lba : k < inst.next => disk[inst.t].sec[Job!LbaFor(k)] = "new"
    BY <1>1 DEF JobInv, Verifies
  <2>2. /\ inst' \in Jobs /\ inst'.t = inst.t
        /\ \/ inst.next + 1 < System /\ inst'.next = inst.next + 1 /\ inst'.phase = "verify"
           \/ inst.next + 1 = System /\ inst'.next = 0 /\ inst'.phase = "bootcode"
    BY <1>1, <1>2, <1>4, AdvanceJob
  <2>3. \A k \in Job!Lba : k <= inst.next => disk[inst.t].sec[Job!LbaFor(k)] = "new"
    BY <1>2, <1>4, <2>1 DEF Job!Same, Job!Lba, Job!ConstantsOK
  <2>4. JobTypes' /\ Asked' /\ Job!BootSectorLast'
    BY <1>1, <1>2, <2>2 DEF JobInv, JobTypes, Asked, Job!BootSectorLast, StepsBeside
  <2>5. CASE inst'.phase = "verify"
    <3>1. inst'.next = inst.next + 1
      BY <2>2, <2>5
    <3>2. \A k \in Job!Lba : k < inst.next + 1 => k <= inst.next
      BY <1>2 DEF Job!Lba, Job!ConstantsOK
    <3>3. Verifies'
      BY <1>1, <2>1, <2>2, <2>3, <3>1, <3>2 DEF Verifies
    <3> QED
      BY <2>4, <2>5, <3>3 DEF JobInv, Writes, Verified
  <2>6. CASE inst'.phase = "bootcode"
    <3>1. inst.next + 1 = System
      BY <2>2, <2>6
    <3>2. \A l \in Job!Lba : disk[inst.t].sec[l] = "new"
      <4> TAKE l \in Job!Lba
      <4>1. PICK k \in Job!Lba : Job!LbaFor(k) = l
        BY EverySector
      <4>2. k <= inst.next
        BY <1>2, <3>1 DEF Job!Lba, Job!ConstantsOK
      <4> QED
        BY <2>3, <4>1, <4>2
    <3>3. Verified'
      BY <1>1, <1>4, <2>2, <3>1, <3>2 DEF Verified, Job!RootOpens
    <3> QED
      BY <2>4, <2>6, <3>3 DEF JobInv, Writes, Verifies
  <2> QED
    BY <2>2, <2>5, <2>6
<1> QED
  BY <1>3, <1>4 DEF Job!Verify

LEMMA BootcodeInv ==
  ASSUME Job!ConstantsOK, JobInv, NEW ok \in BOOLEAN, Job!Bootcode(ok), StepsBeside
  PROVE  JobInv'
<1>1. inst.phase = "bootcode"
  BY DEF Job!Bootcode
<1>2. /\ inst \in Jobs /\ inst.t \in InstTargets /\ disk \in [InstTargets -> Targets] /\ disk[inst.t] \in Targets
      /\ ui.pending = nil
  BY <1>1, TargetTyped
<1>3. Job!RootOpens /\ \A l \in Job!Lba : disk[inst.t].sec[l] = "new"
  BY <1>1 DEF JobInv, Verified
<1>4. PICK result \in {"none", "kept", "unsupported", "chain"} :
        /\ inst' = [inst EXCEPT !.phase = "done", !.mbr = result]
        /\ disk' = IF result = "chain" THEN [disk EXCEPT ![inst.t].code = "chain"] ELSE disk
  <2> DEFINE code == disk[inst.t].code
             chain == inst.t \in Chainable /\ code = "blank"
             result == IF inst.t \in WholeDisks THEN "none"
                       ELSE IF ~ ok \/ code # "blank" THEN "kept"
                       ELSE IF ~ chain THEN "unsupported" ELSE "chain"
  <2>1. result \in {"none", "kept", "unsupported", "chain"}
    OBVIOUS
  <2>2. /\ inst' = [inst EXCEPT !.phase = "done", !.mbr = result]
        /\ disk' = IF result = "chain" THEN [disk EXCEPT ![inst.t].code = "chain"] ELSE disk
    BY DEF Job!Bootcode
  <2> HIDE DEF result
  <2> QED
    BY <2>1, <2>2
<1>5. inst' \in Jobs /\ inst'.t = inst.t /\ inst'.phase = "done"
  BY <1>2, <1>4 DEF Jobs
<1> DEFINE d == IF result = "chain" THEN [disk[inst.t] EXCEPT !.code = "chain"] ELSE disk[inst.t]
<1>6. d \in Targets /\ d.sec = disk[inst.t].sec /\ d.root = disk[inst.t].root
  BY <1>2 DEF Targets
<1>7. disk' = [disk EXCEPT ![inst.t] = d]
  BY <1>2, <1>4
<1> HIDE DEF d
<1>8. d.root \in Job!KeptRoot /\ \A l \in Job!Lba : d.sec[l] \in Job!Kept
  BY <1>3, <1>6 DEF Job!RootOpens, Job!KeptRoot, Job!Kept
<1>9. JobTypes' /\ Asked' /\ Job!BootSectorLast' /\ disk'[inst'.t] = d
  BY <1>1, <1>2, <1>3, <1>5, <1>6, <1>7, <1>8, OnTarget
<1>10. Verified'
  BY <1>3, <1>5, <1>6, <1>9 DEF Verified, Job!RootOpens
<1> QED
  BY <1>5, <1>9, <1>10 DEF JobInv, Writes, Verifies

LEMMA JobStepInv ==
  ASSUME Job!ConstantsOK, JobInv, Job!Step, StepsBeside
  PROVE  JobInv'
<1>1. CASE Job!SourceUnreadable \/ Job!TargetUnreadable
  BY <1>1, FailInv DEF Job!SourceUnreadable, Job!TargetUnreadable, StepsBeside, Job!Active
<1>2. CASE Job!Verify
  BY <1>2, VerifyInv
<1>3. CASE \E kept \in Job!Kept : Job!Write(kept)
  BY <1>3, WriteInv
<1>4. CASE \E ok \in BOOLEAN : Job!Format(ok) \/ Job!Bootcode(ok)
  BY <1>4, FormatInv, BootcodeInv
<1> QED
  BY <1>1, <1>2, <1>3, <1>4, RefusedInv DEF Job!Step

(* A step that leaves the job and the disks alone. *)
LEMMA SameJob ==
  ASSUME JobInv, inst' = inst, disk' = disk, ui' \in Pages,
         ui'.page = "confirm" => ui'.pick \in InstTargets, ui'.pending # nil => ~ Job!Active
  PROVE  JobInv'
BY DEF JobInv, JobTypes, Asked, Writes, Verifies, Verified, Job!BootSectorLast, Job!Active, Job!RootOpens

LEMMA JobNextInv ==
  ASSUME Job!ConstantsOK, JobInv, [Job!Next]_(Job!vars)
  PROVE  JobInv'
<1>0. ui \in Pages /\ inst \in Jobs
      /\ (ui.page = "confirm" => ui.pick \in InstTargets) /\ (ui.pending # nil => ~ Job!Active)
  BY DEF JobInv, JobTypes, Asked
<1>1. CASE UNCHANGED Job!vars
  BY <1>0, <1>1, SameJob DEF Job!vars
<1>2. CASE \E t \in InstTargets : Job!Ask(t) \/ Job!GoConfirm(t)
  <2>1. PICK t \in InstTargets : Job!Ask(t) \/ Job!GoConfirm(t)
    BY <1>2
  <2>2. ui' \in Pages /\ (ui'.page = "confirm" => ui'.pick \in InstTargets)
    BY <1>0, <2>1 DEF Job!Ask, Job!GoConfirm, Pages
  <2>3. ui'.pending # nil => ~ Job!Active
    BY <1>0, <2>1 DEF Job!Ask, Job!GoConfirm, Pages
  <2> QED
    BY <2>1, <2>2, <2>3, SameJob DEF Job!Ask, Job!GoConfirm
<1>3. CASE \E yes \in BOOLEAN : Job!Answer(yes)
  <2>1. PICK yes \in BOOLEAN : Job!Answer(yes)
    BY <1>3
  <2>2. /\ ui' \in Pages /\ ui'.pending = nil /\ (ui'.page = "confirm" => ui'.pick \in InstTargets)
        /\ ui.pending \in InstTargets
    BY <1>0, <2>1 DEF Job!Answer, Pages
  <2>3. CASE yes
    BY <2>1, <2>2, <2>3, BeginInv DEF Job!Answer
  <2>4. CASE ~ yes
    BY <2>1, <2>2, <2>4, SameJob DEF Job!Answer
  <2> QED
    BY <2>3, <2>4
<1>4. CASE Job!ShellPoll
  BY <1>0, <1>4, JobStepInv DEF Job!ShellPoll, StepsBeside
<1>5. CASE Job!Open \/ Job!GoBack \/ Job!CloseWindow
  <2>1. /\ ui' \in Pages /\ ui'.page # "confirm" /\ ui'.pending = ui.pending
        /\ inst' = inst /\ disk' = disk
    BY <1>0, <1>5 DEF Job!Open, Job!GoBack, Job!CloseWindow, Pages
  <2> QED
    BY <1>0, <2>1, SameJob
<1>6. CASE Job!StartWindow
  <2>1. ui' \in Pages /\ ui'.page = "run" /\ ui'.pending = nil /\ ui.pick \in InstTargets
    BY <1>0, <1>6 DEF Job!StartWindow, Pages
  <2> QED
    BY <1>6, <2>1, BeginInv DEF Job!StartWindow
<1>7. CASE Job!WindowFrame
  <2>1. /\ ui' \in Pages /\ ui'.page # "confirm" /\ ui'.pending = ui.pending
    BY <1>0, <1>7 DEF Job!WindowFrame, Job!PageFor, Pages
  <2>2. CASE Job!Active
    BY <1>7, <2>1, <2>2, JobStepInv DEF Job!WindowFrame, StepsBeside
  <2>3. CASE ~ Job!Active
    BY <1>0, <1>7, <2>1, <2>3, SameJob DEF Job!WindowFrame
  <2> QED
    BY <2>2, <2>3
<1>8. CASE Job!Reset
  <2>1. inst' \in Jobs /\ inst'.phase = "idle" /\ ui' \in Pages /\ ui'.page = "shut" /\ ui'.pending = nil
    BY <1>8 DEF Job!Reset, Job!Idle, Job!Shut, Jobs, Pages, Job!Lba, Job!ConstantsOK
  <2>2. disk' \in [InstTargets -> Targets] /\ Job!BootSectorLast'
    <3>1. CASE UNCHANGED disk
      BY <3>1 DEF JobInv, JobTypes, Job!BootSectorLast
    <3>2. CASE Job!Formats /\ Job!Laid("blank")
      <4>1. /\ inst.t \in InstTargets /\ disk \in [InstTargets -> Targets] /\ disk[inst.t] \in Targets
            /\ disk[inst.t].sec[0] # "new"
        BY <3>2, TargetTyped DEF JobInv, Writes, Job!Formats
      <4> DEFINE d == [disk[inst.t] EXCEPT !.root = "blank"]
      <4>2. d \in Targets /\ d.sec = disk[inst.t].sec
        BY <4>1 DEF Targets, Roots, Sector
      <4>3. disk' = [disk EXCEPT ![inst.t] = d]
        BY <3>2, <4>1 DEF Job!Laid
      <4> HIDE DEF d
      <4> QED
        BY <4>1, <4>2, <4>3 DEF JobInv, Job!BootSectorLast
    <3> QED
      BY <1>8, <3>1, <3>2 DEF Job!Reset
  <2> QED
    BY <2>1, <2>2 DEF JobInv, JobTypes, Asked, Writes, Verifies, Verified
<1> QED
  BY <1>1, <1>2, <1>3, <1>4, <1>5, <1>6, <1>7, <1>8 DEF Job!Next

LEMMA JobInitInv ==
  ASSUME Job!ConstantsOK, Job!Init
  PROVE  JobInv
<1>1. inst = Job!Idle /\ ui = Job!Shut
  BY DEF Job!Init
<1>2. inst \in Jobs /\ inst.phase = "idle" /\ ui \in Pages /\ ui.page = "shut" /\ ui.pending = nil
  BY <1>1 DEF Job!Idle, Job!Shut, Jobs, Pages, Job!Lba, Job!ConstantsOK
<1>3. PICK was \in [InstTargets -> Had], code \in [InstTargets -> {"blank", "other"}] :
        disk = [t \in InstTargets |-> [sec |-> [l \in Job!Lba |-> Job!Holding(was[t])], root |-> Job!Holding(was[t]), code |-> code[t]]]
  BY DEF Job!Init
<1>4. \A t \in InstTargets : Job!Holding(was[t]) \in {"old", "blank"}
  BY DEF Job!Holding
<1>5. disk \in [InstTargets -> Targets]
  BY <1>3, <1>4 DEF Targets, Sector, Roots
<1>6. \A t \in InstTargets : disk[t].sec[0] # "new"
  BY <1>3, <1>4 DEF Job!Lba, Job!ConstantsOK
<1> QED
  BY <1>2, <1>5, <1>6 DEF JobInv, JobTypes, Asked, Writes, Verifies, Verified, Job!BootSectorLast

(* Theorems, for any targets, any number of sectors and whatever the targets held. *)

(* The fields of inst_job_t and of the pages keep their types. *)
THEOREM JobTyped == ASSUME Job!ConstantsOK PROVE Job!Spec => []Job!TypeOK
<1>1. Job!Init => JobInv
  BY JobInitInv
<1>2. JobInv /\ [Job!Next]_(Job!vars) => JobInv'
  BY JobNextInv
<1>3. JobInv => Job!TypeOK
  BY DEF JobInv, JobTypes, Jobs, Pages, Targets, Sector, Job!Kept, Job!TypeOK
<1> QED
  BY <1>1, <1>2, <1>3, PTL DEF Job!Spec

(* At whatever sector a job is refused, left or reset, and whatever the medium makes of
   what it accepts, no target has the new boot sector before every other sector and the
   format of the root volume were accepted, and DONE is said only of a target whose
   copied sectors were all read back as they should be and whose root volume opens. *)
THEOREM BootSectorComesLast == ASSUME Job!ConstantsOK PROVE Job!Spec => [](Job!BootSectorLast /\ Job!DoneMeansVerified)
<1>1. Job!Init => JobInv
  BY JobInitInv
<1>2. JobInv /\ [Job!Next]_(Job!vars) => JobInv'
  BY JobNextInv
<1>3. ASSUME Job!ConstantsOK, JobInv PROVE Job!BootSectorLast /\ Job!DoneMeansVerified
  BY <1>3 DEF JobInv, Verified, Job!DoneMeansVerified
<1> QED
  BY <1>1, <1>2, <1>3, PTL DEF Job!Spec

(* Boot code of others stays, whichever target it is on. *)
LEMMA CodeKept ==
  ASSUME Job!ConstantsOK, JobInv, [Job!Next]_(Job!vars), NEW t \in InstTargets, disk[t].code = "other"
  PROVE  disk'[t].code = "other"
<1>1. disk \in [InstTargets -> Targets]
  BY DEF JobInv, JobTypes
<1>2. ASSUME NEW u \in InstTargets, Job!Taking(u)
      PROVE  disk'[t].code = "other"
  BY <1>1, <1>2 DEF Job!Taking, Targets
<1>3. ASSUME Job!Step
      PROVE  disk'[t].code = "other"
  <2>1. inst.t \in InstTargets
    BY <1>3, TargetTyped DEF Job!Step, Job!Format, Job!Formats, Job!Bootcode, Job!Write, Job!WriteRefused, Job!SourceUnreadable,
                             Job!TargetUnreadable, Job!Verify
  <2>2. CASE \E ok \in BOOLEAN : Job!Bootcode(ok)
    <3>1. disk' = disk \/ (disk' = [disk EXCEPT ![inst.t].code = "chain"] /\ disk[inst.t].code = "blank")
      BY <2>2 DEF Job!Bootcode
    <3> QED
      BY <1>1, <2>1, <3>1 DEF Targets
  <2>3. ASSUME NEW laid, Job!Laid(laid)
        PROVE  disk'[t].code = "other"
    BY <1>1, <2>1, <2>3 DEF Job!Laid, Targets
  <2>4. ASSUME NEW kept, Job!Puts(kept)
        PROVE  disk'[t].code = "other"
    BY <1>1, <2>1, <2>4 DEF Job!Puts, Targets
  <2>5. CASE \E ok \in BOOLEAN : Job!Format(ok)
    BY <2>3, <2>5 DEF Job!Format
  <2>6. CASE Job!WriteRefused \/ \E kept \in Job!Kept : Job!Write(kept)
    BY <2>4, <2>6 DEF Job!Write, Job!WriteRefused
  <2>7. CASE Job!SourceUnreadable \/ Job!TargetUnreadable \/ Job!Verify
    BY <2>7 DEF Job!SourceUnreadable, Job!TargetUnreadable, Job!Verify
  <2> QED
    BY <1>3, <2>2, <2>5, <2>6, <2>7 DEF Job!Step
<1>4. CASE \E yes \in BOOLEAN : Job!Answer(yes)
  <2>1. ui \in Pages
    BY DEF JobInv, JobTypes
  <2> QED
    BY <1>2, <1>4, <2>1 DEF Job!Answer, Pages
<1>5. CASE Job!StartWindow
  BY <1>2, <1>5 DEF Job!StartWindow, JobInv, Asked
<1>6. CASE Job!ShellPoll \/ Job!WindowFrame
  BY <1>3, <1>6 DEF Job!ShellPoll, Job!WindowFrame
<1>7. CASE disk' = disk
  BY <1>7
<1>8. CASE Job!Formats /\ Job!Laid("blank")
  BY <1>1, <1>8, TargetTyped DEF Job!Formats, Job!Laid, Targets
<1> QED
  BY <1>4, <1>5, <1>6, <1>7, <1>8 DEF Job!Next, Job!vars, Job!Ask, Job!GoConfirm, Job!Open, Job!GoBack, Job!CloseWindow, Job!Reset

THEOREM OthersBootStays == ASSUME Job!ConstantsOK PROVE Job!Spec => Job!BootcodeKept
<1>1. Job!Init => JobInv
  BY JobInitInv
<1>2. JobInv /\ [Job!Next]_(Job!vars) => JobInv'
  BY JobNextInv
<1>3. JobInv /\ [Job!Next]_(Job!vars) => [\A t \in InstTargets : disk[t].code = "other" => disk'[t].code = "other"]_(Job!vars)
  BY CodeKept
<1> QED
  BY <1>1, <1>2, <1>3, PTL DEF Job!Spec, Job!BootcodeKept

(* A running job goes on at the sector it is at, or ends. *)
LEMMA JobGoesOn ==
  ASSUME Job!ConstantsOK, JobInv, [Job!Next]_(Job!vars), Job!Active, inst'.phase # "idle"
  PROVE  inst'.t = inst.t /\ ~ (inst'.phase = "write" /\ inst'.next < inst.next)
<1>1. inst \in Jobs /\ ui.pending = nil /\ inst.next \in 0 .. System - 1 /\ System \in Nat
  BY DEF JobInv, JobTypes, Asked, Job!Active, Jobs, Job!Lba, Job!ConstantsOK
<1>2. ASSUME Job!Step
      PROVE  inst'.t = inst.t /\ ~ (inst'.phase = "write" /\ inst'.next < inst.next)
  <2>1. CASE Job!WriteRefused \/ Job!SourceUnreadable \/ Job!TargetUnreadable
    BY <1>1, <2>1 DEF Job!WriteRefused, Job!SourceUnreadable, Job!TargetUnreadable, Job!Fail, Jobs
  <2>2. \A next \in {"verify", "bootcode"} : inst' = Job!Advance(next) =>
          inst'.t = inst.t /\ ~ (inst'.phase = "write" /\ inst'.next < inst.next)
    <3> TAKE next \in {"verify", "bootcode"}
    <3> HAVE inst' = Job!Advance(next)
    <3>1. /\ inst'.t = inst.t
          /\ \/ inst.next + 1 < System /\ inst'.next = inst.next + 1 /\ inst'.phase = inst.phase
             \/ inst.next + 1 = System /\ inst'.next = 0 /\ inst'.phase = next
      BY <1>1, AdvanceJob
    <3> QED
      BY <1>1, <3>1
  <2>3. CASE Job!Verify
    <3>1. CASE Job!Fail("verify") \/ Job!Fail("format")
      BY <1>1, <3>1 DEF Job!Fail, Jobs
    <3> QED
      BY <2>2, <2>3, <3>1 DEF Job!Verify
  <2>4. CASE \E kept \in Job!Kept : Job!Write(kept)
    BY <2>2, <2>4 DEF Job!Write
  <2>5. CASE \E ok \in BOOLEAN : Job!Format(ok)
    <3>1. inst' = [inst EXCEPT !.formatted = TRUE] \/ Job!Fail("format")
      BY <2>5 DEF Job!Format
    <3>2. CASE inst' = [inst EXCEPT !.formatted = TRUE]
      BY <1>1, <3>2 DEF Jobs
    <3>3. CASE Job!Fail("format")
      BY <1>1, <3>3 DEF Job!Fail, Jobs
    <3> QED
      BY <3>1, <3>2, <3>3
  <2>6. CASE \E ok \in BOOLEAN : Job!Bootcode(ok)
    BY <1>1, <2>6 DEF Job!Bootcode, Jobs
  <2> QED
    BY <1>2, <2>1, <2>3, <2>4, <2>5, <2>6 DEF Job!Step
<1>3. CASE inst' = inst
  BY <1>1, <1>3
<1>4. CASE Job!ShellPoll \/ Job!WindowFrame
  BY <1>2, <1>3, <1>4 DEF Job!ShellPoll, Job!WindowFrame
<1>5. ~ Job!Reset /\ ~ Job!StartWindow /\ ~ \E yes \in BOOLEAN : Job!Answer(yes)
  BY <1>1 DEF Job!Reset, Job!Idle, Job!StartWindow, Job!Answer
<1> QED
  BY <1>3, <1>4, <1>5 DEF Job!Next, Job!vars, Job!Ask, Job!GoConfirm, Job!Open, Job!GoBack, Job!CloseWindow

THEOREM OneJobAtATime == ASSUME Job!ConstantsOK PROVE Job!Spec => Job!OneJob
<1>1. Job!Init => JobInv
  BY JobInitInv
<1>2. JobInv /\ [Job!Next]_(Job!vars) => JobInv'
  BY JobNextInv
<1>3. JobInv /\ [Job!Next]_(Job!vars) =>
        [Job!Active /\ inst'.phase # "idle" => inst'.t = inst.t /\ inst'.phase \notin {"idle"}
                                           /\ ~ (inst'.phase = "write" /\ inst'.next < inst.next)]_(Job!vars)
  BY JobGoesOn
<1> QED
  BY <1>1, <1>2, <1>3, PTL DEF Job!Spec, Job!OneJob

-----------------------------------------------------------------------------
(* The partition table: Parts.  Induction, in the form the provers can use: over a set of numbers. *)

LEMMA NatSet ==
  ASSUME NEW S \in SUBSET Nat, 0 \in S, \A n \in S : n + 1 \in S
  PROVE  S = Nat
<1> SUFFICES ASSUME S # Nat PROVE FALSE
  OBVIOUS
<1> DEFINE T == Nat \ S
<1>1. T \subseteq Nat /\ T # {}
  OBVIOUS
<1>2. \E k \in T : \A y \in T : ~ (<<y, k>> \in OpToRel(<, Nat))
  BY <1>1, NatLessThanWellFounded, WFMin, Zenon
<1>3. PICK k \in T : \A y \in T : ~ (y < k)
  <2>1. \A y, m \in Nat : y < m => <<y, m>> \in OpToRel(<, Nat)
    BY DEF OpToRel
  <2> QED
    BY <1>1, <1>2, <2>1
<1>4. k # 0 /\ k - 1 \in Nat
  BY <1>1
<1>5. k - 1 \in S
  BY <1>3, <1>4
<1>6. (k - 1) + 1 = k
  BY <1>4
<1> QED
  BY <1>5, <1>6

LEMMA Least ==
  ASSUME NEW S \in SUBSET Nat, S # {}
  PROVE  \E k \in S : \A y \in S : k <= y
<1>1. \E k \in S : \A y \in S : ~ (<<y, k>> \in OpToRel(<, Nat))
  BY NatLessThanWellFounded, WFMin, Zenon
<1>2. \A y, m \in Nat : y < m => <<y, m>> \in OpToRel(<, Nat)
  BY DEF OpToRel
<1>3. PICK k \in S : \A y \in S : ~ (<<y, k>> \in OpToRel(<, Nat))
  BY <1>1
<1>4. ASSUME NEW y \in S PROVE k <= y
  <2>1. k \in Nat /\ y \in Nat
    OBVIOUS
  <2>2. ~ (y < k)
    BY <1>2, <1>3, <2>1
  <2> QED
    BY <2>1, <2>2
<1> QED
  BY <1>4

LEMMA MinIsLeast ==
  ASSUME NEW S \in SUBSET Nat, S # {}
  PROVE  Disk!Min(S) \in S /\ \A y \in S : Disk!Min(S) <= y
BY Least DEF Disk!Min

(* The table counts as the provers do. *)
LEMMA TableCounts == \A S : Disk!Cardinality(S) = Cardinality(S)
  BY DEF Disk!Cardinality, Cardinality

(* The gaps that `part create` cuts, for any table. *)

Rows == [start : Nat, n : Nat, type : {"none", "data"}, active : BOOLEAN]
Tabs == [1 .. Prim -> Rows]
Gap == [a : Nat, len : Nat]
Before(a, n, b) == a + n <= b
(* A run of n units at a is clear of the entry e. *)
Clear(a, n, e) == Before(a, n, e.start) \/ Before(e.start, e.n, a)

(* The entries of a table: on the disk, clear of the sector of the table and of
   each other, no more than one active. *)
Apart(tab) ==
  /\ \A p \in 1 .. Prim : Disk!Used(tab[p]) => 1 <= tab[p].start /\ tab[p].start + tab[p].n <= DiskSize
  /\ \A p, q \in 1 .. Prim : Disk!Used(tab[p]) /\ Disk!Used(tab[q]) /\ p # q => Clear(tab[p].start, tab[p].n, tab[q])
  /\ \A p, q \in 1 .. Prim : Disk!Used(tab[p]) /\ Disk!Used(tab[q]) /\ tab[p].active /\ tab[q].active => p = q

(* The gaps left by the first k entries: what they are, and that each run of units
   that is clear of these entries lies in one of them. *)
FreeOf(tab, k, a, n) == \A p \in 1 .. k : Disk!Used(tab[p]) => Clear(a, n, tab[p])
Within(g, a, n) == g.a <= a /\ a + n <= g.a + g.len
GapsFree(tab, k, gaps) ==
  \A i \in 1 .. Len(gaps) : gaps[i].len > 0 =>
    Align <= gaps[i].a /\ gaps[i].a + gaps[i].len <= DiskSize /\ FreeOf(tab, k, gaps[i].a, gaps[i].len)
GapsApart(gaps) ==
  \A i, j \in 1 .. Len(gaps) : i # j /\ gaps[i].len > 0 /\ gaps[j].len > 0 =>
    Before(gaps[i].a, gaps[i].len, gaps[j].a) \/ Before(gaps[j].a, gaps[j].len, gaps[i].a)
GapsAll(tab, k, gaps) ==
  \A a \in Nat, n \in Nat \ {0} : Align <= a /\ a + n <= DiskSize /\ FreeOf(tab, k, a, n) =>
    \E i \in 1 .. Len(gaps) : Within(gaps[i], a, n)
GoodGaps(tab, k) ==
  {gaps \in Seq(Gap) : GapsFree(tab, k, gaps) /\ GapsApart(gaps) /\ GapsAll(tab, k, gaps)}

(* What one entry does to one gap. *)
Inside(g, e) == e.start < g.a + g.len /\ g.a < e.start + e.n
LeftOf(g, e) == IF e.start > g.a THEN e.start - g.a ELSE 0
RightOf(g, e) == IF e.start + e.n < g.a + g.len THEN g.a + g.len - (e.start + e.n) ELSE 0
Rest(g, e) ==
  IF ~ Inside(g, e) THEN g
  ELSE IF LeftOf(g, e) > 0 THEN [g EXCEPT !.len = LeftOf(g, e)]
  ELSE [a |-> e.start + e.n, len |-> RightOf(g, e)]
Splits(gaps, e) ==
  {i \in 1 .. Len(gaps) : Inside(gaps[i], e) /\ LeftOf(gaps[i], e) > 0 /\ RightOf(gaps[i], e) > 0}

LEMMA CutIs ==
  ASSUME NEW gaps \in Seq(Gap), NEW e
  PROVE  LET kept == [i \in 1 .. Len(gaps) |-> Rest(gaps[i], e)]
             new == Splits(gaps, e)
         IN Disk!Cut(gaps, e) = IF new = {} THEN kept
                           ELSE Append(kept, LET i == CHOOSE i \in new : TRUE
                                             IN [a |-> e.start + e.n, len |-> RightOf(gaps[i], e)])
<1>1. DOMAIN gaps = 1 .. Len(gaps)
  OBVIOUS
<1> QED
  BY <1>1 DEF Disk!Cut, Rest, Inside, LeftOf, RightOf, Splits

(* What is left of a gap: within it, clear of the entry, and all of it but what is
   on the other side of the entry. *)
LEMMA RestIs ==
  ASSUME NEW g \in Gap, NEW e \in Rows
  PROVE  /\ Rest(g, e) \in Gap
         /\ Rest(g, e).len > 0 => /\ g.len > 0 /\ Clear(Rest(g, e).a, Rest(g, e).len, e)
                                  /\ g.a <= Rest(g, e).a /\ Rest(g, e).a + Rest(g, e).len <= g.a + g.len
         /\ \A a \in Nat, n \in Nat \ {0} : Within(g, a, n) /\ Clear(a, n, e) =>
              \/ Within(Rest(g, e), a, n)
              \/ /\ Inside(g, e) /\ LeftOf(g, e) > 0 /\ RightOf(g, e) > 0
                 /\ Within([a |-> e.start + e.n, len |-> RightOf(g, e)], a, n)
         /\ Inside(g, e) /\ LeftOf(g, e) > 0 /\ RightOf(g, e) > 0 =>
              Rest(g, e).a = g.a /\ Rest(g, e).a + Rest(g, e).len = e.start
              /\ e.start + e.n + RightOf(g, e) = g.a + g.len /\ g.len > 0
<1>1. g.a \in Nat /\ g.len \in Nat /\ e.start \in Nat /\ e.n \in Nat
  BY DEF Gap, Rows
<1>2. CASE ~ Inside(g, e)
  <2>1. Rest(g, e) = g
    BY <1>2 DEF Rest
  <2> QED
    BY <1>1, <1>2, <2>1 DEF Inside, Clear, Before
<1>3. CASE Inside(g, e) /\ LeftOf(g, e) > 0
  <2>1. Rest(g, e) = [g EXCEPT !.len = LeftOf(g, e)]
    BY <1>3 DEF Rest
  <2>2. LeftOf(g, e) = e.start - g.a /\ LeftOf(g, e) \in Nat /\ g.a < e.start
    BY <1>1, <1>3 DEF LeftOf
  <2>3. Rest(g, e) \in Gap /\ Rest(g, e).a = g.a /\ Rest(g, e).len = e.start - g.a
    BY <2>1, <2>2 DEF Gap
  <2>4. e.start < g.a + g.len /\ g.a < e.start + e.n
    BY <1>3 DEF Inside
  <2> DEFINE r == RightOf(g, e)
  <2>5. r = IF e.start + e.n < g.a + g.len THEN g.a + g.len - (e.start + e.n) ELSE 0
    BY DEF RightOf
  <2>6. ASSUME NEW a \in Nat, NEW n \in Nat \ {0}, Within(g, a, n), Clear(a, n, e)
        PROVE  Within(Rest(g, e), a, n) \/ (r > 0 /\ Within([a |-> e.start + e.n, len |-> r], a, n))
    <3>1. CASE a + n <= e.start
      BY <1>1, <2>2, <2>3, <2>6, <3>1 DEF Within
    <3>2. CASE e.start + e.n <= a
      BY <1>1, <2>2, <2>5, <2>6, <3>2 DEF Within
    <3> QED
      BY <2>6, <3>1, <3>2 DEF Clear, Before
  <2> HIDE DEF r
  <2>7. /\ Rest(g, e).len > 0 /\ g.len > 0 /\ Clear(Rest(g, e).a, Rest(g, e).len, e)
        /\ g.a <= Rest(g, e).a /\ Rest(g, e).a + Rest(g, e).len <= g.a + g.len
        /\ Rest(g, e).a + Rest(g, e).len = e.start /\ (r > 0 => e.start + e.n + r = g.a + g.len)
    BY <1>1, <2>2, <2>3, <2>4, <2>5 DEF Clear, Before
  <2> QED
    BY <1>3, <2>3, <2>6, <2>7 DEF r
<1>4. CASE Inside(g, e) /\ ~ (LeftOf(g, e) > 0)
  <2>1. Rest(g, e) = [a |-> e.start + e.n, len |-> RightOf(g, e)]
    BY <1>4 DEF Rest
  <2>2. e.start <= g.a /\ RightOf(g, e) \in Nat
    BY <1>1, <1>4 DEF LeftOf, RightOf
  <2>3. Rest(g, e) \in Gap /\ Rest(g, e).a = e.start + e.n /\ Rest(g, e).len = RightOf(g, e)
    BY <1>1, <2>1, <2>2 DEF Gap
  <2> HIDE DEF Rest
  <2> QED
    BY <1>1, <1>4, <2>2, <2>3 DEF Inside, RightOf, Clear, Before, Within
<1> QED
  BY <1>2, <1>3, <1>4

(* One entry more is cut out of the gaps. *)
LEMMA CutGood ==
  ASSUME Disk!ConstantsOK, NEW tab \in Tabs, NEW k \in 1 .. Prim, NEW gaps \in GoodGaps(tab, k - 1),
         Disk!Used(tab[k])
  PROVE  Disk!Cut(gaps, tab[k]) \in GoodGaps(tab, k)
<1> DEFINE e == tab[k]
           kept == [i \in 1 .. Len(gaps) |-> Rest(gaps[i], e)]
           new == Splits(gaps, e)
           c == Disk!Cut(gaps, e)
           N == Len(gaps)
<1>1. /\ e \in Rows /\ gaps \in Seq(Gap) /\ N \in Nat /\ k \in Nat /\ Prim \in Nat
      /\ GapsFree(tab, k - 1, gaps) /\ GapsApart(gaps) /\ GapsAll(tab, k - 1, gaps)
  <2>1. gaps \in Seq(Gap) /\ GapsFree(tab, k - 1, gaps) /\ GapsApart(gaps) /\ GapsAll(tab, k - 1, gaps)
    BY DEF GoodGaps
  <2>2. e \in Rows
    BY DEF Tabs
  <2>3. N \in Nat /\ k \in Nat /\ Prim \in Nat
    BY <2>1 DEF Disk!ConstantsOK
  <2> QED
    BY <2>1, <2>2, <2>3
<1>2. \A i \in 1 .. N : gaps[i] \in Gap /\ gaps[i].a \in Nat /\ gaps[i].len \in Nat
  <2>1. \A i \in 1 .. N : gaps[i] \in Gap
    BY <1>1
  <2> QED
    BY <2>1 DEF Gap
<1>3. e.start \in Nat /\ e.n \in Nat
  BY <1>1 DEF Rows
<1>4. \A i \in 1 .. N :
        /\ Rest(gaps[i], e) \in Gap
        /\ Rest(gaps[i], e).len > 0 =>
             /\ gaps[i].len > 0 /\ Clear(Rest(gaps[i], e).a, Rest(gaps[i], e).len, e)
             /\ gaps[i].a <= Rest(gaps[i], e).a
             /\ Rest(gaps[i], e).a + Rest(gaps[i], e).len <= gaps[i].a + gaps[i].len
        /\ i \in new =>
             /\ Rest(gaps[i], e).a = gaps[i].a /\ Rest(gaps[i], e).a + Rest(gaps[i], e).len = e.start
             /\ e.start + e.n + RightOf(gaps[i], e) = gaps[i].a + gaps[i].len /\ gaps[i].len > 0
             /\ gaps[i].a < e.start /\ RightOf(gaps[i], e) \in Nat \ {0}
  <2> TAKE i \in 1 .. N
  <2>1. i \in new => LeftOf(gaps[i], e) > 0 /\ Inside(gaps[i], e) /\ RightOf(gaps[i], e) > 0
    BY DEF Splits
  <2>2. LeftOf(gaps[i], e) > 0 => gaps[i].a < e.start
    BY <1>2, <1>3 DEF LeftOf
  <2>3. RightOf(gaps[i], e) \in Nat
    BY <1>2, <1>3, SMTT(30) DEF RightOf
  <2>4. RightOf(gaps[i], e) > 0 => RightOf(gaps[i], e) \in Nat \ {0}
    BY <2>3
  <2> HIDE DEF new, e
  <2>5. gaps[i] \in Gap /\ e \in Rows
    BY <1>1, <1>2
  <2> QED
    BY <2>1, <2>2, <2>4, <2>5, RestIs
<1>5. \A i, j \in new : i = j
  <2> SUFFICES ASSUME NEW i \in new, NEW j \in new, i # j PROVE FALSE
    OBVIOUS
  <2>1. i \in 1 .. N /\ j \in 1 .. N
    BY DEF Splits
  <2>2. Before(gaps[i].a, gaps[i].len, gaps[j].a) \/ Before(gaps[j].a, gaps[j].len, gaps[i].a)
    BY <1>1, <1>4, <2>1 DEF GapsApart
  <2>3. /\ gaps[i].a < e.start /\ e.start <= gaps[i].a + gaps[i].len
        /\ gaps[j].a < e.start /\ e.start <= gaps[j].a + gaps[j].len
    <3> HIDE DEF e, new
    <3>1. \A m \in new : m \in 1 .. N => gaps[m].a < e.start /\ e.start <= gaps[m].a + gaps[m].len
      <4> TAKE m \in new
      <4> HAVE m \in 1 .. N
      <4>1. /\ e.start + e.n + RightOf(gaps[m], e) = gaps[m].a + gaps[m].len
            /\ gaps[m].a < e.start /\ RightOf(gaps[m], e) \in Nat
        BY <1>4
      <4> QED
        BY <1>2, <1>3, <4>1
    <3> QED
      BY <2>1, <3>1
  <2> QED
    BY <1>2, <1>3, <2>1, <2>2, <2>3, SMTT(30) DEF Before
<1>6. \/ new = {} /\ c = kept
      \/ \E m \in new : c = Append(kept, [a |-> e.start + e.n, len |-> RightOf(gaps[m], e)])
  <2>1. c = IF new = {} THEN kept
            ELSE Append(kept, LET i == CHOOSE i \in new : TRUE
                              IN [a |-> e.start + e.n, len |-> RightOf(gaps[i], e)])
    BY <1>1, CutIs
  <2>2. CASE new = {}
    BY <2>1, <2>2
  <2>3. CASE new # {}
    <3>1. (CHOOSE i \in new : TRUE) \in new
      BY <2>3
    <3> HIDE DEF new, c, kept
    <3> QED
      BY <2>1, <2>3, <3>1
  <2> QED
    BY <2>2, <2>3
<1>7. kept \in Seq(Gap) /\ Len(kept) = N /\ \A i \in 1 .. N : kept[i] = Rest(gaps[i], e)
  BY <1>1, <1>4
(* The gaps that are left, and what is to the right of the entry where it splits one. *)
<1> HIDE DEF e, kept, new, c, N
<1>8. \A i \in 1 .. N : kept[i].len > 0 =>
        /\ Align <= kept[i].a /\ kept[i].a + kept[i].len <= DiskSize
        /\ FreeOf(tab, k, kept[i].a, kept[i].len)
  <2> SUFFICES ASSUME NEW i \in 1 .. N, kept[i].len > 0
               PROVE  /\ Align <= kept[i].a /\ kept[i].a + kept[i].len <= DiskSize
                      /\ FreeOf(tab, k, kept[i].a, kept[i].len)
    OBVIOUS
  <2>1. /\ kept[i] \in Gap /\ gaps[i].len > 0 /\ Clear(kept[i].a, kept[i].len, e)
        /\ gaps[i].a <= kept[i].a /\ kept[i].a + kept[i].len <= gaps[i].a + gaps[i].len
    BY <1>4, <1>7
  <2>2. Align <= gaps[i].a /\ gaps[i].a + gaps[i].len <= DiskSize /\ FreeOf(tab, k - 1, gaps[i].a, gaps[i].len)
    BY <1>1, <2>1 DEF GapsFree, N
  <2>3. FreeOf(tab, k, kept[i].a, kept[i].len)
    <3> SUFFICES ASSUME NEW p \in 1 .. k, Disk!Used(tab[p]) PROVE Clear(kept[i].a, kept[i].len, tab[p])
      BY DEF FreeOf
    <3>1. CASE p = k
      BY <2>1, <3>1 DEF e
    <3>2. CASE p # k
      <4>1. p \in 1 .. k - 1 /\ p \in 1 .. Prim
        BY <1>1, <3>2
      <4>2. Clear(gaps[i].a, gaps[i].len, tab[p])
        BY <2>2, <4>1 DEF FreeOf
      <4>3. tab[p].start \in Nat /\ tab[p].n \in Nat
        BY <4>1 DEF Tabs, Rows
      <4> QED
        BY <1>2, <2>1, <4>2, <4>3 DEF Clear, Before, Gap
    <3> QED
      BY <3>1, <3>2
  <2> QED
    BY <1>2, <2>1, <2>2, <2>3 DEF Gap, Disk!ConstantsOK
<1>9. \A i, j \in 1 .. N : i # j /\ kept[i].len > 0 /\ kept[j].len > 0 =>
        Before(kept[i].a, kept[i].len, kept[j].a) \/ Before(kept[j].a, kept[j].len, kept[i].a)
  <2> SUFFICES ASSUME NEW i \in 1 .. N, NEW j \in 1 .. N, i # j, kept[i].len > 0, kept[j].len > 0
               PROVE  Before(kept[i].a, kept[i].len, kept[j].a) \/ Before(kept[j].a, kept[j].len, kept[i].a)
    OBVIOUS
  <2>1. /\ kept[i] \in Gap /\ gaps[i].len > 0 /\ gaps[i].a <= kept[i].a
        /\ kept[i].a + kept[i].len <= gaps[i].a + gaps[i].len
        /\ kept[j] \in Gap /\ gaps[j].len > 0 /\ gaps[j].a <= kept[j].a
        /\ kept[j].a + kept[j].len <= gaps[j].a + gaps[j].len
    BY <1>4, <1>7
  <2>2. Before(gaps[i].a, gaps[i].len, gaps[j].a) \/ Before(gaps[j].a, gaps[j].len, gaps[i].a)
    BY <1>1, <2>1 DEF GapsApart, N
  <2> QED
    BY <1>2, <2>1, <2>2 DEF Before, Gap
<1>10. \A a \in Nat, n \in Nat \ {0} : Align <= a /\ a + n <= DiskSize /\ FreeOf(tab, k, a, n) =>
         \/ \E i \in 1 .. N : Within(kept[i], a, n)
         \/ \E i \in new : Within([a |-> e.start + e.n, len |-> RightOf(gaps[i], e)], a, n)
  <2> SUFFICES ASSUME NEW a \in Nat, NEW n \in Nat \ {0}, Align <= a, a + n <= DiskSize, FreeOf(tab, k, a, n)
               PROVE  \/ \E i \in 1 .. N : Within(kept[i], a, n)
                      \/ \E i \in new : Within([a |-> e.start + e.n, len |-> RightOf(gaps[i], e)], a, n)
    OBVIOUS
  <2>1. FreeOf(tab, k - 1, a, n) /\ Clear(a, n, e)
    BY <1>1 DEF FreeOf, e
  <2>2. PICK i \in 1 .. N : Within(gaps[i], a, n)
    BY <1>1, <2>1 DEF GapsAll, N
  <2>3. gaps[i] \in Gap
    BY <1>2
  <2>4. \/ Within(Rest(gaps[i], e), a, n)
        \/ /\ Inside(gaps[i], e) /\ LeftOf(gaps[i], e) > 0 /\ RightOf(gaps[i], e) > 0
           /\ Within([a |-> e.start + e.n, len |-> RightOf(gaps[i], e)], a, n)
    BY <1>1, <2>1, <2>2, <2>3, RestIs
  <2> QED
    BY <1>7, <2>2, <2>4 DEF new, Splits, N
<1>11. CASE new = {}
  <2>1. c = kept
    BY <1>6, <1>11
  <2>2. GapsFree(tab, k, kept) /\ GapsApart(kept) /\ GapsAll(tab, k, kept)
    BY <1>7, <1>8, <1>9, <1>10, <1>11 DEF GapsFree, GapsApart, GapsAll
  <2> QED
    BY <1>7, <2>1, <2>2 DEF GoodGaps, c, e
<1>12. CASE new # {}
  <2>1. PICK m \in new : c = Append(kept, [a |-> e.start + e.n, len |-> RightOf(gaps[m], e)])
    BY <1>6, <1>12
  <2> DEFINE r == [a |-> e.start + e.n, len |-> RightOf(gaps[m], e)]
  <2>2. m \in 1 .. N
    BY DEF new, Splits, N
  <2>3. /\ kept[m].a = gaps[m].a /\ kept[m].a + kept[m].len = e.start
        /\ e.start + e.n + RightOf(gaps[m], e) = gaps[m].a + gaps[m].len /\ gaps[m].len > 0
        /\ gaps[m].a < e.start /\ RightOf(gaps[m], e) \in Nat \ {0}
    BY <1>4, <1>7, <2>2
  <2>4. /\ r \in Gap /\ r.a = e.start + e.n /\ r.len > 0 /\ r.a + r.len = gaps[m].a + gaps[m].len
        /\ gaps[m].a <= r.a /\ r.len \in Nat
    BY <1>2, <1>3, <2>2, <2>3 DEF Gap
  <2>5. /\ c \in Seq(Gap) /\ Len(c) = N + 1 /\ c[N + 1] = r /\ \A i \in 1 .. N : c[i] = kept[i]
    BY <1>1, <1>7, <2>1, <2>4
  <2>6. r.a \in Nat
    BY <2>4 DEF Gap
  <2> HIDE DEF r
  <2>7. Align <= r.a /\ r.a + r.len <= DiskSize /\ FreeOf(tab, k, r.a, r.len)
    <3>1. Align <= gaps[m].a /\ gaps[m].a + gaps[m].len <= DiskSize /\ FreeOf(tab, k - 1, gaps[m].a, gaps[m].len)
      BY <1>1, <2>2, <2>3 DEF GapsFree, N
    <3>2. FreeOf(tab, k, r.a, r.len)
      <4> SUFFICES ASSUME NEW p \in 1 .. k, Disk!Used(tab[p]) PROVE Clear(r.a, r.len, tab[p])
        BY DEF FreeOf
      <4>1. CASE p = k
        BY <1>3, <2>4, <2>6, <4>1 DEF e, Clear, Before
      <4>2. CASE p # k
        <5>1. p \in 1 .. k - 1 /\ p \in 1 .. Prim
          BY <1>1, <4>2
        <5>2. Clear(gaps[m].a, gaps[m].len, tab[p])
          BY <3>1, <5>1 DEF FreeOf
        <5>3. tab[p].start \in Nat /\ tab[p].n \in Nat
          BY <5>1 DEF Tabs, Rows
        <5> QED
          BY <1>2, <2>2, <2>4, <2>6, <5>2, <5>3 DEF Clear, Before
      <4> QED
        BY <4>1, <4>2
    <3> QED
      BY <1>2, <2>2, <2>4, <2>6, <3>1, <3>2 DEF Disk!ConstantsOK
  <2>8. GapsFree(tab, k, c)
    BY <1>1, <1>8, <2>5, <2>7 DEF GapsFree
  <2>9. \A i \in 1 .. N : kept[i].len > 0 => Before(kept[i].a, kept[i].len, r.a) \/ Before(r.a, r.len, kept[i].a)
    <3> SUFFICES ASSUME NEW i \in 1 .. N, kept[i].len > 0
                 PROVE  Before(kept[i].a, kept[i].len, r.a) \/ Before(r.a, r.len, kept[i].a)
      OBVIOUS
    <3>1. CASE i = m
      BY <1>3, <2>3, <2>4, <3>1 DEF Before
    <3>2. CASE i # m
      <4>1. /\ kept[i] \in Gap /\ gaps[i].len > 0 /\ gaps[i].a <= kept[i].a
            /\ kept[i].a + kept[i].len <= gaps[i].a + gaps[i].len
        BY <1>4, <1>7
      <4>2. Before(gaps[i].a, gaps[i].len, gaps[m].a) \/ Before(gaps[m].a, gaps[m].len, gaps[i].a)
        BY <1>1, <2>2, <2>3, <3>2, <4>1 DEF GapsApart, N
      <4> QED
        BY <1>2, <2>2, <2>4, <2>6, <4>1, <4>2 DEF Before, Gap
    <3> QED
      BY <3>1, <3>2
  <2>10. GapsApart(c)
    <3> SUFFICES ASSUME NEW i \in 1 .. N + 1, NEW j \in 1 .. N + 1, i # j, c[i].len > 0, c[j].len > 0
                 PROVE  Before(c[i].a, c[i].len, c[j].a) \/ Before(c[j].a, c[j].len, c[i].a)
      BY <2>5 DEF GapsApart
    <3>1. CASE i \in 1 .. N /\ j \in 1 .. N
      BY <1>9, <2>5, <3>1
    <3>2. CASE i = N + 1 /\ j \in 1 .. N
      BY <2>5, <2>9, <3>2
    <3>3. CASE j = N + 1 /\ i \in 1 .. N
      BY <2>5, <2>9, <3>3
    <3> QED
      BY <1>1, <3>1, <3>2, <3>3
  <2>11. GapsAll(tab, k, c)
    <3> SUFFICES ASSUME NEW a \in Nat, NEW n \in Nat \ {0}, Align <= a, a + n <= DiskSize, FreeOf(tab, k, a, n)
                 PROVE  \E i \in 1 .. N + 1 : Within(c[i], a, n)
      BY <2>5 DEF GapsAll
    <3>1. CASE \E i \in 1 .. N : Within(kept[i], a, n)
      <4>1. PICK i \in 1 .. N : Within(kept[i], a, n)
        BY <3>1
      <4>2. i \in 1 .. N + 1 /\ c[i] = kept[i]
        BY <1>1, <2>5
      <4> QED
        BY <4>1, <4>2
    <3>2. CASE \E i \in new : Within([a |-> e.start + e.n, len |-> RightOf(gaps[i], e)], a, n)
      <4>1. Within(r, a, n)
        BY <1>5, <3>2 DEF r
      <4>2. N + 1 \in 1 .. N + 1
        BY <1>1
      <4> QED
        BY <2>5, <4>1, <4>2
    <3> QED
      BY <1>10, <3>1, <3>2
  <2> QED
    BY <2>5, <2>8, <2>10, <2>11 DEF GoodGaps, c, e
<1> QED
  BY <1>11, <1>12

(* All the entries of a table, one after the other. *)
LEMMA GapsGood ==
  ASSUME Disk!ConstantsOK, NEW tab \in Tabs
  PROVE  Disk!Gaps(tab) \in GoodGaps(tab, Prim)
<1> DEFINE first == <<[a |-> Align, len |-> DiskSize - Align]>>
           OneMore(g, p) == IF Disk!Used(tab[p]) THEN Disk!Cut(g, tab[p]) ELSE g
           IsIt(g, n) == g = [p \in 0 .. n |-> IF p = 0 THEN first ELSE OneMore(g[p - 1], p)]
           S == {n \in Nat : n <= Prim => \E g : IsIt(g, n)}
           T == {n \in Nat : n <= Prim => \A g : IsIt(g, Prim) => g[n] \in GoodGaps(tab, n)}
<1>1. Prim \in Nat /\ Align \in Nat \ {0} /\ DiskSize \in Nat /\ Align < DiskSize
  BY DEF Disk!ConstantsOK
<1>2. 0 \in S
  <2>1. IsIt([p \in {0} |-> first], 0)
    BY DEF IsIt
  <2> QED
    BY <2>1
<1>3. \A n \in S : n + 1 \in S
  <2> SUFFICES ASSUME NEW n \in S, n + 1 <= Prim PROVE \E g : IsIt(g, n + 1)
    OBVIOUS
  <2>1. PICK g : IsIt(g, n)
    BY <1>1
  <2> DEFINE h == [p \in 0 .. n + 1 |-> IF p = 0 THEN first ELSE OneMore(IF p = n + 1 THEN g[n] ELSE g[p - 1], p)]
  <2>2. \A p \in 0 .. n : h[p] = g[p]
    <3> HIDE DEF first, OneMore
    <3> TAKE p \in 0 .. n
    <3>1. p \in 0 .. n + 1 /\ p # n + 1
      OBVIOUS
    <3> QED
      BY <2>1, <3>1
  <2>3. h = [p \in 0 .. n + 1 |-> IF p = 0 THEN first ELSE OneMore(h[p - 1], p)]
    <3> HIDE DEF first, OneMore
    <3>1. \A p \in 0 .. n + 1 : p # 0 => (IF p = n + 1 THEN g[n] ELSE g[p - 1]) = h[p - 1]
      <4> HIDE DEF h
      <4> QED
        BY <2>2
    <3>2. \A p \in 0 .. n + 1 : h[p] = IF p = 0 THEN first ELSE OneMore(IF p = n + 1 THEN g[n] ELSE g[p - 1], p)
      OBVIOUS
    <3>3. h = [p \in 0 .. n + 1 |-> h[p]]
      OBVIOUS
    <3> HIDE DEF h
    <3> QED
      BY <3>1, <3>2, <3>3
  <2> HIDE DEF h, first, OneMore
  <2> QED
    BY <2>3
<1>4. S = Nat
  <2> HIDE DEF S
  <2>1. S \in SUBSET Nat
    BY DEF S
  <2> QED
    BY <1>2, <1>3, <2>1, NatSet
<1>5. PICK G : IsIt(G, Prim)
  <2>1. Prim \in S
    <3> HIDE DEF S
    <3> QED
      BY <1>1, <1>4
  <2> HIDE DEF IsIt
  <2> QED
    BY <2>1
<1>6. Disk!Gaps(tab) = (CHOOSE g : IsIt(g, Prim))[Prim]
  BY DEF Disk!Gaps
<1>7. IsIt(CHOOSE g : IsIt(g, Prim), Prim)
  <2> HIDE DEF IsIt
  <2> QED
    BY <1>5
<1>8. 0 \in T
  <2> SUFFICES ASSUME NEW g, IsIt(g, Prim) PROVE g[0] \in GoodGaps(tab, 0)
    OBVIOUS
  <2>1. g[0] = first
    BY <1>1
  <2>2. first \in Seq(Gap) /\ Len(first) = 1 /\ first[1] = [a |-> Align, len |-> DiskSize - Align]
    BY <1>1 DEF Gap
  <2>3. GapsFree(tab, 0, first)
    BY <1>1, <2>2 DEF GapsFree, FreeOf
  <2>4. GapsApart(first)
    BY <2>2 DEF GapsApart
  <2>5. GapsAll(tab, 0, first)
    BY <1>1, <2>2 DEF GapsAll, Within
  <2> QED
    BY <2>1, <2>2, <2>3, <2>4, <2>5 DEF GoodGaps
<1>9. \A n \in T : n + 1 \in T
  <2> SUFFICES ASSUME NEW n \in T, n + 1 <= Prim, NEW g, IsIt(g, Prim)
               PROVE  g[n + 1] \in GoodGaps(tab, n + 1)
    OBVIOUS
  <2>1. n \in Nat /\ n <= Prim
    BY <1>1
  <2>2. g[n] \in GoodGaps(tab, n)
    BY <2>1
  <2>3. g[n + 1] = OneMore(g[n], n + 1)
    <3> HIDE DEF first, OneMore
    <3>1. n + 1 \in 0 .. Prim /\ n + 1 # 0 /\ (n + 1) - 1 = n
      BY <1>1, <2>1
    <3> QED
      BY <3>1
  <2>4. CASE Disk!Used(tab[n + 1])
    <3>1. n + 1 \in 1 .. Prim /\ (n + 1) - 1 = n
      BY <1>1, <2>1
    <3> QED
      BY <2>2, <2>3, <2>4, <3>1, CutGood
  <2>5. CASE ~ Disk!Used(tab[n + 1])
    <3>1. g[n + 1] = g[n]
      BY <2>3, <2>5
    <3>2. \A a, m : FreeOf(tab, n + 1, a, m) <=> FreeOf(tab, n, a, m)
      BY <2>1, <2>5 DEF FreeOf
    <3> QED
      BY <2>2, <3>1, <3>2 DEF GoodGaps, GapsFree, GapsAll
  <2> QED
    BY <2>4, <2>5
<1>10. T = Nat
  <2> HIDE DEF T
  <2>1. T \in SUBSET Nat
    BY DEF T
  <2> QED
    BY <1>8, <1>9, <2>1, NatSet
<1>11. Prim \in T
  BY <1>1, <1>10
<1> HIDE DEF IsIt
<1> QED
  BY <1>1, <1>6, <1>7, <1>11

(* The first megabyte boundary from a on. *)
LEMMA AlignedUp ==
  ASSUME Disk!ConstantsOK, NEW a \in Nat
  PROVE  /\ Disk!Aligned(a) \in Nat /\ a <= Disk!Aligned(a) /\ Disk!Aligned(a) % Align = 0
         /\ \A m \in Nat : m % Align = 0 /\ a <= m => Disk!Aligned(a) <= m
<1>1. Align \in Nat \ {0} /\ a + Align - 1 \in Nat
  BY DEF Disk!ConstantsOK
<1> DEFINE q == (a + Align - 1) \div Align
<1>2. q \in Nat /\ q * Align <= a + Align - 1 /\ a + Align - 1 < q * Align + Align
  BY <1>1
<1>3. Disk!Aligned(a) = q * Align
  BY DEF Disk!Aligned
<1> HIDE DEF q
<1>4. (q * Align) % Align = 0
  BY <1>1, <1>2
<1>5. q * Align \in Nat
  BY <1>1, <1>2
<1>6. ASSUME NEW m \in Nat, m % Align = 0, a <= m PROVE q * Align <= m
  <2> DEFINE k == m \div Align
  <2>1. k \in Nat /\ m = k * Align
    BY <1>1, <1>6
  <2> HIDE DEF k
  <2>2. k * Align > q * Align - Align
    BY <1>1, <1>2, <1>5, <1>6, <2>1
  <2>3. k >= q
    BY <1>1, <1>2, <2>1, <2>2
  <2> QED
    BY <1>1, <1>2, <2>1, <2>3
<1> QED
  BY <1>1, <1>2, <1>3, <1>4, <1>5, <1>6

(* The room of a gap from its first megabyte boundary on, and the gaps with enough. *)
Room(g) == g.a + g.len - Disk!Aligned(g.a)
Fits(tab, want) == {i \in 1 .. Len(Disk!Gaps(tab)) : Room(Disk!Gaps(tab)[i]) >= Align /\ Room(Disk!Gaps(tab)[i]) >= want}

LEMMA GapsAre ==
  ASSUME Disk!ConstantsOK, NEW tab \in Tabs
  PROVE  LET gaps == Disk!Gaps(tab)
         IN /\ gaps \in Seq(Gap) /\ DOMAIN gaps = 1 .. Len(gaps) /\ Len(gaps) \in Nat
            /\ \A i \in 1 .. Len(gaps) :
                 /\ gaps[i].a \in Nat /\ gaps[i].len \in Nat /\ Room(gaps[i]) \in Int
                 /\ Disk!Aligned(gaps[i].a) \in Nat /\ gaps[i].a <= Disk!Aligned(gaps[i].a)
                 /\ Disk!Aligned(gaps[i].a) % Align = 0
                 /\ Disk!Aligned(gaps[i].a) + Room(gaps[i]) = gaps[i].a + gaps[i].len
                 /\ Room(gaps[i]) >= 1 =>
                      /\ Align <= gaps[i].a /\ gaps[i].a + gaps[i].len <= DiskSize
                      /\ FreeOf(tab, Prim, gaps[i].a, gaps[i].len)
            /\ \A a \in Nat, n \in Nat \ {0} : a % Align = 0 /\ Align <= a /\ a + n <= DiskSize /\ FreeOf(tab, Prim, a, n) =>
                 \E i \in 1 .. Len(gaps) : Room(gaps[i]) >= n
<1> DEFINE gaps == Disk!Gaps(tab)
<1>1. gaps \in Seq(Gap) /\ GapsFree(tab, Prim, gaps) /\ GapsAll(tab, Prim, gaps)
  BY GapsGood DEF GoodGaps
<1> HIDE DEF gaps
<1>2. DOMAIN gaps = 1 .. Len(gaps) /\ Len(gaps) \in Nat /\ \A i \in 1 .. Len(gaps) : gaps[i] \in Gap
  BY <1>1
<1>3. \A i \in 1 .. Len(gaps) : gaps[i].a \in Nat /\ gaps[i].len \in Nat
  BY <1>2 DEF Gap
<1>4. \A i \in 1 .. Len(gaps) :
        /\ Disk!Aligned(gaps[i].a) \in Nat /\ gaps[i].a <= Disk!Aligned(gaps[i].a) /\ Disk!Aligned(gaps[i].a) % Align = 0
        /\ \A m \in Nat : m % Align = 0 /\ gaps[i].a <= m => Disk!Aligned(gaps[i].a) <= m
  BY <1>3, AlignedUp
<1>5. \A i \in 1 .. Len(gaps) :
        Room(gaps[i]) \in Int /\ Disk!Aligned(gaps[i].a) + Room(gaps[i]) = gaps[i].a + gaps[i].len
  BY <1>3, <1>4 DEF Room
<1>6. \A i \in 1 .. Len(gaps) : Room(gaps[i]) >= 1 =>
        /\ Align <= gaps[i].a /\ gaps[i].a + gaps[i].len <= DiskSize
        /\ FreeOf(tab, Prim, gaps[i].a, gaps[i].len)
  <2> SUFFICES ASSUME NEW i \in 1 .. Len(gaps), Room(gaps[i]) >= 1
               PROVE  /\ Align <= gaps[i].a /\ gaps[i].a + gaps[i].len <= DiskSize
                      /\ FreeOf(tab, Prim, gaps[i].a, gaps[i].len)
    OBVIOUS
  <2>1. gaps[i].len > 0
    BY <1>3, <1>4, <1>5, SMTT(30)
  <2> QED
    BY <1>1, <2>1 DEF GapsFree
<1>7. ASSUME NEW a \in Nat, NEW n \in Nat \ {0}, a % Align = 0, Align <= a, a + n <= DiskSize, FreeOf(tab, Prim, a, n)
      PROVE  \E i \in 1 .. Len(gaps) : Room(gaps[i]) >= n
  <2>1. PICK i \in 1 .. Len(gaps) : Within(gaps[i], a, n)
    BY <1>1, <1>7 DEF GapsAll
  <2>2. Disk!Aligned(gaps[i].a) <= a /\ a + n <= gaps[i].a + gaps[i].len
    BY <1>4, <1>7, <2>1 DEF Within
  <2>3. Room(gaps[i]) >= n
    BY <1>3, <1>4, <1>5, <2>2
  <2> QED
    BY <2>3
<1>8. /\ gaps \in Seq(Gap) /\ DOMAIN gaps = 1 .. Len(gaps) /\ Len(gaps) \in Nat
      /\ \A i \in 1 .. Len(gaps) :
           /\ gaps[i].a \in Nat /\ gaps[i].len \in Nat /\ Room(gaps[i]) \in Int
           /\ Disk!Aligned(gaps[i].a) \in Nat /\ gaps[i].a <= Disk!Aligned(gaps[i].a)
           /\ Disk!Aligned(gaps[i].a) % Align = 0
           /\ Disk!Aligned(gaps[i].a) + Room(gaps[i]) = gaps[i].a + gaps[i].len
           /\ Room(gaps[i]) >= 1 =>
                /\ Align <= gaps[i].a /\ gaps[i].a + gaps[i].len <= DiskSize
                /\ FreeOf(tab, Prim, gaps[i].a, gaps[i].len)
  BY <1>1, <1>2, <1>3, <1>4, <1>5, <1>6, Zenon
<1> QED
  BY <1>7, <1>8, Zenon DEF gaps

(* What is picked, and when nothing is. *)
LEMMA PickIs ==
  ASSUME Disk!ConstantsOK, NEW tab \in Tabs, NEW want \in Nat
  PROVE  LET gaps == Disk!Gaps(tab)
         IN /\ Fits(tab, want) = {} => Disk!Pick(tab, want) = Disk!Empty
            /\ Fits(tab, want) # {} =>
                 \E i \in Fits(tab, want) :
                   /\ Disk!Pick(tab, want) = [start |-> Disk!Aligned(gaps[i].a),
                                         n |-> IF want > 0 THEN want ELSE Room(gaps[i]),
                                         type |-> "data", active |-> FALSE]
                   /\ want = 0 => \A j \in Fits(tab, want) : Room(gaps[j]) <= Room(gaps[i])
<1> DEFINE gaps == Disk!Gaps(tab)
           fits == Fits(tab, want)
           best == IF want > 0 THEN fits ELSE {i \in fits : \A j \in fits : Room(gaps[j]) <= Room(gaps[i])}
<1>1. /\ DOMAIN gaps = 1 .. Len(gaps) /\ Len(gaps) \in Nat
      /\ \A i \in 1 .. Len(gaps) :
           /\ gaps[i].a \in Nat /\ gaps[i].len \in Nat /\ Room(gaps[i]) \in Int /\ Disk!Aligned(gaps[i].a) \in Nat
           /\ Disk!Aligned(gaps[i].a) + Room(gaps[i]) = gaps[i].a + gaps[i].len
           /\ Room(gaps[i]) >= 1 => gaps[i].a + gaps[i].len <= DiskSize
  BY GapsAre
<1>2. Disk!Pick(tab, want) = IF fits = {} THEN Disk!Empty
                        ELSE [start |-> Disk!Aligned(gaps[Disk!Min(best)].a),
                              n |-> IF want > 0 THEN want ELSE Room(gaps[Disk!Min(best)]),
                              type |-> "data", active |-> FALSE]
  BY <1>1 DEF Disk!Pick, Fits, Room
<1>3. DiskSize \in Nat /\ Align \in Nat \ {0}
  BY DEF Disk!ConstantsOK
<1>4. fits \subseteq 1 .. Len(gaps) /\ \A i \in fits : Room(gaps[i]) >= 1 /\ Room(gaps[i]) \in Nat /\ Room(gaps[i]) <= DiskSize
  <2>1. \A i \in fits : i \in 1 .. Len(gaps) /\ Room(gaps[i]) >= Align
    BY DEF Fits
  <2> HIDE DEF fits, gaps
  <2> QED
    BY <1>1, <1>3, <2>1
<1> HIDE DEF fits, gaps
<1>5. ASSUME fits # {} PROVE best # {}
  <2>1. CASE want > 0
    BY <1>5, <2>1
  <2>2. CASE ~ (want > 0)
    <3> DEFINE T == {DiskSize - Room(gaps[i]) : i \in fits}
    <3>0. \A i \in fits : DiskSize - Room(gaps[i]) \in Nat
      BY <1>3, <1>4
    <3>1. T \in SUBSET Nat /\ T # {}
      BY <1>5, <3>0
    <3>2. PICK t \in T : \A y \in T : t <= y
      BY <3>1, Least
    <3>3. PICK i \in fits : t = DiskSize - Room(gaps[i])
      OBVIOUS
    <3>4. ASSUME NEW j \in fits PROVE Room(gaps[j]) <= Room(gaps[i])
      <4>1. DiskSize - Room(gaps[j]) \in T
        OBVIOUS
      <4>2. DiskSize - Room(gaps[i]) <= DiskSize - Room(gaps[j])
        BY <3>2, <3>3, <4>1
      <4>3. Room(gaps[i]) \in Nat /\ Room(gaps[j]) \in Nat
        BY <1>4
      <4> QED
        BY <1>3, <4>2, <4>3
    <3> QED
      BY <2>2, <3>4
  <2> QED
    BY <2>1, <2>2
<1>6. ASSUME fits # {} PROVE Disk!Min(best) \in best
  <2>1. best \in SUBSET Nat
    <3>1. best \subseteq fits
      OBVIOUS
    <3>2. 1 .. Len(gaps) \subseteq Nat
      BY <1>1
    <3> QED
      BY <1>4, <3>1, <3>2
  <2> QED
    BY <1>5, <1>6, <2>1, MinIsLeast
<1>7. \A i \in best : i \in fits /\ (want = 0 => \A j \in fits : Room(gaps[j]) <= Room(gaps[i]))
  OBVIOUS
<1> HIDE DEF best
<1> QED
  BY <1>2, <1>6, <1>7 DEF fits, gaps

LEMMA PickFits ==
  ASSUME Disk!ConstantsOK, NEW tab \in Tabs, NEW want \in Nat
  PROVE  LET e == Disk!Pick(tab, want)
         IN /\ Disk!Used(e) <=> Fits(tab, want) # {}
            /\ Disk!Used(e) =>
                 /\ e \in Rows /\ ~ e.active /\ e.n > 0 /\ Align <= e.start /\ e.start + e.n <= DiskSize
                 /\ e.start % Align = 0 /\ FreeOf(tab, Prim, e.start, e.n)
                 /\ want = 0 => /\ \A j \in Fits(tab, want) : Room(Disk!Gaps(tab)[j]) <= e.n
                                /\ e.n >= Align
<1> DEFINE e == Disk!Pick(tab, want)
           gaps == Disk!Gaps(tab)
<1>1. CASE Fits(tab, want) = {}
  <2>1. e = Disk!Empty
    BY <1>1, PickIs
  <2> QED
    BY <1>1, <2>1 DEF Disk!Empty, Disk!Used
<1>2. CASE Fits(tab, want) # {}
  <2>1. PICK i \in Fits(tab, want) :
          /\ e = [start |-> Disk!Aligned(gaps[i].a), n |-> IF want > 0 THEN want ELSE Room(gaps[i]),
                  type |-> "data", active |-> FALSE]
          /\ want = 0 => \A j \in Fits(tab, want) : Room(gaps[j]) <= Room(gaps[i])
    BY <1>2, PickIs
  <2>2. i \in 1 .. Len(gaps) /\ Room(gaps[i]) >= Align /\ Room(gaps[i]) >= want
    BY DEF Fits
  <2>3. /\ gaps[i].a \in Nat /\ gaps[i].len \in Nat /\ Room(gaps[i]) \in Int /\ Disk!Aligned(gaps[i].a) \in Nat
        /\ gaps[i].a <= Disk!Aligned(gaps[i].a) /\ Disk!Aligned(gaps[i].a) % Align = 0
        /\ Disk!Aligned(gaps[i].a) + Room(gaps[i]) = gaps[i].a + gaps[i].len
        /\ Room(gaps[i]) >= 1 =>
             /\ Align <= gaps[i].a /\ gaps[i].a + gaps[i].len <= DiskSize
             /\ FreeOf(tab, Prim, gaps[i].a, gaps[i].len)
    BY <2>2, GapsAre
  <2>4. Align \in Nat \ {0} /\ DiskSize \in Nat
    BY DEF Disk!ConstantsOK
  <2>5. /\ e.start = Disk!Aligned(gaps[i].a) /\ e.n = (IF want > 0 THEN want ELSE Room(gaps[i]))
        /\ e.type = "data" /\ ~ e.active
    BY <2>1
  <2>6. e.n \in Nat /\ e.n > 0 /\ e.n <= Room(gaps[i]) /\ Room(gaps[i]) >= 1
    BY <2>2, <2>3, <2>4, <2>5
  <2>7. e \in Rows
    BY <2>1, <2>3, <2>5, <2>6 DEF Rows
  <2>8. Disk!Used(e)
    BY <2>5, <2>6 DEF Disk!Used
  <2> HIDE DEF e, gaps
  <2>9. Align <= e.start /\ e.start + e.n <= DiskSize
    BY <2>3, <2>4, <2>5, <2>6
  <2>10. FreeOf(tab, Prim, e.start, e.n)
    <3> SUFFICES ASSUME NEW p \in 1 .. Prim, Disk!Used(tab[p]) PROVE Clear(e.start, e.n, tab[p])
      BY DEF FreeOf
    <3>1. tab[p].start \in Nat /\ tab[p].n \in Nat
      BY DEF Tabs, Rows
    <3>2. Clear(gaps[i].a, gaps[i].len, tab[p])
      BY <2>3, <2>6 DEF FreeOf
    <3> QED
      BY <2>3, <2>5, <2>6, <3>1, <3>2 DEF Clear, Before
  <2>11. want = 0 => (\A j \in Fits(tab, want) : Room(gaps[j]) <= e.n) /\ e.n >= Align
    BY <2>1, <2>2, <2>5
  <2> QED
    BY <1>2, <2>3, <2>5, <2>6, <2>7, <2>8, <2>9, <2>10, <2>11 DEF e, gaps
<1> QED
  BY <1>1, <1>2

(* Runs of units as sets, and as bounds. *)
LEMMA UnitsClear ==
  ASSUME NEW e \in Rows, Disk!Used(e), NEW a \in Nat, NEW n \in Nat \ {0}
  PROVE  Disk!Units(e) \cap (a .. a + n - 1) = {} <=> Clear(a, n, e)
<1>1. e.start \in Nat /\ e.n \in Nat \ {0}
  BY DEF Rows, Disk!Used
<1>2. ASSUME Clear(a, n, e) PROVE Disk!Units(e) \cap (a .. a + n - 1) = {}
  BY <1>1, <1>2 DEF Clear, Before, Disk!Units
<1>3. ASSUME ~ Clear(a, n, e) PROVE Disk!Units(e) \cap (a .. a + n - 1) # {}
  <2> DEFINE u == IF a < e.start THEN e.start ELSE a
  <2>1. u \in Disk!Units(e) /\ u \in a .. a + n - 1
    BY <1>1, <1>3 DEF Clear, Before, Disk!Units
  <2> QED
    BY <2>1
<1> QED
  BY <1>2, <1>3

(* `part create` finds room exactly when there is some, in every table. *)
LEMMA AllGapsFound ==
  ASSUME Disk!ConstantsOK, table.tab \in Tabs
  PROVE  Disk!FindsGap
<1> SUFFICES ASSUME NEW want \in Wants
             PROVE  LET tab == table.tab
                        e == Disk!Pick(tab, want)
                    IN /\ Disk!Used(e) <=> Disk!Places(tab, Disk!Max({want, Align})) # {}
                       /\ Disk!Used(e) => e.start \in Disk!Places(tab, e.n)
                       /\ Disk!Used(e) /\ want = 0 => Disk!Places(tab, e.n + 1) = {}
  BY DEF Disk!FindsGap
<1> DEFINE tab == table.tab
           e == Disk!Pick(tab, want)
           M == IF want >= Align THEN want ELSE Align
           gaps == Disk!Gaps(tab)
<1>1. want \in Nat /\ Align \in Nat \ {0} /\ DiskSize \in Nat /\ tab \in Tabs
  BY DEF Disk!ConstantsOK
<1>2. Disk!Max({want, Align}) = M /\ M \in Nat \ {0} /\ M >= want /\ M >= Align
  <2>1. M \in {want, Align} /\ \A y \in {want, Align} : M >= y
    BY <1>1
  <2>2. \A m \in {want, Align} : (\A y \in {want, Align} : m >= y) => m = M
    BY <1>1, <2>1
  <2>3. Disk!Max({want, Align}) = M
    <3> HIDE DEF M
    <3>1. \E m \in {want, Align} : \A y \in {want, Align} : m >= y
      BY <2>1
    <3>2. Disk!Max({want, Align}) \in {want, Align} /\ \A y \in {want, Align} : Disk!Max({want, Align}) >= y
      BY <3>1, Zenon DEF Disk!Max
    <3> QED
      BY <2>2, <3>2
  <2> QED
    BY <1>1, <2>3
<1>3. \A a \in Nat, n \in Nat \ {0} :
        a \in Disk!Places(tab, n) <=> Align <= a /\ a % Align = 0 /\ a + n <= DiskSize /\ FreeOf(tab, Prim, a, n)
  <2> TAKE a \in Nat, n \in Nat \ {0}
  <2>1. a \in Disk!Places(tab, n) <=> Align <= a /\ a <= DiskSize - 1 /\ a % Align = 0 /\ Disk!FreeRun(tab, a, n)
    BY <1>1 DEF Disk!Places
  <2>2. \A p \in 1 .. Prim : Disk!Used(tab[p]) => (Disk!Units(tab[p]) \cap (a .. a + n - 1) = {} <=> Clear(a, n, tab[p]))
    BY <1>1, UnitsClear DEF Tabs
  <2>3. Disk!FreeRun(tab, a, n) <=> a + n <= DiskSize /\ FreeOf(tab, Prim, a, n)
    BY <2>2 DEF Disk!FreeRun, FreeOf
  <2>4. a + n <= DiskSize => a <= DiskSize - 1
    BY <1>1
  <2> QED
    BY <2>1, <2>3, <2>4
<1>4. \A a, n : a \in Disk!Places(tab, n) => a \in Nat
  BY <1>1 DEF Disk!Places
<1>5. /\ Disk!Used(e) <=> Fits(tab, want) # {}
      /\ Disk!Used(e) =>
           /\ e \in Rows /\ e.n > 0 /\ Align <= e.start /\ e.start + e.n <= DiskSize
           /\ e.start % Align = 0 /\ FreeOf(tab, Prim, e.start, e.n)
           /\ want = 0 => (\A j \in Fits(tab, want) : Room(gaps[j]) <= e.n) /\ e.n >= Align
  BY <1>1, PickFits
<1> HIDE DEF e, M, tab
<1>6. \A n \in Nat \ {0} : n >= Align /\ n >= want /\ Disk!Places(tab, n) # {} =>
        \E i \in Fits(tab, want) : Room(gaps[i]) >= n
  <2> SUFFICES ASSUME NEW n \in Nat \ {0}, n >= Align, n >= want, NEW a \in Disk!Places(tab, n)
               PROVE  \E i \in Fits(tab, want) : Room(gaps[i]) >= n
    OBVIOUS
  <2>1. a \in Nat /\ Align <= a /\ a % Align = 0 /\ a + n <= DiskSize /\ FreeOf(tab, Prim, a, n)
    BY <1>3, <1>4
  <2>2. PICK i \in 1 .. Len(gaps) : Room(gaps[i]) >= n
    BY <1>1, <2>1, GapsAre
  <2>3. Room(gaps[i]) \in Int
    BY <1>1, GapsAre
  <2>4. Room(gaps[i]) >= Align /\ Room(gaps[i]) >= want
    BY <1>1, <2>2, <2>3
  <2> QED
    BY <2>2, <2>4 DEF Fits
<1>7. Disk!Used(e) => e.start \in Disk!Places(tab, e.n)
  <2> HAVE Disk!Used(e)
  <2>1. e.start \in Nat /\ e.n \in Nat \ {0}
    BY <1>5 DEF Rows
  <2> QED
    BY <1>3, <1>5, <2>1
<1>8. Disk!Used(e) => Disk!Places(tab, M) # {}
  <2> HAVE Disk!Used(e)
  <2>1. PICK i \in Fits(tab, want) : TRUE
    BY <1>5
  <2>2. i \in 1 .. Len(gaps) /\ Room(gaps[i]) >= Align /\ Room(gaps[i]) >= want
    BY DEF Fits
  <2>3. /\ gaps[i].a \in Nat /\ gaps[i].len \in Nat /\ Room(gaps[i]) \in Int /\ Disk!Aligned(gaps[i].a) \in Nat
        /\ gaps[i].a <= Disk!Aligned(gaps[i].a) /\ Disk!Aligned(gaps[i].a) % Align = 0
        /\ Disk!Aligned(gaps[i].a) + Room(gaps[i]) = gaps[i].a + gaps[i].len
        /\ Room(gaps[i]) >= 1 =>
             /\ Align <= gaps[i].a /\ gaps[i].a + gaps[i].len <= DiskSize
             /\ FreeOf(tab, Prim, gaps[i].a, gaps[i].len)
    BY <1>1, <2>2, GapsAre
  <2> DEFINE a == Disk!Aligned(gaps[i].a)
  <2>4. M <= Room(gaps[i]) /\ Room(gaps[i]) >= 1
    BY <1>1, <2>2, <2>3 DEF M
  <2>5. FreeOf(tab, Prim, a, M)
    <3> SUFFICES ASSUME NEW p \in 1 .. Prim, Disk!Used(tab[p]) PROVE Clear(a, M, tab[p])
      BY DEF FreeOf
    <3>1. tab[p].start \in Nat /\ tab[p].n \in Nat
      BY <1>1 DEF Tabs, Rows
    <3>2. Clear(gaps[i].a, gaps[i].len, tab[p])
      BY <2>3, <2>4 DEF FreeOf
    <3> QED
      BY <1>2, <2>3, <2>4, <3>1, <3>2 DEF Clear, Before
  <2>6. a \in Nat /\ Align <= a /\ a % Align = 0 /\ a + M <= DiskSize
    BY <1>1, <1>2, <2>3, <2>4
  <2>7. a \in Disk!Places(tab, M)
    BY <1>2, <1>3, <2>5, <2>6
  <2> QED
    BY <2>7
<1>9. Disk!Places(tab, M) # {} => Disk!Used(e)
  BY <1>2, <1>5, <1>6
<1>10. Disk!Used(e) /\ want = 0 => Disk!Places(tab, e.n + 1) = {}
  <2> SUFFICES ASSUME Disk!Used(e), want = 0, Disk!Places(tab, e.n + 1) # {} PROVE FALSE
    OBVIOUS
  <2>1. e.n \in Nat /\ e.n >= Align
    BY <1>5 DEF Rows
  <2>2. e.n + 1 \in Nat \ {0} /\ e.n + 1 >= Align /\ e.n + 1 >= want
    BY <1>1, <2>1
  <2>3. PICK i \in Fits(tab, want) : Room(gaps[i]) >= e.n + 1
    BY <1>6, <2>2
  <2>4. Room(gaps[i]) <= e.n
    BY <1>5
  <2>5. Room(gaps[i]) \in Int
    BY <1>1, GapsAre DEF Fits
  <2> QED
    BY <2>1, <2>3, <2>4, <2>5
<1> QED
  BY <1>2, <1>7, <1>8, <1>9, <1>10 DEF e, tab, M

(* The invariant.  Good tables are those whose entries are apart. *)

GoodTabs == {tab \in Tabs : Apart(tab) /\ \A p \in 1 .. Prim : tab[p].start + tab[p].n <= DiskSize}
Vols == {v \in [at : Nat, n : Nat, whole : BOOLEAN] : v.at + v.n <= DiskSize}
Disks == [kind : {"blank", "mbr", "gpt"}, ours : BOOLEAN, tab : GoodTabs, vols : SUBSET Vols]
Regions == [id : Disk!Ids, base : Nat, n : Nat]
Questions == [op : {"format", "delete", "merge"}, t : Regions, u : Regions]

(* A region is what its entry was when the question was asked; the shell edits no
   table while it waits. *)
Entry(r) == r.id \in 1 .. Prim /\ Disk!Used(table.tab[r.id]) /\ r.base = table.tab[r.id].start /\ r.n = table.tab[r.id].n
Clean(r) == r.base + r.n <= DiskSize /\ ~ Disk!UnderUs(r.base, r.n) /\ (boot => r.base # 0)
TableAsked ==
  ask = Disk!NoAsk \/ /\ ask \in Questions /\ Clean(ask.t) /\ Clean(ask.u)
                      /\ ask.op # "format" => Entry(ask.t) /\ Entry(ask.u) /\ Disk!Scheme = "mbr"
                      /\ ask.op = "merge" => ask.t.id # ask.u.id /\ ask.t.base + ask.t.n = ask.u.base

Inv == boot \in BOOLEAN /\ table \in Disks /\ TableAsked /\ \A m \in mounts : m.id \in Disk!Ids

(* What is taken of the boot disk's table: it is one that fdisk or part made. *)
TableOK == BootTable \in GoodTabs

(* The entry that the system runs from. *)
HomeOf(p) ==
  /\ p \in 1 .. Prim /\ Disk!Used(BootTable[p])
  /\ BootTable[p].start <= BootBase /\ BootBase + InstallSize <= BootTable[p].start + BootTable[p].n
ASSUME BootTableOK == TableOK /\ (BootBase # 0 => \E p \in 1 .. Prim : HomeOf(p))

Home(p) ==
  boot => /\ table.kind = "mbr" /\ table.ours /\ Disk!Used(table.tab[p])
          /\ table.tab[p].start = BootTable[p].start /\ table.tab[p].n = BootTable[p].n

LEMMA EmptyGood ==
  ASSUME Disk!ConstantsOK
  PROVE  Disk!Empty \in Rows /\ ~ Disk!Used(Disk!Empty) /\ Disk!NoTable \in GoodTabs
<1>1. Disk!Empty \in Rows /\ ~ Disk!Used(Disk!Empty) /\ Disk!Empty.start = 0 /\ Disk!Empty.n = 0
  BY DEF Disk!Empty, Rows, Disk!Used
<1>2. Disk!NoTable \in Tabs /\ \A p \in 1 .. Prim : Disk!NoTable[p] = Disk!Empty
  BY <1>1 DEF Disk!NoTable, Tabs
<1>3. DiskSize \in Nat
  BY DEF Disk!ConstantsOK
<1> QED
  BY <1>1, <1>2, <1>3 DEF GoodTabs, Apart

(* The tables that a Store may start from. *)
LEMMA LoadGood ==
  ASSUME Disk!ConstantsOK, table \in Disks
  PROVE  /\ Disk!Load \in Disks /\ Disk!Load.kind = "mbr" /\ Disk!Load.vols = table.vols
         /\ Disk!Scheme = "mbr" => Disk!Load = table /\ table.kind = "mbr"
<1>1. Disk!NoTable \in GoodTabs
  BY EmptyGood
<1>2. Disk!Scheme = "mbr" => table.kind = "mbr"
  BY DEF Disk!Scheme
<1>3. CASE Disk!Scheme = "mbr"
  BY <1>2, <1>3 DEF Disk!Load
<1>4. CASE Disk!Scheme # "mbr"
  <2>1. Disk!Load = [table EXCEPT !.kind = "mbr", !.ours = FALSE, !.tab = Disk!NoTable]
    BY <1>4 DEF Disk!Load
  <2> QED
    BY <1>1, <1>4, <2>1 DEF Disks
<1> QED
  BY <1>3, <1>4

LEMMA StoreGood ==
  ASSUME Disk!ConstantsOK, table \in Disks, NEW tab \in GoodTabs, Disk!Store(tab)
  PROVE  /\ table' \in Disks /\ table'.tab = tab /\ table'.kind = "mbr"
         /\ Disk!Scheme = "mbr" => table'.ours = table.ours
<1> DEFINE d == Disk!Load
<1>1. d \in Disks /\ d.kind = "mbr" /\ (Disk!Scheme = "mbr" => d = table)
  BY LoadGood
<1>2. table' = [d EXCEPT !.tab = tab, !.vols = {v \in @ : v.at # 0}]
  BY DEF Disk!Store
<1> HIDE DEF d
<1> QED
  BY <1>1, <1>2 DEF Disks

(* Each edit of a good table leaves a good one. *)
LEMMA CreateGood ==
  ASSUME Disk!ConstantsOK, NEW tab \in GoodTabs, NEW id \in 1 .. Prim, NEW want \in Nat,
         ~ Disk!Used(tab[id]), Disk!Used(Disk!Pick(tab, want))
  PROVE  [tab EXCEPT ![id] = Disk!Pick(tab, want)] \in GoodTabs
<1> DEFINE e == Disk!Pick(tab, want)
           new == [tab EXCEPT ![id] = e]
<1>1. tab \in Tabs /\ Apart(tab) /\ \A p \in 1 .. Prim : tab[p].start + tab[p].n <= DiskSize
  BY DEF GoodTabs
<1>2. /\ e \in Rows /\ ~ e.active /\ Align <= e.start /\ e.start + e.n <= DiskSize
      /\ FreeOf(tab, Prim, e.start, e.n)
  BY <1>1, PickFits
<1>3. Align \in Nat \ {0} /\ DiskSize \in Nat
  BY DEF Disk!ConstantsOK
<1> HIDE DEF e
<1>4. new \in Tabs /\ new[id] = e /\ \A p \in 1 .. Prim : p # id => new[p] = tab[p]
  BY <1>1, <1>2 DEF Tabs
<1> HIDE DEF new
<1>5. \A p \in 1 .. Prim : new[p].start + new[p].n <= DiskSize /\ (Disk!Used(new[p]) => 1 <= new[p].start)
  BY <1>1, <1>2, <1>3, <1>4 DEF Apart, Rows
<1>6. \A p, q \in 1 .. Prim : Disk!Used(new[p]) /\ Disk!Used(new[q]) /\ p # q => Clear(new[p].start, new[p].n, new[q])
  <2>1. \A p \in 1 .. Prim : p # id /\ Disk!Used(new[p]) => Clear(e.start, e.n, new[p])
    BY <1>2, <1>4 DEF FreeOf
  <2>2. \A p \in 1 .. Prim : p # id /\ Disk!Used(new[p]) => Clear(new[p].start, new[p].n, e)
    BY <2>1 DEF Clear
  <2> QED
    BY <1>1, <1>4, <2>1, <2>2 DEF Apart
<1>7. \A p, q \in 1 .. Prim : Disk!Used(new[p]) /\ Disk!Used(new[q]) /\ new[p].active /\ new[q].active => p = q
  BY <1>1, <1>2, <1>4 DEF Apart
<1> QED
  BY <1>4, <1>5, <1>6, <1>7 DEF GoodTabs, Apart, new, e

Switched(tab, id, on) ==
  [[p \in 1 .. Prim |-> [tab[p] EXCEPT !.active = IF on THEN FALSE ELSE @]] EXCEPT ![id].active = on]

LEMMA ActiveGood ==
  ASSUME NEW tab \in GoodTabs, NEW id \in 1 .. Prim, NEW on \in BOOLEAN
  PROVE  /\ Switched(tab, id, on) \in GoodTabs
         /\ \A p \in 1 .. Prim : /\ Switched(tab, id, on)[p].start = tab[p].start
                                 /\ Switched(tab, id, on)[p].n = tab[p].n
                                 /\ Disk!Used(Switched(tab, id, on)[p]) <=> Disk!Used(tab[p])
<1> DEFINE off == [p \in 1 .. Prim |-> [tab[p] EXCEPT !.active = IF on THEN FALSE ELSE @]]
           new == [off EXCEPT ![id].active = on]
<1>0. Switched(tab, id, on) = new
  BY DEF Switched
<1>1. tab \in Tabs /\ Apart(tab) /\ \A p \in 1 .. Prim : tab[p].start + tab[p].n <= DiskSize
  BY DEF GoodTabs
<1>2. \A p \in 1 .. Prim : /\ off[p] \in Rows /\ off[p].start = tab[p].start /\ off[p].n = tab[p].n
                           /\ off[p].type = tab[p].type
                           /\ off[p].active = (IF on THEN FALSE ELSE tab[p].active)
  BY <1>1 DEF Tabs, Rows
<1>3. off \in [1 .. Prim -> Rows]
  BY <1>2
<1> HIDE DEF off
<1>4. /\ new[id] = [off[id] EXCEPT !.active = on]
      /\ \A p \in 1 .. Prim : p # id => new[p] = off[p]
      /\ new \in Tabs
  BY <1>3 DEF Rows, Tabs
<1> HIDE DEF new
<1>5. \A p \in 1 .. Prim : /\ new[p].start = tab[p].start /\ new[p].n = tab[p].n /\ new[p].type = tab[p].type
                           /\ new[p].active = IF p = id THEN on ELSE IF on THEN FALSE ELSE tab[p].active
  <2>1. off[id] \in Rows
    BY <1>2
  <2>2. /\ new[id].start = off[id].start /\ new[id].n = off[id].n /\ new[id].type = off[id].type
        /\ new[id].active = on
    <3> DEFINE e == off[id]
    <3>1. new[id] = [e EXCEPT !.active = on] /\ e \in Rows
      BY <1>4, <2>1
    <3> HIDE DEF e
    <3>2. new[id].start = e.start /\ new[id].n = e.n /\ new[id].type = e.type /\ new[id].active = on
      BY <3>1 DEF Rows
    <3> QED
      BY <3>2 DEF e
  <2>3. ASSUME NEW p \in 1 .. Prim, p # id
        PROVE  new[p].start = tab[p].start /\ new[p].n = tab[p].n /\ new[p].type = tab[p].type
               /\ new[p].active = IF on THEN FALSE ELSE tab[p].active
    <3>1. new[p] = off[p]
      BY <1>4, <2>3
    <3> QED
      BY <1>2, <3>1
  <2>4. new[id].start = tab[id].start /\ new[id].n = tab[id].n /\ new[id].type = tab[id].type
    BY <1>2, <2>2
  <2> QED
    BY <2>2, <2>3, <2>4
<1>6. \A p \in 1 .. Prim : Disk!Used(new[p]) <=> Disk!Used(tab[p])
  BY <1>5 DEF Disk!Used
<1>7. Apart(new)
  <2>1. /\ \A p \in 1 .. Prim : Disk!Used(new[p]) => 1 <= new[p].start /\ new[p].start + new[p].n <= DiskSize
        /\ \A p, q \in 1 .. Prim : Disk!Used(new[p]) /\ Disk!Used(new[q]) /\ p # q => Clear(new[p].start, new[p].n, new[q])
    BY <1>1, <1>5, <1>6 DEF Apart, Clear
  <2>2. \A p, q \in 1 .. Prim : Disk!Used(new[p]) /\ Disk!Used(new[q]) /\ new[p].active /\ new[q].active => p = q
    BY <1>1, <1>5, <1>6 DEF Apart
  <2> QED
    BY <2>1, <2>2 DEF Apart
<1>8. \A p \in 1 .. Prim : new[p].start + new[p].n <= DiskSize
  BY <1>1, <1>5
<1> QED
  BY <1>0, <1>4, <1>5, <1>6, <1>7, <1>8 DEF GoodTabs

LEMMA DeleteGood ==
  ASSUME Disk!ConstantsOK, NEW tab \in GoodTabs, NEW id \in 1 .. Prim
  PROVE  [tab EXCEPT ![id] = Disk!Empty] \in GoodTabs
<1> DEFINE new == [tab EXCEPT ![id] = Disk!Empty]
<1>1. tab \in Tabs /\ Apart(tab) /\ \A p \in 1 .. Prim : tab[p].start + tab[p].n <= DiskSize
  BY DEF GoodTabs
<1>2. Disk!Empty \in Rows /\ ~ Disk!Used(Disk!Empty) /\ Disk!Empty.start + Disk!Empty.n <= DiskSize
  BY EmptyGood DEF Disk!Empty, Disk!ConstantsOK
<1>3. new \in Tabs /\ new[id] = Disk!Empty /\ \A p \in 1 .. Prim : p # id => new[p] = tab[p]
  BY <1>1, <1>2 DEF Tabs
<1> HIDE DEF new
<1> QED
  BY <1>1, <1>2, <1>3 DEF GoodTabs, Apart, new

LEMMA MergeGood ==
  ASSUME Disk!ConstantsOK, NEW tab \in GoodTabs, NEW i \in 1 .. Prim, NEW j \in 1 .. Prim, i # j,
         Disk!Used(tab[i]), Disk!Used(tab[j]), tab[i].start + tab[i].n = tab[j].start
  PROVE  [tab EXCEPT ![i].n = tab[i].n + tab[j].n, ![j] = Disk!Empty] \in GoodTabs
<1> DEFINE new == [tab EXCEPT ![i].n = tab[i].n + tab[j].n, ![j] = Disk!Empty]
           e == [tab[i] EXCEPT !.n = tab[i].n + tab[j].n]
<1>1. tab \in Tabs /\ Apart(tab) /\ \A p \in 1 .. Prim : tab[p].start + tab[p].n <= DiskSize
  BY DEF GoodTabs
<1>2. Disk!Empty \in Rows /\ ~ Disk!Used(Disk!Empty) /\ Disk!Empty.start + Disk!Empty.n <= DiskSize
  BY EmptyGood DEF Disk!Empty, Disk!ConstantsOK
<1>3. \A p \in 1 .. Prim : tab[p] \in Rows /\ tab[p].start \in Nat /\ tab[p].n \in Nat
  BY <1>1 DEF Tabs, Rows
<1>4. /\ e \in Rows /\ e.start = tab[i].start /\ e.n = tab[i].n + tab[j].n
      /\ e.type = tab[i].type /\ e.active = tab[i].active
  BY <1>3 DEF Rows
<1>5. new[i] = e /\ new[j] = Disk!Empty /\ (\A p \in 1 .. Prim : p # i /\ p # j => new[p] = tab[p])
  BY <1>1 DEF Tabs
<1>6. new \in Tabs
  BY <1>1, <1>2, <1>4 DEF Tabs
<1> HIDE DEF new, e
<1>7. \A p \in 1 .. Prim : new[p].start + new[p].n <= DiskSize /\ (Disk!Used(new[p]) => 1 <= new[p].start)
  BY <1>1, <1>2, <1>3, <1>4, <1>5 DEF Apart
<1>8. \A p \in 1 .. Prim : p # i /\ Disk!Used(new[p]) => p # j /\ new[p] = tab[p] /\ Clear(e.start, e.n, tab[p])
  <2> SUFFICES ASSUME NEW p \in 1 .. Prim, p # i, Disk!Used(new[p])
               PROVE  p # j /\ new[p] = tab[p] /\ Clear(e.start, e.n, tab[p])
    OBVIOUS
  <2>1. p # j /\ new[p] = tab[p]
    BY <1>2, <1>5
  <2>2. Disk!Used(tab[p]) /\ tab[p].n # 0
    BY <2>1 DEF Disk!Used
  <2>3. Clear(tab[i].start, tab[i].n, tab[p]) /\ Clear(tab[j].start, tab[j].n, tab[p])
    BY <1>1, <2>1, <2>2 DEF Apart
  <2> QED
    BY <1>3, <1>4, <2>1, <2>2, <2>3 DEF Clear, Before
<1>9. \A p, q \in 1 .. Prim : Disk!Used(new[p]) /\ Disk!Used(new[q]) /\ p # q => Clear(new[p].start, new[p].n, new[q])
  <2>1. \A p \in 1 .. Prim : p # i /\ Disk!Used(new[p]) => Clear(new[p].start, new[p].n, e)
    BY <1>8 DEF Clear
  <2>2. \A p, q \in 1 .. Prim : p # i /\ q # i /\ p # q /\ Disk!Used(new[p]) /\ Disk!Used(new[q]) =>
          Clear(new[p].start, new[p].n, new[q])
    BY <1>1, <1>8 DEF Apart
  <2> QED
    BY <1>5, <1>8, <2>1, <2>2
<1>10. \A p \in 1 .. Prim : Disk!Used(new[p]) /\ new[p].active => Disk!Used(tab[p]) /\ tab[p].active
  BY <1>4, <1>5, <1>8
<1>11. \A p, q \in 1 .. Prim : Disk!Used(new[p]) /\ Disk!Used(new[q]) /\ new[p].active /\ new[q].active => p = q
  BY <1>1, <1>10 DEF Apart
<1> QED
  BY <1>6, <1>7, <1>9, <1>11 DEF GoodTabs, Apart, new

(* The steps. *)

(* What part_resolve() lets through, with the rule that spares the system. *)
LEMMA SafeRegion ==
  ASSUME Disk!ConstantsOK, table \in Disks, NEW id \in Disk!Ids, Disk!ResolvesSafe(id)
  PROVE  /\ Disk!Region(id) \in Regions /\ Clean(Disk!Region(id)) /\ Disk!Region(id).id = id
         /\ id # 0 => Entry(Disk!Region(id))
<1>1. /\ DiskSize \in Nat \ {0} /\ InstallSize \in Nat \ {0} /\ BootBase \in Nat /\ BootBase + InstallSize <= DiskSize
      /\ Prim \in Nat
  BY DEF Disk!ConstantsOK
<1>2. Disk!Exists(id) /\ Disk!Region(id).n <= DiskSize - Disk!Region(id).base /\ ~ Disk!UnderUs(Disk!Region(id).base, Disk!Region(id).n)
  BY DEF Disk!ResolvesSafe, Disk!Resolves
<1>3. table.tab \in Tabs /\ Apart(table.tab)
  BY DEF Disks, GoodTabs
<1>4. CASE id = 0
  <2>1. Disk!Region(id) = [id |-> 0, base |-> 0, n |-> DiskSize]
    BY <1>4 DEF Disk!Region
  <2>2. ~ boot
    BY <1>1, <1>2, <2>1 DEF Disk!UnderUs, Disk!Overlap
  <2> QED
    BY <1>1, <1>2, <1>4, <2>1, <2>2 DEF Regions, Clean, Disk!Ids
<1>5. CASE id # 0
  <2>1. id \in 1 .. Prim
    BY <1>1, <1>5 DEF Disk!Ids
  <2>2. Disk!Region(id) = [id |-> id, base |-> table.tab[id].start, n |-> table.tab[id].n]
    BY <1>5 DEF Disk!Region
  <2>3. Disk!Used(table.tab[id]) /\ table.tab[id].start \in Nat /\ table.tab[id].n \in Nat /\ 1 <= table.tab[id].start
    BY <1>2, <1>3, <1>5, <2>1 DEF Disk!Exists, Tabs, Rows, Apart
  <2> QED
    BY <1>1, <1>2, <2>1, <2>2, <2>3 DEF Regions, Clean, Entry
<1> QED
  BY <1>4, <1>5

LEMMA FormatGood ==
  ASSUME Disk!ConstantsOK, table \in Disks, NEW base \in Nat, NEW n \in Nat, base + n <= DiskSize, NEW ok \in BOOLEAN,
         table' = Disk!Formatted(base, n, ok)
  PROVE  /\ table' \in Disks
         /\ base # 0 => table'.kind = table.kind /\ table'.ours = table.ours /\ table'.tab = table.tab
<1> DEFINE marred == {IF Disk!Overlap(v.at, v.n, base, n) THEN [v EXCEPT !.whole = FALSE] ELSE v :
                        v \in {w \in table.vols : w.at # base}}
           sector0 == IF base = 0 THEN [table EXCEPT !.kind = "blank", !.tab = Disk!NoTable, !.ours = FALSE] ELSE table
           laid == IF ok THEN marred \cup {Disk!Volume(base, n)} ELSE marred
<1>1. table.vols \subseteq Vols
  BY DEF Disks
<1>2. \A v \in Vols : [v EXCEPT !.whole = FALSE] \in Vols
  BY DEF Vols
<1>3. marred \subseteq Vols
  BY <1>1, <1>2
<1>4. Disk!Volume(base, n) \in Vols
  BY DEF Disk!Volume, Vols
<1>5. laid \subseteq Vols
  BY <1>3, <1>4
<1>6. Disk!NoTable \in GoodTabs
  BY EmptyGood
<1>7. sector0 \in Disks /\ (base # 0 => sector0 = table)
  BY <1>6 DEF Disks
<1>8. table' = [sector0 EXCEPT !.vols = laid]
  BY DEF Disk!Formatted
<1> HIDE DEF sector0, laid, marred
<1> QED
  BY <1>5, <1>7, <1>8 DEF Disks

(* A step keeps the sectors good, and the entry that the system runs from. *)
LEMMA InvStep ==
  ASSUME Disk!ConstantsOK, Inv, [Disk!Next]_(Disk!vars)
  PROVE  Inv'
<1> USE DEF Inv
<1>1. ASSUME UNCHANGED Disk!vars PROVE Inv'
  BY <1>1 DEF Disk!vars, TableAsked, Entry, Clean, Disk!UnderUs, Disk!Scheme
<1>2. ASSUME table' \in Disks, ask' = Disk!NoAsk, UNCHANGED <<boot, mounts>> PROVE Inv'
  BY <1>2 DEF TableAsked
<1>3. ASSUME UNCHANGED <<boot, table, ask>>, \A m \in mounts' : m.id \in Disk!Ids PROVE Inv'
  BY <1>3 DEF TableAsked, Entry, Clean, Disk!UnderUs, Disk!Scheme
<1>4. ASSUME NEW op \in {"format", "delete", "merge"}, NEW t \in Regions, NEW u \in Regions, Disk!Asks(op, t, u),
             Clean(t), Clean(u), op # "format" => Entry(t) /\ Entry(u) /\ Disk!Scheme = "mbr",
             op = "merge" => t.id # u.id /\ t.base + t.n = u.base
      PROVE  Inv'
  <2>1. ask' = [op |-> op, t |-> t, u |-> u] /\ UNCHANGED <<boot, table, mounts>>
    BY <1>4 DEF Disk!Asks
  <2>2. ask' \in Questions /\ ask'.op = op /\ ask'.t = t /\ ask'.u = u
    BY <2>1 DEF Questions
  <2>3. Clean(t)' /\ Clean(u)' /\ (op # "format" => Entry(t)' /\ Entry(u)' /\ Disk!Scheme' = "mbr")
    BY <1>4, <2>1 DEF Clean, Disk!UnderUs, Entry, Disk!Scheme
  <2>4. TableAsked'
    BY <1>4, <2>2, <2>3 DEF TableAsked, Clean, Entry
  <2> QED
    BY <2>1, <2>4
<1>5. table.tab \in GoodTabs
  BY DEF Disks
<1>6. ASSUME NEW id \in Disk!Ids, Disk!AskFormat(id) PROVE Inv'
  <2>1. Disk!Region(id) \in Regions /\ Clean(Disk!Region(id)) /\ Disk!Asks("format", Disk!Region(id), Disk!Region(id))
    BY <1>6, SafeRegion DEF Disk!AskFormat
  <2> QED
    BY <1>4, <2>1
<1>7. ASSUME NEW id \in Disk!Ids, Disk!AskDelete(id) PROVE Inv'
  <2>1. /\ Disk!Region(id) \in Regions /\ Clean(Disk!Region(id)) /\ Entry(Disk!Region(id)) /\ Disk!Scheme = "mbr"
        /\ Disk!Asks("delete", Disk!Region(id), Disk!Region(id))
    BY <1>7, SafeRegion DEF Disk!AskDelete, Disk!Editable
  <2> QED
    BY <1>4, <2>1
<1>8. ASSUME NEW i \in Disk!Ids, NEW j \in Disk!Ids, Disk!AskMerge(i, j) PROVE Inv'
  <2>1. /\ i # j /\ Disk!Scheme = "mbr"
        /\ Disk!Region(i) \in Regions /\ Clean(Disk!Region(i)) /\ Entry(Disk!Region(i)) /\ Disk!Region(i).id = i
        /\ Disk!Region(j) \in Regions /\ Clean(Disk!Region(j)) /\ Entry(Disk!Region(j)) /\ Disk!Region(j).id = j
    <3>1. i # j /\ Disk!ResolvesSafe(i) /\ Disk!Editable(i) /\ Disk!ResolvesSafe(j) /\ Disk!Editable(j)
      BY <1>8 DEF Disk!AskMerge
    <3>2. i # 0 /\ j # 0 /\ Disk!Scheme = "mbr"
      BY <3>1 DEF Disk!Editable
    <3> QED
      BY <3>1, <3>2, SafeRegion
  <2> DEFINE lo == IF Disk!Region(i).base < Disk!Region(j).base THEN Disk!Region(i) ELSE Disk!Region(j)
             hi == IF Disk!Region(i).base < Disk!Region(j).base THEN Disk!Region(j) ELSE Disk!Region(i)
  <2>2. Disk!MayMerge(lo, hi) /\ Disk!Asks("merge", lo, hi)
    BY <1>8 DEF Disk!AskMerge
  <2>3. /\ lo \in Regions /\ hi \in Regions /\ Clean(lo) /\ Clean(hi) /\ Entry(lo) /\ Entry(hi)
        /\ lo.id # hi.id
    BY <2>1
  <2>4. lo.base + lo.n = hi.base
    BY <2>2 DEF Disk!MayMerge
  <2> HIDE DEF lo, hi
  <2> QED
    BY <1>4, <2>1, <2>2, <2>3, <2>4
<1>9. ASSUME NEW id \in Disk!Ids, Disk!Mount(id) PROVE Inv'
  <2>1. PICK v : mounts' = mounts \cup {[id |-> id, at |-> v.at, n |-> v.n]}
    BY <1>9 DEF Disk!Mount
  <2>2. UNCHANGED <<boot, table, ask>> /\ \A m \in mounts' : m.id \in Disk!Ids
    BY <1>9, <2>1 DEF Disk!Mount
  <2> QED
    BY <1>3, <2>2
<1>10. ASSUME NEW m \in mounts, Disk!Unmount(m) PROVE Inv'
  <2>1. UNCHANGED <<boot, table, ask>> /\ \A k \in mounts' : k.id \in Disk!Ids
    BY <1>10 DEF Disk!Unmount
  <2> QED
    BY <1>3, <2>1
<1>11. ASSUME NEW id \in Disk!Ids, Disk!SetType(id) PROVE Inv'
  <2>1. Disk!Store(table.tab) /\ ask' = Disk!NoAsk /\ UNCHANGED <<boot, mounts>>
    BY <1>11 DEF Disk!SetType
  <2> QED
    BY <1>2, <1>5, <2>1, StoreGood
<1>12. ASSUME NEW id \in Disk!Ids, NEW on \in BOOLEAN, Disk!SetActive(id, on) PROVE Inv'
  <2>1. id \in 1 .. Prim
    BY <1>12 DEF Disk!SetActive, Disk!Editable, Disk!Ids, Disk!ConstantsOK
  <2> DEFINE new == Switched(table.tab, id, on)
  <2>2. new \in GoodTabs /\ Disk!Store(new)
    <3>1. new \in GoodTabs
      BY <1>5, <2>1, ActiveGood
    <3>2. Disk!Store(new)
      BY <1>12 DEF Disk!SetActive, Switched
    <3> QED
      BY <3>1, <3>2
  <2> HIDE DEF new
  <2>3. ask' = Disk!NoAsk /\ UNCHANGED <<boot, mounts>>
    BY <1>12 DEF Disk!SetActive
  <2> QED
    BY <1>2, <2>2, <2>3, StoreGood
<1>13. ASSUME NEW id \in Disk!Ids, NEW want \in Wants, Disk!Create(id, want) PROVE Inv'
  <2> DEFINE tab == Disk!Load.tab
  <2>1. tab \in GoodTabs
    BY LoadGood DEF Disks
  <2>2. id \in 1 .. Prim /\ want \in Nat
    <3>1. id # 0
      BY <1>13 DEF Disk!Create
    <3>2. id \in 0 .. Prim /\ Prim \in Nat /\ want \in Nat
      BY DEF Disk!Ids, Disk!ConstantsOK
    <3> QED
      BY <3>1, <3>2
  <2>3. ~ Disk!Used(tab[id]) /\ Disk!Used(Disk!Pick(tab, want)) /\ Disk!Store([tab EXCEPT ![id] = Disk!Pick(tab, want)])
    BY <1>13 DEF Disk!Create
  <2>4. ask' = Disk!NoAsk /\ UNCHANGED <<boot, mounts>>
    BY <1>13 DEF Disk!Create
  <2> HIDE DEF tab
  <2>5. [tab EXCEPT ![id] = Disk!Pick(tab, want)] \in GoodTabs
    BY <2>1, <2>2, <2>3, CreateGood
  <2> QED
    BY <1>2, <2>3, <2>4, <2>5, StoreGood
<1>14. ASSUME NEW yes \in BOOLEAN, NEW ok \in BOOLEAN, Disk!Answer(yes, ok) PROVE Inv'
  <2> DEFINE t == ask.t
             u == ask.u
  <2>1. ask # Disk!NoAsk /\ ask' = Disk!NoAsk /\ UNCHANGED <<boot, mounts>>
    BY <1>14 DEF Disk!Answer
  <2>2. /\ t \in Regions /\ u \in Regions /\ ask.op \in {"format", "delete", "merge"}
        /\ Clean(t) /\ Clean(u) /\ (ask.op # "format" => Entry(t) /\ Entry(u) /\ Disk!Scheme = "mbr")
        /\ ask.op = "merge" => t.id # u.id /\ t.base + t.n = u.base
    BY <2>1 DEF TableAsked, Questions
  <2>3. \/ UNCHANGED table
        \/ ask.op = "format" /\ table' = Disk!Formatted(t.base, t.n, ok)
        \/ ask.op = "delete" /\ Disk!Store([table.tab EXCEPT ![t.id] = Disk!Empty])
        \/ ask.op = "merge" /\ Disk!Store([table.tab EXCEPT ![t.id].n = t.n + u.n, ![u.id] = Disk!Empty])
    BY <1>14, <2>2 DEF Disk!Answer
  <2> HIDE DEF t, u
  <2>4. CASE UNCHANGED table
    BY <1>2, <2>1, <2>4
  <2>5. CASE ask.op = "format" /\ table' = Disk!Formatted(t.base, t.n, ok)
    BY <1>2, <2>1, <2>2, <2>5, FormatGood DEF Regions, Clean
  <2>6. CASE ask.op = "delete" /\ Disk!Store([table.tab EXCEPT ![t.id] = Disk!Empty])
    BY <1>2, <1>5, <2>1, <2>2, <2>6, DeleteGood, StoreGood DEF Entry
  <2>7. CASE ask.op = "merge" /\ Disk!Store([table.tab EXCEPT ![t.id].n = t.n + u.n, ![u.id] = Disk!Empty])
    <3> DEFINE i == t.id
               j == u.id
               new == [table.tab EXCEPT ![i].n = table.tab[i].n + table.tab[j].n, ![j] = Disk!Empty]
    <3>1. /\ i \in 1 .. Prim /\ j \in 1 .. Prim /\ i # j /\ Disk!Used(table.tab[i]) /\ Disk!Used(table.tab[j])
          /\ table.tab[i].start + table.tab[i].n = table.tab[j].start
          /\ t.n = table.tab[i].n /\ u.n = table.tab[j].n
      BY <2>2, <2>7 DEF Entry
    <3>2. Disk!Store(new)
      BY <2>7, <3>1
    <3> HIDE DEF i, j
    <3>3. new \in GoodTabs
      BY <1>5, <3>1, MergeGood
    <3> HIDE DEF new
    <3> QED
      BY <1>2, <2>1, <3>2, <3>3, StoreGood
  <2> QED
    BY <2>3, <2>4, <2>5, <2>6, <2>7
<1> QED
  BY <1>1, <1>6, <1>7, <1>8, <1>9, <1>10, <1>11, <1>12, <1>13, <1>14 DEF Disk!Next

LEMMA HomeStep ==
  ASSUME Disk!ConstantsOK, Inv, NEW h, HomeOf(h), Home(h), [Disk!Next]_(Disk!vars)
  PROVE  Home(h)'
<1> SUFFICES ASSUME boot'
             PROVE  /\ table'.kind = "mbr" /\ table'.ours /\ Disk!Used(table'.tab[h])
                    /\ table'.tab[h].start = BootTable[h].start /\ table'.tab[h].n = BootTable[h].n
  BY DEF Home
<1>1. boot' = boot
  BY DEF Disk!vars, Disk!Next, Disk!AskFormat, Disk!AskDelete, Disk!AskMerge, Disk!Asks, Disk!Mount, Disk!SetType, Disk!Create, Disk!SetActive, Disk!Answer, Disk!Unmount
<1>2. /\ boot /\ table.kind = "mbr" /\ table.ours /\ Disk!Used(table.tab[h])
      /\ table.tab[h].start = BootTable[h].start /\ table.tab[h].n = BootTable[h].n
  BY <1>1 DEF Home
<1>3. /\ h \in 1 .. Prim /\ table.tab \in GoodTabs /\ InstallSize \in Nat \ {0} /\ BootBase \in Nat
      /\ table.tab[h].start <= BootBase /\ BootBase + InstallSize <= table.tab[h].start + table.tab[h].n
  BY <1>2 DEF HomeOf, Inv, Disks, Disk!ConstantsOK
<1>4. table.tab \in [1 .. Prim -> Rows]
  BY <1>3 DEF GoodTabs, Tabs
<1>5. Disk!Scheme = "mbr"
  BY <1>2, <1>3 DEF Disk!Scheme, Disk!Used
<1>6. ASSUME NEW tab \in GoodTabs, Disk!Store(tab), Disk!Used(tab[h]), tab[h].start = table.tab[h].start, tab[h].n = table.tab[h].n
      PROVE  /\ table'.kind = "mbr" /\ table'.ours /\ Disk!Used(table'.tab[h])
             /\ table'.tab[h].start = BootTable[h].start /\ table'.tab[h].n = BootTable[h].n
  <2>1. table'.tab = tab /\ table'.kind = "mbr" /\ table'.ours = table.ours
    BY <1>5, <1>6, StoreGood DEF Inv
  <2> QED
    BY <1>2, <1>6, <2>1
<1>7. ASSUME NEW r \in Regions, Clean(r), Entry(r) PROVE r.id # h
  <2>1. r.n \in Nat \ {0} /\ r.base \in Nat
    BY <1>7 DEF Entry, Disk!Used, Regions
  <2>2. r.id = h => Disk!Overlap(r.base, r.n, BootBase, InstallSize)
    BY <1>3, <1>7, <2>1 DEF Entry, Disk!Overlap
  <2> QED
    BY <1>2, <1>7, <2>2 DEF Clean, Disk!UnderUs
<1>8. CASE UNCHANGED table
  BY <1>2, <1>8
<1>9. ASSUME NEW id \in Disk!Ids, Disk!SetType(id) PROVE Disk!Store(table.tab)
  BY <1>9 DEF Disk!SetType
<1>10. ASSUME NEW id \in Disk!Ids, NEW on \in BOOLEAN, Disk!SetActive(id, on)
       PROVE  \E tab \in GoodTabs : /\ Disk!Store(tab) /\ Disk!Used(tab[h])
                                    /\ tab[h].start = table.tab[h].start /\ tab[h].n = table.tab[h].n
  <2> DEFINE new == Switched(table.tab, id, on)
  <2>1. id \in 1 .. Prim
    BY <1>10 DEF Disk!SetActive, Disk!Editable, Disk!Ids, Disk!ConstantsOK
  <2>2. /\ new \in GoodTabs
        /\ \A p \in 1 .. Prim : /\ new[p].start = table.tab[p].start /\ new[p].n = table.tab[p].n
                                /\ Disk!Used(new[p]) <=> Disk!Used(table.tab[p])
    BY <1>3, <2>1, ActiveGood
  <2>3. Disk!Store(new)
    BY <1>10 DEF Disk!SetActive, Switched
  <2> HIDE DEF new
  <2> QED
    BY <1>2, <1>3, <2>2, <2>3
<1>11. ASSUME NEW id \in Disk!Ids, NEW want \in Wants, Disk!Create(id, want)
       PROVE  \E tab \in GoodTabs : /\ Disk!Store(tab) /\ Disk!Used(tab[h])
                                    /\ tab[h].start = table.tab[h].start /\ tab[h].n = table.tab[h].n
  <2>1. Disk!Load = table
    BY <1>5 DEF Disk!Load
  <2>2. id \in 1 .. Prim /\ want \in Nat
    <3>1. want \in Nat
      BY DEF Disk!ConstantsOK
    <3>2. id # 0
      BY <1>11 DEF Disk!Create
    <3> QED
      BY <3>1, <3>2 DEF Disk!Ids, Disk!ConstantsOK
  <2> DEFINE new == [table.tab EXCEPT ![id] = Disk!Pick(table.tab, want)]
  <2>3. ~ Disk!Used(table.tab[id]) /\ Disk!Used(Disk!Pick(table.tab, want)) /\ Disk!Store(new)
    BY <1>11, <2>1 DEF Disk!Create
  <2>4. new \in GoodTabs
    BY <1>3, <2>2, <2>3, CreateGood
  <2>5. id # h /\ new[h] = table.tab[h]
    BY <1>2, <1>3, <1>4, <2>3
  <2> HIDE DEF new
  <2> QED
    BY <1>2, <2>3, <2>4, <2>5
<1>12. ASSUME NEW yes \in BOOLEAN, NEW ok \in BOOLEAN, Disk!Answer(yes, ok)
       PROVE  /\ table'.kind = "mbr" /\ table'.ours /\ Disk!Used(table'.tab[h])
              /\ table'.tab[h].start = BootTable[h].start /\ table'.tab[h].n = BootTable[h].n
  <2> DEFINE t == ask.t
             u == ask.u
  <2>1. ask # Disk!NoAsk
    BY <1>12 DEF Disk!Answer
  <2>2. /\ t \in Regions /\ u \in Regions /\ ask.op \in {"format", "delete", "merge"}
        /\ Clean(t) /\ Clean(u) /\ (ask.op # "format" => Entry(t) /\ Entry(u))
        /\ ask.op = "merge" => t.id # u.id /\ t.base + t.n = u.base
    BY <2>1 DEF TableAsked, Questions, Inv
  <2>3. \/ UNCHANGED table
        \/ ask.op = "format" /\ table' = Disk!Formatted(t.base, t.n, ok)
        \/ ask.op = "delete" /\ Disk!Store([table.tab EXCEPT ![t.id] = Disk!Empty])
        \/ ask.op = "merge" /\ Disk!Store([table.tab EXCEPT ![t.id].n = t.n + u.n, ![u.id] = Disk!Empty])
    BY <1>12, <2>2 DEF Disk!Answer
  <2> HIDE DEF t, u
  <2>4. CASE UNCHANGED table
    BY <1>8, <2>4
  <2>5. CASE ask.op = "format" /\ table' = Disk!Formatted(t.base, t.n, ok)
    <3>1. t.base # 0 /\ t.base \in Nat /\ t.n \in Nat /\ t.base + t.n <= DiskSize
      BY <1>2, <2>2 DEF Clean, Regions
    <3>2. table'.kind = table.kind /\ table'.ours = table.ours /\ table'.tab = table.tab
      BY <2>5, <3>1, FormatGood DEF Inv
    <3> QED
      BY <1>2, <3>2
  <2>6. CASE ask.op = "delete" /\ Disk!Store([table.tab EXCEPT ![t.id] = Disk!Empty])
    <3> DEFINE i == t.id
               new == [table.tab EXCEPT ![i] = Disk!Empty]
    <3>1. i \in 1 .. Prim /\ i # h
      BY <1>7, <2>2, <2>6 DEF Entry
    <3>2. Disk!Store(new)
      BY <2>6
    <3> HIDE DEF i
    <3>3. new \in GoodTabs
      BY <1>3, <3>1, DeleteGood
    <3>4. new[h] = table.tab[h]
      BY <1>3, <1>4, <3>1
    <3> HIDE DEF new
    <3> QED
      BY <1>2, <1>6, <3>2, <3>3, <3>4
  <2>7. CASE ask.op = "merge" /\ Disk!Store([table.tab EXCEPT ![t.id].n = t.n + u.n, ![u.id] = Disk!Empty])
    <3> DEFINE i == t.id
               j == u.id
               new == [table.tab EXCEPT ![i].n = table.tab[i].n + table.tab[j].n, ![j] = Disk!Empty]
    <3>1. /\ i \in 1 .. Prim /\ j \in 1 .. Prim /\ i # j /\ Disk!Used(table.tab[i]) /\ Disk!Used(table.tab[j])
          /\ table.tab[i].start + table.tab[i].n = table.tab[j].start
          /\ t.n = table.tab[i].n /\ u.n = table.tab[j].n
      BY <2>2, <2>7 DEF Entry
    <3>2. i # h /\ j # h
      BY <1>7, <2>2, <2>7
    <3>3. Disk!Store(new)
      BY <2>7, <3>1
    <3> HIDE DEF i, j
    <3>4. new \in GoodTabs
      BY <1>3, <3>1, MergeGood
    <3>5. new[h] = table.tab[h]
      BY <1>3, <1>4, <3>1, <3>2
    <3> HIDE DEF new
    <3> QED
      BY <1>2, <1>6, <3>3, <3>4, <3>5
  <2> QED
    BY <2>3, <2>4, <2>5, <2>6, <2>7
<1>13. \/ UNCHANGED table
       \/ \E id \in Disk!Ids : Disk!SetType(id)
       \/ \E id \in Disk!Ids, on \in BOOLEAN : Disk!SetActive(id, on)
       \/ \E id \in Disk!Ids, want \in Wants : Disk!Create(id, want)
       \/ \E yes, ok \in BOOLEAN : Disk!Answer(yes, ok)
  BY DEF Disk!vars, Disk!Next, Disk!AskFormat, Disk!AskDelete, Disk!AskMerge, Disk!Asks, Disk!Mount, Disk!Unmount
<1> QED
  BY <1>2, <1>3, <1>6, <1>8, <1>9, <1>10, <1>11, <1>12, <1>13

LEMMA InvInit ==
  ASSUME Disk!ConstantsOK, TableOK, Disk!Init
  PROVE  Inv /\ \A h : HomeOf(h) => Home(h)
<1>1. /\ DiskSize \in Nat /\ Align \in Nat \ {0} /\ Prim \in Nat \ {0} /\ InstallSize \in Nat /\ Rootfs \in Nat
      /\ BootBase \in Nat /\ BootBase + InstallSize <= DiskSize /\ Rootfs < InstallSize /\ 2 * Align < DiskSize
  BY DEF Disk!ConstantsOK
<1>2. Disk!NoTable \in GoodTabs /\ Disk!Empty \in Rows /\ ~ Disk!Used(Disk!Empty)
  BY EmptyGood
<1>3. \A p \in 1 .. Prim : Disk!NoTable[p] = Disk!Empty
  BY DEF Disk!NoTable
<1>4. Disk!Own \in Disks
  <2>1. Disk!RootVolume \in Vols
    <3> DEFINE n == (IF BootBase = 0 THEN DiskSize ELSE BootBase + InstallSize) - BootBase - Rootfs
    <3>1. n \in Nat /\ BootBase + Rootfs \in Nat /\ (BootBase + Rootfs) + n <= DiskSize
      BY <1>1
    <3> HIDE DEF n
    <3>2. Disk!RootVolume = [at |-> BootBase + Rootfs, n |-> n, whole |-> TRUE]
      BY DEF Disk!RootVolume, Disk!Volume, n
    <3> QED
      BY <3>1, <3>2 DEF Vols
  <2> QED
    BY <2>1 DEF Disk!Own, Disks, TableOK
<1>5. Disk!Blank \in Disks /\ [Disk!Blank EXCEPT !.kind = "gpt"] \in Disks
  BY <1>2 DEF Disk!Blank, Disks
<1>6. Disk!Foreign \in Disks
  <2> DEFINE e == [start |-> Align + 1, n |-> Align, type |-> "data", active |-> TRUE]
             new == [Disk!NoTable EXCEPT ![1] = e]
  <2>1. e \in Rows /\ Disk!Used(e) /\ e.start = Align + 1 /\ e.n = Align
    BY <1>1 DEF Rows, Disk!Used
  <2> HIDE DEF e
  <2>2. 1 \in 1 .. Prim
    BY <1>1
  <2>3. new \in [1 .. Prim -> Rows] /\ new[1] = e /\ \A p \in 1 .. Prim : p # 1 => new[p] = Disk!Empty
    BY <1>2, <1>3, <2>1, <2>2 DEF GoodTabs, Tabs
  <2> HIDE DEF new
  <2>4. \A p \in 1 .. Prim : new[p].start + new[p].n <= DiskSize
    BY <1>1, <2>1, <2>3 DEF Disk!Empty
  <2>5. Apart(new)
    BY <1>1, <1>2, <2>1, <2>3 DEF Apart
  <2>6. new \in GoodTabs
    BY <2>3, <2>4, <2>5 DEF GoodTabs, Tabs
  <2> QED
    BY <2>6 DEF Disk!Foreign, Disks, new, e
<1>7. table \in Disks /\ boot \in BOOLEAN
  BY <1>4, <1>5, <1>6 DEF Disk!Init
<1>8. TableAsked /\ mounts = {}
  BY DEF Disk!Init, TableAsked
<1>9. ASSUME NEW h, HomeOf(h) PROVE Home(h)
  <2> SUFFICES ASSUME boot
               PROVE  /\ table.kind = "mbr" /\ table.ours /\ Disk!Used(table.tab[h])
                      /\ table.tab[h].start = BootTable[h].start /\ table.tab[h].n = BootTable[h].n
    BY DEF Home
  <2>1. table = Disk!Own
    BY DEF Disk!Init
  <2> QED
    BY <1>9, <2>1 DEF HomeOf, Disk!Own
<1> QED
  BY <1>7, <1>8, <1>9 DEF Inv

(* What the invariant says of the entries. *)
LEMMA InvMeans ==
  ASSUME Disk!ConstantsOK, Inv
  PROVE  Disk!TypeOK /\ Disk!Disjoint /\ Disk!FindsGap /\ \A h : HomeOf(h) /\ Home(h) => Disk!BootKept
<1>1. /\ table.tab \in [1 .. Prim -> Rows] /\ Apart(table.tab)
      /\ \A p \in 1 .. Prim : table.tab[p].start + table.tab[p].n <= DiskSize
      /\ table.tab \in Tabs
  BY DEF Inv, Disks, GoodTabs, Tabs
<1>2. DiskSize \in Nat /\ InstallSize \in Nat \ {0} /\ BootBase \in Nat
  BY DEF Disk!ConstantsOK
<1>3. \A p \in 1 .. Prim : table.tab[p].start \in Nat /\ table.tab[p].n \in Nat
  BY <1>1 DEF Rows
<1>4. Disk!TypeOK
  <2>1. \A v \in table.vols : v.at + v.n <= DiskSize
    BY DEF Inv, Disks, Vols
  <2>2. ask.op \in {"none", "format", "delete", "merge"}
    BY DEF Inv, TableAsked, Disk!NoAsk, Questions
  <2>3. \A p \in 1 .. Prim : table.tab[p].start \in 0 .. DiskSize /\ table.tab[p].n \in 0 .. DiskSize
    BY <1>1, <1>2, <1>3
  <2> QED
    BY <2>1, <2>2, <2>3 DEF Disk!TypeOK, Inv, Disks
<1>5. Disk!FindsGap
  BY <1>1, AllGapsFound
<1>6. Disk!Disjoint
  <2>1. \A p \in Disk!Entries : p \in 1 .. Prim /\ Disk!Used(table.tab[p]) /\ table.tab[p] \in Rows
    BY <1>1 DEF Disk!Entries
  <2>2. ASSUME NEW p \in Disk!Entries PROVE Disk!Units(table.tab[p]) \subseteq 1 .. DiskSize - 1
    <3>1. 1 <= table.tab[p].start /\ table.tab[p].start + table.tab[p].n <= DiskSize
      BY <1>1, <2>1 DEF Apart
    <3> QED
      BY <1>2, <1>3, <2>1, <3>1 DEF Disk!Units
  <2>3. ASSUME NEW p \in Disk!Entries, NEW q \in Disk!Entries, p # q
        PROVE  Disk!Units(table.tab[p]) \cap Disk!Units(table.tab[q]) = {}
    <3> DEFINE a == table.tab[q].start
               n == table.tab[q].n
    <3>1. a \in Nat /\ n \in Nat \ {0}
      BY <1>3, <2>1 DEF Disk!Used
    <3>2. Clear(a, n, table.tab[p])
      BY <1>1, <2>1, <2>3 DEF Apart
    <3>3. Disk!Units(table.tab[q]) = a .. a + n - 1
      BY DEF Disk!Units
    <3> HIDE DEF a, n
    <3>4. Disk!Units(table.tab[p]) \cap (a .. a + n - 1) = {}
      BY <2>1, <3>1, <3>2, UnitsClear
    <3> QED
      BY <3>3, <3>4
  <2>4. Disk!Cardinality({p \in Disk!Entries : table.tab[p].active}) <= 1
    <3> DEFINE A == {p \in Disk!Entries : table.tab[p].active}
    <3>1. \A p, q \in A : p = q
      BY <1>1, <2>1 DEF Apart
    <3>2. CASE A = {}
      BY <3>2, FS_EmptySet, TableCounts
    <3>3. CASE A # {}
      <4>1. PICK p \in A : TRUE
        BY <3>3
      <4> HIDE DEF A
      <4>2. A = {p}
        BY <3>1, <4>1
      <4>3. Disk!Cardinality(A) = 1
        BY <4>2, FS_Singleton, TableCounts
      <4> QED
        BY <4>3 DEF A
    <3> QED
      BY <3>2, <3>3
  <2> QED
    BY <2>2, <2>3, <2>4 DEF Disk!Disjoint
<1>7. ASSUME NEW h, HomeOf(h), Home(h) PROVE Disk!BootKept
  <2> SUFFICES ASSUME boot PROVE Disk!BootKept
    BY DEF Disk!BootKept
  <2>1. /\ h \in 1 .. Prim /\ table.ours /\ Disk!Used(table.tab[h])
        /\ table.tab[h].start = BootTable[h].start /\ table.tab[h].n = BootTable[h].n
        /\ table.tab[h].start <= BootBase /\ BootBase + InstallSize <= table.tab[h].start + table.tab[h].n
    BY <1>7 DEF Home, HomeOf
  <2>2. ASSUME NEW p \in Disk!Entries, Disk!UnderUs(table.tab[p].start, table.tab[p].n) PROVE p = h
    <3>1. p \in 1 .. Prim /\ Disk!Used(table.tab[p])
      BY DEF Disk!Entries
    <3>2. p # h => Clear(table.tab[p].start, table.tab[p].n, table.tab[h])
      BY <1>1, <2>1, <3>1 DEF Apart
    <3>3. Disk!Overlap(table.tab[p].start, table.tab[p].n, BootBase, InstallSize)
      BY <2>2 DEF Disk!UnderUs
    <3> QED
      BY <1>2, <1>3, <2>1, <3>1, <3>2, <3>3 DEF Disk!Overlap, Clear, Before
  <2> QED
    BY <2>1, <2>2 DEF Disk!BootKept
<1> QED
  BY <1>4, <1>5, <1>6, <1>7

(* The table of a disk stays a table whatever part create, part delete, part merge
   and the rest do with it, its gaps are found, and types hold (shell_part.h:376,
   :15) - for a disk of any size, and any table the boot disk comes with whose
   entries are apart. *)
THEOREM TablesStayApart ==
  ASSUME Disk!ConstantsOK, TableOK
  PROVE  Disk!Spec => [](Disk!TypeOK /\ Disk!Disjoint /\ Disk!FindsGap)
<1>1. Disk!Init => Inv
  BY InvInit
<1>2. Inv /\ [Disk!Next]_(Disk!vars) => Inv'
  BY InvStep
<1>3. Inv => Disk!TypeOK /\ Disk!Disjoint /\ Disk!FindsGap
  BY InvMeans
<1> HIDE DEF Inv, Disk!TypeOK, Disk!Disjoint, Disk!FindsGap
<1> QED
  BY <1>1, <1>2, <1>3, PTL DEF Disk!Spec

(* When the system runs from a partition that the table has, boot sector and entry
   stay as they are and nothing comes to lie over the system (shell_part.h:20). *)
THEOREM RunningSystemSpared ==
  ASSUME Disk!ConstantsOK, TableOK, \E h : HomeOf(h)
  PROVE  Disk!Spec => []Disk!BootKept
<1>1. PICK h : HomeOf(h)
  OBVIOUS
<1> DEFINE I == Inv /\ Home(h)
<1>2. Disk!Init => I
  BY <1>1, InvInit
<1>3. I /\ [Disk!Next]_(Disk!vars) => I'
  BY <1>1, InvStep, HomeStep
<1>4. I => Disk!BootKept
  BY <1>1, InvMeans
<1> HIDE DEF I, Disk!BootKept
<1> QED
  BY <1>2, <1>3, <1>4, PTL DEF Disk!Spec

-----------------------------------------------------------------------------
(* Theorems.  A part's own theorem holds of the machine, for a step of the machine
   is a step of that part or leaves its state alone. *)

LEMMA WindowSteps ==
  [Next]_<<part, memVars, progVars, instVars, treeVars, diskVars>> => [Window!Next]_(Window!vars)
BY DEF Next, InMem, InWindow, InJob, InPaths, InDisk, progVars, Window!vars

LEMMA MemSteps ==
  [Next]_<<part, memVars, progVars, instVars, treeVars, diskVars>> => [Mem!Next]_(Mem!vars)
BY DEF Next, InMem, InWindow, InJob, InPaths, InDisk, memVars, Mem!vars

LEMMA JobSteps ==
  [Next]_<<part, memVars, progVars, instVars, treeVars, diskVars>> => [Job!Next]_(Job!vars)
BY DEF Next, InMem, InWindow, InJob, InPaths, InDisk, instVars, Job!vars

LEMMA PathSteps ==
  [Next]_<<part, memVars, progVars, instVars, treeVars, diskVars>> => [Paths!Next]_(Paths!vars)
BY DEF Next, InMem, InWindow, InJob, InPaths, InDisk, treeVars, Paths!vars

LEMMA DiskSteps ==
  [Next]_<<part, memVars, progVars, instVars, treeVars, diskVars>> => [Disk!Next]_(Disk!vars)
BY DEF Next, InMem, InWindow, InJob, InPaths, InDisk, diskVars, Disk!vars

(* Every part keeps its types: what the theorems of the parts conclude. *)
THEOREM MachineTyped == Spec => []TypeOK
<1>1. Init => Mem!Init /\ Window!Init /\ Job!Init /\ Paths!Init /\ Disk!Init
  BY DEF Init
<1>2. Mem!Spec => []Mem!TypeOK
  BY InstancesOK, Mem!MemoryTyped
<1>3. Window!Spec => []Window!TypeOK
  BY InstancesOK, RunsTyped
<1>4. Job!Spec => []Job!TypeOK
  BY InstancesOK, JobTyped
<1>5. Paths!Spec => []Paths!TypeOK
  BY InstancesOK, Paths!TreesTyped
<1>6. Disk!Spec => [](Disk!TypeOK /\ Disk!Disjoint /\ Disk!FindsGap)
  BY InstancesOK, BootTableOK, TablesStayApart
<1>7. Mem!TypeOK /\ Window!TypeOK /\ Job!TypeOK /\ Paths!TypeOK /\ Disk!TypeOK => TypeOK
  BY DEF TypeOK
<1> QED
  BY <1>1, <1>2, <1>3, <1>4, <1>5, <1>6, <1>7, MemSteps, WindowSteps, JobSteps, PathSteps, DiskSteps, PTL
  DEF Spec, Mem!Spec, Window!Spec, Job!Spec, Paths!Spec, Disk!Spec

(* Whatever the numbers of pages, chunks and sizes: see MemoryIsOnes in Mm. *)
THEOREM MemoryStaysSound == Spec => []MemorySound
<1>1. Init => Mem!Init
  BY DEF Init
<1>2. Mem!Spec => []Mem!Healthy
  BY InstancesOK, Mem!HeapHealthy
<1>3. Mem!Spec => [](Mem!NobodysTwice /\ Mem!FreesWhatIsHeld /\ Mem!HeapShrinks /\ Mem!FindsRoom)
  BY InstancesOK, Mem!MemoryIsOnes
<1>4. Mem!Healthy /\ Mem!NobodysTwice /\ Mem!FreesWhatIsHeld /\ Mem!HeapShrinks /\ Mem!FindsRoom => MemorySound
  BY DEF MemorySound
<1> QED
  BY <1>1, <1>2, <1>3, <1>4, MemSteps, PTL DEF Spec, Mem!Spec

(* Whatever programs are installed: see RunsApart above. *)
THEOREM ProgramsStayApart == Spec => []ProgramsApart
<1>1. Init => Window!Init
  BY DEF Init
<1>2. Window!Spec => [](Window!NothingLeft /\ Window!PointsHome /\ Window!OwnCode /\ Window!KeysInOrder)
  BY InstancesOK, RunsApart
<1>3. Window!NothingLeft /\ Window!PointsHome /\ Window!OwnCode /\ Window!KeysInOrder => ProgramsApart
  BY DEF ProgramsApart
<1> QED
  BY <1>1, <1>2, <1>3, WindowSteps, PTL DEF Spec, Window!Spec

(* Where the user moves no directory into itself and the running system does not begin
   at the first sector of its disk (BootBase # 0, without which BootKept is false of the
   code): the boot sector of an installation comes last and DONE after the read back, see
   BootSectorComesLast above; volumes are trees, see NamesAreOne and TreesStay in Vfs;
   partitions are apart and the running system's stays, see TablesStayApart and
   RunningSystemSpared. *)
THEOREM DisksStaySound == ASSUME BootBase # 0, Sensible PROVE Spec => []DisksSound
<1>1. Init => Job!Init /\ Paths!Init /\ Disk!Init
  BY DEF Init
<1>2. Job!Spec => [](Job!BootSectorLast /\ Job!DoneMeansVerified)
  BY InstancesOK, BootSectorComesLast
<1>3. Paths!Spec => [](Paths!OneName /\ Paths!MntStaysEmpty /\ Paths!CwdMounted)
  BY InstancesOK, Paths!NamesAreOne
<1>4. Paths!Spec => []Paths!Tree
  BY InstancesOK, Paths!TreesStay
<1>5. Disk!Spec => [](Disk!TypeOK /\ Disk!Disjoint /\ Disk!FindsGap)
  BY InstancesOK, BootTableOK, TablesStayApart
<1>6. Disk!Spec => []Disk!BootKept
  BY InstancesOK, BootTableOK, RunningSystemSpared
<1>7. /\ Job!BootSectorLast /\ Job!DoneMeansVerified /\ Paths!Tree /\ Paths!CwdMounted /\ Paths!MntStaysEmpty
      /\ Disk!Disjoint /\ Disk!FindsGap /\ Disk!BootKept
      => DisksSound
  BY DEF DisksSound
<1> QED
  BY <1>1, <1>2, <1>3, <1>4, <1>5, <1>6, <1>7, JobSteps, PathSteps, DiskSteps, PTL
  DEF Spec, Job!Spec, Paths!Spec, Disk!Spec

(* Steps, where half the range of the clock is longer than a sleep: see SleepsThrough,
   OthersBootStays and OneJobAtATime above, and MovesKeep in Vfs. *)
THEOREM StepsStaySound == ASSUME ClockWide PROVE Spec => StepsSound
<1>1. Init => Window!Init /\ Job!Init /\ Paths!Init
  BY DEF Init
<1>3. Window!Spec => Window!SleepsEnough
  BY InstancesOK, SleepsThrough
<1>4. Job!Spec => Job!BootcodeKept
  BY InstancesOK, OthersBootStays
<1>5. Job!Spec => Job!OneJob
  BY InstancesOK, OneJobAtATime
<1>6. Paths!Spec => Paths!MoveKeeps
  BY InstancesOK, Paths!MovesKeep
<1> QED
  BY <1>1, <1>3, <1>4, <1>5, <1>6, WindowSteps, JobSteps, PathSteps, PTL
  DEF Spec, StepsSound, Window!Spec, Job!Spec, Paths!Spec
=============================================================================
