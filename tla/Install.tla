------------------------------- MODULE Install -------------------------------
(* The installer (src/kernel/os_inst.h): a job advanced a few sectors at a time
   that copies the running system onto a target and writes the boot sector last.
   Two drivers step it: the poll of the shell (apps/terminal.h) and the INSTALL
   window of the live disc (apps/installer.h), which may be closed in the middle.
   The medium may refuse a read or a write, or keep something else than was
   written, and the machine may be reset at any moment.

   A target is its system sectors, of which sector 0 is the boot sector, its root
   volume, and for a partition the sector 0 of the disk it lies on.  One sector is
   one step; what inst_step() does within its budget is any number of steps.  (The
   format and the boot sector after it are one round of its loop and two steps here.)

   What a target holds: "old" of a MiniWin it had, "new" as this job wrote it, "bad"
   when the medium made something else of an accepted write, "blank" when it is of no
   system, or of an earlier or an unfinished attempt at one.  A root volume is also
   "flawed": it opens (superblock, geometry, root inode), but not all behind them is as
   written. *)
EXTENDS Integers, FiniteSets

CONSTANTS
  Target,     (* what st_resolve() accepts *)
  Whole,      (* those that are whole disks *)
  Chainable,  (* primary partitions of an MBR disk *)
  System,     (* number of system sectors, INST_COPY_SECTORS *)
  Had,        (* what targets may hold before: a subset of {"blank", "miniwin"} *)
  None

ConstantsOK ==
  /\ Whole \subseteq Target /\ Chainable \subseteq Target \ Whole /\ None \notin Target
  /\ System \in Nat \ {0, 1} /\ Had \subseteq {"blank", "miniwin"} /\ Had # {}

VARIABLES
  inst,    (* the job: [phase, t, next, formatted, err, mbr] *)
  ui,      (* [owns, page, pick, pending]: inst_gui_owns, the window's page ("shut" without
              a window) and choice, the target whose YES the shell waits for *)
  disk     (* per target: [sec, root, code] *)

vars == <<inst, ui, disk>>

Lba == 0 .. System - 1
Idle == [phase |-> "idle", t |-> None, next |-> 0, formatted |-> FALSE, err |-> "none", mbr |-> "none"]
Shut == [owns |-> FALSE, page |-> "shut", pick |-> None, pending |-> None]

Holding(was) == IF was = "miniwin" THEN "old" ELSE "blank"
Init ==
  /\ inst = Idle /\ ui = Shut
  /\ \E was \in [Target -> Had], code \in [Target -> {"blank", "other"}] :
       disk = [t \in Target |-> [sec |-> [l \in Lba |-> Holding(was[t])], root |-> Holding(was[t]), code |-> code[t]]]

-----------------------------------------------------------------------------
(* The job. *)

Kept == {"new", "bad"}             (* what the medium may make of an accepted write *)
KeptRoot == Kept \cup {"flawed"}   (* and of an accepted format *)

LbaForFirst(k) == k                (* the boot sector first *)
LbaFor(k) == (k + 1) % System      (* 1, 2, ..., and then 0 *)

Active == inst.phase \in {"write", "verify", "bootcode"}
Begin(t) == [Idle EXCEPT !.phase = "write", !.t = t]
(* What the last job on a target left is not this job's. *)
Earlier(held) == IF held = "new" THEN "old" ELSE IF held \in KeptRoot THEN "blank" ELSE held
Taking(t) ==
  disk' = [disk EXCEPT ![t].sec = [l \in Lba |-> Earlier(@[l])], ![t].root = Earlier(@)]
Fail(err) == inst' = [inst EXCEPT !.phase = "failed", !.err = err]

(* mwfs_mkfs() and vfs_make_root_layout(), just before the boot sector; one that fails
   has written nothing of the volume or a part. *)
Formats == inst.phase = "write" /\ LbaFor(inst.next) = 0 /\ ~ inst.formatted
Laid(root) == disk' = [disk EXCEPT ![inst.t].root = root]
Format(ok) ==
  /\ Formats
  /\ IF ok THEN inst' = [inst EXCEPT !.formatted = TRUE] /\ \E root \in KeptRoot : Laid(root)
     ELSE Fail("format") /\ (UNCHANGED disk \/ Laid("blank"))

Advance(next) ==
  IF inst.next + 1 < System THEN [inst EXCEPT !.next = @ + 1] ELSE [inst EXCEPT !.phase = next, !.next = 0]

Puts(kept) == disk' = [disk EXCEPT ![inst.t].sec[LbaFor(inst.next)] = kept]
Write(kept) ==
  /\ inst.phase = "write" /\ ~ Formats
  /\ Puts(kept)
  /\ inst' = Advance("verify")
(* A write that is reported failed may have landed. *)
WriteRefused ==
  /\ inst.phase = "write" /\ ~ Formats /\ Fail("write")
  /\ UNCHANGED disk \/ \E kept \in Kept : Puts(kept)
SourceUnreadable == inst.phase \in {"write", "verify"} /\ ~ Formats /\ Fail("read_source") /\ UNCHANGED disk

(* Every copied sector is read back and compared; of the root volume it is only asked
   that it opens. *)
Same == disk[inst.t].sec[LbaFor(inst.next)] = "new"
RootOpens == disk[inst.t].root \in {"new", "flawed"}

(* A read back that compares nothing. *)
VerifyBlind == inst.phase = "verify" /\ inst' = Advance("bootcode") /\ UNCHANGED disk

Verify ==
  /\ inst.phase = "verify"
  /\ IF ~ Same THEN Fail("verify")
     ELSE IF inst.next + 1 = System /\ ~ RootOpens THEN Fail("format")
     ELSE inst' = Advance("bootcode")
  /\ UNCHANGED disk
TargetUnreadable == inst.phase = "verify" /\ Fail("read_target") /\ UNCHANGED disk

(* A loader is written over whatever is there. *)
BootcodeAlways(ok) ==
  /\ inst.phase = "bootcode"
  /\ inst' = [inst EXCEPT !.phase = "done", !.mbr = "chain"]
  /\ disk' = [disk EXCEPT ![inst.t].code = "chain"]

(* The disk's own sector 0, of a partition: only blank boot code is replaced; ok
   says that it could be read, written and read back. *)
Bootcode(ok) ==
  /\ inst.phase = "bootcode"
  /\ LET code == disk[inst.t].code
         chain == inst.t \in Chainable /\ code = "blank"
         result == IF inst.t \in Whole THEN "none"
                   ELSE IF ~ ok \/ code # "blank" THEN "kept"
                   ELSE IF ~ chain THEN "unsupported" ELSE "chain"
     IN /\ inst' = [inst EXCEPT !.phase = "done", !.mbr = result]
        /\ disk' = IF result = "chain" THEN [disk EXCEPT ![inst.t].code = "chain"] ELSE disk

Step ==
  \/ \E ok \in BOOLEAN : Format(ok) \/ Bootcode(ok)
  \/ \E kept \in Kept : Write(kept)
  \/ WriteRefused \/ SourceUnreadable \/ TargetUnreadable \/ Verify

-----------------------------------------------------------------------------
(* The shell. *)

Ask(t) ==
  /\ ui.pending = None /\ ~ Active
  /\ ui' = [ui EXCEPT !.pending = t]
  /\ UNCHANGED <<inst, disk>>
Answer(yes) ==
  /\ ui.pending # None
  /\ ui' = [ui EXCEPT !.pending = None]
  /\ IF yes THEN inst' = Begin(ui.pending) /\ Taking(ui.pending) ELSE UNCHANGED <<inst, disk>>
(* A poll that does not ask whose job it is. *)
ShellPollAny == Active /\ Step /\ UNCHANGED ui

ShellPoll == Active /\ ~ ui.owns /\ Step /\ UNCHANGED ui

(* The window. *)
Open == ui.page = "shut" /\ ui' = [ui EXCEPT !.page = "pick"] /\ UNCHANGED <<inst, disk>>
GoConfirm(t) == ui.page = "pick" /\ ui' = [ui EXCEPT !.page = "confirm", !.pick = t] /\ UNCHANGED <<inst, disk>>
GoBack == ui.page \in {"confirm", "fail"} /\ ui' = [ui EXCEPT !.page = "pick"] /\ UNCHANGED <<inst, disk>>
(* The YES is taken although a job runs. *)
StartWindowOver ==
  /\ ui.page = "confirm"
  /\ inst' = Begin(ui.pick)
  /\ ui' = [ui EXCEPT !.owns = TRUE, !.page = "run"]
  /\ Taking(ui.pick)

StartWindow ==
  /\ ui.page = "confirm" /\ ~ Active /\ ui.pending = None
  /\ inst' = Begin(ui.pick)
  /\ ui' = [ui EXCEPT !.owns = TRUE, !.page = "run"]
  /\ Taking(ui.pick)

PageFor(phase) == IF phase = "done" THEN "done" ELSE IF phase = "failed" THEN "fail" ELSE "run"
WindowFrame ==
  /\ ui.page = "run"
  /\ IF Active THEN Step ELSE UNCHANGED <<inst, disk>>
  /\ ui' = [ui EXCEPT !.page = PageFor(inst'.phase)]

(* The window goes and its claim on the job stays. *)
CloseWindowOwning ==
  /\ ui.page # "shut" /\ ui' = [ui EXCEPT !.page = "shut"]
  /\ UNCHANGED <<inst, disk>>

(* pw_free_run(), for a window closed at any page. *)
CloseWindow ==
  /\ ui.page # "shut"
  /\ ui' = [ui EXCEPT !.owns = FALSE, !.page = "shut"]
  /\ UNCHANGED <<inst, disk>>

(* At any moment, in the middle of a format too. *)
Reset == inst' = Idle /\ ui' = Shut /\ (UNCHANGED disk \/ (Formats /\ Laid("blank")))

Next ==
  \/ \E t \in Target : Ask(t) \/ GoConfirm(t)
  \/ \E yes \in BOOLEAN : Answer(yes)
  \/ ShellPoll \/ Open \/ GoBack \/ StartWindow \/ WindowFrame \/ CloseWindow \/ Reset

Spec == Init /\ [][Next]_vars

(* Both polls are part of every pass of the main loop. *)
Fairness == WF_vars(ShellPoll) /\ WF_vars(WindowFrame)

-----------------------------------------------------------------------------
(* Types: the fields of inst_job_t and of the pages. *)
TypeOK ==
  /\ inst.phase \in {"idle", "write", "verify", "bootcode", "done", "failed"}
  /\ inst.t \in Target \cup {None} /\ inst.next \in Lba
  /\ ui.page \in {"shut", "pick", "confirm", "run", "done", "fail"}
  /\ \A t \in Target : disk[t].sec \in [Lba -> {"blank", "old"} \cup Kept]

(* A target with our boot sector starts; OneInstall(d): it is one complete installation. *)
LooksBootable(d) == d.sec[0] \in {"old", "new"}
OneInstall(d) == (\A l \in Lba : d.sec[l] = d.sec[0]) /\ d.root = d.sec[0]

(* The new boot sector comes last: it is on a target only when this job has had a write
   of every other sector accepted and the format of the root volume too, at whatever
   step it was refused, unplugged or reset (os_inst.h:27, "is written LAST").  What the
   medium made of those writes is not known yet when it is written; see NeverHalfBootable. *)
BootSectorLast ==
  \A t \in Target : disk[t].sec[0] = "new" => disk[t].root \in KeptRoot /\ \A l \in Lba : disk[t].sec[l] \in Kept

(* DONE is said only of a target whose every copied sector, the boot sector among them,
   has been read back as it should be and whose root volume opens (os_inst.h:29).  That
   the rest of the root volume is as written nobody has asked. *)
DoneMeansVerified ==
  inst.phase = "done" => RootOpens /\ \A l \in Lba : disk[inst.t].sec[l] = "new"

(* Boot code that was there before any installation is never replaced (os_inst.h:30). *)
BootcodeKept == [][\A t \in Target : disk[t].code = "other" => disk'[t].code = "other"]_vars

(* A target is only touched by the job that was confirmed for it, and a job in
   progress is never replaced by another but at a reset. *)
OneJob == [][Active /\ inst'.phase # "idle" => inst'.t = inst.t /\ inst'.phase \notin {"idle"}
                                               /\ ~ (inst'.phase = "write" /\ inst'.next < inst.next)]_vars

(* A job the window steps, or nobody but the shell, comes to an end, also when the
   window is closed in the middle of it (installer.h:23). *)
JobEnds == (Active /\ (ui.owns => ui.page = "run")) ~> ~ Active

(* What os_inst.h:27 says of a job that is over: "An install that fails or is interrupted
   part-way therefore never looks bootable".  The boot sector is the last to be written,
   but it is written before anything is read back, and no failure after it takes it off. *)
NeverHalfBootable ==
  \A t \in Target : ~ (Active /\ inst.t = t) /\ LooksBootable(disk[t]) => OneInstall(disk[t])

(* What os_inst.h:71 says of inst_gui_owns: it is 1 while the window is the one
   stepping the job.  It stays 1 as long as a finished window is open. *)
OwnerSteps == Active /\ ui.owns => ui.page = "run"
=============================================================================
