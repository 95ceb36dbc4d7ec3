------------------------------ MODULE MwfsAbs ------------------------------
(***************************************************************************)
(* What the file system of MiniWin (kernel/mwfs.h) promises to whoever     *)
(* saves, deletes and renames files in one directory, with power cuts.     *)
(*                                                                         *)
(* A name reads as one complete version or as nothing.  A save takes       *)
(* effect in one step or not at all.  A rename takes two steps, the new    *)
(* name first: a power cut between them leaves both names (the "twins"),   *)
(* and the repair of `part check <id> fix` keeps one of them.  Nothing     *)
(* else starts while twins exist.                                          *)
(***************************************************************************)
CONSTANTS
  Name,      (* the names of the directory                     *)
  Version,   (* the contents a file can be saved with          *)
  NoVer      (* the reading of a name that has no file         *)

VARIABLES
  file,      (* file[n]: what n reads as                                    *)
  pending,   (* the save or move whose effect is still to come              *)
  twins      (* the two names of the file a rename was moving, or {}        *)

vars == <<file, pending, twins>>

None == [kind |-> "none"]
Save(n, v) == [kind |-> "save", name |-> n, ver |-> v]
Move(n) == [kind |-> "move", name |-> n]

Init ==
  /\ file = [n \in Name |-> NoVer]
  /\ pending = None
  /\ twins = {}

Quiet == pending = None /\ twins = {}

BeginSave(n, v) ==
  /\ Quiet
  /\ pending' = Save(n, v)
  /\ UNCHANGED <<file, twins>>

CommitSave(n, v) ==
  /\ pending = Save(n, v)
  /\ file' = [file EXCEPT ![n] = v]
  /\ pending' = None
  /\ UNCHANGED twins

(* A failure or a power cut: what was pending is forgotten, no file is touched. *)
Abandon ==
  /\ pending # None
  /\ pending' = None
  /\ UNCHANGED <<file, twins>>

Delete(n) ==
  /\ Quiet
  /\ file[n] # NoVer
  /\ file' = [file EXCEPT ![n] = NoVer]
  /\ UNCHANGED <<pending, twins>>

LinkNew(f, t) ==
  /\ Quiet
  /\ f # t
  /\ file[f] # NoVer
  /\ file' = [file EXCEPT ![t] = file[f]]
  /\ pending' = Move(f)
  /\ twins' = {f, t}

DropOld(f) ==
  /\ pending = Move(f)
  /\ file' = [file EXCEPT ![f] = NoVer]
  /\ pending' = None
  /\ twins' = {}

Repair(n) ==
  /\ pending = None
  /\ n \in twins
  /\ file' = [file EXCEPT ![n] = NoVer]
  /\ twins' = {}
  /\ UNCHANGED pending

Next ==
  \/ \E n \in Name, v \in Version : BeginSave(n, v) \/ CommitSave(n, v)
  \/ Abandon
  \/ \E n \in Name : Delete(n) \/ DropOld(n) \/ Repair(n)
  \/ \E f, t \in Name : LinkNew(f, t)

Spec == Init /\ [][Next]_vars
=============================================================================
