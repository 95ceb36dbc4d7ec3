-------------------------------- MODULE Files --------------------------------
(***************************************************************************)
(* The list of MiniFiles (kernel/apps/minifiles.h) and what is done to its *)
(* rows: select, sort, delete with a second click, rename in place, copy,  *)
(* cut and paste.  The rows are a copy of the directory from when it was   *)
(* last read, and a row is an index into it; MiniShell and Notepad change  *)
(* the directories in between and do not tell this window.                 *)
(***************************************************************************)
EXTENDS Integers, Sequences, FiniteSets, SequencesExt

CONSTANTS
  Docs, Others,   (* the folders: /docs, and some that are like any other         *)
  Name,           (* names, as numbers in the order of fx_namecmp                  *)
  Fresh,          (* NewFolder, NewFolder2, ...: the names New Folder tries        *)
  Keys,           (* what is sorted by: "name", "size"                          *)
  Sizes,          (* what files hold, told apart by size                           *)
  Changes,        (* bound: what others do to the directories                      *)
  Patient         (* TRUE: a rename is ended before a menu or another window       *)

(* What the constants must satisfy. *)
ConstantsOK ==
  /\ Docs \notin Others /\ Name \subseteq Nat /\ Sizes \subseteq Nat \ {0} /\ Fresh \subseteq Name
  /\ Keys \subseteq {"name", "size"} /\ Changes \in Nat /\ Patient \in BOOLEAN

Folder == {Docs} \cup Others
None == 0
IsDir == -1                                   (* a folder, made here and empty *)
Held == Sizes \cup {None, IsDir}

VARIABLES
  disk,     (* disk[f][n]: what folder f holds under n                             *)
  inPad,    (* the documents open in Notepad                                       *)
  cwd,      (* fx_cwd                                                              *)
  rows,     (* files_rows: name and what it was                                    *)
  sel,      (* files_sel, 0 for none                                               *)
  armed,    (* fx_armed                                                            *)
  edit,     (* fx_edit and fx_edit_buf, None when no rename is open                *)
  sort,     (* fx_sort_key and fx_sort_desc                                        *)
  clip,     (* fx_clip and fx_clip_cut                                             *)
  asked,    (* history: the name the message "Click DELETE again" shows            *)
  chosen,   (* history: the name the rename was opened on                          *)
  did,      (* history: what the last step removed or renamed                      *)
  changes

shown == <<cwd, rows, sel, armed, edit, sort>>
hist == <<asked, chosen>>
vars == <<disk, inPad, shown, clip, hist, did, changes>>

Nothing == [f |-> Docs, n |-> None, cut |-> FALSE]
Quiet == [what |-> "nothing", n |-> None]
HeldIn(f) == {n \in Name : disk[f][n] # None}

-----------------------------------------------------------------------------
(* The list. *)

Before(s, a, b) ==
  LET less == IF s.key = "size" /\ a.what # b.what THEN a.what < b.what ELSE a.n < b.n
  IN  IF (a.what = IsDir) # (b.what = IsDir) THEN a.what = IsDir
      ELSE IF s.desc THEN ~less ELSE less

(* fx_sort_rows(): folders first. *)
Sorted(S, s) == SetToSortSeq(S, LAMBDA a, b : Before(s, a, b))

(* fx_load_dir() *)
Rows(d, f, s) == Sorted({[n |-> n, what |-> d[f][n]] : n \in {x \in Name : d[f][x] # None}}, s)
(* A fault for comparison: the selection stays behind the end of the list. *)
Unclipped(s, r) == s

Clipped(s, r) == IF s > Len(r) THEN Len(r) ELSE s

Index(r, n) ==
  LET at == {i \in DOMAIN r : r[i].n = n}
  IN  IF at = {} THEN 0 ELSE CHOOSE i \in at : TRUE

(* A fault for comparison: a row stays armed when the list is read again. *)
ReloadsArmed(f, s) ==
  /\ cwd' = f /\ rows' = Rows(disk', f, sort) /\ sel' = Clipped(s, rows')
  /\ armed' = Clipped(armed, rows') /\ UNCHANGED sort

(* fx_refresh_all(), and what fx_select_name() makes of it: a row that is
   selected by name is no longer armed nor being renamed. *)
Reloads(f, s) ==
  /\ cwd' = f /\ rows' = Rows(disk', f, sort) /\ sel' = Clipped(s, rows')
  /\ armed' = 0 /\ UNCHANGED sort

Selecting(n) ==
  /\ cwd' = cwd /\ rows' = Rows(disk', cwd, sort) /\ armed' = 0 /\ UNCHANGED sort
  /\ sel' = IF Index(rows', n) # 0 THEN Index(rows', n) ELSE Clipped(sel, rows')

(* What the user is being asked, and what is being renamed, is remembered as
   long as it lasts. *)
Remembers(a, c) ==
  /\ asked' = IF armed' = 0 THEN None ELSE a
  /\ chosen' = IF edit' = None THEN None ELSE c

Quietly == did' = Quiet /\ Remembers(asked, chosen)
Selected == sel \in DOMAIN rows
Row == rows[sel]

(* A fault for comparison: MiniFiles does not know about Notepad. *)
HeldByNobody(n) == FALSE

(* A document of /docs that is open in Notepad is not removed nor renamed. *)
HeldByNotepad(n) == cwd = Docs /\ n \in inPad

(* While a name is typed, a click ends it first. *)
Idle == ~Patient \/ edit = None

-----------------------------------------------------------------------------
(* fx_select() *)
Select(i) ==
  /\ edit = None /\ i \in 0 .. Len(rows)
  /\ sel' = i /\ armed' = 0
  /\ UNCHANGED <<disk, inPad, cwd, rows, edit, sort, clip, changes>> /\ Quietly

Goto(f) ==
  /\ Idle /\ UNCHANGED disk /\ Reloads(f, 0) /\ edit' = None
  /\ UNCHANGED <<inPad, clip, changes>> /\ Quietly

(* The menu, the tool bar, or the window that is opened again. *)
Refresh ==
  /\ Idle /\ UNCHANGED disk /\ Reloads(cwd, sel)
  /\ UNCHANGED <<inPad, edit, clip, changes>> /\ Quietly

(* After a sort the same file is selected. *)
SelSorted(r) == IF Selected THEN Index(r, Row.n) ELSE 0

SortBy(k) ==
  /\ Idle /\ sort' = [key |-> k, desc |-> IF sort.key = k THEN ~sort.desc ELSE FALSE]
  /\ rows' = Sorted(ToSet(rows), sort')
  /\ sel' = SelSorted(rows') /\ armed' = (IF Selected THEN 0 ELSE armed)
  /\ edit' = (IF Selected THEN None ELSE edit)
  /\ UNCHANGED <<disk, inPad, cwd, clip, changes>> /\ Quietly

(* Esc: a rename is given up, or the row is no longer armed. *)
Escape ==
  /\ armed' = (IF edit = None THEN 0 ELSE armed) /\ edit' = None
  /\ UNCHANGED <<disk, inPad, cwd, rows, sel, sort, clip, changes>> /\ Quietly

(* fx_delete_action(): the first time it asks, the second time it deletes. *)
Arm ==
  /\ Idle /\ Selected /\ armed # sel
  /\ armed' = sel /\ did' = Quiet
  /\ UNCHANGED <<disk, inPad, cwd, rows, sel, edit, sort, clip, changes>> /\ Remembers(Row.n, chosen)

Delete ==
  /\ Idle /\ Selected /\ armed = sel
  /\ IF Row.what # IsDir /\ HeldByNotepad(Row.n)
     THEN /\ armed' = 0
          /\ UNCHANGED <<disk, inPad, cwd, rows, sel, edit, sort, clip, changes>> /\ Quietly
     ELSE /\ disk' = [disk EXCEPT ![cwd][Row.n] = None]
          /\ did' = [what |-> "deleted", n |-> Row.n]
          /\ Reloads(cwd, sel)
          /\ UNCHANGED <<inPad, edit, clip, changes>> /\ Remembers(asked, chosen)

(* fx_new_folder(), which is then ready to be named. *)
NewFolder ==
  /\ Idle /\ \E n \in Fresh :
       /\ disk[cwd][n] = None /\ \A m \in Fresh : m < n => disk[cwd][m] # None
       /\ disk' = [disk EXCEPT ![cwd][n] = IsDir]
       /\ Selecting(n) /\ edit' = n
  /\ did' = Quiet /\ UNCHANGED <<inPad, clip, changes>> /\ Remembers(asked, edit')

(* fx_begin_rename(), a key in the name, and its end by Enter or a click. *)
BeginRename ==
  /\ Selected /\ Idle /\ edit' = Row.n /\ did' = Quiet
  /\ UNCHANGED <<disk, inPad, cwd, rows, sel, armed, sort, clip, changes>> /\ Remembers(asked, Row.n)

Key(n) ==
  /\ edit # None /\ edit' = n
  /\ UNCHANGED <<disk, inPad, cwd, rows, sel, armed, sort, clip, changes>> /\ Quietly

(* A fault for comparison: a name that is taken is not noticed. *)
NeverTaken(f, n) == FALSE

Taken(f, n) == disk[f][n] # None

(* fx_commit_rename() *)
CommitRename ==
  /\ edit # None /\ edit' = None
  /\ IF ~Selected \/ edit = Row.n \/ (Row.what # IsDir /\ HeldByNotepad(Row.n))
          \/ Taken(cwd, edit) \/ disk[cwd][Row.n] = None
     THEN UNCHANGED <<disk, cwd, rows, sel, armed, sort>> /\ Quietly
     ELSE /\ disk' = [disk EXCEPT ![cwd][edit] = disk[cwd][Row.n], ![cwd][Row.n] = None]
          /\ did' = [what |-> "renamed", n |-> Row.n]
          /\ Selecting(edit)
  /\ UNCHANGED <<inPad, clip, changes>> /\ Remembers(asked, chosen)

(* fx_copy_action(): a path, to be looked up when it is pasted. *)
Copy(cut) ==
  /\ Idle /\ Selected /\ (cut \/ Row.what # IsDir)
  /\ clip' = [f |-> cwd, n |-> Row.n, cut |-> cut]
  /\ UNCHANGED <<disk, inPad, shown, changes>> /\ Quietly

(* fx_paste_action(): nothing is written over; a cut file is moved once. *)
Paste ==
  /\ Idle /\ clip # Nothing /\ ~Taken(cwd, clip.n)
  /\ LET was == disk[clip.f][clip.n]
     IN  /\ was # None /\ (clip.cut \/ was # IsDir)
         /\ disk' = [f \in Folder |-> [n \in Name |->
              IF f = cwd /\ n = clip.n THEN was
              ELSE IF clip.cut /\ f = clip.f /\ n = clip.n THEN None ELSE disk[f][n]]]
  /\ clip' = (IF clip.cut THEN Nothing ELSE clip)
  /\ Selecting(clip.n) /\ edit' = None
  /\ UNCHANGED <<inPad, changes>> /\ Quietly

-----------------------------------------------------------------------------
(* Others: MiniShell writes and removes files, Notepad has documents open. *)
Other == changes < Changes /\ changes' = changes + 1 /\ UNCHANGED <<shown, clip>> /\ Quietly

Writes(f, n, c) == Other /\ disk[f][n] = None /\ disk' = [disk EXCEPT ![f][n] = c] /\ UNCHANGED inPad
Removes(f, n) == Other /\ disk[f][n] # None /\ disk' = [disk EXCEPT ![f][n] = None] /\ UNCHANGED inPad
Pad(n) ==
  /\ Other /\ (n \in inPad \/ disk[Docs][n] \in Sizes)
  /\ inPad' = IF n \in inPad THEN inPad \ {n} ELSE inPad \cup {n}
  /\ UNCHANGED disk

Init ==
  /\ disk \in [Folder -> [Name -> {None} \cup Sizes]]
  /\ \A f \in Folder, n \in Name : (n \in Fresh \/ f # Docs) => disk[f][n] = None
  /\ \A m, n \in Name : disk[Docs][m] # None /\ disk[Docs][m] = disk[Docs][n] => m = n
  /\ inPad = {} /\ cwd = Docs /\ sort = [key |-> "name", desc |-> FALSE]
  /\ rows = Rows(disk, Docs, sort) /\ sel = 0 /\ armed = 0 /\ edit = None
  /\ clip = Nothing /\ asked = None /\ chosen = None /\ did = Quiet /\ changes = 0

Next ==
  \/ \E i \in 0 .. Len(rows) : Select(i)
  \/ \E f \in Folder : Goto(f)
  \/ \E k \in Keys : SortBy(k)
  \/ \E n \in Name : Key(n) \/ Pad(n)
  \/ Refresh \/ Escape \/ Arm \/ Delete \/ NewFolder \/ BeginRename \/ CommitRename \/ Paste
  \/ \E cut \in BOOLEAN : Copy(cut)
  \/ \E f \in Folder, n \in Name : Removes(f, n) \/ \E c \in Sizes : Writes(f, n, c)

Spec == Init /\ [][Next]_vars

-----------------------------------------------------------------------------
(* The list holds each name once, and the selection is a row of it or none. *)
TypeOK ==
  /\ disk \in [Folder -> [Name -> Held]] /\ cwd \in Folder /\ edit \in Name \cup {None}
  /\ \A i, j \in DOMAIN rows : rows[i].n = rows[j].n => i = j
  /\ sel \in 0 .. Len(rows) /\ armed \in 0 .. Len(rows)

(* What Delete deletes is what it asked about, through sorts, refreshes and
   changes of the folder between the two clicks; and what a rename renames is
   the file it was opened on. *)
DoesAsAskedStep ==
  /\ did'.what = "deleted" => did'.n = asked
  /\ did'.what = "renamed" => did'.n = chosen
DoesAsAsked == [][DoesAsAskedStep]_vars

(* Nothing MiniFiles does writes over a file, or loses one that was not to be
   deleted: what the folders hold stays somewhere. *)
WritesOverNothingStep ==
  changes' = changes /\ did'.what # "deleted" =>
     \A f \in Folder, n \in Name : disk[f][n] # None =>
       \/ disk'[f][n] = disk[f][n]
       \/ \E g \in Folder, m \in Name : disk[g][m] = None /\ disk'[g][m] = disk[f][n]
WritesOverNothing == [][WritesOverNothingStep]_vars

(* A document open in Notepad keeps its name: it is neither deleted nor renamed
   here, unless its row was a folder when it was listed.  (It can be cut and
   pasted into another folder.) *)
OpenStaysStep ==
  did' # did /\ did'.what # "nothing" /\ cwd = Docs /\ Row.what # IsDir /\ did'.n \in inPad => disk'[Docs][did'.n] # None
OpenStays == [][OpenStaysStep]_vars
=============================================================================
