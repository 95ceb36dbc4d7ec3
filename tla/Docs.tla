-------------------------------- MODULE Docs --------------------------------
(***************************************************************************)
(* The documents of /docs: the slot index of kernel/fs.h, the desktop's    *)
(* copy of it, and the Notepad windows that are bound to slots, with       *)
(* MiniFiles, MiniShell and programs that change the same directory.       *)
(*                                                                         *)
(* The file system is the one Mwfs shows it to be: a save or a removal     *)
(* happens as a whole or not at all.  An inode stays in the model because  *)
(* the index keeps its number.  What a text says does not matter, only     *)
(* which of a few texts it is.  A call of the kernel runs to its end       *)
(* before the next event is looked at, so every event is one step.         *)
(***************************************************************************)
EXTENDS Integers, Sequences, FiniteSets

CONSTANTS
  Name, NoName,
  Default,        (* DOC.TXT, DOC (1).TXT, ... as far as they matter          *)
  Slots,          (* FS_MAX_FILES                                             *)
  Wins,           (* NOTEPAD_MAX                                              *)
  Inodes,         (* inodes of the volume                                     *)
  Text, Empty, Gone,
  Careful,        (* TRUE: nobody removes or renames a document that is open  *)
                  (* in Notepad, MiniFiles being the only one that checks     *)
  Fails           (* the file system calls that may fail: "put", "unlink"     *)

(* What the constants must satisfy. *)
ConstantsOK ==
  /\ NoName \notin Name /\ Default \in Seq(Name)
  /\ Slots \in Nat /\ Wins \in Nat \ {0} /\ Inodes \in Nat
  /\ Empty \in Text /\ Gone \notin Text
  /\ Careful \in BOOLEAN /\ Fails \subseteq {"put", "unlink"}

Slot == 1 .. Slots
Win == 1 .. Wins
Ino == 1 .. Inodes
None == 0              (* no slot, no inode; -1 and 0 in the code *)

VARIABLES
  dir,     (* dir[n]: the inode of n in /docs, or None                         *)
  file,    (* file[i]: what inode i holds, or Gone                             *)
  tab,     (* fs_doc_tab and fs_doc_names; a name without a file is reserved   *)
  icon,    (* desktop_file_exists                                              *)
  win,     (* notepads                                                         *)
  home     (* history: the name each window's document was read from or saved to last *)

vars == <<dir, file, tab, icon, win, home>>
disk == <<dir, file>>

NoEntry == [name |-> NoName, used |-> FALSE, ino |-> None]
Closed == [open |-> FALSE, slot |-> None, text |-> Empty, dialog |-> "none"]

First(S) == CHOOSE x \in S : \A y \in S : x <= y
Files == {n \in Name : dir[n] # None}

-----------------------------------------------------------------------------
(* The file system. *)

FreeInos == {i \in Ino : file[i] = Gone}

(* mwfs_file_put(): a new inode, and then the old one goes. *)
Put(n, t) ==
  /\ FreeInos # {}
  /\ dir' = [dir EXCEPT ![n] = First(FreeInos)]
  /\ file' = [i \in Ino |-> IF i = First(FreeInos) THEN t ELSE IF i = dir[n] THEN Gone ELSE file[i]]

Remove(n) == dir' = [dir EXCEPT ![n] = None] /\ file' = [file EXCEPT ![dir[n]] = Gone]

(* mwfs_rename(): a file at the destination is replaced. *)
Rename(n, m) ==
  /\ dir' = [dir EXCEPT ![m] = dir[n], ![n] = None]
  /\ file' = [i \in Ino |-> IF i = dir[m] THEN Gone ELSE file[i]]

-----------------------------------------------------------------------------
(* The slot index. *)

FreeSlots(table) == {s \in Slot : table[s].name = NoName}
SlotOf(n) == {s \in Slot : tab[s].used /\ tab[s].name = n}        (* fs_find_by_name *)

(* A fault for comparison: the table is filled from nothing. *)
RescanAnew(table) ==
  LET files == {n \in Name : dir'[n] # None}
      taken == {s \in Slot : s <= Cardinality(files)}
  IN  \E g \in [taken -> files] :
        /\ \A a, b \in taken : g[a] = g[b] => a = b
        /\ tab' = [s \in Slot |->
             IF s \in taken THEN [name |-> g[s], used |-> TRUE, ino |-> dir'[g[s]]] ELSE NoEntry]

(* fs_rescan_docs(): files whose name is in the table keep their slot, the
   others take the free ones in the order of the directory, and only then are
   slots freed that lost their file.  A reservation is left alone. *)
Rescan(table) ==
  LET files == {n \in Name : dir'[n] # None}
      new == files \ {table[s].name : s \in Slot}
      free == FreeSlots(table)
      taken == {s \in free : Cardinality({x \in free : x < s}) < Cardinality(new)}
  IN  \E g \in [taken -> new] :
        /\ \A a, b \in taken : g[a] = g[b] => a = b
        /\ tab' = [s \in Slot |->
             LET n == IF s \in taken THEN g[s] ELSE table[s].name
             IN  IF n \in files THEN [name |-> n, used |-> TRUE, ino |-> dir'[n]]
                 ELSE IF table[s].used THEN NoEntry ELSE table[s]]

(* term_fs_changed(), fx_resync_desktop(): the index, and the desktop after it. *)
Resync == Rescan(tab) /\ icon' = [s \in Slot |-> tab'[s].used]

(* fs_find_empty_slot(): a free slot with the first default name that is
   neither in the table nor in /docs, or none. *)
FreeDefaults ==
  {k \in DOMAIN Default : Default[k] \notin Files \cup {tab[s].name : s \in Slot}}

EmptySlot == IF FreeSlots(tab) = {} \/ FreeDefaults = {} THEN None ELSE First(FreeSlots(tab))
Reserved(s) == [tab EXCEPT ![s].name = Default[First(FreeDefaults)], ![s].used = FALSE]

(* A fault for comparison: a reservation of the same name stays. *)
StoredToo(table, s, n) ==
  [table EXCEPT ![s] = [name |-> n, used |-> TRUE, ino |-> dir'[n]]]

(* fs_store_named() once the file is written: the slot has the name, no other. *)
Stored(table, s, n) ==
  [x \in Slot |-> IF x = s THEN [name |-> n, used |-> TRUE, ino |-> dir'[n]]
                  ELSE IF table[x].name = n THEN NoEntry ELSE table[x]]

-----------------------------------------------------------------------------
(* Notepad. *)

Bound(s) == {w \in Win : win[w].open /\ win[w].slot = s}          (* find_notepad_bound_to *)

(* save_current_document(): its slot and name, how it ends, and what it does. *)
Target(w) == IF win[w].slot # None THEN win[w].slot ELSE EmptySlot
TargetTab(w) == IF win[w].slot # None THEN tab ELSE Reserved(Target(w))
TargetName(w) == TargetTab(w)[Target(w)].name

SaveEnds(w, r) ==
  IF Target(w) = None THEN "full"
  ELSE IF TargetName(w) = NoName \/ r = "fail" THEN "failed" ELSE "saved"

SaveDoes(w, r) ==
  LET s == Target(w)
  IN  CASE SaveEnds(w, r) = "full" -> UNCHANGED <<disk, tab, icon>>
        [] SaveEnds(w, r) = "failed" ->
             /\ UNCHANGED disk
             /\ tab' = IF tab[s].used THEN tab ELSE [tab EXCEPT ![s] = NoEntry]
             /\ icon' = [icon EXCEPT ![s] = tab[s].used]
        [] SaveEnds(w, r) = "saved" ->
             /\ Put(TargetName(w), win[w].text)
             /\ tab' = Stored(tab, s, TargetName(w))
             /\ icon' = [icon EXCEPT ![s] = TRUE]

(* The ways a write can go: it is refused when there is no room. *)
Outcomes == {"ok"} \cup (IF "put" \in Fails THEN {"fail"} ELSE {})

(* Ctrl+S and File > Save. *)
Save(w, r) ==
  /\ win[w].open /\ win[w].dialog = "none"
  /\ SaveDoes(w, r)
  /\ IF SaveEnds(w, r) = "saved"
       THEN /\ win' = [win EXCEPT ![w].slot = Target(w)]
            /\ home' = [home EXCEPT ![w] = TargetName(w)]
       ELSE UNCHANGED <<win, home>>

(* A fault for comparison: a name that another document has is taken. *)
SaveAsTaken(w, n, r) ==
  /\ win[w].open /\ win[w].dialog = "saveas"
  /\ EmptySlot # None /\ r = "ok"
  /\ Put(n, win[w].text)
  /\ tab' = Stored(Reserved(EmptySlot), EmptySlot, n)
  /\ icon' = [s \in Slot |-> tab'[s].used]
  /\ win' = [win EXCEPT ![w].slot = EmptySlot, ![w].dialog = "none"]
  /\ home' = [home EXCEPT ![w] = n]

(* saveas_do() with the name n: the document's own slot, or a free one.  A
   name that another document has keeps the dialog open. *)
SaveAs(w, n, r) ==
  LET own == SlotOf(n) # {} /\ SlotOf(n) = {win[w].slot}
      s == IF own THEN win[w].slot ELSE EmptySlot
      table == IF own THEN tab ELSE Reserved(s)
  IN  /\ win[w].open /\ win[w].dialog = "saveas"
      /\ own \/ SlotOf(n) = {}
      /\ IF s = None
           THEN UNCHANGED <<disk, tab, icon, home>> /\ win' = [win EXCEPT ![w].dialog = "none"]
         ELSE IF r = "fail"
           THEN /\ UNCHANGED <<disk, home>>
                /\ tab' = table /\ icon' = [icon EXCEPT ![s] = table[s].used]
                /\ win' = [win EXCEPT ![w].dialog = "none"]
           ELSE /\ Put(n, win[w].text)
                /\ tab' = Stored(table, s, n) /\ icon' = [icon EXCEPT ![s] = TRUE]
                /\ win' = [win EXCEPT ![w].slot = s, ![w].dialog = "none"]
                /\ home' = [home EXCEPT ![w] = n]

(* Typing, pasting and the like: the text becomes another one. *)
Edit(w, t) ==
  /\ win[w].open /\ win[w].dialog = "none" /\ t # win[w].text
  /\ win' = [win EXCEPT ![w].text = t]
  /\ UNCHANGED <<disk, tab, icon, home>>

(* The menu, its keys and the X; the X in the taskbar asks whatever is asked. *)
Ask(w, question) ==
  /\ win[w].open /\ (win[w].dialog = "none" \/ question = "close")
  /\ win' = [win EXCEPT ![w].dialog = question]
  /\ UNCHANGED <<disk, tab, icon, home>>

(* A fault for comparison: the buffer keeps its text. *)
LetGoOfSlot(w) ==
  /\ win' = [win EXCEPT ![w].open = win[w].dialog = "new", ![w].slot = None, ![w].dialog = "none"]
  /\ home' = [home EXCEPT ![w] = NoName]

(* The text and its slot are let go, with the window or without it. *)
LetGo(w) ==
  /\ win' = [win EXCEPT ![w] = [Closed EXCEPT !.open = win[w].dialog = "new"]]
  /\ home' = [home EXCEPT ![w] = NoName]

(* A fault for comparison: the window goes even if the write failed. *)
YesRegardless(w, r) ==
  /\ win[w].open /\ win[w].dialog \in {"new", "close"}
  /\ SaveDoes(w, r)
  /\ LetGo(w)

(* confirm_yes_action(): a write that failed keeps the window and its text, an
   index without a free slot does not. *)
Yes(w, r) ==
  /\ win[w].open /\ win[w].dialog \in {"new", "close"}
  /\ SaveDoes(w, r)
  /\ IF SaveEnds(w, r) = "failed"
       THEN win' = [win EXCEPT ![w].dialog = "none"] /\ UNCHANGED home
       ELSE LetGo(w)

(* confirm_no_action(); the X of the dialog, and Cancel of Save As. *)
No(w) ==
  /\ win[w].open /\ win[w].dialog \in {"new", "close"}
  /\ LetGo(w)
  /\ UNCHANGED <<disk, tab, icon>>

Dismiss(w) ==
  /\ win[w].open /\ win[w].dialog # "none"
  /\ win' = [win EXCEPT ![w].dialog = "none"]
  /\ UNCHANGED <<disk, tab, icon, home>>

FreeWins == {w \in Win : ~win[w].open}

OpenBlank ==
  /\ FreeWins # {}
  /\ win' = [win EXCEPT ![First(FreeWins)] = [Closed EXCEPT !.open = TRUE]]
  /\ home' = [home EXCEPT ![First(FreeWins)] = NoName]
  /\ UNCHANGED <<disk, tab, icon>>

(* A fault for comparison: a document may be open in two windows. *)
OpenTwice(s) ==
  /\ icon[s] \/ tab[s].used
  /\ FreeWins # {}
  /\ tab[s].used /\ file[tab[s].ino] # Gone
  /\ win' = [win EXCEPT ![First(FreeWins)] =
               [open |-> TRUE, slot |-> s, text |-> file[tab[s].ino], dialog |-> "none"]]
  /\ home' = [home EXCEPT ![First(FreeWins)] = tab[s].name]
  /\ UNCHANGED <<disk, tab, icon>>

(* open_document_slot(), from the desktop or MiniFiles: a document that is open
   is brought to the front, one that cannot be read is refused. *)
OpenDocument(s) ==
  /\ icon[s] \/ tab[s].used
  /\ Bound(s) = {} /\ FreeWins # {}
  /\ tab[s].used /\ file[tab[s].ino] # Gone
  /\ win' = [win EXCEPT ![First(FreeWins)] =
               [open |-> TRUE, slot |-> s, text |-> file[tab[s].ino], dialog |-> "none"]]
  /\ home' = [home EXCEPT ![First(FreeWins)] = tab[s].name]
  /\ UNCHANGED <<disk, tab, icon>>

-----------------------------------------------------------------------------
(* The others. *)

InNotepad(n) == \E s \in SlotOf(n) : Bound(s) # {}
Leaves(n) == Careful => ~InNotepad(n)

(* cp, mv into /docs, touch, a paste of MiniFiles, a program's file_write. *)
OthersWrite(n, t) ==
  /\ Leaves(n)
  /\ Put(n, t) /\ Resync
  /\ UNCHANGED <<win, home>>

(* rm, mv out of /docs, a Cut and Paste of MiniFiles, a program's file_delete. *)
OthersRemove(n) ==
  /\ n \in Files /\ Leaves(n)
  /\ Remove(n) /\ Resync
  /\ UNCHANGED <<win, home>>

OthersRename(n, m) ==
  /\ n \in Files /\ n # m /\ Leaves(n) /\ Leaves(m)
  /\ Rename(n, m) /\ Resync
  /\ UNCHANGED <<win, home>>

(* fx_delete_action(): not while the document is open in Notepad. *)
FilesDelete(n) ==
  /\ n \in Files /\ ~InNotepad(n)
  /\ Remove(n) /\ Resync
  /\ UNCHANGED <<win, home>>

(* term_cmd_del(): by number; the icon goes whether the file went or not. *)
Del(s) ==
  /\ tab[s].used /\ Leaves(tab[s].name)
  /\ \/ Remove(tab[s].name) /\ tab' = [tab EXCEPT ![s] = NoEntry]
     \/ "unlink" \in Fails /\ UNCHANGED <<disk, tab>>
  /\ icon' = [icon EXCEPT ![s] = FALSE]
  /\ UNCHANGED <<win, home>>

(* A restart: the windows are gone and the index is made anew. *)
Boot ==
  /\ UNCHANGED disk
  /\ Rescan([s \in Slot |-> NoEntry])
  /\ icon' = [s \in Slot |-> tab'[s].used]
  /\ win' = [w \in Win |-> Closed]
  /\ home' = [w \in Win |-> NoName]

-----------------------------------------------------------------------------
Init ==
  /\ dir = [n \in Name |-> None] /\ file = [i \in Ino |-> Gone]
  /\ tab = [s \in Slot |-> NoEntry] /\ icon = [s \in Slot |-> FALSE]
  /\ win = [w \in Win |-> Closed] /\ home = [w \in Win |-> NoName]

Next ==
  \/ \E w \in Win, r \in Outcomes : Save(w, r) \/ Yes(w, r) \/ \E n \in Name : SaveAs(w, n, r)
  \/ \E w \in Win : No(w) \/ Dismiss(w) \/ \E q \in {"new", "close", "saveas"} : Ask(w, q)
  \/ \E w \in Win, t \in Text : Edit(w, t)
  \/ OpenBlank \/ Boot
  \/ \E s \in Slot : OpenDocument(s) \/ Del(s)
  \/ \E n \in Name, t \in Text : OthersWrite(n, t)
  \/ \E n \in Name : OthersRemove(n) \/ FilesDelete(n) \/ \E m \in Name : OthersRename(n, m)

Spec == Init /\ [][Next]_vars

-----------------------------------------------------------------------------
(* Properties. *)

(* Two documents never share an inode, and a window without a document is
   blank. *)
TypeOK ==
  /\ dir \in [Name -> Ino \cup {None}] /\ file \in [Ino -> Text \cup {Gone}]
  /\ \A n, m \in Files : file[dir[n]] # Gone /\ (dir[n] = dir[m] => n = m)
  /\ tab \in [Slot -> [name : Name \cup {NoName}, used : BOOLEAN, ino : Ino \cup {None}]]
  /\ win \in [Win -> [open : BOOLEAN, slot : Slot \cup {None}, text : Text,
                      dialog : {"none", "new", "close", "saveas"}]]
  /\ \A w \in Win : ~win[w].open => win[w] = Closed

(* After every event each used slot stands for one file of /docs, with the
   inode it has now, no name is in two slots, and the desktop shows just the
   used slots (fs_rescan_docs, fs_store_named, fs_delete_slot and the copies
   their callers keep). *)
IndexMatches ==
  /\ \A s \in Slot : tab[s].used => tab[s].name \in Files /\ tab[s].ino = dir[tab[s].name]
  /\ \A s, x \in Slot : tab[s].name = tab[x].name /\ tab[s].name # NoName => s = x
  /\ \A s \in Slot : icon[s] = tab[s].used

(* A slot a window is bound to stands for the document the window shows, and
   for no other window ("a second, independently editable copy of the same file
   ... would just race on Save", find_notepad_bound_to). *)
BoundToItsDocument ==
  \A w \in Win : win[w].open /\ win[w].slot # None =>
    /\ tab[win[w].slot].used /\ tab[win[w].slot].name = home[w]
    /\ Bound(win[w].slot) = {w}

(* A save of Notepad changes no document of the index but the window's own:
   "Save keeps the document's own" name (README.md), and Save As refuses the
   name of another one (saveas_do looks it up in the index). *)
SavesOnlyItsOwnStep ==
  \A w \in Win, r \in Outcomes :
     Save(w, r) \/ Yes(w, r) \/ (\E n \in Name : SaveAs(w, n, r))
       => \A n \in Files : SlotOf(n) # {} /\ dir'[n] # dir[n] => n = home[w]
SavesOnlyItsOwn == [][SavesOnlyItsOwnStep]_vars

(* "Yes, save it" lets go of a text only when it is in a file, or when there is
   no slot left (confirm_yes_action: "that would throw away the only copy"). *)
YesKeepsTextStep ==
  \A w \in Win, r \in Outcomes :
     Yes(w, r) /\ Target(w) # None /\ win'[w].text # win[w].text
       => \E n \in Name : dir'[n] # None /\ file'[dir'[n]] = win[w].text
YesKeepsText == [][YesKeepsTextStep]_vars

(* "Slots keep their number as long as their file keeps its name"
   (fs_rescan_docs), whatever else happens to /docs. *)
SlotsKeepTheirNumberStep ==
  \A s \in Slot : tab[s].used /\ dir'[tab[s].name] # None
     => Boot \/ (tab'[s].used /\ tab'[s].name = tab[s].name)
SlotsKeepTheirNumber == [][SlotsKeepTheirNumberStep]_vars
=============================================================================
