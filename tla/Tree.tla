-------------------------------- MODULE Tree --------------------------------
(***************************************************************************)
(* The folder tree of MiniFiles (kernel/apps/minifiles.h): the shown       *)
(* folders as one array in the order of the screen, in which every node    *)
(* keeps the index of its parent.  Opening a folder inserts its folders    *)
(* behind it, closing it removes them, and all indices behind move.        *)
(* The directories themselves change meanwhile, by MiniShell and programs, *)
(* which say nothing to this window.                                       *)
(***************************************************************************)
EXTENDS Integers, Sequences, FiniteSets, SequencesExt

CONSTANTS
  Name,       (* names of folders, as numbers in the order of fx_namecmp   *)
  Deep,       (* how deep folders are nested                                *)
  TreeMax,    (* FX_TREE_MAX                                                *)
  SavedMax    (* FX_SAVED_MAX                                               *)

(* What the constants must satisfy. *)
ConstantsOK == Name \subseteq Nat /\ {Deep, TreeMax, SavedMax} \subseteq Nat /\ TreeMax > 0

Path == UNION {[1 .. d -> Name] : d \in 0 .. Deep}
Root == <<>>

VARIABLES
  dirs,    (* the folders there are: paths                                   *)
  tree,    (* fx_tree: name, parent, depth, expanded, has_kids               *)
  sel,     (* fx_tree_sel                                                    *)
  cwd      (* fx_cwd                                                         *)

vars == <<dirs, tree, sel, cwd>>

KidsOf(p) == {n \in Name : Append(p, n) \in dirs}

(* fx_node_path() *)
PathOf(t, i) ==
  LET up[j \in 1 .. Len(t)] == IF j = 1 THEN Root ELSE Append(up[t[j].parent], t[j].name)
  IN  up[i]

(* The nodes below i are those behind it that are deeper. *)
Below(t, i) == {j \in i + 1 .. Len(t) : \A k \in i + 1 .. j : t[k].depth > t[i].depth}

(* A tree on its way: the array, what is selected, and where a walk is. *)
View(t, s, at) == [t |-> t, sel |-> s, at |-> at]

Kept(t, i) == SubSeq(t, 1, i)
Opened(x, k) == [x EXCEPT !.expanded = k]

(* A fault for comparison: the parents behind do not move. *)
ParentsStay(s, from, by) == s

(* Nodes that move take the index of their parent along, if it moves too. *)
Shifted(s, from, by) ==
  [j \in DOMAIN s |-> IF s[j].parent > from THEN [s[j] EXCEPT !.parent = @ + by] ELSE s[j]]

(* A fault for comparison: the selection does not move. *)
SelStays(s, from, by) == s

(* A selection behind moves too. *)
SelAfter(s, from, by) == IF s > from THEN s + by ELSE s

(* fx_expand(), as far as the array has room. *)
Expanded(v, i) ==
  LET t == v.t
      p == PathOf(t, i)
      kids == SetToSortSeq(KidsOf(p), <)
      room == TreeMax - Len(t)
      cnt == IF Len(kids) < room THEN Len(kids) ELSE room
  IN  IF t[i].expanded \/ ~t[i].kids \/ p \notin dirs \/ cnt <= 0 THEN v
      ELSE [v EXCEPT
        !.t = Append(Kept(t, i - 1), Opened(t[i], TRUE))
                \o [k \in 1 .. cnt |-> [name |-> kids[k], parent |-> i, depth |-> t[i].depth + 1,
                                        expanded |-> FALSE, kids |-> KidsOf(Append(p, kids[k])) # {}]]
                \o Shifted(SubSeq(t, i + 1, Len(t)), i, cnt),
        !.sel = SelAfter(@, i, cnt)]

(* fx_collapse() *)
Collapsed(v, i) ==
  LET t == v.t
      k == Cardinality(Below(t, i))
  IN  IF ~t[i].expanded THEN v
      ELSE [v EXCEPT
        !.t = Append(Kept(t, i - 1), Opened(t[i], FALSE)) \o Shifted(SubSeq(t, i + k + 1, Len(t)), i + k, -k),
        !.sel = IF @ > i /\ @ <= i + k THEN i ELSE SelAfter(@, i + k, -k)]

(* fx_find_child(), 0 for none *)
Child(t, i, n) ==
  LET found == {j \in Below(t, i) : t[j].parent = i /\ t[j].name = n}
  IN  IF found = {} THEN 0 ELSE CHOOSE j \in found : \A k \in found : j <= k

(* fx_tree_walk(): down the path as far as it is shown, opening folders. *)
Walked(v, path, last) ==
  LET down[k \in 0 .. Len(path)] ==
        IF k = 0 THEN [v |-> IF path # Root \/ last THEN Expanded([v EXCEPT !.at = 1], 1) ELSE [v EXCEPT !.at = 1], on |-> TRUE]
        ELSE LET w == down[k - 1].v
                 w2 == IF Child(w.t, w.at, path[k]) # 0 THEN w ELSE Expanded(w, w.at)
                 c == Child(w2.t, w2.at, path[k])
             IN  IF ~down[k - 1].on THEN down[k - 1]
                 ELSE IF c = 0 THEN [v |-> w2, on |-> FALSE]
                 ELSE LET w3 == [w2 EXCEPT !.at = c]
                      IN  [v |-> IF k < Len(path) \/ last THEN Expanded(w3, c) ELSE w3, on |-> TRUE]
  IN  down[Len(path)].v

(* fx_tree_reset() *)
Fresh == View(<<[name |-> 0, parent |-> 0, depth |-> 0, expanded |-> FALSE, kids |-> KidsOf(Root) # {}]>>, 1, 1)

Now == View(tree, sel, sel)
Shows(v) == tree' = v.t /\ sel' = v.sel
Selects(v) == tree' = v.t /\ sel' = v.at

-----------------------------------------------------------------------------
(* The +/- box and the double click. *)
Toggle(i) ==
  /\ tree[i].kids
  /\ Shows(IF tree[i].expanded THEN Collapsed(Now, i) ELSE Expanded(Now, i))
  /\ UNCHANGED <<dirs, cwd>>

(* fx_goto(), which refuses a folder that is gone: by a click in the tree, a
   row of the list, or up. *)
Goto(p) ==
  /\ p \in dirs /\ cwd' = p
  /\ Selects(Walked(Now, p, FALSE)) /\ UNCHANGED dirs

Click(i) == Goto(PathOf(tree, i))
OpenRow(n) == n \in KidsOf(cwd) /\ Goto(Append(cwd, n))
Up == cwd # Root /\ Goto(Front(cwd))

(* fx_refresh_all(): the open folders are opened again, the first SavedMax of
   them, and the window goes to the root when its folder is gone. *)
Refresh ==
  LET open == SelectSeq([i \in DOMAIN tree |-> i], LAMBDA i : tree[i].expanded)
      saved == [k \in 1 .. (IF Len(open) < SavedMax THEN Len(open) ELSE SavedMax) |-> PathOf(tree, open[k])]
      again[k \in 0 .. Len(saved)] == IF k = 0 THEN Fresh ELSE Walked(again[k - 1], saved[k], TRUE)
  IN  /\ cwd' = IF cwd \in dirs THEN cwd ELSE Root
      /\ Selects(Walked(again[Len(saved)], cwd', FALSE)) /\ UNCHANGED dirs

(* Somebody else makes or removes a folder; the window does not know. *)
Make(p) == p # Root /\ p \notin dirs /\ Front(p) \in dirs /\ dirs' = dirs \cup {p} /\ UNCHANGED <<tree, sel, cwd>>
Unmake(p) == p # Root /\ p \in dirs /\ KidsOf(p) = {} /\ dirs' = dirs \ {p} /\ UNCHANGED <<tree, sel, cwd>>

(* files_open_window(), the first time. *)
Init ==
  /\ dirs \in {{Root} \cup {<<n>> : n \in Name}}
  /\ tree = Expanded(Fresh, 1).t /\ sel = 1 /\ cwd = Root

Next ==
  \/ \E i \in DOMAIN tree : Toggle(i) \/ Click(i)
  \/ \E n \in Name : OpenRow(n)
  \/ Up \/ Refresh
  \/ \E p \in Path : Make(p) \/ Unmake(p)

Spec == Init /\ [][Next]_vars

-----------------------------------------------------------------------------
(* The array fits, and what it says of a node is right. *)
TypeOK ==
  /\ Len(tree) \in 1 .. TreeMax /\ sel \in DOMAIN tree /\ cwd \in Path
  /\ Root \in dirs /\ dirs \subseteq Path

(* The array is the tree it draws: a node's parent is the last node before it
   that is one less deep, folders are in order and none is there twice, and
   exactly the open ones have something below them. *)
IsTree ==
  /\ \A i \in 2 .. Len(tree) :
       LET p == tree[i].parent
       IN  /\ p \in 1 .. i - 1 /\ i \in Below(tree, p) /\ tree[i].depth = tree[p].depth + 1
           /\ \A j \in i + 1 .. Len(tree) : tree[j].parent = p => tree[j].name > tree[i].name
  /\ \A i \in DOMAIN tree : tree[i].expanded <=> Below(tree, i) # {}

(* The node that is marked is the folder whose contents are listed, or a
   folder above it, however the tree around it is opened
   and closed. *)
MarksTheFolder == IsPrefix(PathOf(tree, sel), cwd)
=============================================================================
