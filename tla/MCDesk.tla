------------------------------- MODULE MCDesk -------------------------------
(* The desktop: windows and their frames, scroll bars, MiniFiles, MiniShell, Notepad's
   typing and its documents.  Each part takes what the others do as any input, so a behaviour
   runs one of them, chosen at the start. *)
EXTENDS Integers, Sequences, FiniteSets, WellFoundedInduction, TLAPS

CONSTANTS
  Parts,                                                          (* the parts a run explores *)
  ScreenW, ScreenH, TaskbarH, TitleH, BtnW, Gap, Inset, Margin,   (* of Frame  *)
  MinW, MinH, Sliver, MouseX, MouseY, Starts, Gestures,
  Arrow, MinThumb, WheelLines, Bars, Totals, Pages, Lines,        (* of Scroll *)
  Notes, Plain, Explorer, Prog, NoWin,                            (* of Desk   *)
  Pw, Disk, RowCount, Jobs, NoTask, Patient,                      (* of Shell  *)
  Name, NoName, Default, Slots, Wins, Inodes, Text, EmptyText, Gone, Careful, Fails, (* of Docs *)
  Consonants, Vowels, Length,                                     (* of Hangul *)
  Pads, Size, ClipMax, Stamp, Edits, Settles,                     (* of Typing *)
  FolderNames, Deep, TreeMax, SavedMax,                                (* of Tree   *)
  Docs, Others, FileNames, NewNames, Keys, Sizes, Changes              (* of Files  *)

VARIABLES part, frame, back, grab, pressed, at, count, before,
          bar, pos, drag, held,
          opened, mini, stack, asks, menu, down, hold, popup, clicked, lately,
          shown, on, root, mode, entry, line, stored, question, inst, ring, head, progress, earned, asking, jobs, said,
          dir, file, tab, icon, wins, home,
          now, text, keys,
          buf, undo, typing, selAll, ask, pads, focus, ime, comp, cut, saved, meant, was, running, known, edits,
          dirs, tree, marked, folder,
          folders, inPad, cwd, rows, sel, armed, edit, sort, clip, asked, chosen, did, changes

frameVars == <<frame, back, grab, pressed, at, count, before>>
barVars == <<bar, pos, drag, held>>
deskVars == <<opened, mini, stack, asks, menu, down, hold, popup, clicked, lately>>
shellVars == <<shown, on, root, mode, entry, line, stored, question, inst, ring, head, progress, earned, asking, jobs, said>>
docVars == <<dir, file, tab, icon, wins, home>>
hangulVars == <<now, text, keys>>
typingVars == <<buf, undo, typing, selAll, ask, pads, focus, ime, comp, cut, saved, meant, was, running, known, edits>>
treeVars == <<dirs, tree, marked, folder>>
filesVars == <<folders, inPad, cwd, rows, sel, armed, edit, sort, clip, asked, chosen, did, changes>>

Frm == INSTANCE Frame WITH win <- frame, armed <- pressed
Bar == INSTANCE Scroll WITH grab <- drag
Dsk == INSTANCE Desk WITH
  Files <- Explorer, open <- opened, ask <- asks, armed <- down, first <- clicked, last <- lately
Shl == INSTANCE Shell WITH Rows <- RowCount, None <- NoTask, open <- shown, first <- entry, last <- asking
Doc == INSTANCE Docs WITH Empty <- EmptyText, win <- wins
Syl == INSTANCE Hangul
Typ == INSTANCE Typing WITH
  Win <- Pads, open <- pads, clip <- cut, disk <- saved, before <- was
Tre == INSTANCE Tree WITH Name <- FolderNames, sel <- marked, cwd <- folder
Fil == INSTANCE Files WITH Name <- FileNames, Fresh <- NewNames, disk <- folders

(* For Starts and Default: a window, and the two names a first save may take. *)
OneSize == {[x |-> 2, y |-> 1, w |-> 13, h |-> 6]}
Names == <<"DOC.TXT", "DOC1.TXT">>

ASSUME InstancesOK ==
  /\ Frm!ConstantsOK /\ Bar!ConstantsOK /\ Dsk!ConstantsOK /\ Shl!ConstantsOK /\ Doc!ConstantsOK
  /\ Syl!ConstantsOK /\ Typ!ConstantsOK /\ Tre!ConstantsOK /\ Fil!ConstantsOK

(* The parts that do not run start in one state and not in each. *)
Init ==
  /\ part \in Parts
  /\ Frm!Init /\ (part # "frame" => frame = CHOOSE s \in Starts : TRUE)
  /\ Bar!Init /\ (part # "scrollbar" => bar = CHOOSE b \in [h : Bars, total : Totals, page : Pages, line : Lines] : TRUE)
  /\ Dsk!Init /\ Shl!Init /\ Doc!Init /\ Syl!Init /\ Typ!Init /\ Tre!Init
  /\ Fil!Init /\ (part # "files" => \A f \in DOMAIN folders, n \in FileNames : folders[f][n] = 0)

InFrame(A) == part = "frame" /\ A /\ UNCHANGED <<part, barVars, deskVars, shellVars, docVars, hangulVars, typingVars, treeVars, filesVars>>
InBar(A) == part = "scrollbar" /\ A /\ UNCHANGED <<part, frameVars, deskVars, shellVars, docVars, hangulVars, typingVars, treeVars, filesVars>>
InDesk(A) == part = "desk" /\ A /\ UNCHANGED <<part, frameVars, barVars, shellVars, docVars, hangulVars, typingVars, treeVars, filesVars>>
InShell(A) == part = "shell" /\ A /\ UNCHANGED <<part, frameVars, barVars, deskVars, docVars, hangulVars, typingVars, treeVars, filesVars>>
InDocs(A) == part = "documents" /\ A /\ UNCHANGED <<part, frameVars, barVars, deskVars, shellVars, hangulVars, typingVars, treeVars, filesVars>>
InHangul(A) == part = "hangul" /\ A /\ UNCHANGED <<part, frameVars, barVars, deskVars, shellVars, docVars, typingVars, treeVars, filesVars>>
InTyping(A) == part = "typing" /\ A /\ UNCHANGED <<part, frameVars, barVars, deskVars, shellVars, docVars, hangulVars, treeVars, filesVars>>
InTree(A) == part = "tree" /\ A /\ UNCHANGED <<part, frameVars, barVars, deskVars, shellVars, docVars, hangulVars, typingVars, filesVars>>
InFiles(A) == part = "files" /\ A /\ UNCHANGED <<part, frameVars, barVars, deskVars, shellVars, docVars, hangulVars, typingVars, treeVars>>

Next ==
  \/ InFrame(Frm!Next) \/ InBar(Bar!Next) \/ InDesk(Dsk!Next) \/ InShell(Shl!Next) \/ InDocs(Doc!Next)
  \/ InHangul(Syl!Next) \/ InTyping(Typ!Next) \/ InTree(Tre!Next) \/ InFiles(Fil!Next)

vars == <<part, frameVars, barVars, deskVars, shellVars, docVars, hangulVars, typingVars, treeVars, filesVars>>
Spec == Init /\ [][Next]_vars

(* The properties; each named part of them is stated, with the code it is about, in the
   module it comes from.  The types of the state of every part. *)
TypeOK ==
  /\ part = "frame" => Frm!TypeOK
  /\ part = "scrollbar" => Bar!TypeOK
  /\ part = "desk" => Dsk!TypeOK
  /\ part = "shell" => Shl!TypeOK
  /\ part = "documents" => Doc!TypeOK
  /\ part = "hangul" => Syl!TypeOK
  /\ part = "typing" => Typ!TypeOK
  /\ part = "tree" => Tre!TypeOK
  /\ part = "files" => Fil!TypeOK

(* Windows stay within reach, are drawn in one order and have one focus; a scroll bar
   reaches both ends of what it scrolls. *)
WindowsStand ==
  /\ part = "frame" => Frm!ComesBack /\ Frm!SidesNearlyStay
  /\ part = "scrollbar" => Bar!EndsReached
  /\ part = "desk" => Dsk!StackMatches /\ Dsk!FocusIsLast

(* Who is root has shown the password, which is never echoed; a slot of the index and its
   icon stand for one file, and a window for one document. *)
SessionsTrue ==
  /\ part = "shell" => Shl!NeverEchoed /\ Shl!RootIsEarned
  /\ part = "documents" => Doc!IndexMatches /\ Doc!BoundToItsDocument

(* What is typed is what there is: syllables as they are spelt, a text of what its keys
   meant; the tree is one of the folders there are, with the mark on the one that is shown. *)
TypedIsMeant ==
  /\ part = "hangul" => Syl!AsSpelt /\ Syl!TablesAgree
  /\ part = "typing" => Typ!AsTyped
  /\ part = "tree" => Tre!IsTree /\ Tre!MarksTheFolder

(* Steps of the desktop: a window can be moved again after any gesture, the thumb follows
   the hand, a window with a question closes by its answer; an installation starts as it
   was asked for, and its progress writes on its own line only; a save changes the document the
   window is of, Yes keeps the text, and a slot keeps its number. *)
GestureStep ==
  /\ part = "frame" => Frm!MovableAgainStep
  /\ part = "scrollbar" => Bar!ThumbFollowsStep
  /\ part = "desk" => Dsk!ClosesByAnswerStep
  /\ part = "shell" => Shl!StartsAsAskedStep /\ Shl!OwnLineOnlyStep
  /\ part = "documents" => Doc!SavesOnlyItsOwnStep /\ Doc!YesKeepsTextStep /\ Doc!SlotsKeepTheirNumberStep
GesturesObeyed == [][GestureStep]_vars

(* Steps that change texts and files: a save writes what is shown; MiniFiles does what was
   asked to what was chosen, writes over nothing and leaves an open document alone. *)
FilesSafe ==
  [][/\ part = "typing" => Typ!SavesWhatIsShownStep
     /\ part = "files" => Fil!DoesAsAskedStep /\ Fil!WritesOverNothingStep /\ Fil!OpenStaysStep]_vars

-----------------------------------------------------------------------------
(* Frames of windows.  What the properties rest on. *)

Places == [x : Int, y : Nat, w : Int, h : Int]
Large(g) == g \in Places /\ g.w >= MinW /\ g.h >= MinH

LEMMA Metrics ==
  ASSUME Frm!ConstantsOK
  PROVE  /\ ScreenW \in Nat /\ ScreenH \in Nat /\ TaskbarH \in Nat /\ TitleH \in Nat /\ BtnW \in Nat /\ Gap \in Nat
         /\ Inset \in Nat /\ Margin \in Nat /\ MinW \in Nat /\ MinH \in Nat /\ Sliver \in Nat /\ Gestures \in Nat
         /\ MinW <= ScreenW /\ Sliver <= MinW /\ TaskbarH + MinH <= ScreenH /\ TitleH <= MinH
         /\ 2 * Margin + 1 < MinH /\ Margin + 1 < TitleH /\ Margin < Inset + BtnW /\ Inset + BtnW < Sliver /\ Gap > 0
         /\ Inset + 3 * BtnW + 2 * Gap + Margin + 1 < MinW
  BY DEF Frm!ConstantsOK

(* The whole screen, and no place at all. *)
LEMMA Whole ==
  ASSUME Frm!ConstantsOK
  PROVE  /\ Large(Frm!Full) /\ Frm!NoPlace \in Places /\ Frm!NoPlace.w = 0 /\ ~Large(Frm!NoPlace)
<1>1. /\ ScreenW \in Nat /\ ScreenH \in Nat /\ TaskbarH \in Nat /\ MinW \in Nat /\ MinH \in Nat /\ Margin \in Nat
      /\ MinW <= ScreenW /\ TaskbarH + MinH <= ScreenH /\ 2 * Margin + 1 < MinH
      /\ Inset \in Nat /\ BtnW \in Nat /\ Gap \in Nat /\ Inset + 3 * BtnW + 2 * Gap + Margin + 1 < MinW
  BY Metrics
<1>2. MinW > 0 /\ ScreenH - TaskbarH >= MinH  BY <1>1
<1>3. Frm!Full \in Places /\ Frm!Full.w = ScreenW /\ Frm!Full.h = ScreenH - TaskbarH  BY <1>1 DEF Frm!Full, Places
<1>4. Frm!NoPlace \in Places /\ Frm!NoPlace.w = 0  BY DEF Frm!NoPlace, Places
<1> QED  BY <1>1, <1>2, <1>3, <1>4 DEF Large

(* A press at a free column and row of the title bar moves the window. *)
LEMMA MovesFrom ==
  ASSUME Frm!ConstantsOK, NEW g, Large(g), NEW q \in Frm!Point,
         q.y = g.y + Margin + 1,
         q.x > g.x + Margin, q.x < g.x + g.w - Margin, q.x <= g.x + g.w - 2,
         \A k \in 1 .. 3 : q.x < Frm!BtnX(k, g) \/ q.x >= Frm!BtnX(k, g) + BtnW
  PROVE  Frm!Begins(q, g, FALSE) = "move"
<1>1. /\ ScreenW \in Nat /\ ScreenH \in Nat /\ TitleH \in Nat /\ BtnW \in Nat /\ Inset \in Nat
      /\ Margin \in Nat /\ MinW \in Nat /\ MinH \in Nat /\ 2 * Margin + 1 < MinH /\ Margin + 1 < TitleH
  BY Metrics
<1>2. /\ g.x \in Int /\ g.y \in Nat /\ g.w \in Int /\ g.h \in Int /\ g.h >= MinH  BY DEF Large, Places
<1>3. q.x \in Int /\ q.y \in Int  BY <1>1 DEF Frm!Point
<1>4. ~Frm!Near(q.x, g.x) /\ ~Frm!Near(q.x, g.x + g.w)  BY <1>1, <1>2, <1>3 DEF Frm!Near
<1>5. ~Frm!Near(q.y, g.y) /\ ~Frm!Near(q.y, g.y + g.h)  BY <1>1, <1>2, <1>3 DEF Frm!Near
<1>6. Frm!Zone(q, g) = {}  BY <1>4, <1>5 DEF Frm!Zone
<1>7. Frm!HoverZone(q, g, FALSE) = {}  BY <1>6 DEF Frm!HoverZone
<1>8. Frm!Claims(q, g)  BY <1>1, <1>2, <1>3 DEF Frm!Claims, Frm!InRect
<1>9. \A k \in 1 .. 3 : ~Frm!OverBtn(k, q, g)
  <2> TAKE k \in 1 .. 3
  <2>1. ~(q.x >= Frm!BtnX(k, g) /\ q.x < Frm!BtnX(k, g) + BtnW)
    <3>1. Frm!BtnX(k, g) \in Int
      <4>1. Gap \in Nat  BY Metrics
      <4>2. k * BtnW \in Int /\ (k - 1) * Gap \in Int  BY <1>1, <4>1
      <4> QED  BY <1>1, <1>2, <4>2 DEF Frm!BtnX
    <3>2. q.x < Frm!BtnX(k, g) \/ q.x >= Frm!BtnX(k, g) + BtnW  OBVIOUS
    <3> HIDE DEF Frm!BtnX
    <3> QED  BY <1>1, <1>3, <3>1, <3>2
  <2> QED  BY <2>1 DEF Frm!OverBtn, Frm!InRect
<1>10. Frm!InRect(q, g.x + 1, g.y + 1, g.w - 2, TitleH)
  BY <1>1, <1>2, <1>3 DEF Frm!InRect
<1>11. ~Frm!OverMax(q, g) /\ Frm!OverTitle(q, g)
  <2>1. 2 \in 1 .. 3  OBVIOUS
  <2> HIDE DEF Frm!OverBtn, Frm!InRect
  <2>2. ~Frm!OverBtn(2, q, g)  BY <1>9, <2>1
  <2>3. ~Frm!OverMax(q, g)  BY <2>2 DEF Frm!OverMax
  <2>4. Frm!OverTitle(q, g)  BY <1>9, <1>10 DEF Frm!OverTitle
  <2> QED  BY <2>3, <2>4
<1> QED  BY <1>7, <1>8, <1>11 DEF Frm!Begins

(* Wherever a drag leaves a window there is such a place. *)
LEMMA CanMove ==
  ASSUME Frm!ConstantsOK, NEW g, Large(g),
         g.x >= -(g.w - Sliver), g.x <= ScreenW - Sliver, g.y <= ScreenH - TaskbarH - TitleH
  PROVE  \E q \in Frm!Point : q.y < ScreenH - TaskbarH /\ Frm!Begins(q, g, FALSE) = "move"
<1>1. /\ ScreenW \in Nat /\ ScreenH \in Nat /\ TaskbarH \in Nat /\ TitleH \in Nat /\ BtnW \in Nat /\ Gap \in Nat
      /\ Inset \in Nat /\ Margin \in Nat /\ MinW \in Nat /\ MinH \in Nat /\ Sliver \in Nat
      /\ MinW <= ScreenW /\ TaskbarH + MinH <= ScreenH /\ TitleH <= MinH
      /\ 2 * Margin + 1 < MinH /\ Margin + 1 < TitleH /\ Margin < Inset + BtnW /\ Inset + BtnW < Sliver /\ Gap > 0
      /\ Inset + 3 * BtnW + 2 * Gap + Margin + 1 < MinW
  BY Metrics
<1>2. /\ g.x \in Int /\ g.y \in Nat /\ g.w \in Int /\ g.h \in Int /\ g.w >= MinW /\ g.h >= MinH  BY DEF Large, Places
<1> DEFINE y == g.y + Margin + 1  c == g.x + g.w - Inset - BtnW - 1
<1>3. y \in 0 .. ScreenH - 1 /\ y < ScreenH - TaskbarH  BY <1>1, <1>2
<1>4. /\ Frm!BtnX(1, g) = g.x + g.w - Inset - BtnW
      /\ Frm!BtnX(2, g) = g.x + g.w - Inset - 2 * BtnW - Gap
      /\ Frm!BtnX(3, g) = g.x + g.w - Inset - 3 * BtnW - 2 * Gap
  BY <1>1, <1>2 DEF Frm!BtnX
<1>5. CASE c < ScreenW
  <2> DEFINE q == [x |-> c, y |-> y]
  <2>1. c \in 0 .. ScreenW - 1  BY <1>1, <1>2, <1>5
  <2>2. q \in Frm!Point /\ q.x = c /\ q.y = y  BY <1>3, <2>1 DEF Frm!Point
  <2>3. c > g.x + Margin /\ c < g.x + g.w - Margin /\ c <= g.x + g.w - 2  BY <1>1, <1>2
  <2>4. c < Frm!BtnX(1, g) /\ c >= Frm!BtnX(2, g) + BtnW /\ c >= Frm!BtnX(3, g) + BtnW  BY <1>1, <1>2, <1>4
  <2>5. \A k \in 1 .. 3 : c < Frm!BtnX(k, g) \/ c >= Frm!BtnX(k, g) + BtnW
    <3> TAKE k \in 1 .. 3
    <3>1. k = 1 \/ k = 2 \/ k = 3  OBVIOUS
    <3> QED  BY <2>4, <3>1
  <2> HIDE DEF q, c, y
  <2>6. q.y = g.y + Margin + 1  BY <2>2 DEF y
  <2>7. Frm!Begins(q, g, FALSE) = "move"  BY <2>2, <2>3, <2>5, <2>6, MovesFrom
  <2> QED  BY <1>3, <2>2, <2>7
<1>6. CASE c >= ScreenW
  <2> DEFINE x == IF g.x + Margin + 1 >= 0 THEN g.x + Margin + 1 ELSE 0  q == [x |-> x, y |-> y]
  <2>1. x \in 0 .. ScreenW - 1  BY <1>1, <1>2
  <2>2. q \in Frm!Point /\ q.x = x /\ q.y = y  BY <1>3, <2>1 DEF Frm!Point
  <2>3. x > g.x + Margin /\ x < Frm!BtnX(3, g)  BY <1>1, <1>2, <1>4, <1>6
  <2>4. x < g.x + g.w - Margin /\ x <= g.x + g.w - 2  BY <1>1, <1>2, <1>6
  <2>5. Frm!BtnX(3, g) <= Frm!BtnX(2, g) /\ Frm!BtnX(2, g) <= Frm!BtnX(1, g) /\ Frm!BtnX(1, g) \in Int /\ Frm!BtnX(2, g) \in Int /\ Frm!BtnX(3, g) \in Int
    BY <1>1, <1>2, <1>4
  <2>6. x \in Int  BY <2>1
  <2>7. \A k \in 1 .. 3 : x < Frm!BtnX(k, g)
    <3> TAKE k \in 1 .. 3
    <3>1. k = 1 \/ k = 2 \/ k = 3  OBVIOUS
    <3>2. x < Frm!BtnX(1, g) /\ x < Frm!BtnX(2, g)
      <4> HIDE DEF x
      <4> QED  BY <2>3, <2>5, <2>6
    <3> QED  BY <2>3, <3>1, <3>2
  <2> HIDE DEF q, c, x, y
  <2>8. q.y = g.y + Margin + 1  BY <2>2 DEF y
  <2>9. Frm!Begins(q, g, FALSE) = "move"  BY <2>2, <2>3, <2>4, <2>7, <2>8, MovesFrom
  <2> QED  BY <1>3, <2>2, <2>9
<1>7. c \in Int  BY <1>1, <1>2
<1> HIDE DEF c, y
<1>8. c < ScreenW \/ c >= ScreenW  BY <1>1, <1>7
<1> QED  BY <1>5, <1>6, <1>8

(* How far the side that is not held has given way: not at all, or by what lies between
   the edge and where it was taken. *)
SidesAt(s, z, p, g) ==
  /\ "W" \in z => p.x <= s.x + Margin /\ p.x >= 0
  /\ "N" \in z => p.y <= s.y + Margin /\ p.y >= 0
  /\ s.x >= 0 =>
       /\ "W" \in z \/ g.x = s.x
       /\ "N" \in z \/ g.y = s.y
       /\ "W" \in z => g.x + g.w - (s.x + s.w) \in 0 .. Margin
       /\ "N" \in z => g.y + g.h - (s.y + s.h) \in 0 .. Margin

Grabs == [kind : {"none", "move", "size"}, zone : SUBSET {"N", "S", "W", "E"}, from : Places, p : [x : Int, y : Int]]

(* The invariant: a window has its least size; what is maximized fills the screen, is not held
   and remembers the place it had; what is held by an edge has the other one in place. *)
FrameInv ==
  /\ Large(frame) /\ grab \in Grabs /\ pressed \in BOOLEAN /\ at \in Frm!Point /\ count \in 0 .. Gestures
  /\ back = Frm!NoPlace \/ Large(back)
  /\ Frm!Maximized => grab.kind = "none" /\ frame = Frm!Full /\ back = before
  /\ pressed => grab.kind = "none"
  /\ grab.kind = "size" => Large(grab.from) /\ SidesAt(grab.from, grab.zone, grab.p, frame)

LEMMA PointIs ==
  ASSUME Frm!ConstantsOK, NEW p \in [x : MouseX, y : MouseY]
  PROVE  p \in Frm!Point /\ p.x \in Nat /\ p.y \in Nat
<1>1. ScreenW \in Nat /\ ScreenH \in Nat /\ MouseX \subseteq 0 .. ScreenW - 1 /\ MouseY \subseteq 0 .. ScreenH - 1
  BY DEF Frm!ConstantsOK
<1>2. p.x \in MouseX /\ p.y \in MouseY /\ p = [x |-> p.x, y |-> p.y]  OBVIOUS
<1>3. p.x \in 0 .. ScreenW - 1 /\ p.y \in 0 .. ScreenH - 1  BY <1>1, <1>2
<1> QED  BY <1>1, <1>2, <1>3 DEF Frm!Point

(* Moved: as large as it was, and never beyond reach. *)
LEMMA MovedIs ==
  ASSUME Frm!ConstantsOK, NEW g, Large(g), grab \in Grabs, NEW p \in [x : MouseX, y : MouseY]
  PROVE  /\ Large(Frm!Moved(g, p))
         /\ LET m == Frm!Moved(g, p) IN m.x >= -(m.w - Sliver) /\ m.x <= ScreenW - Sliver /\ m.y <= ScreenH - TaskbarH - TitleH
<1>1. /\ ScreenW \in Nat /\ ScreenH \in Nat /\ TaskbarH \in Nat /\ TitleH \in Nat /\ MinW \in Nat /\ MinH \in Nat /\ Sliver \in Nat
      /\ TaskbarH + MinH <= ScreenH /\ TitleH <= MinH /\ MinW <= ScreenW /\ Sliver <= MinW
  BY Metrics
<1>2. g \in Places /\ g.x \in Int /\ g.y \in Nat /\ g.w \in Int /\ g.h \in Int /\ g.w >= MinW /\ g.h >= MinH  BY DEF Large, Places
<1>3. p.x \in Nat /\ p.y \in Nat /\ grab.p.x \in Int /\ grab.p.y \in Int  BY PointIs DEF Grabs
<1> DEFINE x == Frm!Clamp(p.x - grab.p.x, -(g.w - Sliver), ScreenW - Sliver)
           y == Frm!Clamp(p.y - grab.p.y, 0, ScreenH - TaskbarH - TitleH)
<1>4. x \in Int /\ x >= -(g.w - Sliver) /\ x <= ScreenW - Sliver  BY <1>1, <1>2, <1>3 DEF Frm!Clamp
<1>5. y \in Nat /\ y <= ScreenH - TaskbarH - TitleH  BY <1>1, <1>2, <1>3 DEF Frm!Clamp
<1>6. Frm!Moved(g, p) = [g EXCEPT !.x = x, !.y = y]  BY DEF Frm!Moved
<1> HIDE DEF x, y
<1> DEFINE m == [g EXCEPT !.x = x, !.y = y]
<1>7. m \in Places /\ m.x = x /\ m.y = y /\ m.w = g.w /\ m.h = g.h  BY <1>2, <1>4, <1>5 DEF Places
<1> HIDE DEF m
<1>8. Frm!Moved(g, p) = m  BY <1>6 DEF m
<1> QED  BY <1>2, <1>4, <1>5, <1>7, <1>8 DEF Large

(* Sized: never too small, with the other side in place. *)
LEMMA SizedIs ==
  ASSUME Frm!ConstantsOK, grab \in Grabs, Large(grab.from), SidesAt(grab.from, grab.zone, grab.p, frame),
         NEW p \in [x : MouseX, y : MouseY]
  PROVE  Large(Frm!Sized(p)) /\ SidesAt(grab.from, grab.zone, grab.p, Frm!Sized(p))
<1> DEFINE s == grab.from  z == grab.zone  dx == p.x - grab.p.x  dy == p.y - grab.p.y
           w0 == s.w + (IF "E" \in z THEN dx ELSE 0)
           h0 == s.h + (IF "S" \in z THEN dy ELSE 0)
           w1 == IF "W" \in z THEN s.w - dx ELSE w0
           h1 == IF "N" \in z THEN s.h - dy ELSE h0
           w2 == IF w1 < MinW THEN MinW ELSE w1
           h2 == IF h1 < MinH THEN MinH ELSE h1
           x1 == IF "W" \in z THEN s.x + dx - (w2 - w1) ELSE s.x
           y1 == IF "N" \in z THEN s.y + dy - (h2 - h1) ELSE s.y
           x2 == IF x1 < 0 THEN 0 ELSE x1
           y2 == IF y1 < 0 THEN 0 ELSE y1
<1>1. MinW \in Nat /\ MinH \in Nat /\ Margin \in Nat  BY Metrics
<1>2. /\ s.x \in Int /\ s.y \in Nat /\ s.w \in Int /\ s.h \in Int /\ s.w >= MinW /\ s.h >= MinH
  BY DEF Large, Places
<1>3. p.x \in Nat /\ p.y \in Nat /\ grab.p.x \in Int /\ grab.p.y \in Int  BY PointIs DEF Grabs
<1>4. dx \in Int /\ dy \in Int /\ dx = p.x - grab.p.x /\ dy = p.y - grab.p.y  BY <1>3
<1>5. /\ "W" \in z => grab.p.x <= s.x + Margin /\ grab.p.x >= 0
      /\ "N" \in z => grab.p.y <= s.y + Margin /\ grab.p.y >= 0
  BY DEF SidesAt
<1>6. Frm!Sized(p) = [x |-> x2, y |-> y2, w |-> w2, h |-> h2]  BY DEF Frm!Sized
<1> HIDE DEF dx, dy
<1>7. w1 \in Int /\ h1 \in Int  BY <1>2, <1>4
<1>8. w2 \in Int /\ w2 >= MinW /\ w2 >= w1 /\ h2 \in Int /\ h2 >= MinH /\ h2 >= h1
  <2> HIDE DEF w1, h1
  <2> QED  BY <1>1, <1>7
<1>9. x1 \in Int /\ y1 \in Int
  <2> HIDE DEF w1, h1, w2, h2
  <2> QED  BY <1>2, <1>4, <1>7, <1>8
<1>10. x2 \in Nat /\ y2 \in Nat
  <2> HIDE DEF x1, y1
  <2> QED  BY <1>9
<1>11. ASSUME s.x >= 0, "W" \notin z  PROVE x2 = s.x  BY <1>2, <1>11
<1>12. ASSUME "N" \notin z  PROVE y2 = s.y  BY <1>2, <1>12
<1>13. ASSUME s.x >= 0, "W" \in z  PROVE x2 + w2 - (s.x + s.w) \in 0 .. Margin
  <2>1. w1 = s.w - dx /\ x1 = s.x + dx - (w2 - w1)  BY <1>13
  <2>2. dx >= -grab.p.x /\ grab.p.x <= s.x + Margin  BY <1>3, <1>4, <1>5, <1>13
  <2>3. w1 < MinW => w2 = MinW  OBVIOUS
  <2>4. ~(w1 < MinW) => w2 = w1  OBVIOUS
  <2>5. x2 = IF x1 < 0 THEN 0 ELSE x1  OBVIOUS
  <2> HIDE DEF s, w0, h0, w1, h1, w2, h2, x1, y1, x2, y2
  <2>6. CASE w1 < MinW
    <3>1. x1 = s.x + s.w - MinW /\ x1 >= 0 /\ w2 = MinW  BY <1>1, <1>2, <1>4, <1>7, <1>13, <2>1, <2>3, <2>6
    <3> QED  BY <1>1, <1>2, <2>5, <3>1
  <2>7. CASE ~(w1 < MinW)
    <3>1. x1 = s.x + dx /\ w2 = s.w - dx  BY <1>1, <1>2, <1>4, <1>7, <2>1, <2>4, <2>7
    <3>2. dx >= -(s.x + Margin)  BY <1>1, <1>2, <1>3, <1>4, <2>2
    <3>3. x1 \in Int /\ x1 >= -Margin  BY <1>1, <1>2, <1>4, <3>1, <3>2
    <3>4. s.x + s.w \in Int /\ x1 + w2 = s.x + s.w /\ w2 \in Int  BY <1>2, <1>4, <3>1
    <3>5. CASE x1 < 0
      <4>1. x2 = 0 /\ w2 - (s.x + s.w) = -x1  BY <2>5, <3>3, <3>4, <3>5
      <4> QED  BY <1>1, <3>3, <3>4, <3>5, <4>1
    <3>6. CASE ~(x1 < 0)  BY <1>1, <2>5, <3>3, <3>4, <3>6
    <3> QED  BY <3>5, <3>6
  <2> QED  BY <2>6, <2>7
<1>14. ASSUME "N" \in z  PROVE y2 + h2 - (s.y + s.h) \in 0 .. Margin
  <2>1. h1 = s.h - dy /\ y1 = s.y + dy - (h2 - h1)  BY <1>14
  <2>2. dy >= -grab.p.y /\ grab.p.y <= s.y + Margin  BY <1>3, <1>4, <1>5, <1>14
  <2>3. h1 < MinH => h2 = MinH  OBVIOUS
  <2>4. ~(h1 < MinH) => h2 = h1  OBVIOUS
  <2>5. y2 = IF y1 < 0 THEN 0 ELSE y1  OBVIOUS
  <2> HIDE DEF s, w0, h0, w1, h1, w2, h2, x1, y1, x2, y2
  <2>6. CASE h1 < MinH
    <3>1. y1 = s.y + s.h - MinH /\ y1 >= 0 /\ h2 = MinH  BY <1>1, <1>2, <1>4, <1>7, <1>14, <2>1, <2>3, <2>6
    <3> QED  BY <1>1, <1>2, <2>5, <3>1
  <2>7. CASE ~(h1 < MinH)
    <3>1. y1 = s.y + dy /\ h2 = s.h - dy  BY <1>1, <1>2, <1>4, <1>7, <2>1, <2>4, <2>7
    <3>2. dy >= -(s.y + Margin)  BY <1>1, <1>2, <1>3, <1>4, <2>2
    <3>3. y1 \in Int /\ y1 >= -Margin  BY <1>1, <1>2, <1>4, <3>1, <3>2
    <3>4. s.y + s.h \in Int /\ y1 + h2 = s.y + s.h /\ h2 \in Int  BY <1>2, <1>4, <3>1
    <3>5. CASE y1 < 0
      <4>1. y2 = 0 /\ h2 - (s.y + s.h) = -y1  BY <2>5, <3>3, <3>4, <3>5
      <4> QED  BY <1>1, <3>3, <3>4, <3>5, <4>1
    <3>6. CASE ~(y1 < 0)  BY <1>1, <2>5, <3>3, <3>4, <3>6
    <3> QED  BY <3>5, <3>6
  <2> QED  BY <2>6, <2>7
<1> HIDE DEF x2, y2, w2, h2
<1>15. Frm!Sized(p).x = x2 /\ Frm!Sized(p).y = y2 /\ Frm!Sized(p).w = w2 /\ Frm!Sized(p).h = h2 /\ Frm!Sized(p) \in Places
  BY <1>6, <1>8, <1>10 DEF Places
<1> QED  BY <1>5, <1>8, <1>11, <1>12, <1>13, <1>14, <1>15 DEF Large, SidesAt

(* What is held follows the pointer. *)
LEMMA FollowedIs ==
  ASSUME Frm!ConstantsOK, FrameInv, NEW p \in [x : MouseX, y : MouseY], NEW grabs \in BOOLEAN
  PROVE  /\ Large(Frm!Followed(p, grabs))
         /\ Frm!Maximized \/ grab.kind = "none" \/ ~grabs => Frm!Followed(p, grabs) = frame
         /\ grab.kind = "size" => SidesAt(grab.from, grab.zone, grab.p, Frm!Followed(p, grabs))
<1>1. Large(frame) /\ grab \in Grabs  BY DEF FrameInv
<1>2. Frm!Maximized => grab.kind = "none"  BY DEF FrameInv
<1>3. CASE grabs /\ grab.kind = "move" /\ ~Frm!Maximized
  <2>1. Frm!Followed(p, grabs) = Frm!Moved(frame, p)  BY <1>3 DEF Frm!Followed
  <2> QED  BY <1>1, <1>3, <2>1, MovedIs
<1>4. CASE grabs /\ grab.kind = "size"
  <2>1. Frm!Followed(p, grabs) = Frm!Sized(p)  BY <1>4 DEF Frm!Followed
  <2>2. Large(grab.from) /\ SidesAt(grab.from, grab.zone, grab.p, frame)  BY <1>4 DEF FrameInv
  <2>3. Large(Frm!Sized(p)) /\ SidesAt(grab.from, grab.zone, grab.p, Frm!Sized(p))  BY <1>1, <2>2, SizedIs
  <2> QED  BY <1>2, <1>4, <2>1, <2>3
<1>5. CASE ~(grabs /\ grab.kind = "move" /\ ~Frm!Maximized) /\ ~(grabs /\ grab.kind = "size")
  <2>1. Frm!Followed(p, grabs) = frame  BY <1>5 DEF Frm!Followed
  <2>2. grab.kind = "size" => SidesAt(grab.from, grab.zone, grab.p, frame)  BY DEF FrameInv
  <2> QED  BY <1>1, <2>1, <2>2
<1> QED  BY <1>3, <1>4, <1>5

(* What a press begins: nothing but the button of a maximized window; at an edge, near it. *)
LEMMA BeginsIs ==
  ASSUME Frm!ConstantsOK, NEW p \in [x : MouseX, y : MouseY], NEW g, Large(g), NEW max \in BOOLEAN
  PROVE  /\ Frm!Begins(p, g, max) \in {"none", "size", "max", "move"}
         /\ Frm!Begins(p, g, max) \in {"size", "move"} => ~max
         /\ Frm!HoverZone(p, g, max) \in SUBSET {"N", "S", "W", "E"}
         /\ "W" \in Frm!HoverZone(p, g, max) => p.x <= g.x + Margin
         /\ "N" \in Frm!HoverZone(p, g, max) => p.y <= g.y + Margin
  BY DEF Frm!Begins, Frm!HoverZone, Frm!Zone, Frm!Near

LEMMA TakenAt ==
  ASSUME Frm!ConstantsOK, NEW p \in [x : MouseX, y : MouseY], NEW g, Large(g)
  PROVE  SidesAt(g, Frm!HoverZone(p, g, FALSE), p, g)
<1>1. p.x \in Nat /\ p.y \in Nat /\ Margin \in Nat  BY PointIs, Metrics
<1>2. g.x \in Int /\ g.y \in Nat /\ g.w \in Int /\ g.h \in Int  BY DEF Large, Places
<1>3. g.x + g.w - (g.x + g.w) \in 0 .. Margin /\ g.y + g.h - (g.y + g.h) \in 0 .. Margin  BY <1>1, <1>2
<1>4. /\ "W" \in Frm!HoverZone(p, g, FALSE) => p.x <= g.x + Margin
      /\ "N" \in Frm!HoverZone(p, g, FALSE) => p.y <= g.y + Margin
  BY BeginsIs
<1> DEFINE z == Frm!HoverZone(p, g, FALSE)
<1> HIDE DEF z
<1>5. ("W" \in z => p.x <= g.x + Margin) /\ ("N" \in z => p.y <= g.y + Margin)  BY <1>4 DEF z
<1>6. SidesAt(g, z, p, g)  BY <1>1, <1>3, <1>5 DEF SidesAt
<1> QED  BY <1>6 DEF z

(* A poll of the mouse, which ends what it does not go on with. *)
LEMMA PollKeeps ==
  ASSUME Frm!ConstantsOK, FrameInv, NEW p \in [x : MouseX, y : MouseY],
         NEW press \in BOOLEAN, NEW release \in BOOLEAN, NEW grabs \in BOOLEAN,
         Frm!Poll(p, press, release, grabs), press => ~Frm!Down, grabs = ~release
  PROVE  FrameInv'
<1> DEFINE g == Frm!Followed(p, grabs)
           b == IF press THEN Frm!Begins(p, g, Frm!Maximized) ELSE "none"
           z == Frm!HoverZone(p, g, Frm!Maximized)
           presses == pressed \/ b = "max"
           toggles == presses /\ release /\ Frm!OverMax(p, g)
<1>1. /\ Large(frame) /\ grab \in Grabs /\ pressed \in BOOLEAN /\ count \in 0 .. Gestures
      /\ back = Frm!NoPlace \/ Large(back)
      /\ Frm!Maximized => grab.kind = "none" /\ frame = Frm!Full /\ back = before
      /\ pressed => grab.kind = "none"
      /\ grab.kind = "size" => Large(grab.from)
  BY DEF FrameInv
<1>2. /\ Large(g)
      /\ Frm!Maximized \/ grab.kind = "none" \/ ~grabs => g = frame
      /\ grab.kind = "size" => SidesAt(grab.from, grab.zone, grab.p, g)
  BY FollowedIs
<1>3. Frm!Maximized \in BOOLEAN  BY DEF Frm!Maximized
<1> HIDE DEF g
<1>4. b \in {"none", "size", "max", "move"} /\ (b \in {"size", "move"} => ~Frm!Maximized) /\ z \in SUBSET {"N", "S", "W", "E"}
  BY <1>2, <1>3, BeginsIs
<1>5. press => ~pressed /\ grab.kind = "none"  BY DEF Frm!Down
<1>6. /\ press => count < Gestures
      /\ at' = p
      /\ count' = IF press THEN count + 1 ELSE count
      /\ b = "size" => grab' = [kind |-> "size", zone |-> z, from |-> g, p |-> p]
      /\ b = "move" => grab' = [kind |-> "move", zone |-> {}, from |-> Frm!NoPlace, p |-> [x |-> p.x - g.x, y |-> p.y - g.y]]
      /\ b \notin {"size", "move"} => grab' = IF ~grabs THEN Frm!NoGrab ELSE grab
      /\ pressed' = (presses /\ ~release)
      /\ toggles => Frm!Toggle(g, back)
      /\ ~toggles => frame' = g /\ back' = back /\ UNCHANGED before
  <2>1. (IF Frm!Maximized /\ grabs /\ grab.kind = "size" THEN g ELSE back) = back  BY <1>1
  <2> QED  BY <2>1 DEF Frm!Poll, g
<1>7. b # "none" => press  OBVIOUS
<1>8. p \in Frm!Point /\ p \in [x : Int, y : Int] /\ p.x \in Nat /\ p.y \in Nat
  <2>1. p \in Frm!Point /\ p.x \in Nat /\ p.y \in Nat /\ p = [x |-> p.x, y |-> p.y]  BY PointIs
  <2> QED  BY <2>1
<1>9. toggles => b \notin {"size", "move"} /\ ~grabs  BY <1>5, <1>7
<1> HIDE DEF b, z
<1>10. grab' \in Grabs
  <2>1. CASE b = "size"
    <3>1. g \in Places  BY <1>2 DEF Large
    <3> QED  BY <1>4, <1>6, <1>8, <2>1, <3>1 DEF Grabs
  <2>2. CASE b = "move"
    <3>1. p.x - g.x \in Int /\ p.y - g.y \in Int  BY <1>2, <1>8 DEF Large, Places
    <3>2. Frm!NoPlace \in Places  BY Whole
    <3> QED  BY <1>6, <2>2, <3>1, <3>2 DEF Grabs
  <2>3. CASE b \notin {"size", "move"}
    <3>1. Frm!NoGrab \in Grabs
      <4>1. Frm!NoPlace \in Places  BY Whole
      <4> QED  BY <4>1 DEF Frm!NoGrab, Grabs
    <3> QED  BY <1>1, <1>6, <2>3, <3>1
  <2> QED  BY <2>1, <2>2, <2>3
<1>11. pressed' \in BOOLEAN /\ at' \in Frm!Point /\ count' \in 0 .. Gestures
  <2>1. Gestures \in Nat  BY Metrics
  <2>2. pressed' \in BOOLEAN  BY <1>1, <1>6
  <2> QED  BY <1>1, <1>6, <1>8, <2>1, <2>2
<1>12. grab'.kind = IF b \in {"size", "move"} THEN b ELSE IF ~grabs THEN "none" ELSE grab.kind
  BY <1>1, <1>6 DEF Frm!NoGrab
<1>13. pressed' => grab'.kind = "none"
  <2>1. pressed' => grabs /\ (pressed \/ b = "max")  BY <1>6
  <2>2. pressed => b = "none"  BY <1>5, <1>7
  <2> QED  BY <1>1, <1>5, <1>7, <1>12, <2>1, <2>2
<1>14. CASE ~toggles
  <2>1. frame' = g /\ back' = back /\ before' = before  BY <1>6, <1>14
  <2>2. Frm!Maximized' = Frm!Maximized  BY <2>1 DEF Frm!Maximized
  <2>3. Frm!Maximized => grab'.kind = "none" /\ g = Frm!Full /\ back = before
    <3>1. Frm!Maximized => b \notin {"size", "move"} /\ grab.kind = "none"  BY <1>1, <1>4
    <3> QED  BY <1>1, <1>2, <1>12, <3>1
  <2>4. ASSUME grab'.kind = "size"  PROVE Large(grab'.from) /\ SidesAt(grab'.from, grab'.zone, grab'.p, g)
    <3>1. CASE b = "size"
      <4>1. ~Frm!Maximized  BY <1>4, <3>1
      <4>2. z = Frm!HoverZone(p, g, FALSE)  BY <1>3, <4>1 DEF z
      <4>3. SidesAt(g, z, p, g)  BY <1>2, <4>2, TakenAt
      <4>4. grab'.from = g /\ grab'.zone = z /\ grab'.p = p  BY <1>6, <3>1
      <4> QED  BY <1>2, <4>3, <4>4
    <3>2. CASE b # "size"
      <4>1. b \notin {"size", "move"} /\ grabs /\ grab.kind = "size"  BY <1>12, <2>4, <3>2
      <4>2. grab' = grab  BY <1>6, <4>1
      <4> QED  BY <1>1, <1>2, <4>1, <4>2
    <3> QED  BY <3>1, <3>2
  <2> HIDE DEF toggles
  <2>5. Large(frame') /\ (back' = Frm!NoPlace \/ Large(back'))  BY <1>1, <1>2, <2>1
  <2>6. Large(frame)' /\ (back = Frm!NoPlace \/ Large(back))'  BY <2>5 DEF Large
  <2>7. (grab.kind = "size" => Large(grab.from) /\ SidesAt(grab.from, grab.zone, grab.p, frame))'
    BY <2>1, <2>4 DEF Large, SidesAt
  <2>8. Frm!Full' = Frm!Full  BY DEF Frm!Full
  <2> QED  BY <1>10, <1>11, <1>13, <2>1, <2>2, <2>3, <2>6, <2>7, <2>8 DEF FrameInv
<1>15. CASE toggles
  <2>1. Frm!Toggle(g, back) /\ grab'.kind = "none"  BY <1>6, <1>9, <1>12, <1>15
  <2>2. CASE Frm!Maximized
    <3>1. frame' = back /\ back' = Frm!NoPlace /\ Large(back)  BY <1>1, <2>1, <2>2 DEF Frm!Toggle, Frm!Maximized
    <3>2. ~Frm!Maximized' /\ Large(frame)'  BY <3>1 DEF Frm!Maximized, Large
    <3> QED  BY <1>10, <1>11, <1>13, <2>1, <3>1, <3>2 DEF FrameInv, Frm!NoPlace
  <2>3. CASE ~Frm!Maximized
    <3>1. frame' = Frm!Full /\ back' = g /\ before' = g  BY <2>1, <2>3 DEF Frm!Toggle
    <3>2. Large(Frm!Full)  BY Whole
    <3>3. Large(frame)' /\ Large(back)' /\ Frm!Full' = Frm!Full  BY <1>2, <3>1, <3>2 DEF Large, Frm!Full
    <3> QED  BY <1>10, <1>11, <1>13, <2>1, <3>1, <3>3 DEF FrameInv
  <2> QED  BY <2>2, <2>3
<1> QED  BY <1>14, <1>15

LEMMA FrameInit ==
  ASSUME Frm!ConstantsOK, Frm!Init
  PROVE  FrameInv
<1>1. /\ ScreenW \in Nat /\ ScreenH \in Nat /\ Gestures \in Nat /\ MinW \in Nat /\ MinH \in Nat /\ Margin \in Nat /\ TaskbarH \in Nat
      /\ Inset \in Nat /\ BtnW \in Nat /\ Gap \in Nat
      /\ MinW <= ScreenW /\ TaskbarH + MinH <= ScreenH /\ 2 * Margin + 1 < MinH /\ Inset + 3 * BtnW + 2 * Gap + Margin + 1 < MinW
  BY Metrics
<1>2. Large(frame)
  <2>1. /\ frame \in Starts /\ Starts \subseteq [x : Nat, y : Nat, w : Nat, h : Nat] /\ frame.w >= MinW /\ frame.h >= MinH
    BY DEF Frm!Init, Frm!ConstantsOK
  <2> QED  BY <2>1 DEF Large, Places
<1>3. Frm!NoPlace \in Places  BY Whole
<1>4. grab = Frm!NoGrab /\ grab \in Grabs /\ grab.kind = "none"  BY <1>3 DEF Frm!Init, Frm!NoGrab, Grabs
<1>5. ScreenW > 0 /\ ScreenH > 0  BY <1>1
<1>6. ScreenW \div 2 \in 0 .. ScreenW - 1 /\ ScreenH \div 2 \in 0 .. ScreenH - 1  BY <1>1, <1>5
<1>7. at \in Frm!Point  BY <1>6 DEF Frm!Init, Frm!Point
<1>8. ~Frm!Maximized  BY DEF Frm!Init, Frm!Maximized
<1>9. back = Frm!NoPlace /\ pressed = FALSE /\ count = 0  BY DEF Frm!Init
<1>10. count \in 0 .. Gestures  BY <1>1, <1>9
<1> QED  BY <1>2, <1>4, <1>7, <1>8, <1>9, <1>10 DEF FrameInv

LEMMA FrameStep ==
  ASSUME Frm!ConstantsOK, FrameInv, [Frm!Next]_(Frm!vars)
  PROVE  FrameInv'
<1>1. ASSUME NEW p \in [x : MouseX, y : MouseY], ~Frm!Down, Frm!Press(p)  PROVE FrameInv'
  BY <1>1, PollKeeps DEF Frm!Press
<1>2. ASSUME NEW p \in [x : MouseX, y : MouseY], ~Frm!Down, Frm!Click(p)  PROVE FrameInv'
  BY <1>2, PollKeeps DEF Frm!Click
<1>3. ASSUME NEW p \in [x : MouseX, y : MouseY], Frm!Drag(p)  PROVE FrameInv'
  BY <1>3, PollKeeps DEF Frm!Drag
<1>4. ASSUME NEW p \in [x : MouseX, y : MouseY], Frm!Release(p)  PROVE FrameInv'
  BY <1>4, PollKeeps DEF Frm!Release
<1>5. CASE UNCHANGED Frm!vars  BY <1>5 DEF Frm!vars, FrameInv, Large, SidesAt, Frm!Maximized
<1> QED  BY <1>1, <1>2, <1>3, <1>4, <1>5 DEF Frm!Next

(* A drag of the title bar only moves the window. *)
LEMMA DragsWithin ==
  ASSUME Frm!ConstantsOK, FrameInv
  PROVE  Frm!MovableAgainStep
<1> SUFFICES ASSUME NEW p \in [x : MouseX, y : MouseY], Frm!Drag(p), frame' # frame, grab.kind = "move"
             PROVE  \E q \in Frm!Point : q.y < ScreenH - TaskbarH /\ Frm!Begins(q, frame', FALSE) = "move"
  BY DEF Frm!MovableAgainStep
<1>1. Large(frame) /\ grab \in Grabs /\ ~Frm!Maximized  BY DEF FrameInv
<1>2. frame' = Frm!Followed(p, TRUE)  BY DEF Frm!Drag, Frm!Poll
<1>3. frame' = Frm!Moved(frame, p)  BY <1>1, <1>2 DEF Frm!Followed
<1>4. /\ Large(frame')
      /\ frame'.x >= -(frame'.w - Sliver) /\ frame'.x <= ScreenW - Sliver /\ frame'.y <= ScreenH - TaskbarH - TitleH
  BY <1>1, <1>3, MovedIs
<1> DEFINE g == frame'
<1> HIDE DEF g
<1>5. Large(g) /\ g.x >= -(g.w - Sliver) /\ g.x <= ScreenW - Sliver /\ g.y <= ScreenH - TaskbarH - TitleH
  BY <1>4 DEF g
<1>6. \E q \in Frm!Point : q.y < ScreenH - TaskbarH /\ Frm!Begins(q, g, FALSE) = "move"  BY <1>5, CanMove
<1> QED  BY <1>6 DEF g

LEMMA FrameMeans == FrameInv => Frm!TypeOK /\ Frm!ComesBack /\ Frm!SidesNearlyStay
  BY DEF FrameInv, Frm!TypeOK, Frm!ComesBack, Frm!SidesNearlyStay, SidesAt, Large, Places, Grabs

(* Whatever is pressed, dragged and released: a window keeps its least size, a maximized one
   fills the screen and comes back where it was, and a resize moves the sides that are not
   held by no more than the margin (handle_mouse, maximize_window). *)
THEOREM FramesStand == ASSUME Frm!ConstantsOK PROVE Frm!Spec => [](Frm!TypeOK /\ Frm!ComesBack /\ Frm!SidesNearlyStay)
<1>1. Frm!Init => FrameInv  BY FrameInit
<1>2. FrameInv /\ [Frm!Next]_(Frm!vars) => FrameInv'  BY FrameStep
<1> QED  BY <1>1, <1>2, FrameMeans, PTL DEF Frm!Spec

(* Wherever a drag leaves a window, it can be taken by its title bar again, for any metrics
   that ConstantsOK takes (the clamps of handle_mouse). *)
THEOREM StaysMovable == ASSUME Frm!ConstantsOK PROVE Frm!Spec => Frm!MovableAgain
<1>1. Frm!Init => FrameInv  BY FrameInit
<1>2. FrameInv /\ [Frm!Next]_(Frm!vars) => FrameInv'  BY FrameStep
<1>3. FrameInv /\ [Frm!Next]_(Frm!vars) => [Frm!MovableAgainStep]_(Frm!vars)  BY DragsWithin
<1> QED  BY <1>1, <1>2, <1>3, PTL DEF Frm!Spec, Frm!MovableAgain

-----------------------------------------------------------------------------
(* Scroll bars.  What the properties rest on. *)

(* A quotient, from both sides. *)
LEMMA Quotient ==
  ASSUME NEW a \in Nat, NEW d \in Nat, d > 0
  PROVE  /\ a \div d \in Nat /\ d * (a \div d) <= a /\ a < d * (a \div d) + d
  BY SMT

LEMMA QuotientAtLeast ==
  ASSUME NEW a \in Nat, NEW d \in Nat, d > 0, NEW q \in Int, d * q <= a
  PROVE  q <= a \div d
<1> DEFINE x == a \div d
<1>1. x \in Nat /\ a < d * x + d  BY Quotient
<1> HIDE DEF x
<1> SUFFICES ASSUME q > x PROVE FALSE  BY <1>1 DEF x
<1>2. q >= x + 1  BY <1>1
<1>3. d * q >= d * (x + 1)  BY <1>1, <1>2
<1>4. d * (x + 1) = d * x + d  BY <1>1
<1> QED  BY <1>1, <1>3, <1>4

LEMMA QuotientAtMost ==
  ASSUME NEW a \in Nat, NEW d \in Nat, d > 0, NEW q \in Int, a <= d * q
  PROVE  a \div d <= q
<1> DEFINE x == a \div d
<1>1. x \in Nat /\ d * x <= a  BY Quotient
<1> HIDE DEF x
<1> SUFFICES ASSUME x > q PROVE FALSE  BY <1>1 DEF x
<1>2. x >= q + 1  BY <1>1
<1>3. d * x >= d * (q + 1)  BY <1>1, <1>2
<1>4. d * (q + 1) = d * q + d  BY <1>1
<1> QED  BY <1>1, <1>3, <1>4

(* What a window may report of its bar. *)
BarBar == [h : Bars, total : Totals, page : Pages, line : Lines]

LEMMA BarIs ==
  ASSUME Bar!ConstantsOK, NEW b \in BarBar
  PROVE  /\ Arrow \in Nat \ {0} /\ MinThumb \in Nat /\ MinThumb >= 3 /\ WheelLines \in Nat
         /\ b.h \in Nat /\ b.h >= 2 * Arrow /\ b.total \in Nat \ {0} /\ b.page \in Nat \ {0} /\ b.line \in Nat \ {0}
  BY DEF Bar!ConstantsOK, BarBar

(* The lengths of the track and of the thumb. *)
LEMMA Lengths ==
  ASSUME Bar!ConstantsOK, NEW b \in BarBar
  PROVE  /\ Bar!Track(b) \in Nat /\ Bar!Track(b) >= 4 /\ Bar!ThumbSize(b) \in 3 .. Bar!Track(b)
         /\ Bar!MaxPos(b) \in Nat /\ Bar!Room(b) \in Int
         /\ b.h - 2 * Arrow >= 4 \/ Bar!Room(b) > 0 => Bar!Track(b) = b.h - 2 * Arrow /\ Bar!Room(b) = Bar!Track(b) - Bar!ThumbSize(b)
<1>1. /\ Arrow \in Nat \ {0} /\ MinThumb \in Nat /\ MinThumb >= 3
      /\ b.h \in Nat /\ b.h >= 2 * Arrow /\ b.total \in Nat \ {0} /\ b.page \in Nat \ {0} /\ b.line \in Nat \ {0}
  BY BarIs
<1>2. Bar!Track(b) \in Nat /\ Bar!Track(b) >= 4 /\ (b.h - 2 * Arrow >= 4 => Bar!Track(b) = b.h - 2 * Arrow) /\ (b.h - 2 * Arrow < 4 => Bar!Track(b) = 4)
  BY <1>1 DEF Bar!Track, Bar!Larger
<1>3. Bar!MaxPos(b) \in Nat  BY <1>1 DEF Bar!MaxPos, Bar!Larger
<1> DEFINE t == Bar!Track(b)  share == t * b.page
<1>4. share \in Nat  BY <1>1, <1>2
<1>5. share \div b.total \in Nat  BY <1>1, <1>4, Quotient
<1> DEFINE long == IF b.total > b.page THEN share \div b.total ELSE t
<1>6. long \in Nat  BY <1>1, <1>2, <1>5
<1>7. Bar!ThumbSize(b) = Bar!Smaller(Bar!Larger(long, MinThumb), t)  BY DEF Bar!ThumbSize
<1> HIDE DEF long, share
<1>8. Bar!ThumbSize(b) \in 3 .. t  BY <1>1, <1>2, <1>6, <1>7 DEF Bar!Smaller, Bar!Larger
<1>9. Bar!Room(b) = b.h - 2 * Arrow - Bar!ThumbSize(b)  BY DEF Bar!Room
<1> HIDE DEF t
<1>10. Bar!ThumbSize(b) \in Int /\ Bar!ThumbSize(b) >= 3 /\ Bar!ThumbSize(b) <= t /\ t \in Int  BY <1>2, <1>8 DEF t
<1> QED  BY <1>1, <1>2, <1>3, <1>9, <1>10 DEF t

(* Where the thumb is for a position: in its track. *)
LEMMA ThumbIn ==
  ASSUME Bar!ConstantsOK, NEW b \in BarBar, NEW p \in 0 .. Bar!MaxPos(b)
  PROVE  /\ Bar!ThumbAt(b, p) \in Int /\ Bar!ThumbAt(b, p) >= Arrow
         /\ Bar!ThumbAt(b, p) <= Arrow + (Bar!Track(b) - Bar!ThumbSize(b))
<1>1. Bar!Track(b) \in Nat /\ Bar!ThumbSize(b) \in 3 .. Bar!Track(b) /\ Bar!MaxPos(b) \in Nat /\ Arrow \in Nat  BY Lengths, BarIs
<1> DEFINE m == Bar!MaxPos(b)  r == Bar!Track(b) - Bar!ThumbSize(b)
<1>2. r \in Nat /\ m \in Nat /\ p \in Nat /\ p <= m  BY <1>1
<1>3. Bar!ThumbAt(b, p) = Arrow + (IF m > 0 THEN (r * p) \div m ELSE 0)  BY DEF Bar!ThumbAt
<1> HIDE DEF m, r
<1>4. CASE m > 0
  <2>1. r * p \in Nat  BY <1>2
  <2>2. r * p <= m * r  BY <1>2
  <2>3. (r * p) \div m \in Nat  BY <1>2, <1>4, <2>1, Quotient
  <2>4. (r * p) \div m <= r  BY <1>2, <1>4, <2>1, <2>2, QuotientAtMost
  <2> QED  BY <1>1, <1>2, <1>3, <1>4, <2>3, <2>4 DEF r
<1> QED  BY <1>1, <1>2, <1>3, <1>4 DEF r

(* A dragged thumb names a position there is. *)
LEMMA DraggedIn ==
  ASSUME Bar!ConstantsOK, bar \in BarBar, drag \in Int, NEW c \in Int
  PROVE  Bar!Dragged(c) \in 0 .. Bar!MaxPos(bar)
<1>1. Bar!Room(bar) \in Int /\ Bar!MaxPos(bar) \in Nat /\ Arrow \in Nat  BY Lengths, BarIs
<1> DEFINE w == Bar!Larger(0, Bar!Smaller(c - drag - Arrow, Bar!Room(bar)))  r == Bar!Room(bar)  m == Bar!MaxPos(bar)
<1>2. Bar!Dragged(c) = IF r > 0 THEN (w * m) \div r ELSE 0  BY DEF Bar!Dragged
<1>3. CASE r > 0
  <2>1. w \in Nat /\ w <= r  BY <1>1, <1>3 DEF Bar!Larger, Bar!Smaller
  <2> HIDE DEF w, r, m
  <2>2. r \in Nat /\ m \in Nat  BY <1>1, <1>3 DEF r, m
  <2>3. w * m \in Nat /\ w * m <= r * m  BY <2>1, <2>2
  <2>4. (w * m) \div r \in Nat  BY <1>3, <2>2, <2>3, Quotient
  <2>5. (w * m) \div r <= m  BY <1>3, <2>2, <2>3, QuotientAtMost
  <2> QED  BY <1>2, <1>3, <2>2, <2>4, <2>5 DEF m
<1> QED  BY <1>1, <1>2, <1>3

(* The invariant: a bar a window may report, a position it can show, and a mark
   that says where on the thumb the hand is. *)
ScrollInv ==
  /\ bar \in BarBar /\ pos \in 0 .. Bar!MaxPos(bar) /\ drag \in Bar!NotHeld .. Bar!Track(bar)
  /\ held \in [pos : Int, c : Int]
  /\ held # Bar!NoMark =>
       /\ drag # Bar!NotHeld /\ held.pos \in 0 .. Bar!MaxPos(bar)
       /\ drag = held.c - Bar!ThumbAt(bar, held.pos)

LEMMA ScrollInit ==
  ASSUME Bar!ConstantsOK, Bar!Init
  PROVE  ScrollInv
<1>1. bar \in BarBar  BY DEF Bar!Init, BarBar
<1>2. Bar!MaxPos(bar) \in Nat /\ Bar!Track(bar) \in Nat  BY <1>1, Lengths
<1>3. held = Bar!NoMark /\ Bar!NoMark \in [pos : Int, c : Int]  BY DEF Bar!Init, Bar!NoMark
<1> QED  BY <1>1, <1>2, <1>3 DEF Bar!Init, ScrollInv, Bar!NotHeld

LEMMA ClampIn ==
  ASSUME Bar!ConstantsOK, NEW b \in BarBar, NEW p \in Int
  PROVE  Bar!ClampPos(p, b) \in 0 .. Bar!MaxPos(b)
<1>1. Bar!MaxPos(b) \in Nat  BY Lengths
<1> QED  BY <1>1 DEF Bar!ClampPos, Bar!Larger, Bar!Smaller

LEMMA PressKeeps ==
  ASSUME Bar!ConstantsOK, ScrollInv, NEW c \in 0 .. bar.h - 1, Bar!Press(c)
  PROVE  ScrollInv'
<1>1. /\ bar \in BarBar /\ pos \in 0 .. Bar!MaxPos(bar) /\ bar' = bar  BY DEF ScrollInv, Bar!Press
<1>2. /\ Arrow \in Nat /\ bar.h \in Nat /\ bar.page \in Nat /\ bar.line \in Nat /\ Bar!MaxPos(bar) \in Nat
      /\ Bar!Track(bar) \in Nat /\ Bar!ThumbSize(bar) \in 3 .. Bar!Track(bar)
  BY <1>1, BarIs, Lengths
<1>3. Bar!ThumbAt(bar, pos) \in Int  BY <1>1, ThumbIn
<1>4. Bar!NoMark \in [pos : Int, c : Int]  BY DEF Bar!NoMark
<1>5. CASE Bar!OnThumb(bar, pos, c)
  <2>1. drag' = c - Bar!ThumbAt(bar, pos) /\ held' = [pos |-> pos, c |-> c] /\ pos' = pos  BY <1>5 DEF Bar!Press
  <2>2. c - Bar!ThumbAt(bar, pos) \in 0 .. Bar!Track(bar)  BY <1>2, <1>3, <1>5 DEF Bar!OnThumb
  <2>3. held' \in [pos : Int, c : Int] /\ held'.pos = pos /\ held'.c = c  BY <1>1, <1>2, <2>1
  <2>4. drag' \in Bar!NotHeld .. Bar!Track(bar) /\ drag' # Bar!NotHeld  BY <1>2, <2>1, <2>2 DEF Bar!NotHeld
  <2> QED  BY <1>1, <2>1, <2>3, <2>4 DEF ScrollInv
<1>6. CASE ~Bar!OnThumb(bar, pos, c)
  <2>1. drag' = Bar!NotHeld /\ held' = Bar!NoMark /\ pos' = Bar!ClampPos(Bar!Paged(bar, pos, c), bar)  BY <1>6 DEF Bar!Press
  <2>2. Bar!Paged(bar, pos, c) \in Int  BY <1>1, <1>2, <1>3 DEF Bar!Paged
  <2>3. pos' \in 0 .. Bar!MaxPos(bar)  BY <1>1, <2>1, <2>2, ClampIn
  <2>4. Bar!NotHeld \in Bar!NotHeld .. Bar!Track(bar)  BY <1>2 DEF Bar!NotHeld
  <2> QED  BY <1>1, <1>4, <2>1, <2>3, <2>4 DEF ScrollInv
<1> QED  BY <1>5, <1>6

LEMMA ShowsKeeps ==
  ASSUME Bar!ConstantsOK, ScrollInv, NEW t \in Totals, Bar!Shows(t)
  PROVE  ScrollInv'
<1>1. bar \in BarBar /\ pos \in 0 .. Bar!MaxPos(bar) /\ drag \in Bar!NotHeld .. Bar!Track(bar)  BY DEF ScrollInv
<1>2. bar' = [bar EXCEPT !.total = t] /\ held' = Bar!NoMark /\ drag' = drag /\ pos' = Bar!ClampPos(pos, bar')  BY DEF Bar!Shows
<1>3. bar' \in BarBar /\ bar'.h = bar.h  BY <1>1, <1>2 DEF BarBar
<1>4. Bar!MaxPos(bar) \in Nat  BY <1>1, Lengths
<1>5. pos' \in 0 .. Bar!MaxPos(bar')  BY <1>1, <1>2, <1>3, <1>4, ClampIn
<1>6. Bar!Track(bar') = Bar!Track(bar)  BY <1>3 DEF Bar!Track
<1>7. Bar!NoMark \in [pos : Int, c : Int]  BY DEF Bar!NoMark
<1>8. (Bar!MaxPos(bar))' = Bar!MaxPos(bar') /\ (Bar!Track(bar))' = Bar!Track(bar')  BY DEF Bar!MaxPos, Bar!Track
<1> QED  BY <1>1, <1>2, <1>3, <1>5, <1>6, <1>7, <1>8 DEF ScrollInv

LEMMA ScrollStep ==
  ASSUME Bar!ConstantsOK, ScrollInv, [Bar!Next]_(Bar!vars)
  PROVE  ScrollInv'
<1>1. /\ bar \in BarBar /\ pos \in 0 .. Bar!MaxPos(bar) /\ drag \in Bar!NotHeld .. Bar!Track(bar)  BY DEF ScrollInv
<1>2. Bar!MaxPos(bar) \in Nat /\ Bar!Track(bar) \in Nat  BY <1>1, Lengths
<1>3. Bar!NoMark \in [pos : Int, c : Int]  BY DEF Bar!NoMark
<1>4. ASSUME NEW c \in 0 .. bar.h - 1, Bar!Press(c)  PROVE ScrollInv'  BY <1>4, PressKeeps
<1>5. ASSUME NEW c \in -2 .. bar.h + 1, Bar!Drag(c)  PROVE ScrollInv'
  <2>1. drag \in Int /\ c \in Int  BY <1>1, <1>2, <1>5 DEF Bar!NotHeld
  <2>2. pos' \in 0 .. Bar!MaxPos(bar)  BY <1>1, <1>5, <2>1, DraggedIn DEF Bar!Drag
  <2> QED  BY <1>5, <2>2 DEF Bar!Drag, ScrollInv
<1>6. CASE Bar!Release
  <2>1. Bar!NotHeld \in Bar!NotHeld .. Bar!Track(bar)  BY <1>2 DEF Bar!NotHeld
  <2> QED  BY <1>1, <1>3, <1>6, <2>1 DEF Bar!Release, ScrollInv
<1>7. ASSUME NEW n \in Int, Bar!Wheel(n)  PROVE ScrollInv'
  <2>1. WheelLines \in Nat /\ bar.line \in Nat  BY <1>1, BarIs
  <2>2. n * WheelLines \in Int /\ pos \in Int  BY <1>1, <1>2, <2>1
  <2>3. n * WheelLines * bar.line \in Int  BY <2>1, <2>2
  <2>4. pos + n * WheelLines * bar.line \in Int  BY <2>2, <2>3
  <2>5. pos' \in 0 .. Bar!MaxPos(bar)  BY <1>1, <1>7, <2>4, ClampIn DEF Bar!Wheel
  <2> QED  BY <1>1, <1>3, <1>7, <2>5 DEF Bar!Wheel, ScrollInv
<1>8. ASSUME NEW t \in Totals, Bar!Shows(t)  PROVE ScrollInv'  BY <1>8, ShowsKeeps
<1>9. CASE UNCHANGED Bar!vars  BY <1>9 DEF Bar!vars, ScrollInv, Bar!MaxPos, Bar!Track, Bar!ThumbAt, Bar!ThumbSize
<1> QED  BY <1>4, <1>5, <1>6, <1>7, <1>8, <1>9 DEF Bar!Next

(* At the ends of the track are the ends of the text. *)
LEMMA EndsMet ==
  ASSUME Bar!ConstantsOK, ScrollInv
  PROVE  Bar!EndsReached
<1>1. /\ bar \in BarBar /\ pos \in 0 .. Bar!MaxPos(bar) /\ drag \in Bar!NotHeld .. Bar!Track(bar)  BY DEF ScrollInv
<1>2. /\ Bar!MaxPos(bar) \in Nat /\ Bar!Track(bar) \in Nat /\ Arrow \in Nat /\ bar.h \in Nat /\ Bar!ThumbSize(bar) \in 3 .. Bar!Track(bar)
      /\ (bar.h - 2 * Arrow >= 4 => Bar!Track(bar) = bar.h - 2 * Arrow)
  BY <1>1, Lengths, BarIs
<1>3. /\ Bar!ThumbAt(bar, pos) \in Int /\ Bar!ThumbAt(bar, pos) >= Arrow
      /\ Bar!ThumbAt(bar, pos) <= Arrow + (Bar!Track(bar) - Bar!ThumbSize(bar))
  BY <1>1, ThumbIn
<1>4. bar.h - 2 * Arrow >= 4 => Bar!ThumbAt(bar, pos) + Bar!ThumbSize(bar) <= bar.h - Arrow
  BY <1>2, <1>3
<1>5. ASSUME drag # Bar!NotHeld, Bar!Room(bar) > 0
      PROVE  Bar!Dragged(Arrow + drag) = 0 /\ Bar!Dragged(Arrow + drag + Bar!Room(bar)) = Bar!MaxPos(bar)
  <2> DEFINE r == Bar!Room(bar)  m == Bar!MaxPos(bar)
  <2>1. r \in Nat /\ r > 0 /\ m \in Nat /\ drag \in Int  BY <1>1, <1>2, <1>5, Lengths DEF Bar!NotHeld
  <2> DEFINE a == Arrow + drag  b == Arrow + drag + r
  <2>2. Bar!Larger(0, Bar!Smaller(a - drag - Arrow, r)) = 0  BY <1>2, <2>1 DEF Bar!Larger, Bar!Smaller
  <2>3. Bar!Larger(0, Bar!Smaller(b - drag - Arrow, r)) = r  BY <1>2, <2>1 DEF Bar!Larger, Bar!Smaller
  <2> HIDE DEF a, b
  <2>4. Bar!Dragged(a) = (0 * m) \div r  BY <2>1, <2>2 DEF Bar!Dragged
  <2>5. Bar!Dragged(b) = (r * m) \div r  BY <2>1, <2>3 DEF Bar!Dragged
  <2> HIDE DEF r, m
  <2>6. 0 * m = 0 /\ 0 \div r = 0  BY <2>1
  <2>7. r * m \in Nat  BY <2>1
  <2>8. (r * m) \div r \in Int /\ (r * m) \div r >= m /\ (r * m) \div r <= m  BY <2>1, <2>7, Quotient, QuotientAtLeast, QuotientAtMost
  <2>9. (r * m) \div r = m  BY <2>1, <2>8
  <2> QED  BY <2>4, <2>5, <2>6, <2>9 DEF a, b, r, m
<1> QED  BY <1>3, <1>4, <1>5 DEF Bar!EndsReached

(* The hand goes one way, the text does not go the other. *)
LEMMA FollowsHand ==
  ASSUME Bar!ConstantsOK, ScrollInv
  PROVE  Bar!ThumbFollowsStep
<1> SUFFICES ASSUME NEW c \in -2 .. bar.h + 1, Bar!Drag(c), held # Bar!NoMark, Bar!Room(bar) > 0
             PROVE  (c > held.c => pos' >= held.pos) /\ (c < held.c => pos' <= held.pos)
  BY DEF Bar!ThumbFollowsStep
<1> DEFINE r == Bar!Room(bar)  m == Bar!MaxPos(bar)  p == held.pos  w == Bar!Larger(0, Bar!Smaller(c - drag - Arrow, r))
<1>1. bar \in BarBar /\ p \in 0 .. m /\ held \in [pos : Int, c : Int] /\ drag = held.c - Bar!ThumbAt(bar, p)
  BY DEF ScrollInv
<1>2. m \in Nat /\ r \in Nat /\ r > 0 /\ r = Bar!Track(bar) - Bar!ThumbSize(bar) /\ Arrow \in Nat /\ bar.h \in Nat
  BY <1>1, Lengths, BarIs
<1> DEFINE k == IF m > 0 THEN (r * p) \div m ELSE 0
<1>3. Bar!ThumbAt(bar, p) = Arrow + k  BY <1>2 DEF Bar!ThumbAt
<1>4. pos' = (w * m) \div r  BY <1>2 DEF Bar!Drag, Bar!Dragged
<1>5. k \in Nat /\ k <= r
  <2>1. Bar!ThumbAt(bar, p) \in Int /\ Bar!ThumbAt(bar, p) >= Arrow /\ Bar!ThumbAt(bar, p) <= Arrow + r  BY <1>1, <1>2, ThumbIn
  <2>2. k \in Int
    <3>1. r * p \in Nat  BY <1>1, <1>2
    <3>2. m > 0 => (r * p) \div m \in Nat  BY <1>2, <3>1, Quotient
    <3> QED  BY <3>2
  <2> HIDE DEF k, r, m, p
  <2> QED  BY <1>2, <1>3, <2>1, <2>2
<1>6. c - drag - Arrow = c - held.c + k  /\ held.c \in Int /\ c \in Int
  <2>1. held.c \in Int /\ c \in Int  BY <1>1, <1>2
  <2> HIDE DEF k, p
  <2> QED  BY <1>1, <1>2, <1>3, <1>5, <2>1
<1>7. /\ m * k <= r * p
      /\ m > 0 => r * p < m * k + m
  <2>1. r * p \in Nat  BY <1>1, <1>2
  <2>2. CASE m > 0
    <3>1. m * ((r * p) \div m) <= r * p /\ r * p < m * ((r * p) \div m) + m  BY <1>2, <2>1, <2>2, Quotient
    <3> QED  BY <2>2, <3>1
  <2>3. CASE ~(m > 0)
    <3>1. m = 0 /\ k = 0  BY <1>2, <2>3
    <3>2. m * k = 0  BY <3>1
    <3> QED  BY <2>1, <2>3, <3>2
  <2> QED  BY <2>2, <2>3
<1>8. w \in Nat /\ w <= r /\ (c > held.c => w >= k + 1 \/ w = r) /\ (c < held.c => w <= k)
  <2> HIDE DEF k, r
  <2> QED  BY <1>2, <1>5, <1>6 DEF Bar!Larger, Bar!Smaller
<1> HIDE DEF w, k, r, m
<1>9. p \in Nat /\ p <= m /\ p \in Int /\ p = held.pos  BY <1>1, <1>2
<1> HIDE DEF p
<1>10. w * m \in Nat  BY <1>2, <1>8
<1>11. ASSUME c > held.c  PROVE pos' >= p
  <2>1. r * p <= w * m
    <3>1. CASE w = r
      <4>1. r * p <= r * m  BY <1>2, <1>9
      <4> QED  BY <3>1, <4>1
    <3>2. CASE w >= k + 1
      <4>1. m * w >= m * (k + 1)  BY <1>2, <1>5, <1>8, <3>2
      <4>2. m * (k + 1) = m * k + m /\ m * w = w * m  BY <1>2, <1>5, <1>8
      <4>3. r * p <= m * k + m
        <5>1. CASE m > 0  BY <1>2, <1>5, <1>7, <1>9, <5>1
        <5>2. CASE m = 0
          <6>1. p = 0  BY <1>9, <5>2
          <6>2. r * p = 0 /\ m * k = 0  BY <1>2, <1>5, <5>2, <6>1
          <6> QED  BY <5>2, <6>2
        <5> QED  BY <1>2, <5>1, <5>2
      <4>4. r * p \in Int /\ m * k + m \in Int /\ m * w \in Int  BY <1>2, <1>5, <1>8, <1>9
      <4> QED  BY <4>1, <4>2, <4>3, <4>4
    <3> QED  BY <1>8, <1>11, <3>1, <3>2
  <2> QED  BY <1>2, <1>4, <1>9, <1>10, <2>1, QuotientAtLeast
<1>12. ASSUME c < held.c  PROVE pos' <= p
  <2>1. m * w <= m * k  BY <1>2, <1>5, <1>8, <1>12
  <2>2. m * w = w * m /\ m * w \in Int /\ m * k \in Int /\ r * p \in Int  BY <1>2, <1>5, <1>8, <1>9
  <2>3. w * m <= r * p  BY <1>7, <2>1, <2>2
  <2> QED  BY <1>2, <1>4, <1>9, <1>10, <2>3, QuotientAtMost
<1> QED  BY <1>9, <1>11, <1>12

(* For any length, total and page: the first unit that is shown is one there is, and dragging
   the thumb to an end of the bar shows that end of the text (sb_thumb, sb_drag). *)
THEOREM BarsReach == ASSUME Bar!ConstantsOK PROVE Bar!Spec => [](Bar!TypeOK /\ Bar!EndsReached)
<1>1. Bar!Init => ScrollInv  BY ScrollInit
<1>2. ScrollInv /\ [Bar!Next]_(Bar!vars) => ScrollInv'  BY ScrollStep
<1>3. ScrollInv => Bar!TypeOK /\ Bar!EndsReached  BY EndsMet DEF ScrollInv, Bar!TypeOK
<1> QED  BY <1>1, <1>2, <1>3, PTL DEF Bar!Spec

(* A thumb that is moved never takes the text the other way, whatever the two divisions
   round away (sb_thumb, sb_drag). *)
THEOREM ThumbsFollow == ASSUME Bar!ConstantsOK PROVE Bar!Spec => Bar!ThumbFollows
<1>1. Bar!Init => ScrollInv  BY ScrollInit
<1>2. ScrollInv /\ [Bar!Next]_(Bar!vars) => ScrollInv'  BY ScrollStep
<1>3. ScrollInv /\ [Bar!Next]_(Bar!vars) => [Bar!ThumbFollowsStep]_(Bar!vars)  BY FollowsHand
<1> QED  BY <1>1, <1>2, <1>3, PTL DEF Bar!Spec, Bar!ThumbFollows

-----------------------------------------------------------------------------
(* The windows on the desktop.  What the properties rest on. *)

(* A stack of some windows, each of them once. *)
Stacked(s, W) ==
  /\ s \in Seq(Dsk!Win) /\ W = {s[i] : i \in DOMAIN s}
  /\ \A i, j \in DOMAIN s : s[i] = s[j] => i = j

(* Taken out of the stack, a window leaves the others as they were, the topmost too. *)
LEMMA DroppedIs ==
  ASSUME NEW s, NEW W, Stacked(s, W), NEW w
  PROVE  /\ Stacked(Dsk!Dropped(s, w), W \ {w})
         /\ s # <<>> /\ s[Len(s)] # w => Dsk!Dropped(s, w) # <<>> /\ Dsk!Dropped(s, w)[Len(Dsk!Dropped(s, w))] = s[Len(s)]
<1> DEFINE n == Len(s)  places == {i \in DOMAIN s : s[i] = w}
<1>1. s \in Seq(Dsk!Win) /\ n \in Nat /\ DOMAIN s = 1 .. n /\ W = {s[i] : i \in DOMAIN s}
  BY DEF Stacked
<1>2. CASE places = {}
  <2>1. Dsk!Dropped(s, w) = s  BY <1>2 DEF Dsk!Dropped
  <2>2. w \notin W  BY <1>1, <1>2
  <2>3. W \ {w} = W  BY <2>2
  <2>4. s # <<>> => Len(s) # 0  BY <1>1
  <2> QED  BY <2>1, <2>3
<1>3. CASE places # {}
  <2>1. PICK k \in DOMAIN s : s[k] = w  BY <1>3
  <2>2. places = {k}  BY <2>1 DEF Stacked
  <2>3. (CHOOSE i \in places : \A j \in places : i <= j) = k
    <3>1. k \in Nat  BY <1>1, <2>1
    <3>2. k <= k  BY <3>1
    <3> HIDE DEF places
    <3> QED  BY <2>2, <3>2
  <2> DEFINE d == [x \in 1 .. n - 1 |-> IF x < k THEN s[x] ELSE s[x + 1]]
  <2>4. Dsk!Dropped(s, w) = d  BY <1>3, <2>3 DEF Dsk!Dropped
  <2>5. k \in 1 .. n  BY <1>1, <2>1
  <2>6. n - 1 \in Nat  BY <1>1, <2>5
  <2>7. \A x \in 1 .. n - 1 : s[IF x < k THEN x ELSE x + 1] \in Dsk!Win /\ d[x] = s[IF x < k THEN x ELSE x + 1]
    <3> TAKE x \in 1 .. n - 1
    <3>1. (IF x < k THEN x ELSE x + 1) \in 1 .. n  BY <1>1, <2>5
    <3>2. \A y \in 1 .. n : s[y] \in Dsk!Win  BY <1>1
    <3> QED  BY <3>1, <3>2
  <2>8. d \in Seq(Dsk!Win) /\ Len(d) = n - 1 /\ DOMAIN d = 1 .. n - 1
    <3>1. d \in [1 .. n - 1 -> Dsk!Win]
      <4>1. \A x \in 1 .. n - 1 : d[x] \in Dsk!Win  BY <2>7
      <4> QED  BY <4>1
    <3> HIDE DEF d
    <3>2. d \in Seq(Dsk!Win)  BY <2>6, <3>1
    <3> QED  BY <2>6, <3>1, <3>2
  <2> HIDE DEF d
  <2>9. \A i, j \in DOMAIN d : d[i] = d[j] => i = j
    <3> TAKE i, j \in DOMAIN d
    <3> DEFINE a == IF i < k THEN i ELSE i + 1  b == IF j < k THEN j ELSE j + 1
    <3>1. i \in Int /\ j \in Int /\ k \in Int /\ a \in 1 .. n /\ b \in 1 .. n  BY <1>1, <2>5, <2>8
    <3>2. a = b => i = j  BY <3>1
    <3>3. d[i] = s[a] /\ d[j] = s[b]  BY <2>7, <2>8
    <3>4. s[a] = s[b] => a = b  BY <1>1, <3>1 DEF Stacked
    <3> QED  BY <3>2, <3>3, <3>4
  <2>10. W \ {w} = {d[x] : x \in DOMAIN d}
    <3>1. ASSUME NEW v \in W \ {w}  PROVE \E x \in DOMAIN d : v = d[x]
      <4>1. PICK i \in 1 .. n : v = s[i]  BY <1>1
      <4>2. i # k  BY <2>1, <4>1
      <4> DEFINE x == IF i < k THEN i ELSE i - 1
      <4>3. x \in 1 .. n - 1 /\ (IF x < k THEN x ELSE x + 1) = i  BY <1>1, <2>5, <4>1, <4>2
      <4>4. d[x] = s[i]  BY <2>7, <4>3
      <4> HIDE DEF x
      <4> QED  BY <2>8, <4>1, <4>3, <4>4
    <3>2. ASSUME NEW x \in DOMAIN d  PROVE d[x] \in W \ {w}
      <4> DEFINE i == IF x < k THEN x ELSE x + 1
      <4>1. i \in 1 .. n /\ i # k  BY <1>1, <2>5, <2>8
      <4>2. d[x] = s[i]  BY <2>7, <2>8
      <4> HIDE DEF i
      <4>3. s[i] # w  BY <1>1, <2>1, <2>5, <4>1 DEF Stacked
      <4> QED  BY <1>1, <4>1, <4>2, <4>3
    <3> QED  BY <3>1, <3>2
  <2>11. s[n] # w => Len(d) # 0 /\ d[Len(d)] = s[n]
    <3> SUFFICES ASSUME s[n] # w PROVE Len(d) # 0 /\ d[Len(d)] = s[n]  OBVIOUS
    <3>1. k # n /\ k <= n - 1 /\ n - 1 \in 1 .. n - 1  BY <1>1, <2>1, <2>5
    <3>2. (IF n - 1 < k THEN n - 1 ELSE n - 1 + 1) = n
      <4> HIDE DEF n
      <4>1. n \in Int /\ k \in Int /\ k <= n - 1  BY <1>1, <2>5, <3>1
      <4> QED  BY <4>1
    <3>3. d[n - 1] = s[n]  BY <2>7, <3>1, <3>2
    <3> QED  BY <1>1, <2>8, <3>1, <3>3
  <2>12. Len(d) # 0 => d # <<>>  OBVIOUS
  <2>13. Stacked(d, W \ {w})  BY <2>8, <2>9, <2>10 DEF Stacked
  <2> QED  BY <2>4, <2>11, <2>12, <2>13
<1> QED  BY <1>2, <1>3

(* Raised, it is on top. *)
LEMMA RaisedIs ==
  ASSUME NEW s, NEW W, Stacked(s, W), NEW w \in Dsk!Win
  PROVE  /\ Stacked(Dsk!Raised(s, w), W \cup {w})
         /\ Dsk!Raised(s, w) # <<>> /\ Dsk!Raised(s, w)[Len(Dsk!Raised(s, w))] = w
<1> DEFINE d == Dsk!Dropped(s, w)  n == Len(d)  r == Append(d, w)
<1>1. Stacked(d, W \ {w})  BY DroppedIs
<1> HIDE DEF d
<1>2. d \in Seq(Dsk!Win) /\ n \in Nat /\ DOMAIN d = 1 .. n  BY <1>1 DEF Stacked
<1>3. r \in Seq(Dsk!Win) /\ Len(r) = n + 1 /\ DOMAIN r = 1 .. n + 1 /\ r[n + 1] = w /\ \A i \in 1 .. n : r[i] = d[i]
  BY <1>2
<1> HIDE DEF r
<1>4. \A i \in 1 .. n : d[i] # w  BY <1>1, <1>2 DEF Stacked
<1>5. \A i \in 1 .. n + 1 : i \in 1 .. n \/ i = n + 1  BY <1>2
<1>6. \A i, j \in DOMAIN r : r[i] = r[j] => i = j
  <2>1. \A i, j \in 1 .. n : d[i] = d[j] => i = j  BY <1>1, <1>2 DEF Stacked
  <2> QED  BY <1>3, <1>4, <1>5, <2>1
<1>7. W \cup {w} = {r[i] : i \in DOMAIN r}
  <2>1. W \ {w} = {d[i] : i \in 1 .. n}  BY <1>1, <1>2 DEF Stacked
  <2>2. \A i \in 1 .. n : d[i] \in W  BY <1>1, <1>2 DEF Stacked
  <2>3. 1 .. n \subseteq 1 .. n + 1 /\ n + 1 \in 1 .. n + 1  BY <1>2
  <2>4. \A v \in W \ {w} : \E i \in 1 .. n : v = r[i]  BY <1>3, <2>1
  <2> HIDE DEF n
  <2>5. W \cup {w} \subseteq {r[i] : i \in 1 .. n + 1}  BY <1>3, <2>3, <2>4
  <2>6. \A i \in 1 .. n + 1 : r[i] \in W \cup {w}  BY <1>3, <1>5, <2>2
  <2> QED  BY <1>3, <2>5, <2>6
<1>8. Dsk!Raised(s, w) = r  BY DEF Dsk!Raised, d, r
<1>9. r # <<>>  BY <1>2, <1>3
<1> QED  BY <1>3, <1>6, <1>7, <1>8, <1>9 DEF Stacked

Question == {"none", "new", "close", "other"}
Button == {"min", "max", "close", "dialog"}

(* The invariant, of the windows: the stack has each open one once, and the last one the
   user dealt with on top; and of what is pressed, asked and popped up. *)
DeskWinsOK ==
  /\ opened \subseteq Dsk!Win /\ Stacked(stack, opened)
  /\ lately # NoWin => stack # <<>> /\ stack[Len(stack)] = lately
KindsOK ==
  /\ asks \in [Notes -> Question]
  /\ menu \in Dsk!Win \cup {NoWin} /\ hold \in Dsk!Win \cup {NoWin}
  /\ down = Dsk!NotArmed \/ down \in [kind : Button, win : Dsk!Win]
  /\ popup \in {"none", "start", "power", "clock"} /\ clicked \subseteq Dsk!Icons
DeskInv == DeskWinsOK /\ KindsOK

(* How windows can change in a step: not at all, one comes to the front, or one closes,
   a window of Notepad by its answer. *)
Stays == UNCHANGED <<opened, stack, lately>>
Comes(w) == opened' = opened \cup {w} /\ Dsk!Raise(w)
Goes(w) == Dsk!Closes(w) /\ (w \in Notes => asks[w] = "close" /\ asks'[w] = "none")
Moves == Stays \/ \E w \in Dsk!Win : Comes(w) \/ Goes(w)

LEMMA MovesKeep ==
  ASSUME DeskWinsOK, Moves
  PROVE  DeskWinsOK'
<1>1. CASE Stays  BY <1>1 DEF Stays, DeskWinsOK, Stacked
<1>2. ASSUME NEW w \in Dsk!Win, Comes(w)  PROVE DeskWinsOK'
  <2>1. opened' = opened \cup {w} /\ stack' = Dsk!Raised(stack, w) /\ lately' = w  BY <1>2 DEF Comes, Dsk!Raise
  <2>2. /\ Stacked(Dsk!Raised(stack, w), opened \cup {w})
        /\ Dsk!Raised(stack, w) # <<>> /\ Dsk!Raised(stack, w)[Len(Dsk!Raised(stack, w))] = w
    BY RaisedIs DEF DeskWinsOK
  <2>3. opened' \subseteq Dsk!Win  BY <2>1 DEF DeskWinsOK
  <2>4. Stacked(stack, opened)'  BY <2>1, <2>2 DEF Stacked
  <2> QED  BY <2>1, <2>2, <2>3, <2>4 DEF DeskWinsOK
<1>3. ASSUME NEW w \in Dsk!Win, Goes(w)  PROVE DeskWinsOK'
  <2>1. opened' = opened \ {w} /\ stack' = Dsk!Dropped(stack, w) /\ lately' = IF lately = w THEN NoWin ELSE lately
    BY <1>3 DEF Goes, Dsk!Closes
  <2>2. /\ Stacked(Dsk!Dropped(stack, w), opened \ {w})
        /\ stack # <<>> /\ stack[Len(stack)] # w =>
             Dsk!Dropped(stack, w) # <<>> /\ Dsk!Dropped(stack, w)[Len(Dsk!Dropped(stack, w))] = stack[Len(stack)]
    BY DroppedIs DEF DeskWinsOK
  <2>3. opened' \subseteq Dsk!Win  BY <2>1 DEF DeskWinsOK
  <2>4. Stacked(stack, opened)'  BY <2>1, <2>2 DEF Stacked
  <2> QED  BY <2>1, <2>2, <2>3, <2>4 DEF DeskWinsOK
<1> QED  BY <1>1, <1>2, <1>3 DEF Moves

LEMMA OpensMove ==
  ASSUME DeskInv, NEW w \in Dsk!Win, Dsk!Opens(w)
  PROVE  Moves /\ asks' \in [Notes -> Question]
<1>1. Comes(w)  BY DEF Dsk!Opens, Comes
<1>2. asks' \in [Notes -> Question]  BY DEF Dsk!Opens, DeskInv, KindsOK, Question
<1> QED  BY <1>1, <1>2 DEF Moves

LEMMA IconsMove ==
  ASSUME DeskInv, NEW i \in Dsk!Icons, Dsk!OpensFor(i)
  PROVE  Moves /\ asks' \in [Notes -> Question]
<1>1. ASSUME NEW w \in Dsk!Win, Dsk!Opens(w)  PROVE Moves /\ asks' \in [Notes -> Question]  BY <1>1, OpensMove
<1>2. CASE Dsk!SameWins  BY <1>2 DEF Dsk!SameWins, Moves, Stays, DeskInv, KindsOK
<1>3. Dsk!SameWins \/ \E w \in Dsk!Win : Dsk!Opens(w)  BY DEF Dsk!OpensFor, Dsk!Icons, Dsk!Win
<1> QED  BY <1>1, <1>2, <1>3

(* A press on what has popped up, on a pill of the taskbar, or beside all windows. *)
LEMMA PressesMove ==
  ASSUME Dsk!ConstantsOK, DeskInv,
         \/ Dsk!OnPopup
         \/ \E what \in {"start", "clock"} : Dsk!PopsUp(what)
         \/ \E i \in Dsk!Icons : Dsk!PressIcon(i) \/ Dsk!TooLate(i)
         \/ \E w \in Dsk!Win : Dsk!PillRestore(w) \/ Dsk!PillClose(w)
  PROVE  Moves /\ KindsOK'
<1>1. KindsOK /\ opened \subseteq Dsk!Win  BY DEF DeskInv, DeskWinsOK
<1>2. Dsk!SameWins => Moves /\ asks' \in [Notes -> Question]  BY <1>1 DEF Dsk!SameWins, Moves, Stays, KindsOK
<1>3. CASE Dsk!OnPopup
  <2>1. Dsk!SameWins \/ \E i \in Dsk!Icons : Dsk!OpensFor(i)  BY <1>3 DEF Dsk!OnPopup
  <2>2. Moves /\ asks' \in [Notes -> Question]  BY <1>2, <2>1, IconsMove
  <2>3. popup' \in {"none", "start", "power", "clock"}  BY <1>3 DEF Dsk!OnPopup
  <2> QED  BY <1>1, <1>3, <2>2, <2>3 DEF Dsk!OnPopup, KindsOK
<1>4. ASSUME NEW what \in {"start", "clock"}, Dsk!PopsUp(what)  PROVE Moves /\ KindsOK'
  BY <1>1, <1>2, <1>4 DEF Dsk!PopsUp, KindsOK
<1>5. ASSUME NEW i \in Dsk!Icons, Dsk!PressIcon(i)  PROVE Moves /\ KindsOK'
  <2>1. Dsk!SameWins \/ Dsk!OpensFor(i)  BY <1>5 DEF Dsk!PressIcon
  <2>2. Moves /\ asks' \in [Notes -> Question]  BY <1>2, <2>1, IconsMove
  <2>3. clicked' \subseteq Dsk!Icons  BY <1>1, <1>5 DEF Dsk!PressIcon, KindsOK
  <2> QED  BY <1>1, <1>5, <2>2, <2>3 DEF Dsk!PressIcon, KindsOK
<1>6. ASSUME NEW i \in Dsk!Icons, Dsk!TooLate(i)  PROVE Moves /\ KindsOK'
  <2>1. clicked' \subseteq Dsk!Icons  BY <1>1, <1>6 DEF Dsk!TooLate, KindsOK
  <2> QED  BY <1>1, <1>2, <1>6, <2>1 DEF Dsk!TooLate, KindsOK
<1>7. ASSUME NEW w \in Dsk!Win, Dsk!PillRestore(w)  PROVE Moves /\ KindsOK'
  <2>1. Comes(w)  BY <1>7 DEF Dsk!PillRestore, Comes
  <2> QED  BY <1>1, <1>7, <2>1 DEF Dsk!PillRestore, KindsOK, Moves
<1>8. ASSUME NEW w \in Dsk!Win, Dsk!PillClose(w)  PROVE Moves /\ KindsOK'
  <2>1. CASE w \in Notes
    <3>1. Comes(w)  BY <1>8, <2>1 DEF Dsk!PillClose, Comes
    <3>2. asks' \in [Notes -> Question]  BY <1>1, <1>8, <2>1 DEF Dsk!PillClose, KindsOK, Question
    <3> QED  BY <1>1, <1>8, <3>1, <3>2 DEF Dsk!PillClose, KindsOK, Moves
  <2>2. CASE w \notin Notes
    <3>1. Goes(w)  BY <1>8, <2>2 DEF Dsk!PillClose, Goes
    <3> QED  BY <1>1, <1>8, <2>2, <3>1 DEF Dsk!PillClose, KindsOK, Moves
  <2> QED  BY <2>1, <2>2
<1> QED  BY <1>3, <1>4, <1>5, <1>6, <1>7, <1>8

(* A press on a window, which raises it or answers its question. *)
LEMMA WindowPressesMove ==
  ASSUME Dsk!ConstantsOK, DeskInv,
         \/ \E w \in Dsk!Win : Dsk!PressEdge(w) \/ Dsk!PressTitle(w) \/ Dsk!PressMenu(w)
         \/ \E w \in Dsk!Win, kind \in Button : Dsk!PressButton(w, kind)
         \/ \E w \in Notes : Dsk!PressAnswer(w)
  PROVE  Moves /\ KindsOK'
<1>1. KindsOK /\ opened \subseteq Dsk!Win  BY DEF DeskInv, DeskWinsOK
<1>2. ASSUME NEW w \in Dsk!Win, Dsk!Seen(w), Dsk!Raise(w), UNCHANGED opened  PROVE Moves
  <2>1. Comes(w)  BY <1>2 DEF Comes, Dsk!Seen
  <2> QED  BY <2>1 DEF Moves
<1>3. \A w \in Dsk!Win : Dsk!MenuAfter(w) \in Dsk!Win \cup {NoWin}  BY DEF Dsk!MenuAfter
<1>4. ASSUME NEW w \in Dsk!Win, Dsk!PressEdge(w)  PROVE Moves /\ KindsOK'
  <2>1. Moves  BY <1>2, <1>4 DEF Dsk!PressEdge
  <2> QED  BY <1>1, <1>3, <1>4, <2>1 DEF Dsk!PressEdge, KindsOK
<1>5. ASSUME NEW w \in Dsk!Win, Dsk!PressTitle(w)  PROVE Moves /\ KindsOK'
  <2>1. Moves  BY <1>2, <1>5 DEF Dsk!PressTitle
  <2> QED  BY <1>1, <1>5, <2>1 DEF Dsk!PressTitle, KindsOK
<1>6. ASSUME NEW w \in Dsk!Win, Dsk!PressMenu(w)  PROVE Moves /\ KindsOK'
  <2>1. Moves  BY <1>2, <1>6 DEF Dsk!PressMenu
  <2>2. menu' \in Dsk!Win \cup {NoWin}  BY <1>6 DEF Dsk!PressMenu
  <2>3. asks' \in [Notes -> Question]  BY <1>1, <1>6 DEF Dsk!PressMenu, KindsOK, Question
  <2>4. UNCHANGED <<down, hold, popup, clicked>>  BY <1>6 DEF Dsk!PressMenu
  <2> QED  BY <1>1, <2>1, <2>2, <2>3, <2>4 DEF KindsOK
<1>7. ASSUME NEW w \in Dsk!Win, NEW kind \in Button, Dsk!PressButton(w, kind)  PROVE Moves /\ KindsOK'
  <2>1. Moves  BY <1>2, <1>7 DEF Dsk!PressButton
  <2>2. down' \in [kind : Button, win : Dsk!Win]  BY <1>7 DEF Dsk!PressButton
  <2>3. menu' = Dsk!MenuAfter(w) /\ UNCHANGED <<asks, hold, popup, clicked>>  BY <1>7 DEF Dsk!PressButton
  <2> QED  BY <1>1, <1>3, <2>1, <2>2, <2>3 DEF KindsOK
<1>8. ASSUME NEW w \in Notes, Dsk!PressAnswer(w)  PROVE Moves /\ KindsOK'
  <2>1. w \in Dsk!Win  BY DEF Dsk!Win
  <2>2. asks' \in [Notes -> Question]  BY <1>1, <1>8 DEF Dsk!PressAnswer, KindsOK, Question
  <2>3. CASE asks[w] = "close" /\ Dsk!Closes(w) /\ asks' = [asks EXCEPT ![w] = "none"]
    <3>1. asks'[w] = "none"  BY <1>1, <2>3 DEF KindsOK
    <3>2. Goes(w)  BY <2>3, <3>1 DEF Goes
    <3> QED  BY <1>1, <1>3, <1>8, <2>1, <2>2, <3>2 DEF Dsk!PressAnswer, KindsOK, Moves
  <2>4. CASE Dsk!Raise(w) /\ UNCHANGED <<opened, mini>>
    <3>1. Moves  BY <1>2, <1>8, <2>1, <2>4 DEF Dsk!PressAnswer
    <3> QED  BY <1>1, <1>3, <1>8, <2>1, <2>2, <3>1 DEF Dsk!PressAnswer, KindsOK
  <2> QED  BY <1>8, <2>3, <2>4 DEF Dsk!PressAnswer
<1> QED  BY <1>4, <1>5, <1>6, <1>7, <1>8

LEMMA FiresMove ==
  ASSUME DeskInv, NEW w \in Dsk!Win, NEW kind \in Button, Dsk!Fire(w, kind)
  PROVE  Moves /\ asks' \in [Notes -> Question]
<1>1. asks \in [Notes -> Question]  BY DEF DeskInv, KindsOK
<1>2. CASE kind = "close"
  <2>1. CASE w \in Notes  BY <1>1, <1>2, <2>1 DEF Dsk!Fire, Moves, Stays, Question
  <2>2. CASE w \notin Notes
    <3>1. Goes(w) /\ asks' = asks  BY <1>2, <2>2 DEF Dsk!Fire, Goes
    <3> QED  BY <1>1, <3>1 DEF Moves
  <2> QED  BY <2>1, <2>2
<1>3. CASE kind # "close"
  <2>1. Stays  BY <1>3 DEF Dsk!Fire, Stays, Dsk!SameWins
  <2>2. asks' = asks \/ asks' = [asks EXCEPT ![w] = "none"]  BY <1>3 DEF Dsk!Fire, Dsk!SameWins
  <2>3. "none" \in Question  BY DEF Question
  <2>4. asks' \in [Notes -> Question]  BY <1>1, <2>2, <2>3
  <2> QED  BY <2>1, <2>4 DEF Moves
<1> QED  BY <1>2, <1>3

LEMMA KeysMove ==
  ASSUME Dsk!ConstantsOK, DeskInv, Dsk!KeyAnswer \/ Dsk!Release \/ \E q \in {"new", "close"} : Dsk!KeyAsk(q)
  PROVE  Moves /\ KindsOK'
<1>1. KindsOK /\ asks \in [Notes -> Question] /\ NoWin \notin Dsk!Win  BY DEF DeskInv, KindsOK, Dsk!ConstantsOK, Dsk!Win
<1>2. CASE Dsk!KeyAnswer
  <2> DEFINE w == Dsk!Focused
  <2>1. w \in Notes /\ w \in Dsk!Win /\ Dsk!Answer(w)  BY <1>2 DEF Dsk!KeyAnswer, Dsk!Win
  <2> HIDE DEF w
  <2>2. asks' = [asks EXCEPT ![w] = "none"] \/ asks' = asks  BY <2>1 DEF Dsk!Answer
  <2>3. asks' \in [Notes -> Question]  BY <1>1, <2>2 DEF Question
  <2>4. Stays \/ (asks[w] = "close" /\ Dsk!Closes(w) /\ asks' = [asks EXCEPT ![w] = "none"])  BY <2>1 DEF Dsk!Answer, Stays
  <2>5. asks' = [asks EXCEPT ![w] = "none"] => asks'[w] = "none"  BY <1>1, <2>1
  <2>6. Moves  BY <2>1, <2>4, <2>5 DEF Moves, Goes
  <2> QED  BY <1>1, <1>2, <2>3, <2>6 DEF Dsk!KeyAnswer, KindsOK
<1>3. CASE Dsk!Release
  <2>1. CASE Dsk!SameWins
    <3>1. Moves /\ asks' = asks  BY <2>1 DEF Dsk!SameWins, Moves, Stays
    <3> QED  BY <1>1, <1>3, <3>1 DEF Dsk!Release, KindsOK
  <2>2. CASE down # Dsk!NotArmed /\ Dsk!Fire(down.win, down.kind)
    <3>1. down \in [kind : Button, win : Dsk!Win]  BY <1>1, <2>2 DEF KindsOK
    <3>2. down.win \in Dsk!Win /\ down.kind \in Button  BY <3>1
    <3>3. Moves /\ asks' \in [Notes -> Question]  BY <2>2, <3>2, FiresMove
    <3> QED  BY <1>1, <1>3, <3>3 DEF Dsk!Release, KindsOK
  <2> QED  BY <1>3, <2>1, <2>2 DEF Dsk!Release
<1>4. ASSUME NEW q \in {"new", "close"}, Dsk!KeyAsk(q)  PROVE Moves /\ KindsOK'
  <2>1. asks' \in [Notes -> Question] /\ Stays  BY <1>1, <1>4 DEF Dsk!KeyAsk, Stays, Question
  <2> QED  BY <1>1, <1>4, <2>1 DEF Dsk!KeyAsk, KindsOK, Moves
<1> QED  BY <1>2, <1>3, <1>4

LEMMA ProgramsMove ==
  ASSUME Dsk!ConstantsOK, DeskInv, NEW p \in Prog, Dsk!Launch(p) \/ Dsk!Ends(p)
  PROVE  Moves /\ KindsOK'
<1>1. KindsOK /\ p \in Dsk!Win /\ p \notin Notes  BY DEF DeskInv, Dsk!ConstantsOK, Dsk!Win
<1>2. CASE Dsk!Launch(p)
  <2>1. Moves /\ asks' \in [Notes -> Question]  BY <1>1, <1>2, OpensMove DEF Dsk!Launch
  <2> QED  BY <1>1, <1>2, <2>1 DEF Dsk!Launch, KindsOK
<1>3. CASE Dsk!Ends(p)
  <2>1. Goes(p)  BY <1>1, <1>3 DEF Dsk!Ends, Goes
  <2> QED  BY <1>1, <1>3, <2>1 DEF Dsk!Ends, KindsOK, Moves
<1> QED  BY <1>2, <1>3

LEMMA DeskMoves ==
  ASSUME Dsk!ConstantsOK, DeskInv, Dsk!Next
  PROVE  Moves /\ KindsOK'
<1>1. {"min", "max", "close", "dialog"} = Button  BY DEF Button
<1>2. CASE Dsk!OnPopup \/ (\E what \in {"start", "clock"} : Dsk!PopsUp(what))
           \/ (\E i \in Dsk!Icons : Dsk!PressIcon(i) \/ Dsk!TooLate(i)) \/ \E w \in Dsk!Win : Dsk!PillRestore(w) \/ Dsk!PillClose(w)
  BY <1>2, PressesMove
<1>3. CASE (\E w \in Dsk!Win : Dsk!PressEdge(w) \/ Dsk!PressTitle(w) \/ Dsk!PressMenu(w))
           \/ (\E w \in Dsk!Win, kind \in Button : Dsk!PressButton(w, kind)) \/ \E w \in Notes : Dsk!PressAnswer(w)
  BY <1>3, WindowPressesMove
<1>4. CASE Dsk!KeyAnswer \/ Dsk!Release \/ \E q \in {"new", "close"} : Dsk!KeyAsk(q)  BY <1>4, KeysMove
<1>5. CASE \E p \in Prog : Dsk!Launch(p) \/ Dsk!Ends(p)  BY <1>5, ProgramsMove
<1> QED  BY <1>1, <1>2, <1>3, <1>4, <1>5 DEF Dsk!Next

LEMMA DeskInit ==
  ASSUME Dsk!ConstantsOK, Dsk!Init
  PROVE  DeskInv
<1>1. opened = {} /\ stack = <<>> /\ lately = NoWin  BY DEF Dsk!Init
<1>2. stack \in Seq(Dsk!Win) /\ DOMAIN stack = {}  BY <1>1
<1>3. Stacked(stack, opened)  BY <1>1, <1>2 DEF Stacked
<1>4. DeskWinsOK  BY <1>1, <1>3 DEF DeskWinsOK
<1>5. asks \in [Notes -> Question]  BY DEF Dsk!Init, Question
<1> QED  BY <1>4, <1>5 DEF Dsk!Init, DeskInv, KindsOK

LEMMA DeskStep ==
  ASSUME Dsk!ConstantsOK, DeskInv, [Dsk!Next]_(Dsk!vars)
  PROVE  DeskInv'
<1>1. CASE Dsk!Next
  <2>1. Moves /\ KindsOK'  BY <1>1, DeskMoves
  <2> QED  BY <2>1, MovesKeep DEF DeskInv
<1>2. CASE UNCHANGED Dsk!vars  BY <1>2 DEF Dsk!vars, DeskInv, DeskWinsOK, KindsOK, Stacked
<1> QED  BY <1>1, <1>2

LEMMA DeskMeans ==
  ASSUME Dsk!ConstantsOK, DeskInv
  PROVE  Dsk!TypeOK /\ Dsk!StackMatches /\ Dsk!FocusIsLast
<1>1. Dsk!TypeOK
  <2>1. down.win \in Dsk!Win \cup {NoWin}  BY DEF DeskInv, KindsOK, Dsk!NotArmed
  <2> QED  BY <2>1 DEF DeskInv, DeskWinsOK, KindsOK, Dsk!TypeOK, Question
<1>2. Dsk!StackMatches  BY DEF DeskInv, DeskWinsOK, Stacked, Dsk!StackMatches, Dsk!IsInjective, Dsk!ToSet
<1>3. Dsk!FocusIsLast
  <2> SUFFICES ASSUME Dsk!Seen(lately) PROVE Dsk!Focused = lately  BY DEF Dsk!FocusIsLast
  <2> DEFINE seen == {i \in DOMAIN stack : Dsk!Seen(stack[i])}  n == Len(stack)
  <2>1. lately # NoWin  BY DEF Dsk!Seen, DeskInv, DeskWinsOK, Dsk!ConstantsOK, Dsk!Win
  <2>2. stack \in Seq(Dsk!Win) /\ DOMAIN stack = 1 .. n /\ n \in Nat /\ stack # <<>> /\ stack[n] = lately
    BY <2>1 DEF DeskInv, DeskWinsOK, Stacked
  <2>3. n \in seen /\ \A j \in seen : j <= n  BY <2>2
  <2>4. \A i \in seen : (\A j \in seen : j <= i) => i = n  BY <2>2, <2>3
  <2>5. (CHOOSE i \in seen : \A j \in seen : j <= i) = n
    <3> HIDE DEF seen, n
    <3> QED  BY <2>3, <2>4
  <2>6. seen # {}  BY <2>3
  <2>7. Dsk!Focused = stack[CHOOSE i \in seen : \A j \in seen : j <= i]  BY <2>6 DEF Dsk!Focused
  <2> QED  BY <2>2, <2>5, <2>7
<1> QED  BY <1>1, <1>2, <1>3

(* Whatever is clicked, closed and asked: the z order has every open window once, and the keys
   go to the window the user dealt with last (win_z_raise, win_z_remove, handle_keyboard). *)
THEOREM StackStands == ASSUME Dsk!ConstantsOK PROVE Dsk!Spec => [](Dsk!TypeOK /\ Dsk!StackMatches /\ Dsk!FocusIsLast)
<1>1. Dsk!Init => DeskInv  BY DeskInit
<1>2. DeskInv /\ [Dsk!Next]_(Dsk!vars) => DeskInv'  BY DeskStep
<1>3. DeskInv => Dsk!TypeOK /\ Dsk!StackMatches /\ Dsk!FocusIsLast  BY DeskMeans
<1> QED  BY <1>1, <1>2, <1>3, PTL DEF Dsk!Spec

LEMMA ClosesAsked ==
  ASSUME Dsk!ConstantsOK, DeskInv, Dsk!Next
  PROVE  Dsk!ClosesByAnswerStep
<1>1. Moves  BY DeskMoves
<1>2. CASE Stays  BY <1>2 DEF Stays, Dsk!ClosesByAnswerStep
<1>3. ASSUME NEW w \in Dsk!Win, Comes(w)  PROVE Dsk!ClosesByAnswerStep  BY <1>3 DEF Comes, Dsk!ClosesByAnswerStep
<1>4. ASSUME NEW w \in Dsk!Win, Goes(w)  PROVE Dsk!ClosesByAnswerStep  BY <1>4 DEF Goes, Dsk!Closes, Dsk!ClosesByAnswerStep
<1> QED  BY <1>1, <1>2, <1>3, <1>4 DEF Moves

(* A window of Notepad closes by the answer to its question and never without one, wherever
   else a click goes in between (confirm_yes_action, confirm_no_action). *)
THEOREM ClosesWhenAnswered == ASSUME Dsk!ConstantsOK PROVE Dsk!Spec => Dsk!ClosesByAnswer
<1>1. Dsk!Init => DeskInv  BY DeskInit
<1>2. DeskInv /\ [Dsk!Next]_(Dsk!vars) => DeskInv'  BY DeskStep
<1>3. DeskInv /\ [Dsk!Next]_(Dsk!vars) => [Dsk!ClosesByAnswerStep]_(Dsk!vars)  BY ClosesAsked
<1> QED  BY <1>1, <1>2, <1>3, PTL DEF Dsk!Spec, Dsk!ClosesByAnswer

-----------------------------------------------------------------------------
(* MiniShell.  What the properties rest on. *)

Piece == [text : Shl!Word, secret : BOOLEAN]

(* The session: what is typed is secret only while a password is asked for, a password that
   is typed again is not empty, and root is earned. *)
SessionOK ==
  /\ {shown, on, root, earned} \subseteq BOOLEAN /\ mode \in {"none", "new", "confirm", "login"}
  /\ line \in Seq(Piece) /\ Len(line) <= 2 /\ entry \in Seq(Shl!Word) /\ Len(entry) <= 2
  /\ (on => shown) /\ (root => on) /\ (root => earned)
  /\ ~on => mode = "none"
  /\ mode = "none" => ~Shl!IsSecret(line)
  /\ mode = "confirm" => entry # <<>>

(* The ring of rows: no secret in it, and the progress line as many rows back as were printed
   since it was written. *)
ScreenOK ==
  /\ ring \in [0 .. RowCount - 1 -> {"line", "progress"}] /\ head \in 0 .. RowCount - 1
  /\ progress \in {NoTask} \cup 0 .. RowCount - 1
  /\ said \in 0 .. RowCount - 1
  /\ inst = "shell" /\ progress # NoTask =>
       (progress + said + 1 = head \/ progress + said + 1 = head + RowCount) /\ ring[progress] = "progress"

(* The question that waits is the one that was entered last, and nothing is installed
   while it does. *)
QuestionOK ==
  /\ question \in {NoTask} \cup Shl!Asking /\ inst \in {NoTask, "shell", "gui"} /\ jobs \in 0 .. Jobs
  /\ question # NoTask => asking = question /\ inst = NoTask /\ jobs < Jobs

ShellInv == SessionOK /\ ScreenOK /\ QuestionOK

LEMMA ShellInit ==
  ASSUME Shl!ConstantsOK, Shl!Init
  PROVE  ShellInv
<1>1. RowCount \in Nat /\ RowCount > 1 /\ Jobs \in Nat  BY DEF Shl!ConstantsOK
<1>2. SessionOK
  <2>1. <<>> \in Seq(Piece) /\ <<>> \in Seq(Shl!Word) /\ Len(<<>>) = 0 /\ DOMAIN <<>> = {}  OBVIOUS
  <2>2. line = <<>> /\ entry = <<>> /\ mode = "none" /\ shown = FALSE /\ on = FALSE /\ root = FALSE /\ earned = FALSE  BY DEF Shl!Init
  <2>3. ~Shl!IsSecret(line)  BY <2>1, <2>2 DEF Shl!IsSecret
  <2>4. {shown, on, root, earned} \subseteq BOOLEAN  BY <2>2
  <2>5. line \in Seq(Piece) /\ Len(line) <= 2 /\ entry \in Seq(Shl!Word) /\ Len(entry) <= 2  BY <2>1, <2>2
  <2> QED  BY <2>2, <2>3, <2>4, <2>5 DEF SessionOK
<1>3. ScreenOK
  <2>1. 0 \in 0 .. RowCount - 1  BY <1>1
  <2>2. ring \in [0 .. RowCount - 1 -> {"line", "progress"}]  BY DEF Shl!Init
  <2> QED  BY <2>1, <2>2 DEF Shl!Init, ScreenOK
<1>4. QuestionOK  BY <1>1 DEF Shl!Init, QuestionOK
<1> QED  BY <1>2, <1>3, <1>4 DEF ShellInv

(* A row of the ring, and the one so many rows after it. *)
LEMMA RowAt ==
  ASSUME Shl!ConstantsOK, NEW a \in Int
  PROVE  /\ RowCount \in Nat /\ RowCount > 1
         /\ a % RowCount \in 0 .. RowCount - 1
         /\ a \in 0 .. RowCount - 1 => a % RowCount = a
         /\ a \in RowCount .. 2 * RowCount - 1 => a % RowCount = a - RowCount
<1>1. RowCount \in Nat /\ RowCount > 1  BY DEF Shl!ConstantsOK
<1>2. a % RowCount \in 0 .. RowCount - 1  BY <1>1
<1>3. a \in 0 .. RowCount - 1 => a % RowCount = a  BY <1>1
<1>4. a \in RowCount .. 2 * RowCount - 1 => a % RowCount = a - RowCount  BY <1>1
<1> QED  BY <1>1, <1>2, <1>3, <1>4

(* The row of the progress, while lines are printed behind it. *)
LEMMA RowBehind ==
  ASSUME NEW R \in Int, NEW h \in Int, NEW s \in Int, NEW m \in Int, NEW p \in Int, NEW k \in Int, k >= 0, p < R, s + m < R,
         k = h + m \/ k = h + m - R, p + s + 1 = h \/ p + s + 1 = h + R
  PROVE  p + (s + m) + 1 = k \/ p + (s + m) + 1 = k + R
<1>1. CASE p + s + 1 = h  BY <1>1
<1>2. CASE p + s + 1 = h + R  BY <1>2
<1> QED  BY <1>1, <1>2

(* Printing rows none of which is a secret: the rows that are not reached stay. *)
LEMMA PrintedKeeps ==
  ASSUME Shl!ConstantsOK, Patient, ScreenOK, NEW lines, lines = <<"line">> \/ lines = <<"line", "line">>, Shl!Printed(lines),
         (progress' = progress /\ inst' = inst) \/ progress' = NoTask
  PROVE  ScreenOK'
<1>1. RowCount \in Nat /\ RowCount > 1  BY DEF Shl!ConstantsOK
<1>2. /\ ring \in [0 .. RowCount - 1 -> {"line", "progress"}] /\ head \in 0 .. RowCount - 1 /\ said \in 0 .. RowCount - 1
      /\ progress \in {NoTask} \cup 0 .. RowCount - 1
  BY DEF ScreenOK
<1> DEFINE m == Len(lines)  n(k) == {j \in DOMAIN lines : (head + j - 1) % RowCount = k}
<1>3. m \in 1 .. 2 /\ DOMAIN lines = 1 .. m /\ \A j \in 1 .. m : lines[j] = "line"  OBVIOUS
<1>4. ring' = [k \in 0 .. RowCount - 1 |-> IF n(k) = {} THEN ring[k] ELSE lines[CHOOSE j \in n(k) : \A i \in n(k) : i <= j]]
  BY DEF Shl!Printed
<1>5. head' = (head + m) % RowCount /\ said' = (IF inst = "shell" THEN said + m ELSE 0) /\ said' < RowCount
  BY DEF Shl!Printed
<1> HIDE DEF m
<1>6. \A k \in 0 .. RowCount - 1 : n(k) # {} => ring'[k] = "line"
  <2> TAKE k \in 0 .. RowCount - 1
  <2> SUFFICES ASSUME n(k) # {} PROVE ring'[k] = "line"  OBVIOUS
  <2>1. n(k) \subseteq 1 .. 2  BY <1>3
  <2>2. \E j \in n(k) : \A i \in n(k) : i <= j
    <3> DEFINE S == n(k)
    <3>1. S \subseteq 1 .. 2 /\ S # {}  BY <2>1
    <3> HIDE DEF S
    <3>2. CASE 2 \in S
      <4>1. \A i \in S : i <= 2  BY <3>1
      <4> QED  BY <3>2, <4>1 DEF S
    <3>3. CASE 2 \notin S
      <4>1. \A i \in S : i = 1  BY <3>1, <3>3
      <4>2. 1 \in S  BY <3>1, <4>1
      <4>3. \A i \in S : i <= 1  BY <4>1
      <4> QED  BY <4>2, <4>3 DEF S
    <3> QED  BY <3>2, <3>3
  <2>3. (CHOOSE j \in n(k) : \A i \in n(k) : i <= j) \in n(k)  BY <2>2
  <2>4. ring'[k] = lines[CHOOSE j \in n(k) : \A i \in n(k) : i <= j]  BY <1>4
  <2> QED  BY <1>3, <2>3, <2>4
<1>7. \A k \in 0 .. RowCount - 1 : n(k) = {} => ring'[k] = ring[k]  BY <1>4
<1>8. ring' \in [0 .. RowCount - 1 -> {"line", "progress"}]
  <2>1. \A k \in 0 .. RowCount - 1 : ring'[k] \in {"line", "progress"}  BY <1>2, <1>6, <1>7
  <2>2. ring' = [k \in 0 .. RowCount - 1 |-> ring'[k]]  BY <1>4
  <2> HIDE DEF n
  <2> QED  BY <2>1, <2>2
<1>9. head' \in 0 .. RowCount - 1 /\ (head + m < RowCount => head' = head + m) /\ (head + m >= RowCount => head' = head + m - RowCount)
  <2> DEFINE a == head + m
  <2>1. a \in Int /\ (a < RowCount => a \in 0 .. RowCount - 1) /\ (a >= RowCount => a \in RowCount .. 2 * RowCount - 1)
    BY <1>1, <1>2, <1>3
  <2>2. head' = a % RowCount  BY <1>5
  <2> HIDE DEF a
  <2>3. /\ a % RowCount \in 0 .. RowCount - 1
        /\ a \in 0 .. RowCount - 1 => a % RowCount = a
        /\ a \in RowCount .. 2 * RowCount - 1 => a % RowCount = a - RowCount
    BY <2>1, RowAt
  <2>4. head' \in 0 .. RowCount - 1 /\ (a < RowCount => head' = a) /\ (a >= RowCount => head' = a - RowCount)  BY <2>1, <2>2, <2>3
  <2> QED  BY <1>1, <1>2, <1>3, <2>4 DEF a
<1>10. said' \in 0 .. RowCount - 1  BY <1>1, <1>2, <1>3, <1>5
<1>11. progress' \in {NoTask} \cup 0 .. RowCount - 1  BY <1>2
<1>12. ASSUME inst' = "shell", progress' # NoTask
       PROVE  /\ progress' + said' + 1 = head' \/ progress' + said' + 1 = head' + RowCount
              /\ ring'[progress'] = "progress"
  <2> DEFINE p == progress
  <2>1. inst = "shell" /\ progress' = p /\ p \in 0 .. RowCount - 1 /\ said' = said + m  BY <1>2, <1>5, <1>12
  <2>2. (p + said + 1 = head \/ p + said + 1 = head + RowCount) /\ ring[p] = "progress"  BY <1>12, <2>1 DEF ScreenOK
  <2> HIDE DEF p
  <2>3. p + said' + 1 = head' \/ p + said' + 1 = head' + RowCount
    <3>1. said + m < RowCount  BY <1>5, <2>1
    <3>2. p + said + 1 = head \/ p + said + 1 = head + RowCount  BY <2>2
    <3>3. /\ RowCount \in Int /\ head \in Int /\ said \in Int /\ m \in Int /\ p \in Int /\ head' \in Int
          /\ head' >= 0 /\ p < RowCount /\ (head' = head + m \/ head' = head + m - RowCount)
      BY <1>1, <1>2, <1>3, <1>9, <2>1
    <3>4. PICK R \in Int, h \in Int, s \in Int, k \in Int, a \in Int, b \in Int :
            R = RowCount /\ h = head /\ s = said /\ k = head' /\ a = m /\ b = p
      BY <3>3
    <3>5. /\ k >= 0 /\ b < R /\ s + a < R /\ (k = h + a \/ k = h + a - R)
          /\ (b + s + 1 = h \/ b + s + 1 = h + R)
      BY <3>1, <3>2, <3>3, <3>4
    <3>6. b + (s + a) + 1 = k \/ b + (s + a) + 1 = k + R  BY <3>5, RowBehind
    <3> QED  BY <2>1, <3>4, <3>6
  <2>4. n(p) = {}
    <3> SUFFICES ASSUME NEW j \in 1 .. m, (head + j - 1) % RowCount = p  PROVE FALSE  BY <1>3
    <3>1. j \in Int /\ j >= 1 /\ j <= m /\ m <= 2 /\ m \in Int  BY <1>3
    <3> DEFINE a == head + j - 1
    <3>2. a \in Int /\ (a < RowCount => a \in 0 .. RowCount - 1) /\ (a >= RowCount => a \in RowCount .. 2 * RowCount - 1)
      BY <1>1, <1>2, <3>1
    <3>3. a % RowCount = p  OBVIOUS
    <3>4. said + m < RowCount  BY <1>5, <2>1
    <3>5. a = head + j - 1  OBVIOUS
    <3> HIDE DEF a
    <3>6. (a \in 0 .. RowCount - 1 => a % RowCount = a) /\ (a \in RowCount .. 2 * RowCount - 1 => a % RowCount = a - RowCount)  BY <3>2, RowAt
    <3>7. (a < RowCount => p = a) /\ (a >= RowCount => p = a - RowCount)  BY <3>2, <3>3, <3>6
    <3> QED  BY <1>1, <1>2, <2>1, <2>2, <3>1, <3>2, <3>4, <3>5, <3>7
  <2> QED  BY <1>7, <2>1, <2>2, <2>3, <2>4
<1> HIDE DEF n
<1> QED  BY <1>8, <1>9, <1>10, <1>11, <1>12 DEF ScreenOK

LEMMA SessionStays == ASSUME SessionOK, UNCHANGED <<Shl!session, earned>> PROVE SessionOK'
  BY DEF SessionOK, Shl!session, Shl!IsSecret
LEMMA ScreenStays == ASSUME ScreenOK, UNCHANGED <<Shl!screen, progress, inst, said>> PROVE ScreenOK'
  BY DEF ScreenOK, Shl!screen
LEMMA QuestionStays == ASSUME QuestionOK, UNCHANGED <<question, inst, jobs, asking>> PROVE QuestionOK'
  BY DEF QuestionOK

(* The words of a line. *)
LEMMA TextsAre ==
  ASSUME line \in Seq(Piece)
  PROVE  Shl!Texts(line) \in Seq(Shl!Word) /\ Len(Shl!Texts(line)) = Len(line) /\ (line # <<>> => Shl!Texts(line) # <<>>)
<1> DEFINE n == Len(line)
<1>1. n \in Nat /\ DOMAIN line = 1 .. n /\ \A k \in 1 .. n : line[k] \in Piece  OBVIOUS
<1>2. Shl!Texts(line) = [k \in 1 .. n |-> line[k].text]  BY <1>1 DEF Shl!Texts
<1>3. \A k \in 1 .. n : line[k].text \in Shl!Word  BY <1>1 DEF Piece
<1> DEFINE t == [k \in 1 .. n |-> line[k].text]
<1>4. t \in [1 .. n -> Shl!Word]  BY <1>3
<1> HIDE DEF t
<1>5. t \in Seq(Shl!Word) /\ Len(t) = n  BY <1>1, <1>4
<1>6. Shl!Texts(line) = t  BY <1>2 DEF t
<1>7. line # <<>> => n # 0  BY <1>1
<1> QED  BY <1>5, <1>6, <1>7

(* A line without a secret is echoed as any other. *)
LEMMA PlainEcho == ASSUME SessionOK, mode = "none" PROVE Shl!Echo = "line"
  BY DEF SessionOK, Shl!Echo

LEMMA OpenKeeps == ASSUME ShellInv, Shl!Open PROVE ShellInv'
<1>1. ScreenOK' /\ QuestionOK'  BY ScreenStays, QuestionStays DEF ShellInv, Shl!Open, Shl!hist, Shl!counts
<1>2. SessionOK'
  <2>1. shown' = TRUE /\ UNCHANGED <<on, root, mode, entry, line, earned>>  BY DEF Shl!Open, Shl!hist
  <2>2. Shl!IsSecret(line)' = Shl!IsSecret(line)  BY <2>1 DEF Shl!IsSecret
  <2> QED  BY <2>1, <2>2 DEF ShellInv, SessionOK
<1> QED  BY <1>1, <1>2 DEF ShellInv

LEMMA BeginKeeps == ASSUME Shl!ConstantsOK, Patient, ShellInv, Shl!SessionBegin PROVE ShellInv'
<1>1. QuestionOK'  BY QuestionStays DEF ShellInv, Shl!SessionBegin, Shl!hist
<1>2. ScreenOK'  BY PrintedKeeps DEF ShellInv, Shl!SessionBegin
<1>3. SessionOK'
  <2>1. mode = "none" /\ ~Shl!IsSecret(line)  BY DEF ShellInv, SessionOK, Shl!SessionBegin
  <2>2. ~Shl!IsSecret(line)'  BY <2>1 DEF Shl!SessionBegin, Shl!IsSecret
  <2>3. shown' = shown /\ on' = TRUE /\ root' = FALSE /\ mode' \in {"new", "none"} /\ UNCHANGED <<line, entry, earned>> /\ shown
    BY DEF Shl!SessionBegin, Shl!hist
  <2> QED  BY <2>2, <2>3 DEF ShellInv, SessionOK
<1> QED  BY <1>1, <1>2, <1>3 DEF ShellInv

LEMMA CloseKeeps == ASSUME ShellInv, Shl!Close PROVE ShellInv'
<1>1. ScreenOK' /\ QuestionOK'  BY ScreenStays, QuestionStays DEF ShellInv, Shl!Close, Shl!counts
<1>2. SessionOK'
  <2>1. <<>> \in Seq(Piece) /\ <<>> \in Seq(Shl!Word) /\ Len(<<>>) = 0 /\ DOMAIN <<>> = {}  OBVIOUS
  <2>2. line' = <<>> /\ entry' = <<>> /\ mode' = "none" /\ shown' = FALSE /\ on' = FALSE /\ root' = FALSE /\ earned' = FALSE
    BY DEF Shl!Close, Shl!SessionEnd, ShellInv, SessionOK
  <2>3. ~Shl!IsSecret(line)'  BY <2>1, <2>2 DEF Shl!IsSecret
  <2>4. {shown, on, root, earned}' \subseteq BOOLEAN  BY <2>2
  <2> QED  BY <2>1, <2>2, <2>3, <2>4 DEF SessionOK
<1> QED  BY <1>1, <1>2 DEF ShellInv

LEMMA TypeKeeps == ASSUME ShellInv, NEW w \in Shl!Word, Shl!Type(w) PROVE ShellInv'
<1>1. ScreenOK' /\ QuestionOK'  BY ScreenStays, QuestionStays DEF ShellInv, Shl!Type, Shl!counts, Shl!hist
<1>2. SessionOK'
  <2> DEFINE p == [text |-> w, secret |-> mode # "none"]
  <2>1. p \in Piece  BY DEF Piece
  <2>2. line \in Seq(Piece) /\ Len(line) < 2 /\ line' = Append(line, p)  BY DEF ShellInv, SessionOK, Shl!Type
  <2>3. line' \in Seq(Piece) /\ Len(line') <= 2  BY <2>1, <2>2
  <2>4. mode = "none" => ~Shl!IsSecret(line)'
    <3> SUFFICES ASSUME mode = "none" PROVE ~Shl!IsSecret(line')  BY DEF Shl!IsSecret
    <3>1. line = <<>>  BY DEF Shl!Type
    <3>2. line' = <<p>>  BY <2>2, <3>1
    <3>3. p.secret = (mode # "none")  OBVIOUS
    <3>4. ~p.secret  BY <3>3
    <3> HIDE DEF p
    <3> QED  BY <3>2, <3>4 DEF Shl!IsSecret
  <2>5. UNCHANGED <<shown, on, root, mode, entry, earned>>  BY DEF Shl!Type, Shl!hist
  <2> QED  BY <2>3, <2>4, <2>5 DEF ShellInv, SessionOK
<1> QED  BY <1>1, <1>2 DEF ShellInv

LEMMA FilesTypesKeeps == ASSUME ShellInv, NEW d \in Disk, Shl!FilesTypes(d) PROVE ShellInv'
<1>1. ScreenOK' /\ QuestionOK'  BY ScreenStays, QuestionStays DEF ShellInv, Shl!FilesTypes, Shl!counts, Shl!hist
<1>2. SessionOK'
  <2> DEFINE no == FALSE
  <2> HIDE DEF no
  <2> DEFINE p == [text |-> <<"os-inst", d>>, secret |-> no]
  <2>1. p \in Piece /\ p.secret = FALSE
    <3>1. <<"os-inst", d>> \in Shl!Word  BY DEF Shl!Word, Shl!Asking
    <3>2. no \in BOOLEAN  BY DEF no
    <3> QED  BY <3>1, <3>2 DEF Piece, no
  <2>2. line' = (IF mode # "none" THEN line ELSE <<p>>) /\ shown' = TRUE /\ UNCHANGED <<on, root, mode, entry, earned>>
    BY DEF Shl!FilesTypes, Shl!hist, p, no
  <2> HIDE DEF p
  <2>3. <<p>> \in Seq(Piece) /\ Len(<<p>>) = 1 /\ ~Shl!IsSecret(<<p>>)  BY <2>1 DEF Shl!IsSecret
  <2>4. mode' = "none" => ~Shl!IsSecret(line)'  BY <2>2, <2>3 DEF ShellInv, SessionOK, Shl!IsSecret
  <2>5. line' \in Seq(Piece) /\ Len(line') <= 2  BY <2>2, <2>3 DEF ShellInv, SessionOK
  <2> QED  BY <2>2, <2>4, <2>5 DEF ShellInv, SessionOK
<1> QED  BY <1>1, <1>2 DEF ShellInv

(* A password prompt is answered: a first entry, the same again, or a login. *)
LEMMA PwSubmitKeeps == ASSUME Shl!ConstantsOK, Patient, ShellInv, Shl!PwSubmit PROVE ShellInv'
<1>1. QuestionOK'  BY QuestionStays DEF ShellInv, Shl!PwSubmit
<1>2. ScreenOK'
  <2>1. Shl!Printed(<<"line">>) \/ UNCHANGED <<Shl!screen, said>>  BY DEF Shl!PwSubmit, ShellInv, SessionOK
  <2>2. progress' = progress /\ inst' = inst  BY DEF Shl!PwSubmit
  <2> QED  BY <2>1, <2>2, PrintedKeeps, ScreenStays DEF ShellInv
<1>3. SessionOK'
  <2> USE DEF ShellInv
  <2>1. <<>> \in Seq(Piece) /\ <<>> \in Seq(Shl!Word) /\ Len(<<>>) = 0 /\ DOMAIN <<>> = {}  OBVIOUS
  <2>2. line' = <<>> /\ UNCHANGED <<shown, on>> /\ mode # "none"  BY DEF Shl!PwSubmit
  <2>3. ~Shl!IsSecret(line)' /\ line' \in Seq(Piece) /\ Len(line') <= 2  BY <2>1, <2>2 DEF Shl!IsSecret
  <2>4. /\ Shl!Texts(line) \in Seq(Shl!Word) /\ Len(Shl!Texts(line)) <= 2 /\ (line # <<>> => Shl!Texts(line) # <<>>)
        /\ entry \in Seq(Shl!Word) /\ Len(entry) <= 2 /\ shown \in BOOLEAN /\ on \in BOOLEAN /\ root \in BOOLEAN /\ earned \in BOOLEAN
        /\ (on => shown) /\ (root => on) /\ (root => earned) /\ on
    BY <2>2, TextsAre DEF SessionOK
  <2>5. CASE mode = "new"
    <3>1. UNCHANGED <<root, earned>>  BY <2>5 DEF Shl!PwSubmit
    <3>2. (mode' = mode /\ entry' = entry) \/ (line # <<>> /\ entry' = Shl!Texts(line) /\ mode' = "confirm")  BY <2>5 DEF Shl!PwSubmit
    <3> QED  BY <2>2, <2>3, <2>4, <2>5, <3>1, <3>2 DEF SessionOK
  <2>6. CASE mode = "confirm"
    <3>1. entry # <<>> /\ entry' = <<>>  BY <2>6 DEF SessionOK, Shl!PwSubmit
    <3>2. CASE ~Shl!Matches
      <4>1. mode' = "new" /\ UNCHANGED <<root, earned>>  BY <2>6, <3>2 DEF Shl!PwSubmit
      <4> QED  BY <2>1, <2>2, <2>3, <2>4, <3>1, <4>1 DEF SessionOK
    <3>3. CASE Shl!Matches
      <4>1. root' = TRUE /\ mode' = "none" /\ earned' = (Shl!Texts(line) = entry /\ line # <<>>)  BY <2>6, <3>3 DEF Shl!PwSubmit
      <4>2. Shl!Texts(line) = entry  BY <3>3 DEF Shl!Matches
      <4>3. line # <<>>
        <5>1. Shl!Texts(<<>>) = <<>>  BY DEF Shl!Texts
        <5> QED  BY <3>1, <4>2, <5>1
      <4>4. earned' = TRUE  BY <4>1, <4>2, <4>3
      <4> QED  BY <2>1, <2>2, <2>3, <2>4, <3>1, <4>1, <4>4 DEF SessionOK
    <3> QED  BY <3>2, <3>3
  <2>7. CASE mode = "login"
    <3> DEFINE right == stored # NoTask /\ Shl!Texts(line) = stored
    <3>1. mode' = "none" /\ root' = (root \/ right) /\ earned' = (earned \/ right) /\ entry' = entry  BY <2>7 DEF Shl!PwSubmit
    <3> HIDE DEF right
    <3>2. root' \in BOOLEAN /\ earned' \in BOOLEAN /\ (root' => earned')  BY <2>4, <3>1
    <3> QED  BY <2>2, <2>3, <2>4, <3>1, <3>2 DEF SessionOK
  <2> QED  BY <2>2, <2>5, <2>6, <2>7 DEF SessionOK
<1> QED  BY <1>1, <1>2, <1>3 DEF ShellInv

(* A line is entered: as an answer, for nothing, or as a command. *)
LEMMA AnswerKeeps == ASSUME Shl!ConstantsOK, Patient, SessionOK, ScreenOK, QuestionOK, mode = "none", Shl!Answer
                     PROVE  ScreenOK' /\ question' = NoTask /\ inst' \in {NoTask, "shell", "gui"} /\ jobs' \in 0 .. Jobs
<1>1. Shl!Echo = "line"  BY PlainEcho
<1>2. Shl!Printed(<<"line", "line">>) /\ question' = NoTask  BY <1>1 DEF Shl!Answer
<1>3. question # NoTask /\ inst = NoTask /\ jobs < Jobs /\ jobs \in 0 .. Jobs /\ Jobs \in Nat  BY DEF Shl!Answer, QuestionOK, Shl!ConstantsOK
<1>4. (inst' = "shell" /\ progress' = NoTask /\ jobs' = jobs + 1) \/ UNCHANGED <<inst, progress, jobs>>  BY DEF Shl!Answer
<1>5. ScreenOK'  BY <1>2, <1>4, PrintedKeeps
<1>6. inst' \in {NoTask, "shell", "gui"} /\ jobs' \in 0 .. Jobs  BY <1>3, <1>4
<1> QED  BY <1>2, <1>5, <1>6

LEMMA WaitKeeps == ASSUME Shl!ConstantsOK, Patient, SessionOK, ScreenOK, QuestionOK, mode = "none", Shl!Wait
                   PROVE  ScreenOK' /\ question' = NoTask /\ inst' \in {NoTask, "shell", "gui"} /\ jobs' \in 0 .. Jobs
<1>1. Shl!Echo = "line"  BY PlainEcho
<1>2. Shl!Printed(<<"line", "line">>) /\ UNCHANGED <<question, inst, progress, jobs>>  BY <1>1 DEF Shl!Wait
<1>3. question = NoTask  BY DEF Shl!Wait, QuestionOK
<1>4. ScreenOK'  BY <1>2, PrintedKeeps
<1> QED  BY <1>2, <1>3, <1>4 DEF QuestionOK

LEMMA CommandKeeps == ASSUME Shl!ConstantsOK, Patient, SessionOK, ScreenOK, QuestionOK, mode = "none", Shl!Command
                      PROVE  /\ ScreenOK' /\ inst' = NoTask /\ jobs' = jobs
                             /\ question' # NoTask => Len(line) = 1 /\ line[1].text \in Shl!Asking /\ question' = line[1].text /\ jobs < Jobs
<1> DEFINE w == IF Len(line) = 1 THEN line[1].text ELSE <<"ls">>
<1>1. Shl!Echo = "line"  BY PlainEcho
<1>2. /\ question = NoTask /\ inst = NoTask /\ UNCHANGED <<inst, progress, jobs>>
      /\ question' = (IF w \in Shl!Asking /\ jobs < Jobs THEN w ELSE NoTask)
      /\ IF w # <<"clear">> THEN Shl!Printed(<<Shl!Echo, "line">>)
         ELSE head' = 0 /\ ring' = [ring EXCEPT ![head] = Shl!Echo] /\ said' = 0
  BY DEF Shl!Command
<1>3. <<"ls">> \notin Shl!Asking  BY DEF Shl!Asking
<1>4. w \in Shl!Asking => Len(line) = 1 /\ w = line[1].text  BY <1>3
<1> HIDE DEF w
<1>5. ScreenOK'
  <2>1. CASE w # <<"clear">>
    <3>1. Shl!Printed(<<"line", "line">>)  BY <1>1, <1>2, <2>1
    <3> QED  BY <1>2, <3>1, PrintedKeeps
  <2>2. CASE w = <<"clear">>
    <3>1. head' = 0 /\ ring' = [ring EXCEPT ![head] = "line"] /\ said' = 0 /\ progress' = progress  BY <1>1, <1>2, <2>2
    <3>2. inst' # "shell"  BY <1>2 DEF Shl!ConstantsOK
    <3>3. 0 \in 0 .. RowCount - 1  BY DEF Shl!ConstantsOK
    <3>4. ring' \in [0 .. RowCount - 1 -> {"line", "progress"}]
      <4> DEFINE S == {"line", "progress"}  l == "line"
      <4>1. ring \in [0 .. RowCount - 1 -> S] /\ l \in S /\ ring' = [ring EXCEPT ![head] = l]  BY <3>1 DEF ScreenOK
      <4> HIDE DEF S, l
      <4>2. ring' \in [0 .. RowCount - 1 -> S]  BY <4>1
      <4> QED  BY <4>2 DEF S
    <3> QED  BY <3>1, <3>2, <3>3, <3>4 DEF ScreenOK
  <2> QED  BY <2>1, <2>2
<1> QED  BY <1>2, <1>4, <1>5

LEMMA EnterKeeps == ASSUME Shl!ConstantsOK, Patient, ShellInv, Shl!Enter PROVE ShellInv'
<1>1. SessionOK /\ ScreenOK /\ QuestionOK /\ mode = "none" /\ on  BY DEF ShellInv, Shl!Enter
<1>2. /\ line' = <<>> /\ UNCHANGED <<shown, on, entry, earned>>
      /\ asking' = IF Len(line) = 1 /\ line[1].text \in Shl!Asking THEN line[1].text ELSE <<>>
  BY DEF Shl!Enter
<1>3. SessionOK'
  <2>1. <<>> \in Seq(Piece) /\ Len(<<>>) = 0 /\ DOMAIN <<>> = {}  OBVIOUS
  <2>2. ~Shl!IsSecret(line)' /\ line' \in Seq(Piece) /\ Len(line') <= 2  BY <1>2, <2>1 DEF Shl!IsSecret
  <2>3. mode' \in {"none", "login", "new"} /\ root' \in BOOLEAN /\ (root' => root)
    <3>1. CASE Shl!Answer  BY <1>1, <3>1 DEF Shl!Answer, SessionOK
    <3>2. CASE Shl!Wait  BY <1>1, <3>2 DEF Shl!Wait, SessionOK
    <3>3. CASE Shl!Command
      <4> DEFINE w == IF Len(line) = 1 THEN line[1].text ELSE <<"ls">>
      <4>1. /\ mode' = (IF w # <<"root">> \/ root THEN mode ELSE IF stored # NoTask THEN "login" ELSE "new")
            /\ root' = (root /\ w # <<"user">>)
        BY <3>3 DEF Shl!Command
      <4> HIDE DEF w
      <4>2. root \in BOOLEAN  BY <1>1 DEF SessionOK
      <4>3. mode' \in {"none", "login", "new"}  BY <1>1, <4>1
      <4>4. root' \in BOOLEAN /\ (root' => root)  BY <4>1, <4>2
      <4> QED  BY <4>3, <4>4
    <3> QED  BY <3>1, <3>2, <3>3 DEF Shl!Enter
  <2> QED  BY <1>1, <1>2, <2>2, <2>3 DEF SessionOK
<1>4. ScreenOK' /\ QuestionOK'
  <2>1. CASE Shl!Answer  BY <1>1, <2>1, AnswerKeeps DEF QuestionOK
  <2>2. CASE Shl!Wait  BY <1>1, <2>2, WaitKeeps DEF QuestionOK
  <2>3. CASE Shl!Command
    <3>1. ScreenOK' /\ inst' = NoTask /\ jobs' = jobs  BY <1>1, <2>3, CommandKeeps
    <3>2. question' # NoTask => Len(line) = 1 /\ line[1].text \in Shl!Asking /\ question' = line[1].text /\ jobs < Jobs
      BY <1>1, <2>3, CommandKeeps
    <3>3. question' # NoTask => asking' = question' /\ question' \in Shl!Asking  BY <1>2, <3>2
    <3> QED  BY <1>1, <3>1, <3>2, <3>3 DEF QuestionOK
  <2> QED  BY <2>1, <2>2, <2>3 DEF Shl!Enter
<1> QED  BY <1>3, <1>4 DEF ShellInv

LEMMA WipeKeeps == ASSUME Shl!ConstantsOK, Patient, ShellInv, Shl!MenuWipe PROVE ShellInv'
<1>1. SessionOK' /\ QuestionOK'  BY SessionStays, QuestionStays DEF ShellInv, Shl!MenuWipe, Shl!hist
<1>2. inst' # "shell" /\ 0 \in 0 .. RowCount - 1  BY DEF Shl!MenuWipe, Shl!ConstantsOK
<1>3. ScreenOK'  BY <1>2 DEF ShellInv, ScreenOK, Shl!MenuWipe
<1> QED  BY <1>1, <1>3 DEF ShellInv

LEMMA ToolKeeps == ASSUME ShellInv, Shl!MenuTool PROVE ShellInv'
<1>1. ScreenOK' /\ QuestionOK'  BY ScreenStays, QuestionStays DEF ShellInv, Shl!MenuTool, Shl!counts, Shl!hist
<1>2. SessionOK'
  <2> DEFINE no == FALSE
  <2> HIDE DEF no
  <2> DEFINE p == [text |-> <<"ls">>, secret |-> no]
  <2>1. p \in Piece /\ p.secret = FALSE
    <3>1. <<"ls">> \in Shl!Word  BY DEF Shl!Word, Shl!Commands
    <3>2. no \in BOOLEAN  BY DEF no
    <3> QED  BY <3>1, <3>2 DEF Piece, no
  <2>2. line' = <<p>> /\ UNCHANGED <<shown, on, root, mode, entry, earned>>  BY DEF Shl!MenuTool, Shl!hist, p, no
  <2> HIDE DEF p
  <2>3. <<p>> \in Seq(Piece) /\ Len(<<p>>) = 1 /\ ~Shl!IsSecret(<<p>>)  BY <2>1 DEF Shl!IsSecret
  <2>4. ~Shl!IsSecret(line)' /\ line' \in Seq(Piece) /\ Len(line') <= 2  BY <2>2, <2>3 DEF Shl!IsSecret
  <2> QED  BY <2>2, <2>4 DEF ShellInv, SessionOK
<1> QED  BY <1>1, <1>2 DEF ShellInv

LEMMA GuiKeeps == ASSUME Shl!ConstantsOK, Patient, ShellInv, Shl!GuiInstalls PROVE ShellInv'
<1>1. SessionOK'  BY SessionStays DEF ShellInv, Shl!GuiInstalls, Shl!hist
<1>2. ScreenOK'
  <2>1. inst' = "gui" /\ UNCHANGED <<ring, head, progress, said>>  BY DEF Shl!GuiInstalls, Shl!screen
  <2> QED  BY <2>1 DEF ShellInv, ScreenOK
<1>3. QuestionOK'
  <2>1. question' = NoTask /\ inst' = "gui" /\ jobs' = jobs + 1 /\ jobs < Jobs  BY DEF Shl!GuiInstalls
  <2>2. jobs' \in 0 .. Jobs  BY <2>1 DEF ShellInv, QuestionOK, Shl!ConstantsOK
  <2> QED  BY <2>1, <2>2 DEF QuestionOK
<1> QED  BY <1>1, <1>2, <1>3 DEF ShellInv

(* The newest row is the one before the head, around the ring. *)
LEMMA NewestIs ==
  ASSUME Shl!ConstantsOK, ScreenOK
  PROVE  /\ Shl!Newest \in 0 .. RowCount - 1 /\ (Shl!Newest + 1 = head \/ Shl!Newest + 1 = head + RowCount)
         /\ (head + 1) % RowCount \in 0 .. RowCount - 1
         /\ head + 1 = (head + 1) % RowCount \/ head + 1 = ((head + 1) % RowCount) + RowCount
<1>1. RowCount \in Nat /\ RowCount > 1 /\ head \in 0 .. RowCount - 1  BY DEF Shl!ConstantsOK, ScreenOK
<1> DEFINE a == head + RowCount - 1  b == head + 1
<1>2. a = head + RowCount - 1 /\ b = head + 1 /\ Shl!Newest = a % RowCount  BY DEF Shl!Newest
<1>3. a \in Int /\ b \in Int /\ a <= 2 * RowCount - 1 /\ a >= 0 /\ b >= 0 /\ b <= RowCount  BY <1>1
<1> HIDE DEF a, b
<1>4. /\ a % RowCount \in 0 .. RowCount - 1 /\ (a \in 0 .. RowCount - 1 => a % RowCount = a) /\ (a \in RowCount .. 2 * RowCount - 1 => a % RowCount = a - RowCount)
      /\ b % RowCount \in 0 .. RowCount - 1 /\ (b \in 0 .. RowCount - 1 => b % RowCount = b) /\ (b \in RowCount .. 2 * RowCount - 1 => b % RowCount = b - RowCount)
  BY <1>3, RowAt
<1>5. Shl!Newest \in 0 .. RowCount - 1 /\ (Shl!Newest + 1 = head \/ Shl!Newest + 1 = head + RowCount)  BY <1>1, <1>2, <1>3, <1>4
<1>6. b % RowCount \in 0 .. RowCount - 1 /\ (b = b % RowCount \/ b = (b % RowCount) + RowCount)  BY <1>1, <1>3, <1>4
<1> QED  BY <1>2, <1>5, <1>6

LEMMA AdvancesKeeps == ASSUME Shl!ConstantsOK, ShellInv, Shl!Advances PROVE ShellInv'
<1>1. SessionOK' /\ QuestionOK'  BY SessionStays, QuestionStays DEF ShellInv, Shl!Advances, Shl!hist
<1>2. RowCount \in Nat /\ RowCount > 1  BY DEF Shl!ConstantsOK
<1>3. /\ ring \in [0 .. RowCount - 1 -> {"line", "progress"}] /\ head \in 0 .. RowCount - 1
      /\ Shl!Newest \in 0 .. RowCount - 1 /\ (Shl!Newest + 1 = head \/ Shl!Newest + 1 = head + RowCount)
      /\ (head + 1) % RowCount \in 0 .. RowCount - 1
      /\ head + 1 = (head + 1) % RowCount \/ head + 1 = ((head + 1) % RowCount) + RowCount
  BY NewestIs DEF ShellInv, ScreenOK
<1>4. PICK place \in 0 .. RowCount - 1 :
         /\ ring' = [ring EXCEPT ![place] = "progress"] /\ said' = 0 /\ progress' = place
         /\ head' \in 0 .. RowCount - 1 /\ (place + 1 = head' \/ place + 1 = head' + RowCount)
  <2>1. CASE Shl!InPlace
    <3>1. ring' = [ring EXCEPT ![Shl!Newest] = "progress"] /\ head' = head /\ progress' = Shl!Newest /\ said' = 0
      BY <2>1 DEF Shl!Advances, Shl!InPlace
    <3> DEFINE n == Shl!Newest
    <3> HIDE DEF n
    <3>2. n \in 0 .. RowCount - 1 /\ (n + 1 = head' \/ n + 1 = head' + RowCount) /\ ring' = [ring EXCEPT ![n] = "progress"] /\ progress' = n
      BY <1>3, <3>1 DEF n
    <3> QED  BY <1>3, <3>1, <3>2
  <2>2. CASE ~Shl!InPlace
    <3>1. ring' = [ring EXCEPT ![head] = "progress"] /\ progress' = head /\ head' = (head + 1) % RowCount /\ said' = 0
      BY <2>2 DEF Shl!Advances
    <3> DEFINE h == (head + 1) % RowCount
    <3> HIDE DEF h
    <3>2. h \in 0 .. RowCount - 1 /\ (head + 1 = h \/ head + 1 = h + RowCount) /\ head' = h  BY <1>3, <3>1 DEF h
    <3> QED  BY <1>3, <3>1, <3>2
  <2> QED  BY <2>1, <2>2
<1>5. ring' \in [0 .. RowCount - 1 -> {"line", "progress"}] /\ ring'[place] = "progress"
  <2> DEFINE S == {"line", "progress"}  l == "progress"
  <2>1. ring \in [0 .. RowCount - 1 -> S] /\ l \in S /\ ring' = [ring EXCEPT ![place] = l]  BY <1>3, <1>4
  <2> HIDE DEF S, l
  <2>2. ring' \in [0 .. RowCount - 1 -> S] /\ ring'[place] = l  BY <2>1
  <2> QED  BY <2>2 DEF S, l
<1>6. 0 \in 0 .. RowCount - 1 /\ (place + 0 + 1 = head' \/ place + 0 + 1 = head' + RowCount)
  <2>1. 0 \in 0 .. RowCount - 1  BY <1>2
  <2>2. place + 0 + 1 = place + 1  BY <1>2
  <2>3. place + 1 = head' \/ place + 1 = head' + RowCount  BY <1>4
  <2> QED  BY <2>1, <2>2, <2>3
<1>7. ScreenOK'  BY <1>4, <1>5, <1>6 DEF ScreenOK
<1> QED  BY <1>1, <1>7 DEF ShellInv

LEMMA FinishesKeeps == ASSUME Shl!ConstantsOK, ShellInv, Shl!Finishes PROVE ShellInv'
<1>1. SessionOK' /\ QuestionOK'
  <2>1. SessionOK'  BY SessionStays DEF ShellInv, Shl!Finishes, Shl!hist
  <2>2. QuestionOK'  BY DEF ShellInv, Shl!Finishes, Shl!hist, QuestionOK
  <2> QED  BY <2>1, <2>2
<1>2. ring \in [0 .. RowCount - 1 -> {"line", "progress"}] /\ head \in 0 .. RowCount - 1 /\ progress \in {NoTask} \cup 0 .. RowCount - 1 /\ said \in 0 .. RowCount - 1
  BY DEF ShellInv, ScreenOK
<1>3. inst' # "shell" /\ progress' = progress  BY DEF Shl!Finishes, Shl!ConstantsOK
<1>4. ring' \in [0 .. RowCount - 1 -> {"line", "progress"}] /\ head' \in 0 .. RowCount - 1 /\ said' \in 0 .. RowCount - 1
  <2>1. CASE inst = "gui"  BY <1>2, <2>1 DEF Shl!Finishes, Shl!screen
  <2>2. CASE inst # "gui"
    <3>1. /\ head' = (head + 1) % RowCount /\ said' = 0
          /\ ring' = [k \in 0 .. RowCount - 1 |-> IF k = head THEN "line" ELSE IF k = Shl!Newest /\ Shl!InPlace THEN "progress" ELSE ring[k]]
      BY <1>2, <2>2 DEF Shl!Finishes
    <3>2. (head + 1) % RowCount \in 0 .. RowCount - 1 /\ 0 \in 0 .. RowCount - 1  BY NewestIs DEF ShellInv, Shl!ConstantsOK
    <3>3. ring' \in [0 .. RowCount - 1 -> {"line", "progress"}]
      <4> DEFINE u == Shl!Newest
      <4> HIDE DEF u
      <4>1. ring' = [k \in 0 .. RowCount - 1 |-> IF k = head THEN "line" ELSE IF k = u /\ Shl!InPlace THEN "progress" ELSE ring[k]]
        BY <3>1 DEF u
      <4> QED  BY <1>2, <4>1
    <3> QED  BY <3>1, <3>2, <3>3
  <2> QED  BY <2>1, <2>2
<1>5. ScreenOK'  BY <1>2, <1>3, <1>4 DEF ScreenOK
<1> QED  BY <1>1, <1>5 DEF ShellInv

LEMMA ShellStep == ASSUME Shl!ConstantsOK, Patient, ShellInv, [Shl!Next]_(Shl!vars) PROVE ShellInv'
<1>1. CASE Shl!Open  BY <1>1, OpenKeeps
<1>2. CASE Shl!SessionBegin  BY <1>2, BeginKeeps
<1>3. CASE Shl!Close  BY <1>3, CloseKeeps
<1>4. CASE Shl!PwSubmit  BY <1>4, PwSubmitKeeps
<1>5. CASE Shl!Enter  BY <1>5, EnterKeeps
<1>6. CASE Shl!MenuWipe  BY <1>6, WipeKeeps
<1>7. CASE Shl!MenuTool  BY <1>7, ToolKeeps
<1>8. CASE Shl!GuiInstalls  BY <1>8, GuiKeeps
<1>9. CASE Shl!Advances  BY <1>9, AdvancesKeeps
<1>10. CASE Shl!Finishes  BY <1>10, FinishesKeeps
<1>11. CASE \E w \in Shl!Word : Shl!Type(w)  BY <1>11, TypeKeeps
<1>12. CASE \E d \in Disk : Shl!FilesTypes(d)  BY <1>12, FilesTypesKeeps
<1>13. CASE UNCHANGED Shl!vars
  <2>1. UNCHANGED <<Shl!session, earned, Shl!screen, progress, inst, said, question, jobs, asking>>  BY <1>13 DEF Shl!vars, Shl!hist, Shl!counts
  <2> QED  BY <2>1, SessionStays, ScreenStays, QuestionStays DEF ShellInv
<1> QED  BY <1>1, <1>2, <1>3, <1>4, <1>5, <1>6, <1>7, <1>8, <1>9, <1>10, <1>11, <1>12, <1>13 DEF Shl!Next

(* What the invariant says of a state: the types, no secret on the screen, root earned. *)
LEMMA ShellSays == ASSUME Shl!ConstantsOK, ShellInv PROVE Shl!TypeOK /\ Shl!NeverEchoed /\ Shl!RootIsEarned
<1>1. Shl!TypeOK
  <2>1. ring \in [0 .. RowCount - 1 -> Shl!Row]  BY DEF ShellInv, ScreenOK, Shl!Row
  <2>2. jobs \in 0 .. Jobs + 1  BY DEF ShellInv, QuestionOK, Shl!ConstantsOK
  <2> QED  BY <2>1, <2>2 DEF Shl!TypeOK, ShellInv, SessionOK, ScreenOK, QuestionOK
<1>2. Shl!NeverEchoed
  <2>1. \A k \in 0 .. RowCount - 1 : ring[k] \in {"line", "progress"}  BY DEF ShellInv, ScreenOK
  <2>2. DOMAIN ring = 0 .. RowCount - 1  BY DEF ShellInv, ScreenOK
  <2> QED  BY <2>1, <2>2 DEF Shl!NeverEchoed
<1>3. Shl!RootIsEarned  BY DEF Shl!RootIsEarned, ShellInv, SessionOK
<1> QED  BY <1>1, <1>2, <1>3

(* What it says of a step: YES answers the question asked last, and the installation writes
   on no line but its own. *)
LEMMA ShellActs == ASSUME Shl!ConstantsOK, ShellInv PROVE Shl!StartsAsAskedStep /\ Shl!OwnLineOnlyStep
<1>1. Shl!StartsAsAskedStep  BY DEF Shl!StartsAsAskedStep, ShellInv, QuestionOK
<1>2. Shl!OwnLineOnlyStep
  <2> SUFFICES ASSUME inst = "shell", Shl!Advances \/ Shl!Finishes, NEW k \in DOMAIN ring, k # head
               PROVE  ring'[k] = ring[k]
    BY DEF Shl!OwnLineOnlyStep
  <2>1. ring \in [0 .. RowCount - 1 -> {"line", "progress"}] /\ DOMAIN ring = 0 .. RowCount - 1  BY DEF ShellInv, ScreenOK
  <2>2. Shl!Newest \in 0 .. RowCount - 1  BY NewestIs DEF ShellInv
  <2>3. Shl!InPlace => ring[Shl!Newest] = "progress"
    <3>1. NoTask \notin 0 .. RowCount - 1  BY DEF Shl!ConstantsOK
    <3>2. Shl!InPlace => progress # NoTask /\ progress = Shl!Newest  BY <2>2, <3>1 DEF Shl!InPlace
    <3> QED  BY <3>2 DEF ShellInv, ScreenOK
  <2> DEFINE n == Shl!Newest
  <2>4. Shl!InPlace => ring[n] = "progress"  BY <2>3
  <2>5. CASE Shl!Advances
    <3>1. ring' = (IF Shl!InPlace THEN [ring EXCEPT ![n] = "progress"] ELSE [ring EXCEPT ![head] = "progress"])  BY <2>5 DEF Shl!Advances
    <3> HIDE DEF n
    <3> QED  BY <2>1, <2>4, <3>1
  <2>6. CASE Shl!Finishes
    <3>1. ring' = [j \in DOMAIN ring |-> IF j = head THEN "line" ELSE IF j = n /\ Shl!InPlace THEN "progress" ELSE ring[j]]
      BY <2>6 DEF Shl!Finishes
    <3> HIDE DEF n
    <3> QED  BY <2>1, <2>4, <3>1
  <2> QED  BY <2>5, <2>6
<1> QED  BY <1>1, <1>2

(* With a patient user and any number of rows: no password ever gets into the scrollback, and
   who is root in a session knew or chose the password in it (term_pw_submit, term_session_end). *)
THEOREM NothingEchoed == ASSUME Shl!ConstantsOK, Patient PROVE Shl!Spec => [](Shl!TypeOK /\ Shl!NeverEchoed /\ Shl!RootIsEarned)
<1>1. Shl!Init => ShellInv  BY ShellInit
<1>2. ShellInv /\ [Shl!Next]_(Shl!vars) => ShellInv'  BY ShellStep
<1>3. ShellInv => Shl!TypeOK /\ Shl!NeverEchoed /\ Shl!RootIsEarned  BY ShellSays
<1> QED  BY <1>1, <1>2, <1>3, PTL DEF Shl!Spec

(* With a patient user: a YES starts what the line before it asked about, and the progress of
   an installation overwrites no row but its own (term_run_input, term_install_poll). *)
THEOREM InstallsAsAsked == ASSUME Shl!ConstantsOK, Patient PROVE Shl!Spec => Shl!StartsAsAsked /\ Shl!OwnLineOnly
<1>1. Shl!Init => ShellInv  BY ShellInit
<1>2. ShellInv /\ [Shl!Next]_(Shl!vars) => ShellInv'  BY ShellStep
<1>3. ShellInv /\ [Shl!Next]_(Shl!vars) => [Shl!StartsAsAskedStep]_(Shl!vars) /\ [Shl!OwnLineOnlyStep]_(Shl!vars)  BY ShellActs
<1> QED  BY <1>1, <1>2, <1>3, PTL DEF Shl!Spec, Shl!StartsAsAsked, Shl!OwnLineOnly

-----------------------------------------------------------------------------
(* Documents.  What the properties rest on. *)

(* The smallest of some numbers. *)
LEMMA FirstIn ==
  ASSUME NEW S \in SUBSET Nat, S # {}
  PROVE  Doc!First(S) \in S
<1>1. \E k \in S : \A y \in S : ~ (<<y, k>> \in OpToRel(<, Nat))  BY NatLessThanWellFounded, WFMin, Zenon
<1>2. \A y, m \in Nat : y < m => <<y, m>> \in OpToRel(<, Nat)  BY DEF OpToRel
<1>3. PICK k \in S : \A y \in S : ~ (<<y, k>> \in OpToRel(<, Nat))  BY <1>1
<1>4. ASSUME NEW y \in S PROVE k <= y
  <2>1. k \in Nat /\ y \in Nat  OBVIOUS
  <2>2. ~ (y < k)  BY <1>2, <1>3, <2>1
  <2> QED  BY <2>1, <2>2
<1> QED  BY <1>4 DEF Doc!First

Entry == [name : Name \cup {NoName}, used : BOOLEAN, ino : Doc!Ino \cup {Doc!None}]
Pad == [open : BOOLEAN, slot : Doc!Slot \cup {Doc!None}, text : Text, dialog : {"none", "new", "close", "saveas"}]

(* No file shares its inode. *)
DiskOK ==
  /\ dir \in [Name -> Doc!Ino \cup {Doc!None}] /\ file \in [Doc!Ino -> Text \cup {Gone}]
  /\ \A n \in Doc!Files : file[dir[n]] # Gone
  /\ \A n, m \in Doc!Files : dir[n] = dir[m] => n = m

(* No name is twice in a table, and what is used has one. *)
TableOK(T) ==
  /\ T \in [Doc!Slot -> Entry]
  /\ \A s \in Doc!Slot : T[s].used => T[s].name # NoName
  /\ \A s, x \in Doc!Slot : T[s].name = T[x].name /\ T[s].name # NoName => s = x

Indexed == \A s \in Doc!Slot : tab[s].used => tab[s].name \in Doc!Files /\ tab[s].ino = dir[tab[s].name]
IconOK == icon \in [Doc!Slot -> BOOLEAN] /\ \A s \in Doc!Slot : icon[s] = tab[s].used

(* A window without a document is blank, and a document has one window. *)
DocWinsOK ==
  /\ wins \in [Doc!Win -> Pad] /\ home \in [Doc!Win -> Name \cup {NoName}]
  /\ \A w \in Doc!Win : ~wins[w].open => wins[w] = Doc!Closed
BoundOK ==
  \A w \in Doc!Win : wins[w].open /\ wins[w].slot # Doc!None =>
    /\ tab[wins[w].slot].used /\ tab[wins[w].slot].name = home[w]
    /\ \A v \in Doc!Win : wins[v].open /\ wins[v].slot = wins[w].slot => v = w

IndexOK == TableOK(tab) /\ Indexed /\ IconOK
DocsInv == DiskOK /\ IndexOK /\ DocWinsOK /\ BoundOK

(* The slots, windows and inodes are numbers, none of them 0. *)
LEMMA Numbered ==
  ASSUME Doc!ConstantsOK
  PROVE  /\ Doc!Slot \in SUBSET Nat /\ Doc!Win \in SUBSET Nat /\ Doc!Ino \in SUBSET Nat /\ Doc!None \notin Doc!Slot /\ Doc!None \notin Doc!Ino
         /\ EmptyText \in Text /\ Gone \notin Text /\ NoName \notin Name
BY DEF Doc!ConstantsOK, Doc!Slot, Doc!Win, Doc!Ino, Doc!None

(* What a write, a removal and a renaming do to the names. *)
LEMMA PutIs ==
  ASSUME Doc!ConstantsOK, DiskOK, NEW n \in Name, NEW t \in Text, Doc!Put(n, t)
  PROVE  /\ DiskOK' /\ Doc!Files' = Doc!Files \cup {n} /\ dir'[n] # Doc!None /\ file'[dir'[n]] = t
         /\ \A m \in Name : m # n => dir'[m] = dir[m]
<1> DEFINE f == Doc!First(Doc!FreeInos)
<1>1. Doc!FreeInos \in SUBSET Nat /\ Doc!FreeInos # {}  BY Numbered DEF Doc!Put, Doc!FreeInos
<1>2. f \in Doc!Ino /\ file[f] = Gone  BY <1>1, FirstIn DEF Doc!FreeInos
<1>3. /\ dir' = [dir EXCEPT ![n] = f]
      /\ file' = [i \in Doc!Ino |-> IF i = f THEN t ELSE IF i = dir[n] THEN Gone ELSE file[i]]
  BY DEF Doc!Put
<1> HIDE DEF f
<1>4. dir \in [Name -> Doc!Ino \cup {Doc!None}] /\ file \in [Doc!Ino -> Text \cup {Gone}] /\ Doc!None \notin Doc!Ino /\ Gone \notin Text  BY Numbered DEF DiskOK
<1>5. dir' \in [Name -> Doc!Ino \cup {Doc!None}] /\ file' \in [Doc!Ino -> Text \cup {Gone}]  BY <1>2, <1>3, <1>4
<1>6. dir'[n] = f /\ f # Doc!None /\ file'[f] = t /\ \A m \in Name : m # n => dir'[m] = dir[m]  BY <1>2, <1>3, <1>4
<1>7. Doc!Files' = Doc!Files \cup {n}  BY <1>6 DEF Doc!Files
<1>8. ASSUME NEW m \in Doc!Files', m # n
      PROVE  m \in Doc!Files /\ dir'[m] = dir[m] /\ dir[m] # f /\ file'[dir[m]] = file[dir[m]] /\ file[dir[m]] # Gone
  <2>1. m \in Doc!Files /\ dir[m] \in Doc!Ino /\ dir'[m] = dir[m] /\ file[dir[m]] # Gone  BY <1>4, <1>6, <1>7, <1>8 DEF Doc!Files, DiskOK
  <2>2. dir[m] # dir[n]  BY <1>4, <1>8, <2>1 DEF Doc!Files, DiskOK
  <2>3. dir[m] # f  BY <1>2, <2>1
  <2>4. file'[dir[m]] = file[dir[m]]  BY <1>3, <2>1, <2>2, <2>3
  <2> QED  BY <2>1, <2>3, <2>4
<1>9. \A m \in Doc!Files' : file'[dir'[m]] # Gone
  <2> TAKE m \in Doc!Files'
  <2>1. CASE m = n  BY <1>4, <1>6, <2>1
  <2>2. CASE m # n  BY <1>8, <2>2
  <2> QED  BY <2>1, <2>2
<1>10. \A a, b \in Doc!Files' : dir'[a] = dir'[b] => a = b
  <2> TAKE a, b \in Doc!Files'
  <2>1. a # n => a \in Doc!Files /\ dir'[a] = dir[a] /\ dir[a] # f  BY <1>8
  <2>2. b # n => b \in Doc!Files /\ dir'[b] = dir[b] /\ dir[b] # f  BY <1>8
  <2> QED  BY <1>6, <2>1, <2>2 DEF DiskOK
<1>11. DiskOK'  BY <1>5, <1>9, <1>10 DEF DiskOK
<1> QED  BY <1>6, <1>7, <1>11

LEMMA RemoveIs ==
  ASSUME Doc!ConstantsOK, DiskOK, NEW n \in Doc!Files, Doc!Remove(n)
  PROVE  DiskOK' /\ Doc!Files' = Doc!Files \ {n} /\ \A m \in Name : m # n => dir'[m] = dir[m]
<1>1. n \in Name /\ dir[n] # Doc!None  BY DEF Doc!Files
<1>2. dir \in [Name -> Doc!Ino \cup {Doc!None}] /\ file \in [Doc!Ino -> Text \cup {Gone}] /\ dir[n] \in Doc!Ino  BY <1>1 DEF DiskOK
<1>3. dir' = [dir EXCEPT ![n] = Doc!None] /\ file' = [file EXCEPT ![dir[n]] = Gone]  BY DEF Doc!Remove
<1>4. dir' \in [Name -> Doc!Ino \cup {Doc!None}] /\ file' \in [Doc!Ino -> Text \cup {Gone}]  BY <1>1, <1>2, <1>3
<1>5. dir'[n] = Doc!None /\ \A m \in Name : m # n => dir'[m] = dir[m]  BY <1>1, <1>2, <1>3
<1>6. Doc!Files' = Doc!Files \ {n}  BY <1>1, <1>5 DEF Doc!Files
<1>7. \A m \in Doc!Files' : file'[dir'[m]] # Gone
  <2> TAKE m \in Doc!Files'
  <2>1. m \in Doc!Files /\ m # n /\ m \in Name /\ dir'[m] = dir[m]  BY <1>5, <1>6 DEF Doc!Files
  <2>2. file[dir[m]] # Gone /\ dir[m] # dir[n] /\ dir[m] \in Doc!Ino  BY <1>2, <2>1 DEF DiskOK, Doc!Files
  <2> QED  BY <1>2, <1>3, <2>1, <2>2
<1>8. \A a, b \in Doc!Files' : dir'[a] = dir'[b] => a = b
  <2> TAKE a, b \in Doc!Files'
  <2>1. a \in Doc!Files /\ dir'[a] = dir[a] /\ b \in Doc!Files /\ dir'[b] = dir[b]  BY <1>5, <1>6 DEF Doc!Files
  <2> QED  BY <2>1 DEF DiskOK
<1>9. DiskOK'  BY <1>4, <1>7, <1>8 DEF DiskOK
<1> QED  BY <1>5, <1>6, <1>9

LEMMA RenameIs ==
  ASSUME Doc!ConstantsOK, DiskOK, NEW n \in Doc!Files, NEW m \in Name, n # m, Doc!Rename(n, m)
  PROVE  DiskOK' /\ Doc!Files' = (Doc!Files \ {n}) \cup {m}
<1>1. n \in Name /\ dir[n] # Doc!None  BY DEF Doc!Files
<1>2. dir \in [Name -> Doc!Ino \cup {Doc!None}] /\ file \in [Doc!Ino -> Text \cup {Gone}] /\ dir[n] \in Doc!Ino /\ Doc!None \notin Doc!Ino
  BY <1>1, Numbered DEF DiskOK
<1>3. dir' = [dir EXCEPT ![m] = dir[n], ![n] = Doc!None] /\ file' = [i \in Doc!Ino |-> IF i = dir[m] THEN Gone ELSE file[i]]
  BY DEF Doc!Rename
<1>4. dir' \in [Name -> Doc!Ino \cup {Doc!None}] /\ file' \in [Doc!Ino -> Text \cup {Gone}]  BY <1>1, <1>2, <1>3
<1>5. dir'[m] = dir[n] /\ dir'[n] = Doc!None /\ \A k \in Name : k # n /\ k # m => dir'[k] = dir[k]  BY <1>1, <1>2, <1>3
<1>6. Doc!Files' = (Doc!Files \ {n}) \cup {m}  BY <1>1, <1>5 DEF Doc!Files
<1>7. ASSUME NEW k \in Doc!Files'
      PROVE  /\ (IF k = m THEN n ELSE k) \in Doc!Files /\ dir'[k] = dir[IF k = m THEN n ELSE k]
             /\ (IF k = m THEN n ELSE k) # m
  BY <1>5, <1>6, <1>7 DEF Doc!Files
<1>8. \A k \in Doc!Files' : file'[dir'[k]] # Gone
  <2> TAKE k \in Doc!Files'
  <2> DEFINE o == IF k = m THEN n ELSE k
  <2>1. o \in Doc!Files /\ dir'[k] = dir[o] /\ o # m  BY <1>7
  <2> HIDE DEF o
  <2>2. file[dir[o]] # Gone /\ dir[o] \in Doc!Ino  BY <1>2, <2>1 DEF DiskOK, Doc!Files
  <2>3. dir[o] # dir[m]
    <3>1. CASE m \in Doc!Files  BY <2>1, <3>1 DEF DiskOK
    <3>2. CASE m \notin Doc!Files  BY <1>2, <2>2, <3>2 DEF Doc!Files
    <3> QED  BY <3>1, <3>2
  <2> QED  BY <1>3, <2>1, <2>2, <2>3
<1>9. \A a, b \in Doc!Files' : dir'[a] = dir'[b] => a = b
  <2> TAKE a, b \in Doc!Files'
  <2> DEFINE o == IF a = m THEN n ELSE a  q == IF b = m THEN n ELSE b
  <2>1. o \in Doc!Files /\ dir'[a] = dir[o] /\ q \in Doc!Files /\ dir'[b] = dir[q]  BY <1>7
  <2>2. dir[o] = dir[q] => o = q
    <3> HIDE DEF o, q
    <3> QED  BY <2>1 DEF DiskOK
  <2>3. o = q => a = b
    <3>1. a # n /\ b # n  BY <1>5, <1>6 DEF Doc!Files
    <3> QED  BY <3>1
  <2> HIDE DEF o, q
  <2> QED  BY <2>1, <2>2, <2>3
<1>10. DiskOK'  BY <1>4, <1>8, <1>9 DEF DiskOK
<1> QED  BY <1>6, <1>10

(* A table with a default name reserved in it. *)
LEMMA ReservedIs ==
  ASSUME Doc!ConstantsOK, TableOK(tab), Doc!Files \subseteq Name, Doc!EmptySlot # Doc!None
  PROVE  /\ Doc!EmptySlot \in Doc!Slot /\ tab[Doc!EmptySlot].name = NoName /\ ~tab[Doc!EmptySlot].used
         /\ TableOK(Doc!Reserved(Doc!EmptySlot)) /\ ~Doc!Reserved(Doc!EmptySlot)[Doc!EmptySlot].used
         /\ Doc!Reserved(Doc!EmptySlot)[Doc!EmptySlot].name \in Name \ (Doc!Files \cup {tab[s].name : s \in Doc!Slot})
         /\ \A x \in Doc!Slot : x # Doc!EmptySlot => Doc!Reserved(Doc!EmptySlot)[x] = tab[x]
<1> DEFINE e == Doc!EmptySlot  d == Default[Doc!First(Doc!FreeDefaults)]
<1>1. Doc!FreeSlots(tab) # {} /\ Doc!FreeDefaults # {} /\ e = Doc!First(Doc!FreeSlots(tab))  BY DEF Doc!EmptySlot
<1>2. e \in Doc!Slot /\ tab[e].name = NoName
  <2>1. Doc!FreeSlots(tab) \in SUBSET Nat  BY Numbered DEF Doc!FreeSlots
  <2> QED  BY <1>1, <2>1, FirstIn DEF Doc!FreeSlots
<1>3. d \in Name \ (Doc!Files \cup {tab[s].name : s \in Doc!Slot})
  <2>1. Default \in Seq(Name)  BY DEF Doc!ConstantsOK
  <2>2. Doc!FreeDefaults \in SUBSET Nat  BY <2>1 DEF Doc!FreeDefaults
  <2>3. Doc!First(Doc!FreeDefaults) \in Doc!FreeDefaults  BY <1>1, <2>2, FirstIn
  <2> QED  BY <2>1, <2>3 DEF Doc!FreeDefaults
<1>4. Doc!Reserved(e) = [tab EXCEPT ![e].name = d, ![e].used = FALSE]  BY DEF Doc!Reserved
<1> HIDE DEF e, d
<1>5. tab \in [Doc!Slot -> Entry] /\ tab[e] \in Entry  BY <1>2 DEF TableOK
<1> DEFINE no == FALSE  z == [name |-> d, used |-> no, ino |-> tab[e].ino]
<1>6. no \in BOOLEAN  OBVIOUS
<1> HIDE DEF no
<1>7. [[tab[e] EXCEPT !.name = d] EXCEPT !.used = no] = z
  <2> DEFINE r == tab[e]  A == Name \cup {NoName}  C == Doc!Ino \cup {Doc!None}
  <2>1. r \in [name : A, used : BOOLEAN, ino : C]  BY <1>5 DEF Entry
  <2> HIDE DEF r, A, C
  <2>2. r = [name |-> r.name, used |-> r.used, ino |-> r.ino]  BY <2>1
  <2> DEFINE a == r.name  b == r.used  c == r.ino
  <2> HIDE DEF a, b, c
  <2>3. r = [name |-> a, used |-> b, ino |-> c]  BY <2>2 DEF a, b, c
  <2>4. [r EXCEPT !.name = d] = [name |-> d, used |-> b, ino |-> c]  BY <2>3
  <2>5. [[name |-> d, used |-> b, ino |-> c] EXCEPT !.used = no] = [name |-> d, used |-> no, ino |-> c]  OBVIOUS
  <2> QED  BY <2>4, <2>5 DEF r, c
<1>8. z \in Entry /\ z.name = d /\ z.used = no /\ ~no  BY <1>3, <1>5, <1>6 DEF Entry, no
<1>9. Doc!Reserved(e) = [tab EXCEPT ![e] = z]  BY <1>4, <1>5, <1>7, <1>2 DEF no
<1> HIDE DEF z
<1>10. Doc!Reserved(e)[e] = z /\ \A x \in Doc!Slot : x # e => Doc!Reserved(e)[x] = tab[x]  BY <1>2, <1>5, <1>9
<1>11. TableOK(Doc!Reserved(e))
  <2>1. Doc!Reserved(e) \in [Doc!Slot -> Entry]  BY <1>2, <1>5, <1>8, <1>9
  <2>2. \A s \in Doc!Slot : Doc!Reserved(e)[s].used => Doc!Reserved(e)[s].name # NoName  BY <1>8, <1>10 DEF TableOK
  <2>3. \A x \in Doc!Slot : x # e => Doc!Reserved(e)[x].name # d  BY <1>3, <1>10
  <2>4. \A s, x \in Doc!Slot : Doc!Reserved(e)[s].name = Doc!Reserved(e)[x].name /\ Doc!Reserved(e)[s].name # NoName => s = x
    BY <1>8, <1>10, <2>3 DEF TableOK
  <2> QED  BY <2>1, <2>2, <2>4 DEF TableOK
<1>12. ~tab[e].used  BY <1>2 DEF TableOK
<1> QED  BY <1>2, <1>3, <1>8, <1>10, <1>11, <1>12 DEF e

(* A file is put, under a name that no other document has, and its slot is told. *)
Filing(T, s, n, t) ==
  /\ TableOK(T) /\ \A x \in Doc!Slot : x # s => T[x] = tab[x] /\ (tab[x].used => tab[x].name # n)
  /\ Doc!Put(n, t) /\ tab' = Doc!Stored(T, s, n) /\ icon' = [icon EXCEPT ![s] = TRUE]

LEMMA FiledIs ==
  ASSUME Doc!ConstantsOK, DiskOK, IndexOK, NEW T, NEW s \in Doc!Slot, NEW n \in Name, NEW t \in Text, Filing(T, s, n, t)
  PROVE  /\ DiskOK' /\ IndexOK' /\ tab'[s].used /\ tab'[s].name = n
         /\ \A x \in Doc!Slot : x # s /\ tab[x].used => tab'[x] = tab[x]
<1>0. /\ TableOK(T) /\ \A x \in Doc!Slot : x # s => T[x] = tab[x] /\ (tab[x].used => tab[x].name # n)
      /\ Doc!Put(n, t) /\ tab' = Doc!Stored(T, s, n) /\ icon' = [icon EXCEPT ![s] = TRUE]
  BY DEF Filing
<1>1. DiskOK' /\ Doc!Files' = Doc!Files \cup {n} /\ dir'[n] # Doc!None /\ \A m \in Name : m # n => dir'[m] = dir[m]  BY <1>0, PutIs
<1> DEFINE yes == TRUE  no == FALSE
<1>2. yes \in BOOLEAN /\ no \in BOOLEAN  OBVIOUS
<1> HIDE DEF yes, no
<1> DEFINE z == [name |-> n, used |-> yes, ino |-> dir'[n]]  o == [name |-> NoName, used |-> no, ino |-> Doc!None]
<1>3. Doc!NoEntry = o  BY DEF Doc!NoEntry, no
<1>4. z \in Entry /\ o \in Entry /\ z.name = n /\ z.used = yes /\ z.ino = dir'[n] /\ o.name = NoName /\ o.used = no
  <2>1. dir'[n] \in Doc!Ino \cup {Doc!None}  BY <1>1 DEF DiskOK
  <2> QED  BY <1>2, <2>1 DEF Entry
<1>5. tab' = [x \in Doc!Slot |-> IF x = s THEN z ELSE IF T[x].name = n THEN o ELSE T[x]]  BY <1>0, <1>3 DEF Doc!Stored, yes
<1> HIDE DEF z, o
<1>6. T \in [Doc!Slot -> Entry] /\ tab \in [Doc!Slot -> Entry]  BY <1>0 DEF TableOK, IndexOK
<1>7. tab' \in [Doc!Slot -> Entry]  BY <1>4, <1>5, <1>6
<1>8. tab'[s] = z /\ \A x \in Doc!Slot : x # s => tab'[x] = IF tab[x].name = n THEN o ELSE tab[x]  BY <1>0, <1>5
<1>9. yes /\ ~no  BY DEF yes, no
<1>10. NoName \notin Name  BY Numbered
<1>11. TableOK(tab)'
  <2>1. \A x \in Doc!Slot : tab'[x].used => tab'[x].name # NoName
    BY <1>4, <1>8, <1>9, <1>10 DEF IndexOK, TableOK
  <2>2. \A x \in Doc!Slot : x # s => tab'[x].name # n  BY <1>4, <1>8, <1>10
  <2>3. \A x, y \in Doc!Slot : x # s /\ y # s /\ tab'[x].name = tab'[y].name /\ tab'[x].name # NoName => x = y
    BY <1>4, <1>8 DEF IndexOK, TableOK
  <2>4. \A x, y \in Doc!Slot : tab'[x].name = tab'[y].name /\ tab'[x].name # NoName => x = y
    BY <1>4, <1>8, <2>2, <2>3
  <2> QED  BY <1>7, <2>1, <2>4 DEF TableOK
<1>12. \A x \in Doc!Slot : x # s /\ tab[x].used => tab'[x] = tab[x]  BY <1>0, <1>8
<1>13. \A x \in Doc!Slot : x # s => (tab'[x].used <=> tab[x].used)  BY <1>0, <1>4, <1>8, <1>9
<1>14. Indexed'
  <2> SUFFICES ASSUME NEW x \in Doc!Slot, tab'[x].used  PROVE tab'[x].name \in Doc!Files' /\ tab'[x].ino = dir'[tab'[x].name]
    BY DEF Indexed
  <2>1. CASE x = s  BY <1>1, <1>4, <1>8, <2>1
  <2>2. CASE x # s
    <3>1. tab[x].used /\ tab'[x] = tab[x] /\ tab[x].name # n  BY <1>0, <1>12, <1>13, <2>2
    <3>2. tab[x].name \in Doc!Files /\ tab[x].ino = dir[tab[x].name]  BY <3>1 DEF IndexOK, Indexed
    <3> QED  BY <1>1, <3>1, <3>2 DEF Doc!Files
  <2> QED  BY <2>1, <2>2
<1>15. IconOK'
  <2>1. icon \in [Doc!Slot -> BOOLEAN] /\ \A x \in Doc!Slot : icon[x] = tab[x].used  BY DEF IndexOK, IconOK
  <2>2. icon' = [icon EXCEPT ![s] = yes]  BY <1>0 DEF yes
  <2>3. icon' \in [Doc!Slot -> BOOLEAN] /\ icon'[s] = yes /\ \A x \in Doc!Slot : x # s => icon'[x] = icon[x]  BY <1>2, <2>1, <2>2
  <2>4. ASSUME NEW x \in Doc!Slot PROVE icon'[x] = tab'[x].used
    <3>1. CASE x = s  BY <1>4, <1>8, <2>3, <3>1
    <3>2. CASE x # s
      <4>1. CASE tab[x].used  BY <1>12, <2>1, <2>3, <3>2, <4>1
      <4>2. CASE ~tab[x].used
        <5>1. icon[x] = no /\ tab[x].used = no
          <6>1. tab[x].used \in BOOLEAN  BY <1>6 DEF Entry
          <6> QED  BY <2>1, <4>2, <6>1 DEF no
        <5>2. tab'[x].used = no  BY <1>4, <1>8, <3>2, <5>1
        <5> QED  BY <2>3, <3>2, <5>1, <5>2
      <4> QED  BY <4>1, <4>2
    <3> QED  BY <3>1, <3>2
  <2> QED  BY <2>3, <2>4 DEF IconOK
<1> QED  BY <1>1, <1>4, <1>8, <1>9, <1>11, <1>12, <1>14, <1>15 DEF IndexOK

(* The index is made anew: what has its file keeps its slot. *)
LEMMA RescanIs ==
  ASSUME Doc!ConstantsOK, DiskOK', NEW T, TableOK(T), Doc!Rescan(T)
  PROVE  /\ TableOK(tab)' /\ Indexed'
         /\ \A s \in Doc!Slot : T[s].name \in Doc!Files' => tab'[s].used /\ tab'[s].name = T[s].name
<1> DEFINE files == {n \in Name : dir'[n] # Doc!None}
           new == files \ {T[s].name : s \in Doc!Slot}
           free == Doc!FreeSlots(T)
           taken == {s \in free : Doc!Cardinality({x \in free : x < s}) < Doc!Cardinality(new)}
<1>1. PICK g \in [taken -> new] :
        /\ \A a, b \in taken : g[a] = g[b] => a = b
        /\ tab' = [s \in Doc!Slot |->
             LET n == IF s \in taken THEN g[s] ELSE T[s].name
             IN  IF n \in files THEN [name |-> n, used |-> TRUE, ino |-> dir'[n]]
                 ELSE IF T[s].used THEN Doc!NoEntry ELSE T[s]]
  BY DEF Doc!Rescan
<1>2. taken \subseteq free /\ free \subseteq Doc!Slot /\ \A s \in free : T[s].name = NoName  BY DEF Doc!FreeSlots
<1>3. files = Doc!Files' /\ files \subseteq Name  BY DEF Doc!Files
<1> HIDE DEF taken, free
<1> DEFINE nm(s) == IF s \in taken THEN g[s] ELSE T[s].name
           yes == TRUE  no == FALSE
<1>4. yes \in BOOLEAN /\ no \in BOOLEAN /\ yes /\ ~no  OBVIOUS
<1>5. tab' = [s \in Doc!Slot |-> IF nm(s) \in files THEN [name |-> nm(s), used |-> yes, ino |-> dir'[nm(s)]]
                             ELSE IF T[s].used THEN Doc!NoEntry ELSE T[s]]
  BY <1>1
<1>6. Doc!NoEntry = [name |-> NoName, used |-> no, ino |-> Doc!None]  BY DEF Doc!NoEntry
<1> HIDE DEF yes, no
<1>7. NoName \notin Name  BY Numbered
<1>8. \A s \in taken : nm(s) \in files /\ nm(s) \notin {T[x].name : x \in Doc!Slot}  BY <1>1
<1>9. \A s \in Doc!Slot : s \notin taken => nm(s) = T[s].name  OBVIOUS
<1>10. \A a, b \in taken : nm(a) = nm(b) => a = b  BY <1>1
<1> HIDE DEF nm
<1>11. \A s \in Doc!Slot : nm(s) \in files =>
         tab'[s] \in Entry /\ tab'[s].used = yes /\ tab'[s].name = nm(s) /\ tab'[s].ino = dir'[nm(s)]
  <2> TAKE s \in Doc!Slot
  <2> SUFFICES ASSUME nm(s) \in files
               PROVE  tab'[s] \in Entry /\ tab'[s].used = yes /\ tab'[s].name = nm(s) /\ tab'[s].ino = dir'[nm(s)]
    OBVIOUS
  <2>1. tab'[s] = [name |-> nm(s), used |-> yes, ino |-> dir'[nm(s)]]  BY <1>5
  <2>2. dir'[nm(s)] \in Doc!Ino \cup {Doc!None} /\ nm(s) \in Name  BY <1>3 DEF DiskOK
  <2> QED  BY <1>4, <2>1, <2>2 DEF Entry
<1>12. \A s \in Doc!Slot : nm(s) \notin files => tab'[s] = IF T[s].used THEN Doc!NoEntry ELSE T[s]  BY <1>5
<1>13. Doc!NoEntry \in Entry /\ Doc!NoEntry.used = no /\ Doc!NoEntry.name = NoName  BY <1>4, <1>6 DEF Entry
<1>14. \A s \in Doc!Slot : T[s] \in Entry  BY DEF TableOK
<1>15. \A s \in Doc!Slot : tab'[s].used => nm(s) \in files  BY <1>4, <1>12, <1>13
<1>16. \A s \in Doc!Slot : tab'[s].name # NoName => tab'[s].name = nm(s)
  <2> TAKE s \in Doc!Slot
  <2>1. CASE nm(s) \in files  BY <1>11, <2>1
  <2>2. CASE nm(s) \notin files
    <3>1. s \notin taken  BY <1>8, <2>2
    <3> QED  BY <1>9, <1>12, <1>13, <2>2, <3>1
  <2> QED  BY <2>1, <2>2
<1>17. \A s, x \in Doc!Slot : nm(s) = nm(x) /\ nm(s) # NoName => s = x
  <2> TAKE s, x \in Doc!Slot
  <2>1. CASE s \in taken /\ x \in taken  BY <1>10, <2>1
  <2>2. CASE s \in taken /\ x \notin taken  BY <1>8, <1>9, <2>2
  <2>3. CASE s \notin taken /\ x \in taken  BY <1>8, <1>9, <2>3
  <2>4. CASE s \notin taken /\ x \notin taken  BY <1>9, <2>4 DEF TableOK
  <2> QED  BY <2>1, <2>2, <2>3, <2>4
<1>18. TableOK(tab)'
  <2>1. tab' \in [Doc!Slot -> Entry]
    <3>1. \A s \in Doc!Slot : tab'[s] \in Entry  BY <1>11, <1>12, <1>13, <1>14
    <3>2. tab' = [s \in Doc!Slot |-> tab'[s]]  BY <1>5
    <3> QED  BY <3>1, <3>2
  <2>2. \A s \in Doc!Slot : tab'[s].used => tab'[s].name # NoName  BY <1>3, <1>7, <1>11, <1>15
  <2>3. \A s, x \in Doc!Slot : tab'[s].name = tab'[x].name /\ tab'[s].name # NoName => s = x  BY <1>16, <1>17
  <2> QED  BY <2>1, <2>2, <2>3 DEF TableOK
<1>19. Indexed'  BY <1>3, <1>11, <1>15 DEF Indexed
<1>20. ASSUME NEW s \in Doc!Slot, T[s].name \in Doc!Files'  PROVE tab'[s].used /\ tab'[s].name = T[s].name
  <2>1. s \notin taken  BY <1>2, <1>3, <1>7, <1>20
  <2>2. nm(s) = T[s].name /\ nm(s) \in files  BY <1>3, <1>9, <1>20, <2>1
  <2> QED  BY <1>4, <1>11, <2>2
<1> QED  BY <1>18, <1>19, <1>20

(* Windows: a field changed, a blank one. *)
LEMMA PadIs ==
  ASSUME NEW p \in Pad, NEW q \in {"none", "new", "close", "saveas"}, NEW s \in Doc!Slot \cup {Doc!None}, NEW t \in Text
  PROVE  /\ [p EXCEPT !.dialog = q] \in Pad /\ [p EXCEPT !.dialog = q].open = p.open
         /\ [p EXCEPT !.dialog = q].slot = p.slot /\ [p EXCEPT !.dialog = q].text = p.text
         /\ [p EXCEPT !.text = t] \in Pad /\ [p EXCEPT !.text = t].open = p.open /\ [p EXCEPT !.text = t].slot = p.slot
         /\ [p EXCEPT !.slot = s] \in Pad /\ [p EXCEPT !.slot = s].open = p.open /\ [p EXCEPT !.slot = s].slot = s
         /\ [p EXCEPT !.slot = s].text = p.text
BY DEF Pad

LEMMA ClosedIs ==
  ASSUME Doc!ConstantsOK, NEW b \in BOOLEAN
  PROVE  /\ Doc!Closed \in Pad /\ ~Doc!Closed.open /\ [Doc!Closed EXCEPT !.open = b] \in Pad /\ [Doc!Closed EXCEPT !.open = b].open = b
         /\ [Doc!Closed EXCEPT !.open = b].slot = Doc!None /\ (~b => [Doc!Closed EXCEPT !.open = b] = Doc!Closed)
<1> DEFINE no == FALSE
<1>1. no \in BOOLEAN /\ ~no  OBVIOUS
<1>2. EmptyText \in Text  BY Numbered
<1>3. Doc!Closed = [open |-> no, slot |-> Doc!None, text |-> EmptyText, dialog |-> "none"]  BY DEF Doc!Closed
<1> HIDE DEF no
<1>4. Doc!Closed \in Pad /\ Doc!Closed.open = no  BY <1>1, <1>2, <1>3 DEF Pad
<1>5. [Doc!Closed EXCEPT !.open = b] = [open |-> b, slot |-> Doc!None, text |-> EmptyText, dialog |-> "none"]  BY <1>3
<1>6. [Doc!Closed EXCEPT !.open = b] \in Pad /\ [Doc!Closed EXCEPT !.open = b].open = b /\ [Doc!Closed EXCEPT !.open = b].slot = Doc!None
  BY <1>2, <1>5 DEF Pad
<1>7. ~b => b = no  BY DEF no
<1> QED  BY <1>1, <1>3, <1>4, <1>5, <1>6, <1>7

(* The windows stay, and so do the documents that are bound. *)
LEMMA WinsStay ==
  ASSUME DocWinsOK, BoundOK, UNCHANGED <<wins, home>>,
         \A w \in Doc!Win : wins[w].open /\ wins[w].slot # Doc!None => tab'[wins[w].slot].used /\ tab'[wins[w].slot].name = tab[wins[w].slot].name
  PROVE  DocWinsOK' /\ BoundOK'
<1>1. DocWinsOK'  BY DEF DocWinsOK
<1>2. BoundOK'  BY DEF BoundOK
<1> QED  BY <1>1, <1>2

(* One window becomes p, and its document h. *)
Becomes(w, p, h) ==
  /\ wins' = [wins EXCEPT ![w] = p] /\ home' = [home EXCEPT ![w] = h] /\ (p.open \/ p = Doc!Closed)
  /\ \A v \in Doc!Win : v # w /\ wins[v].open /\ wins[v].slot # Doc!None =>
       tab'[wins[v].slot].used /\ tab'[wins[v].slot].name = tab[wins[v].slot].name /\ (p.open => wins[v].slot # p.slot)
  /\ p.open /\ p.slot # Doc!None => tab'[p.slot].used /\ tab'[p.slot].name = h

LEMMA WinStep ==
  ASSUME DocWinsOK, BoundOK, NEW w \in Doc!Win, NEW p \in Pad, NEW h \in Name \cup {NoName}, Becomes(w, p, h)
  PROVE  DocWinsOK' /\ BoundOK'
<1> USE DEF Becomes
<1>1. wins \in [Doc!Win -> Pad] /\ home \in [Doc!Win -> Name \cup {NoName}]  BY DEF DocWinsOK
<1>2. /\ wins' \in [Doc!Win -> Pad] /\ home' \in [Doc!Win -> Name \cup {NoName}] /\ wins'[w] = p /\ home'[w] = h
      /\ \A v \in Doc!Win : v # w => wins'[v] = wins[v] /\ home'[v] = home[v]
  BY <1>1
<1>3. DocWinsOK'  BY <1>2 DEF DocWinsOK
<1>4. BoundOK'
  <2> SUFFICES ASSUME NEW v \in Doc!Win, wins'[v].open, wins'[v].slot # Doc!None
               PROVE  /\ tab'[wins'[v].slot].used /\ tab'[wins'[v].slot].name = home'[v]
                      /\ \A u \in Doc!Win : wins'[u].open /\ wins'[u].slot = wins'[v].slot => u = v
    BY DEF BoundOK
  <2>1. CASE v = w  BY <1>2, <2>1
  <2>2. CASE v # w
    <3>1. wins'[v] = wins[v] /\ home'[v] = home[v] /\ wins[v].open /\ wins[v].slot # Doc!None  BY <1>2, <2>2
    <3>2. tab'[wins[v].slot].used /\ tab'[wins[v].slot].name = home[v]  BY <2>2, <3>1 DEF BoundOK
    <3>3. \A u \in Doc!Win : wins'[u].open /\ wins'[u].slot = wins[v].slot => u = v
      <4> SUFFICES ASSUME NEW u \in Doc!Win, wins'[u].open, wins'[u].slot = wins[v].slot PROVE u = v  OBVIOUS
      <4>1. u # w  BY <1>2, <2>2, <3>1
      <4>2. wins[u].open /\ wins[u].slot = wins[v].slot  BY <1>2, <4>1
      <4> QED  BY <3>1, <4>2 DEF BoundOK
    <3> QED  BY <3>1, <3>2, <3>3
  <2> QED  BY <2>1, <2>2
<1> QED  BY <1>3, <1>4

(* Where a save goes: the document's own slot, or a free one under a name of no file. *)
LEMMA TargetIs ==
  ASSUME Doc!ConstantsOK, DocsInv, NEW w \in Doc!Win, wins[w].open, Doc!Target(w) # Doc!None
  PROVE  /\ Doc!Target(w) \in Doc!Slot /\ Doc!TargetName(w) \in Name
         /\ \A x \in Doc!Slot : x # Doc!Target(w) /\ tab[x].used => tab[x].name # Doc!TargetName(w)
         /\ wins[w].slot # Doc!None => Doc!Target(w) = wins[w].slot /\ tab[Doc!Target(w)].used /\ Doc!TargetName(w) = home[w]
                                  /\ Doc!TargetName(w) = tab[Doc!Target(w)].name
         /\ wins[w].slot = Doc!None => ~tab[Doc!Target(w)].used /\ Doc!TargetName(w) \notin Doc!Files
<1>1. wins[w] \in Pad /\ TableOK(tab) /\ Indexed  BY DEF DocsInv, IndexOK, DocWinsOK
<1>2. CASE wins[w].slot # Doc!None
  <2>1. Doc!Target(w) = wins[w].slot /\ Doc!TargetTab(w) = tab /\ Doc!TargetName(w) = tab[wins[w].slot].name
    BY <1>2 DEF Doc!Target, Doc!TargetTab, Doc!TargetName
  <2>2. wins[w].slot \in Doc!Slot  BY <1>1, <1>2 DEF Pad
  <2>3. tab[wins[w].slot].used /\ tab[wins[w].slot].name = home[w]  BY <1>2 DEF DocsInv, BoundOK
  <2>4. tab[wins[w].slot].name \in Doc!Files  BY <1>1, <2>2, <2>3 DEF Indexed
  <2>5. tab[wins[w].slot].name \in Name  BY <2>4 DEF Doc!Files
  <2>6. tab[wins[w].slot].name # NoName  BY <2>5, Numbered
  <2> DEFINE s == wins[w].slot
  <2> HIDE DEF s
  <2>7. s \in Doc!Slot /\ tab[s].name # NoName  BY <2>2, <2>6 DEF s
  <2>8. \A x \in Doc!Slot : x # s => tab[x].name # tab[s].name  BY <1>1, <2>7 DEF TableOK
  <2> QED  BY <1>2, <2>1, <2>3, <2>5, <2>7, <2>8 DEF s
<1>3. CASE wins[w].slot = Doc!None
  <2>1. Doc!Target(w) = Doc!EmptySlot /\ Doc!TargetTab(w) = Doc!Reserved(Doc!EmptySlot)  BY <1>3 DEF Doc!Target, Doc!TargetTab
  <2>2. Doc!Files \subseteq Name /\ Doc!EmptySlot # Doc!None  BY <2>1 DEF Doc!Files
  <2>3. /\ Doc!EmptySlot \in Doc!Slot /\ ~tab[Doc!EmptySlot].used
        /\ Doc!Reserved(Doc!EmptySlot)[Doc!EmptySlot].name \in Name \ (Doc!Files \cup {tab[s].name : s \in Doc!Slot})
    BY <1>1, <2>2, ReservedIs
  <2>4. Doc!TargetName(w) = Doc!Reserved(Doc!EmptySlot)[Doc!EmptySlot].name  BY <2>1 DEF Doc!TargetName
  <2> QED  BY <1>3, <2>1, <2>3, <2>4
<1> QED  BY <1>2, <1>3

(* save_current_document() keeps the index, and the documents that are in it their slots. *)
LEMMA SaveIs ==
  ASSUME Doc!ConstantsOK, DocsInv, NEW w \in Doc!Win, wins[w].open, NEW r, Doc!SaveDoes(w, r)
  PROVE  /\ DiskOK' /\ IndexOK'
         /\ \A x \in Doc!Slot : tab[x].used => tab'[x].used /\ tab'[x].name = tab[x].name
         /\ Doc!SaveEnds(w, r) \in {"full", "failed", "saved"}
         /\ Doc!SaveEnds(w, r) = "full" <=> Doc!Target(w) = Doc!None
         /\ Doc!SaveEnds(w, r) # "saved" => UNCHANGED Doc!disk
         /\ Doc!SaveEnds(w, r) = "saved" => /\ tab'[Doc!Target(w)].used /\ tab'[Doc!Target(w)].name = Doc!TargetName(w)
                                            /\ Doc!Put(Doc!TargetName(w), wins[w].text)
<1>1. Doc!SaveEnds(w, r) \in {"full", "failed", "saved"} /\ (Doc!SaveEnds(w, r) = "full" <=> Doc!Target(w) = Doc!None)  BY DEF Doc!SaveEnds
<1>2. CASE Doc!SaveEnds(w, r) = "full"
  <2>1. UNCHANGED <<Doc!disk, tab, icon>>  BY <1>2 DEF Doc!SaveDoes
  <2>2. UNCHANGED <<dir, file, tab, icon>>  BY <2>1 DEF Doc!disk
  <2>3. Doc!Files' = Doc!Files  BY <2>2 DEF Doc!Files
  <2>4. DiskOK' /\ IndexOK'  BY <2>2, <2>3 DEF DocsInv, DiskOK, IndexOK, TableOK, Indexed, IconOK
  <2> QED  BY <1>1, <1>2, <2>1, <2>2, <2>4
<1>3. CASE Doc!SaveEnds(w, r) = "failed"
  <2> DEFINE s == Doc!Target(w)
  <2>1. /\ UNCHANGED Doc!disk /\ tab' = (IF tab[s].used THEN tab ELSE [tab EXCEPT ![s] = Doc!NoEntry])
        /\ icon' = [icon EXCEPT ![s] = tab[s].used]
    BY <1>3 DEF Doc!SaveDoes
  <2>2. s \in Doc!Slot  BY <1>1, <1>3, TargetIs
  <2> HIDE DEF s
  <2>3. Doc!Files' = Doc!Files /\ dir' = dir /\ file' = file  BY <2>1 DEF Doc!Files, Doc!disk
  <2>4. /\ TableOK(tab) /\ Indexed /\ icon \in [Doc!Slot -> BOOLEAN] /\ \A x \in Doc!Slot : icon[x] = tab[x].used
        /\ tab \in [Doc!Slot -> Entry] /\ DiskOK
    BY DEF DocsInv, IndexOK, IconOK, TableOK
  <2>5. DiskOK'  BY <2>3, <2>4 DEF DiskOK
  <2>6. Doc!NoEntry \in Entry /\ ~Doc!NoEntry.used /\ Doc!NoEntry.name = NoName /\ Doc!NoEntry.used \in BOOLEAN
    <3> DEFINE no == FALSE
    <3>1. no \in BOOLEAN /\ ~no /\ Doc!NoEntry = [name |-> NoName, used |-> no, ino |-> Doc!None]  BY DEF Doc!NoEntry
    <3> HIDE DEF no
    <3> QED  BY <3>1 DEF Entry
  <2>7. \A x \in Doc!Slot : tab[x].used \in BOOLEAN  BY <2>4 DEF Entry
  <2>8. \A x \in Doc!Slot : tab'[x] = tab[x] \/ (x = s /\ ~tab[x].used /\ tab'[x] = Doc!NoEntry)  BY <2>1, <2>2, <2>4
  <2>9. tab' \in [Doc!Slot -> Entry]  BY <2>1, <2>2, <2>4, <2>6
  <2>10. TableOK(tab)'
    <3>1. \A x \in Doc!Slot : tab'[x].used => tab'[x].name # NoName  BY <2>4, <2>6, <2>8 DEF TableOK
    <3>2. \A x, y \in Doc!Slot : tab'[x].name = tab'[y].name /\ tab'[x].name # NoName => x = y  BY <2>4, <2>6, <2>8 DEF TableOK
    <3> QED  BY <2>9, <3>1, <3>2 DEF TableOK
  <2>11. Indexed'  BY <2>3, <2>4, <2>6, <2>8 DEF Indexed
  <2>12. IconOK'
    <3>1. icon' \in [Doc!Slot -> BOOLEAN] /\ \A x \in Doc!Slot : icon'[x] = tab[x].used  BY <2>1, <2>2, <2>4, <2>7
    <3>2. \A x \in Doc!Slot : ~tab[x].used => tab[x].used = Doc!NoEntry.used  BY <2>6, <2>7
    <3>3. \A x \in Doc!Slot : tab'[x].used = tab[x].used  BY <2>8, <3>2
    <3> QED  BY <3>1, <3>3 DEF IconOK
  <2>13. \A x \in Doc!Slot : tab[x].used => tab'[x] = tab[x]  BY <2>8
  <2> QED  BY <1>1, <1>3, <2>1, <2>5, <2>10, <2>11, <2>12, <2>13 DEF IndexOK
<1>4. CASE Doc!SaveEnds(w, r) = "saved"
  <2> DEFINE s == Doc!Target(w)  n == Doc!TargetName(w)  t == wins[w].text
  <2>1. Doc!Put(n, t) /\ tab' = Doc!Stored(tab, s, n) /\ icon' = [icon EXCEPT ![s] = TRUE]  BY <1>4 DEF Doc!SaveDoes
  <2>2. /\ s \in Doc!Slot /\ n \in Name /\ \A x \in Doc!Slot : x # s /\ tab[x].used => tab[x].name # n
        /\ tab[s].used => n = tab[s].name
    BY <1>1, <1>4, TargetIs
  <2>3. t \in Text  BY DEF DocsInv, DocWinsOK, Pad
  <2>4. DiskOK /\ IndexOK /\ TableOK(tab)  BY DEF DocsInv, IndexOK
  <2> HIDE DEF s, n, t
  <2>5. /\ DiskOK' /\ IndexOK' /\ tab'[s].used /\ tab'[s].name = n
        /\ \A x \in Doc!Slot : x # s /\ tab[x].used => tab'[x] = tab[x]
    <3> PICK T : T = tab  OBVIOUS
    <3>1. PICK a \in Doc!Slot, m \in Name, u \in Text : a = s /\ m = n /\ u = t  BY <2>2, <2>3
    <3>2. \A x \in Doc!Slot : x # a => T[x] = tab[x] /\ (tab[x].used => tab[x].name # m)  BY <2>2, <3>1
    <3>3. Filing(T, a, m, u)  BY <2>1, <2>4, <3>1, <3>2 DEF Filing
    <3>4. /\ DiskOK' /\ IndexOK' /\ tab'[a].used /\ tab'[a].name = m
          /\ \A x \in Doc!Slot : x # a /\ tab[x].used => tab'[x] = tab[x]
      BY <2>4, <3>3, FiledIs
    <3> QED  BY <3>1, <3>4
  <2>6. \A x \in Doc!Slot : tab[x].used => tab'[x].used /\ tab'[x].name = tab[x].name  BY <2>2, <2>5
  <2> QED  BY <1>1, <1>4, <2>1, <2>5, <2>6 DEF s, n, t
<1> QED  BY <1>1, <1>2, <1>3, <1>4

(* What the documents' part of the desktop is for: nobody but MiniFiles removes or renames
   an open document, and no removal fails. *)
Spared == Careful /\ "unlink" \notin Fails

(* What a bound window says stays so while the index keeps its slot. *)
LEMMA BoundInIndex ==
  ASSUME Doc!ConstantsOK, DocsInv, NEW w \in Doc!Win, wins[w].open, wins[w].slot # Doc!None
  PROVE  /\ wins[w].slot \in Doc!Slot /\ tab[wins[w].slot].used /\ tab[wins[w].slot].name = home[w]
         /\ home[w] \in Doc!Files /\ home[w] \in Name /\ Doc!InNotepad(home[w])
<1>1. wins[w] \in Pad  BY DEF DocsInv, DocWinsOK
<1>2. wins[w].slot \in Doc!Slot  BY <1>1 DEF Pad
<1>3. tab[wins[w].slot].used /\ tab[wins[w].slot].name = home[w]  BY DEF DocsInv, BoundOK
<1>4. home[w] \in Doc!Files  BY <1>2, <1>3 DEF DocsInv, IndexOK, Indexed
<1>5. Doc!InNotepad(home[w])
  <2>1. wins[w].slot \in Doc!SlotOf(home[w])  BY <1>2, <1>3 DEF Doc!SlotOf
  <2>2. w \in Doc!Bound(wins[w].slot)  BY DEF Doc!Bound
  <2> QED  BY <2>1, <2>2 DEF Doc!InNotepad
<1> QED  BY <1>2, <1>3, <1>4, <1>5 DEF Doc!Files

(* The index after a step that keeps the names of the bound documents. *)
LEMMA ResyncIs ==
  ASSUME Doc!ConstantsOK, DocsInv, DiskOK', Doc!Resync
  PROVE  /\ IndexOK' /\ \A s \in Doc!Slot : tab[s].name \in Doc!Files' => tab'[s].used /\ tab'[s].name = tab[s].name
<1>1. TableOK(tab)  BY DEF DocsInv, IndexOK
<1>2. Doc!Rescan(tab) /\ icon' = [s \in Doc!Slot |-> tab'[s].used]  BY DEF Doc!Resync
<1>3. /\ TableOK(tab)' /\ Indexed'
      /\ \A s \in Doc!Slot : tab[s].name \in Doc!Files' => tab'[s].used /\ tab'[s].name = tab[s].name
  <2> PICK T : T = tab  OBVIOUS
  <2>1. TableOK(T) /\ Doc!Rescan(T)  BY <1>1, <1>2
  <2>2. /\ TableOK(tab)' /\ Indexed'
        /\ \A s \in Doc!Slot : T[s].name \in Doc!Files' => tab'[s].used /\ tab'[s].name = T[s].name
    BY <2>1, RescanIs
  <2> QED  BY <2>2
<1>4. IconOK'
  <2>1. \A s \in Doc!Slot : tab'[s].used \in BOOLEAN  BY <1>3 DEF TableOK, Entry
  <2> QED  BY <1>2, <2>1 DEF IconOK
<1> QED  BY <1>3, <1>4 DEF IndexOK

(* Others change the directory, and no document that is open. *)
LEMMA OthersKeep ==
  ASSUME Doc!ConstantsOK, DocsInv, DiskOK', Doc!Resync, UNCHANGED <<wins, home>>,
         \A n \in Doc!Files : Doc!InNotepad(n) => n \in Doc!Files'
  PROVE  DocsInv'
<1>1. /\ IndexOK' /\ \A s \in Doc!Slot : tab[s].name \in Doc!Files' => tab'[s].used /\ tab'[s].name = tab[s].name  BY ResyncIs
<1>2. \A w \in Doc!Win : wins[w].open /\ wins[w].slot # Doc!None =>
        tab'[wins[w].slot].used /\ tab'[wins[w].slot].name = tab[wins[w].slot].name
  BY <1>1, BoundInIndex
<1>3. DocWinsOK /\ BoundOK  BY DEF DocsInv
<1>4. DocWinsOK' /\ BoundOK'  BY <1>2, <1>3, WinsStay
<1> QED  BY <1>1, <1>4 DEF DocsInv

LEMMA WriteKeeps ==
  ASSUME Doc!ConstantsOK, DocsInv, NEW n \in Name, NEW t \in Text, Doc!OthersWrite(n, t)
  PROVE  DocsInv'
<1>1. Doc!Put(n, t) /\ Doc!Resync /\ UNCHANGED <<wins, home>> /\ DiskOK  BY DEF Doc!OthersWrite, DocsInv
<1>2. DiskOK' /\ Doc!Files' = Doc!Files \cup {n}  BY <1>1, PutIs
<1> QED  BY <1>1, <1>2, OthersKeep

LEMMA RemoveKeeps ==
  ASSUME Doc!ConstantsOK, Spared, DocsInv, NEW n \in Name, Doc!OthersRemove(n) \/ Doc!FilesDelete(n)
  PROVE  DocsInv'
<1>1. n \in Doc!Files /\ ~Doc!InNotepad(n) /\ Doc!Remove(n) /\ Doc!Resync /\ UNCHANGED <<wins, home>> /\ DiskOK
  BY DEF Doc!OthersRemove, Doc!FilesDelete, Doc!Leaves, Spared, DocsInv
<1>2. DiskOK' /\ Doc!Files' = Doc!Files \ {n}  BY <1>1, RemoveIs
<1> QED  BY <1>1, <1>2, OthersKeep

LEMMA RenameKeeps ==
  ASSUME Doc!ConstantsOK, Spared, DocsInv, NEW n \in Name, NEW m \in Name, Doc!OthersRename(n, m)
  PROVE  DocsInv'
<1>1. n \in Doc!Files /\ n # m /\ ~Doc!InNotepad(n) /\ Doc!Rename(n, m) /\ Doc!Resync /\ UNCHANGED <<wins, home>> /\ DiskOK
  BY DEF Doc!OthersRename, Doc!Leaves, Spared, DocsInv
<1>2. DiskOK' /\ Doc!Files' = (Doc!Files \ {n}) \cup {m}  BY <1>1, RenameIs
<1> QED  BY <1>1, <1>2, OthersKeep

(* The slot is emptied with its file. *)
LEMMA DelKeeps ==
  ASSUME Doc!ConstantsOK, Spared, DocsInv, NEW s \in Doc!Slot, Doc!Del(s)
  PROVE  DocsInv'
<1> DEFINE n == tab[s].name
<1>1. /\ tab[s].used /\ ~Doc!InNotepad(n) /\ Doc!Remove(n) /\ tab' = [tab EXCEPT ![s] = Doc!NoEntry]
      /\ icon' = [icon EXCEPT ![s] = FALSE] /\ UNCHANGED <<wins, home>>
  BY DEF Doc!Del, Doc!Leaves, Spared
<1>2. DiskOK /\ TableOK(tab) /\ Indexed /\ IconOK /\ DocWinsOK /\ BoundOK  BY DEF DocsInv, IndexOK
<1>3. n \in Doc!Files  BY <1>1, <1>2 DEF Indexed
<1>4. DiskOK' /\ Doc!Files' = Doc!Files \ {n} /\ \A m \in Name : m # n => dir'[m] = dir[m]
  <2> PICK m \in Doc!Files : m = n  BY <1>3
  <2>1. Doc!Remove(m)  BY <1>1
  <2> QED  BY <1>2, <2>1, RemoveIs
<1> DEFINE no == FALSE
<1>5. no \in BOOLEAN /\ ~no /\ icon' = [icon EXCEPT ![s] = no]  BY <1>1
<1>6. Doc!NoEntry = [name |-> NoName, used |-> no, ino |-> Doc!None]  BY DEF Doc!NoEntry
<1> HIDE DEF no
<1>7. Doc!NoEntry \in Entry /\ Doc!NoEntry.used = no /\ Doc!NoEntry.name = NoName  BY <1>5, <1>6 DEF Entry
<1>8. tab \in [Doc!Slot -> Entry] /\ icon \in [Doc!Slot -> BOOLEAN] /\ \A x \in Doc!Slot : icon[x] = tab[x].used  BY <1>2 DEF TableOK, IconOK
<1>9. tab' \in [Doc!Slot -> Entry] /\ tab'[s] = Doc!NoEntry /\ \A x \in Doc!Slot : x # s => tab'[x] = tab[x]  BY <1>1, <1>7, <1>8
<1>10. TableOK(tab)'
  <2>1. \A x \in Doc!Slot : tab'[x].used => tab'[x].name # NoName  BY <1>2, <1>5, <1>7, <1>9 DEF TableOK
  <2>2. \A x, y \in Doc!Slot : tab'[x].name = tab'[y].name /\ tab'[x].name # NoName => x = y  BY <1>2, <1>7, <1>9 DEF TableOK
  <2> QED  BY <1>9, <2>1, <2>2 DEF TableOK
<1>11. Indexed'
  <2> SUFFICES ASSUME NEW x \in Doc!Slot, tab'[x].used  PROVE tab'[x].name \in Doc!Files' /\ tab'[x].ino = dir'[tab'[x].name]
    BY DEF Indexed
  <2>1. x # s /\ tab'[x] = tab[x]  BY <1>5, <1>7, <1>9
  <2>2. tab[x].name \in Doc!Files /\ tab[x].ino = dir[tab[x].name]  BY <1>2, <2>1 DEF Indexed
  <2>3. tab[s].name # NoName  BY <1>1, <1>2 DEF TableOK
  <2>4. tab[x].name # n  BY <1>2, <2>1, <2>3 DEF TableOK
  <2> QED  BY <1>4, <2>1, <2>2, <2>4 DEF Doc!Files
<1>12. IconOK'
  <2>1. icon' \in [Doc!Slot -> BOOLEAN] /\ icon'[s] = no /\ \A x \in Doc!Slot : x # s => icon'[x] = icon[x]  BY <1>5, <1>8
  <2>2. \A x \in Doc!Slot : icon'[x] = tab'[x].used  BY <1>7, <1>8, <1>9, <2>1
  <2> QED  BY <2>1, <2>2 DEF IconOK
<1>13. \A w \in Doc!Win : wins[w].open /\ wins[w].slot # Doc!None =>
         tab'[wins[w].slot].used /\ tab'[wins[w].slot].name = tab[wins[w].slot].name
  <2> TAKE w \in Doc!Win
  <2> SUFFICES ASSUME wins[w].open, wins[w].slot # Doc!None
               PROVE  tab'[wins[w].slot].used /\ tab'[wins[w].slot].name = tab[wins[w].slot].name
    OBVIOUS
  <2>1. wins[w].slot \in Doc!Slot /\ tab[wins[w].slot].used /\ tab[wins[w].slot].name = home[w] /\ Doc!InNotepad(home[w])
    BY BoundInIndex
  <2>2. wins[w].slot # s  BY <1>1, <2>1
  <2> QED  BY <1>9, <2>1, <2>2
<1>14. DocWinsOK' /\ BoundOK'  BY <1>1, <1>2, <1>13, WinsStay
<1> QED  BY <1>4, <1>10, <1>11, <1>12, <1>14 DEF DocsInv, IndexOK

(* A restart makes the index anew, and no window is open. *)
LEMMA BootKeeps ==
  ASSUME Doc!ConstantsOK, DocsInv, Doc!Boot
  PROVE  DocsInv'
<1> DEFINE no == FALSE
<1>1. no \in BOOLEAN /\ ~no  OBVIOUS
<1>2. Doc!NoEntry = [name |-> NoName, used |-> no, ino |-> Doc!None]  BY DEF Doc!NoEntry
<1> HIDE DEF no
<1>3. Doc!NoEntry \in Entry /\ Doc!NoEntry.used = no /\ Doc!NoEntry.name = NoName  BY <1>1, <1>2 DEF Entry
<1>4. UNCHANGED <<dir, file>> /\ Doc!Files' = Doc!Files  BY DEF Doc!Boot, Doc!disk, Doc!Files
<1>5. DiskOK'  BY <1>4 DEF DocsInv, DiskOK
<1> DEFINE T == [s \in Doc!Slot |-> Doc!NoEntry]
<1>6. TableOK(T)  BY <1>1, <1>3 DEF TableOK
<1>7. Doc!Rescan(T) /\ icon' = [s \in Doc!Slot |-> tab'[s].used]  BY DEF Doc!Boot
<1> HIDE DEF T
<1>8. TableOK(tab)' /\ Indexed'  BY <1>5, <1>6, <1>7, RescanIs
<1>9. IconOK'
  <2>1. \A s \in Doc!Slot : tab'[s].used \in BOOLEAN  BY <1>8 DEF TableOK, Entry
  <2> QED  BY <1>7, <2>1 DEF IconOK
<1>10. DocWinsOK' /\ BoundOK'
  <2>1. wins' = [w \in Doc!Win |-> Doc!Closed] /\ home' = [w \in Doc!Win |-> NoName]  BY DEF Doc!Boot
  <2>2. Doc!Closed \in Pad /\ ~Doc!Closed.open  BY ClosedIs
  <2>3. DocWinsOK'  BY <2>1, <2>2 DEF DocWinsOK
  <2>4. BoundOK'  BY <2>1, <2>2 DEF BoundOK
  <2> QED  BY <2>3, <2>4
<1> QED  BY <1>5, <1>8, <1>9, <1>10 DEF DocsInv, IndexOK

(* Steps of a window alone. *)
LEMMA WindowKeeps ==
  ASSUME Doc!ConstantsOK, DocsInv, UNCHANGED <<Doc!disk, tab, icon>>, NEW w \in Doc!Win, NEW p \in Pad, NEW h \in Name \cup {NoName},
         wins' = [wins EXCEPT ![w] = p], home' = [home EXCEPT ![w] = h], p.open \/ p = Doc!Closed,
         p.open /\ p.slot # Doc!None => /\ tab[p.slot].used /\ tab[p.slot].name = h
                                        /\ \A v \in Doc!Win : v # w /\ wins[v].open => wins[v].slot # p.slot
  PROVE  DocsInv'
<1>1. UNCHANGED <<dir, file, tab, icon>>  BY DEF Doc!disk
<1>2. Doc!Files' = Doc!Files  BY <1>1 DEF Doc!Files
<1>3. DiskOK' /\ IndexOK'  BY <1>1, <1>2 DEF DocsInv, DiskOK, IndexOK, TableOK, Indexed, IconOK
<1>4. DocWinsOK /\ BoundOK  BY DEF DocsInv
<1>5. \A v \in Doc!Win : v # w /\ wins[v].open /\ wins[v].slot # Doc!None =>
        tab'[wins[v].slot].used /\ tab'[wins[v].slot].name = tab[wins[v].slot].name /\ (p.open => wins[v].slot # p.slot)
  BY <1>1, <1>4 DEF BoundOK
<1>6. p.open /\ p.slot # Doc!None => tab'[p.slot].used /\ tab'[p.slot].name = h  BY <1>1
<1>7. Becomes(w, p, h)  BY <1>5, <1>6 DEF Becomes
<1>8. DocWinsOK' /\ BoundOK'  BY <1>4, <1>7, WinStep
<1> QED  BY <1>3, <1>8 DEF DocsInv

(* Typing, a question, its dismissal: the window keeps its document. *)
LEMMA SameKeeps ==
  ASSUME Doc!ConstantsOK, DocsInv, NEW w \in Doc!Win, wins[w].open,
         Doc!Dismiss(w) \/ (\E q \in {"new", "close", "saveas"} : Doc!Ask(w, q)) \/ (\E t \in Text : Doc!Edit(w, t))
  PROVE  DocsInv'
<1>1. wins \in [Doc!Win -> Pad] /\ home \in [Doc!Win -> Name \cup {NoName}] /\ wins[w] \in Pad  BY DEF DocsInv, DocWinsOK
<1>2. UNCHANGED <<Doc!disk, tab, icon, home>>  BY DEF Doc!Dismiss, Doc!Ask, Doc!Edit
<1>3. \E p \in Pad : wins' = [wins EXCEPT ![w] = p] /\ p.open = wins[w].open /\ p.slot = wins[w].slot
  <2>1. EmptyText \in Text /\ Doc!None \in Doc!Slot \cup {Doc!None}  BY Numbered
  <2>2. CASE Doc!Dismiss(w)
    <3>1. wins' = [wins EXCEPT ![w] = [wins[w] EXCEPT !.dialog = "none"]]  BY <1>1, <2>2 DEF Doc!Dismiss
    <3> QED  BY <1>1, <2>1, <3>1, PadIs
  <2>3. ASSUME NEW q \in {"new", "close", "saveas"}, Doc!Ask(w, q)
        PROVE  \E p \in Pad : wins' = [wins EXCEPT ![w] = p] /\ p.open = wins[w].open /\ p.slot = wins[w].slot
    <3>1. wins' = [wins EXCEPT ![w] = [wins[w] EXCEPT !.dialog = q]]  BY <1>1, <2>3 DEF Doc!Ask
    <3>2. q \in {"none", "new", "close", "saveas"}  OBVIOUS
    <3>3. PICK p \in Pad : p = wins[w]  BY <1>1
    <3>4. [p EXCEPT !.dialog = q] \in Pad /\ [p EXCEPT !.dialog = q].open = p.open /\ [p EXCEPT !.dialog = q].slot = p.slot
      BY <3>2 DEF Pad
    <3> QED  BY <3>1, <3>3, <3>4
  <2>4. ASSUME NEW t \in Text, Doc!Edit(w, t)
        PROVE  \E p \in Pad : wins' = [wins EXCEPT ![w] = p] /\ p.open = wins[w].open /\ p.slot = wins[w].slot
    <3>1. wins' = [wins EXCEPT ![w] = [wins[w] EXCEPT !.text = t]]  BY <1>1, <2>4 DEF Doc!Edit
    <3>2. PICK p \in Pad : p = wins[w]  BY <1>1
    <3>3. [p EXCEPT !.text = t] \in Pad /\ [p EXCEPT !.text = t].open = p.open /\ [p EXCEPT !.text = t].slot = p.slot
      BY DEF Pad
    <3> QED  BY <3>1, <3>2, <3>3
  <2> QED  BY <2>2, <2>3, <2>4
<1>4. PICK p \in Pad : wins' = [wins EXCEPT ![w] = p] /\ p.open = wins[w].open /\ p.slot = wins[w].slot  BY <1>3
<1>5. PICK h \in Name \cup {NoName} : h = home[w]  BY <1>1
<1>6. home' = [home EXCEPT ![w] = h]  BY <1>1, <1>2, <1>5
<1>7. p.open /\ p.slot # Doc!None => /\ tab[p.slot].used /\ tab[p.slot].name = h
                                     /\ \A v \in Doc!Win : v # w /\ wins[v].open => wins[v].slot # p.slot
  BY <1>4, <1>5 DEF DocsInv, BoundOK
<1>8. p.open  BY <1>4
<1> QED  BY <1>2, <1>4, <1>6, <1>7, <1>8, WindowKeeps

(* The window lets go of its document, whatever is on the disk and in the index by then. *)
LEMMA LetGoKeeps ==
  ASSUME Doc!ConstantsOK, DocsInv, DiskOK', IndexOK', NEW w \in Doc!Win, Doc!LetGo(w),
         \A s \in Doc!Slot : tab[s].used => tab'[s].used /\ tab'[s].name = tab[s].name
  PROVE  DocsInv'
<1> DEFINE b == wins[w].dialog = "new"
<1>1. b \in BOOLEAN /\ wins' = [wins EXCEPT ![w] = [Doc!Closed EXCEPT !.open = b]] /\ home' = [home EXCEPT ![w] = NoName]
  BY DEF Doc!LetGo
<1> HIDE DEF b
<1>2. PICK p \in Pad : p = [Doc!Closed EXCEPT !.open = b] /\ p.slot = Doc!None /\ p.open = b /\ (~b => p = Doc!Closed)  BY <1>1, ClosedIs
<1>3. PICK h \in Name \cup {NoName} : h = NoName  OBVIOUS
<1>4. DocWinsOK /\ BoundOK  BY DEF DocsInv
<1>5. \A v \in Doc!Win : v # w /\ wins[v].open /\ wins[v].slot # Doc!None =>
        tab'[wins[v].slot].used /\ tab'[wins[v].slot].name = tab[wins[v].slot].name /\ (p.open => wins[v].slot # p.slot)
  BY <1>2, BoundInIndex
<1>6. wins' = [wins EXCEPT ![w] = p] /\ home' = [home EXCEPT ![w] = h] /\ (p.open \/ p = Doc!Closed)  BY <1>1, <1>2, <1>3
<1>7. Becomes(w, p, h)  BY <1>2, <1>5, <1>6 DEF Becomes
<1>8. DocWinsOK' /\ BoundOK'  BY <1>4, <1>7, WinStep
<1> QED  BY <1>8 DEF DocsInv

LEMMA NoKeeps ==
  ASSUME Doc!ConstantsOK, DocsInv, NEW w \in Doc!Win, Doc!No(w)
  PROVE  DocsInv'
<1>1. Doc!LetGo(w) /\ UNCHANGED <<Doc!disk, tab, icon>>  BY DEF Doc!No
<1>2. UNCHANGED <<dir, file, tab, icon>>  BY <1>1 DEF Doc!disk
<1>3. Doc!Files' = Doc!Files  BY <1>2 DEF Doc!Files
<1>4. DiskOK' /\ IndexOK'  BY <1>2, <1>3 DEF DocsInv, DiskOK, IndexOK, TableOK, Indexed, IconOK
<1>5. \A s \in Doc!Slot : tab[s].used => tab'[s].used /\ tab'[s].name = tab[s].name  BY <1>2
<1> QED  BY <1>1, <1>4, <1>5, LetGoKeeps

(* A save tells the window which slot it has now. *)
LEMMA SaveKeeps ==
  ASSUME Doc!ConstantsOK, DocsInv, NEW w \in Doc!Win, NEW r, Doc!Save(w, r)
  PROVE  DocsInv'
<1>1. /\ wins[w].open /\ Doc!SaveDoes(w, r) /\ DocWinsOK /\ BoundOK
      /\ wins \in [Doc!Win -> Pad] /\ home \in [Doc!Win -> Name \cup {NoName}] /\ wins[w] \in Pad
  BY DEF Doc!Save, DocsInv, DocWinsOK
<1>2. /\ DiskOK' /\ IndexOK'
      /\ \A x \in Doc!Slot : tab[x].used => tab'[x].used /\ tab'[x].name = tab[x].name
      /\ Doc!SaveEnds(w, r) = "full" <=> Doc!Target(w) = Doc!None
      /\ Doc!SaveEnds(w, r) = "saved" => tab'[Doc!Target(w)].used /\ tab'[Doc!Target(w)].name = Doc!TargetName(w)
  BY <1>1, SaveIs
<1>3. \A v \in Doc!Win : wins[v].open /\ wins[v].slot # Doc!None =>
        tab'[wins[v].slot].used /\ tab'[wins[v].slot].name = tab[wins[v].slot].name
  BY <1>2, BoundInIndex
<1>4. CASE Doc!SaveEnds(w, r) # "saved"
  <2>1. UNCHANGED <<wins, home>>  BY <1>4 DEF Doc!Save
  <2>2. DocWinsOK' /\ BoundOK'  BY <1>1, <1>3, <2>1, WinsStay
  <2> QED  BY <1>2, <2>2 DEF DocsInv
<1>5. CASE Doc!SaveEnds(w, r) = "saved"
  <2>1. Doc!Target(w) # Doc!None  BY <1>2, <1>5
  <2>2. /\ Doc!Target(w) \in Doc!Slot /\ Doc!TargetName(w) \in Name
        /\ wins[w].slot # Doc!None => Doc!Target(w) = wins[w].slot
        /\ wins[w].slot = Doc!None => ~tab[Doc!Target(w)].used
    BY <1>1, <2>1, TargetIs
  <2>3. wins' = [wins EXCEPT ![w] = [wins[w] EXCEPT !.slot = Doc!Target(w)]] /\ home' = [home EXCEPT ![w] = Doc!TargetName(w)]
    BY <1>1, <1>5 DEF Doc!Save
  <2>4. PICK s \in Doc!Slot, n \in Name \cup {NoName} : s = Doc!Target(w) /\ n = Doc!TargetName(w)  BY <2>2
  <2>5. PICK p \in Pad : p = [wins[w] EXCEPT !.slot = s] /\ p.open = wins[w].open /\ p.slot = s
    <3>1. PICK q \in Pad : q = wins[w]  BY <1>1
    <3>2. [q EXCEPT !.slot = s] \in Pad /\ [q EXCEPT !.slot = s].open = q.open /\ [q EXCEPT !.slot = s].slot = s  BY DEF Pad
    <3> QED  BY <3>1, <3>2
  <2>6. ASSUME NEW v \in Doc!Win, v # w, wins[v].open, wins[v].slot # Doc!None  PROVE wins[v].slot # s
    <3>1. tab[wins[v].slot].used  BY <1>1, <2>6 DEF BoundOK
    <3>2. CASE wins[w].slot # Doc!None
      <4>1. s = wins[w].slot  BY <2>2, <2>4, <3>2
      <4> QED  BY <1>1, <2>6, <3>2, <4>1 DEF BoundOK
    <3>3. CASE wins[w].slot = Doc!None  BY <2>2, <2>4, <3>1, <3>3
    <3> QED  BY <3>2, <3>3
  <2>7. Becomes(w, p, n)
    <3>1. wins' = [wins EXCEPT ![w] = p] /\ home' = [home EXCEPT ![w] = n] /\ p.open  BY <1>1, <2>3, <2>4, <2>5
    <3>2. tab'[p.slot].used /\ tab'[p.slot].name = n  BY <1>2, <1>5, <2>4, <2>5
    <3>3. \A v \in Doc!Win : v # w /\ wins[v].open /\ wins[v].slot # Doc!None =>
            tab'[wins[v].slot].used /\ tab'[wins[v].slot].name = tab[wins[v].slot].name /\ (p.open => wins[v].slot # p.slot)
      BY <1>3, <2>5, <2>6
    <3> QED  BY <3>1, <3>2, <3>3 DEF Becomes
  <2>8. DocWinsOK' /\ BoundOK'  BY <1>1, <2>7, WinStep
  <2> QED  BY <1>2, <2>8 DEF DocsInv
<1> QED  BY <1>4, <1>5

(* The question is answered with a save. *)
LEMMA YesKeeps ==
  ASSUME Doc!ConstantsOK, DocsInv, NEW w \in Doc!Win, NEW r, Doc!Yes(w, r)
  PROVE  DocsInv'
<1>1. /\ wins[w].open /\ Doc!SaveDoes(w, r) /\ DocWinsOK /\ BoundOK
      /\ wins \in [Doc!Win -> Pad] /\ home \in [Doc!Win -> Name \cup {NoName}] /\ wins[w] \in Pad
  BY DEF Doc!Yes, DocsInv, DocWinsOK
<1>2. DiskOK' /\ IndexOK' /\ \A x \in Doc!Slot : tab[x].used => tab'[x].used /\ tab'[x].name = tab[x].name
  BY <1>1, SaveIs
<1>3. CASE Doc!SaveEnds(w, r) # "failed"
  <2>1. Doc!LetGo(w)  BY <1>3 DEF Doc!Yes
  <2> QED  BY <1>2, <2>1, LetGoKeeps
<1>4. CASE Doc!SaveEnds(w, r) = "failed"
  <2>1. wins' = [wins EXCEPT ![w] = [wins[w] EXCEPT !.dialog = "none"]] /\ home' = home  BY <1>1, <1>4 DEF Doc!Yes
  <2>2. PICK p \in Pad : p = [wins[w] EXCEPT !.dialog = "none"] /\ p.open = wins[w].open /\ p.slot = wins[w].slot
    <3>1. PICK q \in Pad : q = wins[w]  BY <1>1
    <3>2. [q EXCEPT !.dialog = "none"] \in Pad /\ [q EXCEPT !.dialog = "none"].open = q.open
          /\ [q EXCEPT !.dialog = "none"].slot = q.slot
      BY DEF Pad
    <3> QED  BY <3>1, <3>2
  <2>3. PICK h \in Name \cup {NoName} : h = home[w]  BY <1>1
  <2>4. \A v \in Doc!Win : wins[v].open /\ wins[v].slot # Doc!None =>
          tab'[wins[v].slot].used /\ tab'[wins[v].slot].name = tab[wins[v].slot].name
    BY <1>2, BoundInIndex
  <2>5. Becomes(w, p, h)
    <3>1. wins' = [wins EXCEPT ![w] = p] /\ home' = [home EXCEPT ![w] = h] /\ p.open  BY <1>1, <2>1, <2>2, <2>3
    <3>2. p.slot # Doc!None => tab'[p.slot].used /\ tab'[p.slot].name = h
      <4>1. p.slot # Doc!None => tab[p.slot].name = h  BY <1>1, <2>2, <2>3 DEF BoundOK
      <4>2. p.slot # Doc!None => tab'[p.slot].used /\ tab'[p.slot].name = tab[p.slot].name  BY <1>1, <2>2, <2>4
      <4> QED  BY <4>1, <4>2
    <3>3. \A v \in Doc!Win : v # w /\ wins[v].open /\ wins[v].slot # Doc!None => wins[v].slot # p.slot
      <4> TAKE v \in Doc!Win
      <4> SUFFICES ASSUME v # w, wins[v].open, wins[v].slot # Doc!None, wins[v].slot = p.slot PROVE FALSE  OBVIOUS
      <4>1. wins[w].slot = wins[v].slot  BY <2>2
      <4> QED  BY <1>1, <4>1 DEF BoundOK
    <3> QED  BY <2>4, <3>1, <3>2, <3>3 DEF Becomes
  <2>6. DocWinsOK' /\ BoundOK'  BY <1>1, <2>5, WinStep
  <2> QED  BY <1>2, <2>6 DEF DocsInv
<1> QED  BY <1>3, <1>4

(* Save As: where it goes, and what the table is then. *)
AsSlot(w, n) == IF Doc!SlotOf(n) # {} THEN wins[w].slot ELSE Doc!EmptySlot
AsTab(w, n) == IF Doc!SlotOf(n) # {} THEN tab ELSE Doc!Reserved(Doc!EmptySlot)

LEMMA AsIs ==
  ASSUME Doc!ConstantsOK, DocsInv, NEW w \in Doc!Win, wins[w].open, NEW n \in Name, AsSlot(w, n) # Doc!None,
         Doc!SlotOf(n) = {} \/ Doc!SlotOf(n) = {wins[w].slot}
  PROVE  /\ AsSlot(w, n) \in Doc!Slot /\ TableOK(AsTab(w, n))
         /\ \A x \in Doc!Slot : x # AsSlot(w, n) => AsTab(w, n)[x] = tab[x] /\ (tab[x].used => tab[x].name # n)
         /\ AsTab(w, n)[AsSlot(w, n)].used = tab[AsSlot(w, n)].used
         /\ tab[AsSlot(w, n)].used => Doc!SlotOf(n) # {} /\ wins[w].slot = AsSlot(w, n) /\ tab[AsSlot(w, n)] = AsTab(w, n)[AsSlot(w, n)]
<1>1. TableOK(tab) /\ tab \in [Doc!Slot -> Entry]  BY DEF DocsInv, IndexOK, TableOK
<1>2. CASE Doc!SlotOf(n) # {}
  <2> DEFINE s == wins[w].slot
  <2>1. AsSlot(w, n) = s /\ AsTab(w, n) = tab /\ Doc!SlotOf(n) = {s}  BY <1>2 DEF AsSlot, AsTab
  <2>2. s \in Doc!Slot /\ tab[s].used /\ tab[s].name = n
    <3>1. s \in Doc!SlotOf(n)  BY <2>1
    <3> QED  BY <3>1 DEF Doc!SlotOf
  <2>3. n # NoName  BY Numbered
  <2> HIDE DEF s
  <2>4. \A x \in Doc!Slot : x # s => tab[x].name # n  BY <1>1, <2>2, <2>3 DEF TableOK
  <2> QED  BY <1>1, <1>2, <2>1, <2>2, <2>4 DEF s
<1>3. CASE Doc!SlotOf(n) = {}
  <2>1. AsSlot(w, n) = Doc!EmptySlot /\ AsTab(w, n) = Doc!Reserved(Doc!EmptySlot)  BY <1>3 DEF AsSlot, AsTab
  <2>2. Doc!Files \subseteq Name /\ Doc!EmptySlot # Doc!None  BY <2>1 DEF Doc!Files
  <2>3. /\ Doc!EmptySlot \in Doc!Slot /\ ~tab[Doc!EmptySlot].used
        /\ TableOK(Doc!Reserved(Doc!EmptySlot)) /\ ~Doc!Reserved(Doc!EmptySlot)[Doc!EmptySlot].used
        /\ \A x \in Doc!Slot : x # Doc!EmptySlot => Doc!Reserved(Doc!EmptySlot)[x] = tab[x]
    BY <1>1, <2>2, ReservedIs
  <2>4. \A x \in Doc!Slot : tab[x].used => tab[x].name # n  BY <1>3 DEF Doc!SlotOf
  <2>5. tab[Doc!EmptySlot].used \in BOOLEAN /\ Doc!Reserved(Doc!EmptySlot)[Doc!EmptySlot].used \in BOOLEAN  BY <1>1, <2>3 DEF TableOK, Entry
  <2>6. Doc!Reserved(Doc!EmptySlot)[Doc!EmptySlot].used = tab[Doc!EmptySlot].used  BY <2>3, <2>5, Zenon
  <2> QED  BY <2>1, <2>3, <2>4, <2>6
<1> QED  BY <1>2, <1>3

LEMMA SaveAsKeeps ==
  ASSUME Doc!ConstantsOK, DocsInv, NEW w \in Doc!Win, NEW n \in Name, NEW r, Doc!SaveAs(w, n, r)
  PROVE  DocsInv'
<1> DEFINE s == AsSlot(w, n)  T == AsTab(w, n)
<1>1. /\ wins[w].open /\ DocWinsOK /\ BoundOK /\ DiskOK /\ IndexOK
      /\ wins \in [Doc!Win -> Pad] /\ home \in [Doc!Win -> Name \cup {NoName}] /\ wins[w] \in Pad
  BY DEF Doc!SaveAs, DocsInv, DocWinsOK
<1>2. Doc!SlotOf(n) = {} \/ Doc!SlotOf(n) = {wins[w].slot}  BY DEF Doc!SaveAs
<1>3. CASE s = Doc!None
  <2>1. UNCHANGED <<Doc!disk, tab, icon, home>> /\ wins' = [wins EXCEPT ![w] = [wins[w] EXCEPT !.dialog = "none"]]
    BY <1>1, <1>2, <1>3 DEF Doc!SaveAs, AsSlot
  <2>2. Doc!Dismiss(w)
    <3>1. wins[w].dialog = "saveas"  BY DEF Doc!SaveAs
    <3> QED  BY <1>1, <2>1, <3>1 DEF Doc!Dismiss
  <2> QED  BY <1>1, <2>2, SameKeeps
<1>4. CASE s # Doc!None /\ r = "fail"
  <2>1. /\ UNCHANGED <<Doc!disk, home>> /\ tab' = T /\ icon' = [icon EXCEPT ![s] = T[s].used]
        /\ wins' = [wins EXCEPT ![w] = [wins[w] EXCEPT !.dialog = "none"]]
    BY <1>1, <1>2, <1>4 DEF Doc!SaveAs, AsSlot, AsTab
  <2>2. /\ s \in Doc!Slot /\ TableOK(T) /\ T[s].used = tab[s].used
        /\ \A x \in Doc!Slot : x # s => T[x] = tab[x]
        /\ tab[s].used => tab[s] = T[s]
    BY <1>1, <1>2, <1>4, AsIs
  <2> HIDE DEF s, T
  <2>3. dir' = dir /\ file' = file /\ Doc!Files' = Doc!Files  BY <2>1 DEF Doc!disk, Doc!Files
  <2>4. DiskOK'  BY <1>1, <2>3 DEF DiskOK
  <2>5. TableOK(tab)' /\ \A x \in Doc!Slot : T[x].used = tab[x].used /\ (tab[x].used => tab'[x] = tab[x])
    BY <2>1, <2>2 DEF TableOK
  <2>6. Indexed'  BY <1>1, <2>1, <2>3, <2>5 DEF Indexed, IndexOK
  <2>7. IconOK'
    <3>1. T[s].used \in BOOLEAN  BY <2>2 DEF TableOK, Entry
    <3> QED  BY <1>1, <2>1, <2>2, <2>5, <3>1 DEF IndexOK, IconOK
  <2>8. PICK p \in Pad : p = [wins[w] EXCEPT !.dialog = "none"] /\ p.open = wins[w].open /\ p.slot = wins[w].slot
    <3>1. PICK q \in Pad : q = wins[w]  BY <1>1
    <3>2. [q EXCEPT !.dialog = "none"] \in Pad /\ [q EXCEPT !.dialog = "none"].open = q.open
          /\ [q EXCEPT !.dialog = "none"].slot = q.slot
      BY DEF Pad
    <3> QED  BY <3>1, <3>2
  <2>9. PICK h \in Name \cup {NoName} : h = home[w]  BY <1>1
  <2>10. \A v \in Doc!Win : wins[v].open /\ wins[v].slot # Doc!None =>
           tab'[wins[v].slot].used /\ tab'[wins[v].slot].name = tab[wins[v].slot].name
    BY <2>5, BoundInIndex
  <2>11. Becomes(w, p, h)
    <3>1. wins' = [wins EXCEPT ![w] = p] /\ home' = [home EXCEPT ![w] = h] /\ p.open  BY <1>1, <2>1, <2>8, <2>9
    <3>2. p.slot # Doc!None => tab'[p.slot].used /\ tab'[p.slot].name = h
      <4>1. p.slot # Doc!None => tab[p.slot].name = h  BY <1>1, <2>8, <2>9 DEF BoundOK
      <4>2. p.slot # Doc!None => tab'[p.slot].used /\ tab'[p.slot].name = tab[p.slot].name  BY <1>1, <2>8, <2>10
      <4> QED  BY <4>1, <4>2
    <3>3. \A v \in Doc!Win : v # w /\ wins[v].open /\ wins[v].slot # Doc!None => wins[v].slot # p.slot
      <4> TAKE v \in Doc!Win
      <4> SUFFICES ASSUME v # w, wins[v].open, wins[v].slot # Doc!None, wins[v].slot = p.slot PROVE FALSE  OBVIOUS
      <4>1. wins[w].slot = wins[v].slot  BY <2>8
      <4> QED  BY <1>1, <4>1 DEF BoundOK
    <3> QED  BY <2>10, <3>1, <3>2, <3>3 DEF Becomes
  <2>12. DocWinsOK' /\ BoundOK'  BY <1>1, <2>11, WinStep
  <2> QED  BY <2>4, <2>5, <2>6, <2>7, <2>12 DEF DocsInv, IndexOK
<1>5. CASE s # Doc!None /\ r # "fail"
  <2>1. /\ Doc!Put(n, wins[w].text) /\ tab' = Doc!Stored(T, s, n) /\ icon' = [icon EXCEPT ![s] = TRUE]
        /\ wins' = [wins EXCEPT ![w] = [[wins[w] EXCEPT !.slot = s] EXCEPT !.dialog = "none"]]
        /\ home' = [home EXCEPT ![w] = n]
    BY <1>1, <1>2, <1>5 DEF Doc!SaveAs, AsSlot, AsTab
  <2>2. /\ s \in Doc!Slot /\ TableOK(T)
        /\ \A x \in Doc!Slot : x # s => T[x] = tab[x] /\ (tab[x].used => tab[x].name # n)
        /\ tab[s].used => wins[w].slot = s
    BY <1>1, <1>2, <1>5, AsIs
  <2> HIDE DEF s, T
  <2>3. PICK u \in Text : u = wins[w].text  BY <1>1 DEF Pad
  <2>4. PICK a \in Doc!Slot : a = s  BY <2>2
  <2>5. PICK U : U = T  OBVIOUS
  <2>6. Filing(U, a, n, u)  BY <2>1, <2>2, <2>3, <2>4, <2>5 DEF Filing
  <2>7. /\ DiskOK' /\ IndexOK' /\ tab'[a].used /\ tab'[a].name = n
        /\ \A x \in Doc!Slot : x # a /\ tab[x].used => tab'[x] = tab[x]
    BY <1>1, <2>6, FiledIs
  <2>8. PICK p \in Pad : p = [[wins[w] EXCEPT !.slot = s] EXCEPT !.dialog = "none"] /\ p.open = wins[w].open /\ p.slot = a
    <3>1. PICK q \in Pad : q = wins[w]  BY <1>1
    <3>2. [q EXCEPT !.slot = a] \in Pad /\ [q EXCEPT !.slot = a].open = q.open /\ [q EXCEPT !.slot = a].slot = a  BY DEF Pad
    <3> PICK o \in Pad : o = [q EXCEPT !.slot = a]  BY <3>2
    <3>3. [o EXCEPT !.dialog = "none"] \in Pad /\ [o EXCEPT !.dialog = "none"].open = o.open
          /\ [o EXCEPT !.dialog = "none"].slot = o.slot
      BY DEF Pad
    <3> QED  BY <2>4, <3>1, <3>2, <3>3
  <2>9. PICK h \in Name \cup {NoName} : h = n  OBVIOUS
  <2>10. ASSUME NEW v \in Doc!Win, v # w, wins[v].open, wins[v].slot # Doc!None
         PROVE  /\ wins[v].slot # a
                /\ tab'[wins[v].slot].used /\ tab'[wins[v].slot].name = tab[wins[v].slot].name
    <3>1. wins[v].slot \in Doc!Slot /\ tab[wins[v].slot].used  BY <2>10, BoundInIndex
    <3>2. wins[v].slot # a
      <4> SUFFICES ASSUME wins[v].slot = a PROVE FALSE  OBVIOUS
      <4>1. wins[w].slot = wins[v].slot  BY <2>2, <2>4, <3>1
      <4> QED  BY <1>1, <2>10, <4>1 DEF BoundOK
    <3> QED  BY <2>7, <3>1, <3>2
  <2>11. Becomes(w, p, h)
    <3>1. wins' = [wins EXCEPT ![w] = p] /\ home' = [home EXCEPT ![w] = h] /\ p.open  BY <1>1, <2>1, <2>8, <2>9
    <3> QED  BY <2>7, <2>8, <2>9, <2>10, <3>1 DEF Becomes
  <2>12. DocWinsOK' /\ BoundOK'  BY <1>1, <2>11, WinStep
  <2> QED  BY <2>7, <2>12 DEF DocsInv
<1> QED  BY <1>3, <1>4, <1>5

(* A window is opened, blank or on a document that no other window has. *)
LEMMA BlankKeeps ==
  ASSUME Doc!ConstantsOK, DocsInv, Doc!OpenBlank
  PROVE  DocsInv'
<1> DEFINE w == Doc!First(Doc!FreeWins)  p == [Doc!Closed EXCEPT !.open = TRUE]  h == NoName
<1>1. Doc!FreeWins \in SUBSET Nat /\ Doc!FreeWins # {}  BY Numbered DEF Doc!OpenBlank, Doc!FreeWins
<1>2. w \in Doc!Win  BY <1>1, FirstIn DEF Doc!FreeWins
<1>3. /\ wins' = [wins EXCEPT ![w] = p] /\ home' = [home EXCEPT ![w] = h] /\ UNCHANGED <<Doc!disk, tab, icon>>  BY DEF Doc!OpenBlank
<1>4. p \in Pad /\ p.open /\ p.slot = Doc!None
  <2> DEFINE yes == TRUE
  <2>1. yes \in BOOLEAN /\ yes /\ p = [Doc!Closed EXCEPT !.open = yes]  OBVIOUS
  <2> HIDE DEF yes, p
  <2> QED  BY <2>1, ClosedIs
<1>5. h \in Name \cup {NoName}  OBVIOUS
<1> HIDE DEF w, p, h
<1> QED  BY <1>2, <1>3, <1>4, <1>5, WindowKeeps

LEMMA DocumentKeeps ==
  ASSUME Doc!ConstantsOK, DocsInv, NEW s \in Doc!Slot, Doc!OpenDocument(s)
  PROVE  DocsInv'
<1> DEFINE yes == TRUE
<1>0. yes \in BOOLEAN /\ yes  OBVIOUS
<1> DEFINE w == Doc!First(Doc!FreeWins)  t == file[tab[s].ino]  h == tab[s].name
           p == [open |-> yes, slot |-> s, text |-> t, dialog |-> "none"]
<1>1. Doc!FreeWins \in SUBSET Nat /\ Doc!FreeWins # {}  BY Numbered DEF Doc!OpenDocument, Doc!FreeWins
<1>2. w \in Doc!Win /\ ~wins[w].open  BY <1>1, FirstIn DEF Doc!FreeWins
<1>3. /\ wins' = [wins EXCEPT ![w] = p] /\ home' = [home EXCEPT ![w] = h] /\ UNCHANGED <<Doc!disk, tab, icon>>
      /\ tab[s].used /\ t # Gone /\ Doc!Bound(s) = {}
  BY DEF Doc!OpenDocument
<1>4. h \in Name /\ t \in Text
  <2>1. h \in Doc!Files /\ tab[s].ino = dir[h]  BY <1>3 DEF DocsInv, IndexOK, Indexed
  <2>2. dir[h] \in Doc!Ino /\ file \in [Doc!Ino -> Text \cup {Gone}] /\ h \in Name  BY <2>1 DEF Doc!Files, DocsInv, DiskOK
  <2> QED  BY <1>3, <2>1, <2>2
<1> HIDE DEF yes, w, t, h
<1>5. p \in Pad /\ p.open /\ p.slot = s  BY <1>0, <1>4 DEF Pad
<1> HIDE DEF p
<1>6. \A v \in Doc!Win : v # w /\ wins[v].open => wins[v].slot # s  BY <1>3 DEF Doc!Bound
<1>7. tab[p.slot].used /\ tab[p.slot].name = h /\ \A v \in Doc!Win : v # w /\ wins[v].open => wins[v].slot # p.slot
  BY <1>3, <1>5, <1>6 DEF h
<1> QED  BY <1>2, <1>3, <1>4, <1>5, <1>7, WindowKeeps

(* Of the part as a whole. *)

LEMMA DocsInit == ASSUME Doc!ConstantsOK, Doc!Init PROVE DocsInv
<1> USE DEF Doc!Init
<1> DEFINE no == FALSE
<1>1. no \in BOOLEAN /\ ~no  OBVIOUS
<1>2. Doc!NoEntry = [name |-> NoName, used |-> no, ino |-> Doc!None]  BY DEF Doc!NoEntry
<1> HIDE DEF no
<1>3. Doc!NoEntry \in Entry /\ Doc!NoEntry.used = no /\ Doc!NoEntry.name = NoName  BY <1>1, <1>2 DEF Entry
<1>4. Doc!Files = {}  BY DEF Doc!Files
<1>5. DiskOK  BY <1>4 DEF DiskOK
<1>6. TableOK(tab) /\ Indexed  BY <1>1, <1>3 DEF TableOK, Indexed
<1>7. IconOK
  <2>1. icon = [s \in Doc!Slot |-> no]  BY DEF no
  <2> QED  BY <1>1, <1>3, <2>1 DEF IconOK
<1>8. Doc!Closed \in Pad /\ ~Doc!Closed.open  BY <1>1, ClosedIs
<1>9. DocWinsOK /\ BoundOK  BY <1>8 DEF DocWinsOK, BoundOK
<1> QED  BY <1>5, <1>6, <1>7, <1>9 DEF DocsInv, IndexOK

LEMMA DocsStep == ASSUME Doc!ConstantsOK, Spared, DocsInv, [Doc!Next]_(Doc!vars) PROVE DocsInv'
<1>1. CASE UNCHANGED Doc!vars
  <2>1. UNCHANGED <<dir, file, tab, icon, wins, home>>  BY <1>1 DEF Doc!vars
  <2>2. Doc!Files' = Doc!Files  BY <2>1 DEF Doc!Files
  <2>3. DiskOK' /\ IndexOK'  BY <2>1, <2>2 DEF DocsInv, DiskOK, IndexOK, TableOK, Indexed, IconOK
  <2>4. DocWinsOK' /\ BoundOK'  BY <2>1 DEF DocsInv, DocWinsOK, BoundOK
  <2> QED  BY <2>3, <2>4 DEF DocsInv
<1>2. ASSUME NEW w \in Doc!Win, NEW r \in Doc!Outcomes, Doc!Save(w, r) PROVE DocsInv'  BY <1>2, SaveKeeps
<1>3. ASSUME NEW w \in Doc!Win, NEW r \in Doc!Outcomes, Doc!Yes(w, r) PROVE DocsInv'  BY <1>3, YesKeeps
<1>4. ASSUME NEW w \in Doc!Win, NEW r \in Doc!Outcomes, NEW n \in Name, Doc!SaveAs(w, n, r) PROVE DocsInv'  BY <1>4, SaveAsKeeps
<1>5. ASSUME NEW w \in Doc!Win, Doc!No(w) PROVE DocsInv'  BY <1>5, NoKeeps
<1>6. ASSUME NEW w \in Doc!Win, Doc!Dismiss(w) \/ (\E q \in {"new", "close", "saveas"} : Doc!Ask(w, q)) \/ (\E t \in Text : Doc!Edit(w, t))
      PROVE  DocsInv'
  <2>1. wins[w].open  BY <1>6 DEF Doc!Dismiss, Doc!Ask, Doc!Edit
  <2> QED  BY <1>6, <2>1, SameKeeps
<1>7. ASSUME NEW s \in Doc!Slot, Doc!OpenDocument(s) \/ Doc!Del(s) PROVE DocsInv'  BY <1>7, DocumentKeeps, DelKeeps
<1>8. ASSUME NEW n \in Name, NEW t \in Text, Doc!OthersWrite(n, t) PROVE DocsInv'  BY <1>8, WriteKeeps
<1>9. ASSUME NEW n \in Name, Doc!OthersRemove(n) \/ Doc!FilesDelete(n) PROVE DocsInv'  BY <1>9, RemoveKeeps
<1>10. ASSUME NEW n \in Name, NEW m \in Name, Doc!OthersRename(n, m) PROVE DocsInv'  BY <1>10, RenameKeeps
<1>11. Doc!OpenBlank \/ Doc!Boot => DocsInv'  BY BlankKeeps, BootKeeps
<1> QED  BY <1>1, <1>2, <1>3, <1>4, <1>5, <1>6, <1>7, <1>8, <1>9, <1>10, <1>11 DEF Doc!Next

LEMMA DocsSays == ASSUME Doc!ConstantsOK, DocsInv PROVE Doc!TypeOK /\ Doc!IndexMatches /\ Doc!BoundToItsDocument
<1>1. /\ DiskOK /\ TableOK(tab) /\ Indexed /\ IconOK /\ DocWinsOK /\ BoundOK  BY DEF DocsInv, IndexOK
<1>2. Doc!TypeOK
  <2>1. \A n, m \in Doc!Files : file[dir[n]] # Gone /\ (dir[n] = dir[m] => n = m)  BY <1>1 DEF DiskOK
  <2> QED  BY <1>1, <2>1 DEF Doc!TypeOK, DiskOK, TableOK, DocWinsOK, Entry, Pad
<1>3. Doc!IndexMatches  BY <1>1 DEF Doc!IndexMatches, Indexed, TableOK, IconOK
<1>4. Doc!BoundToItsDocument
  <2> SUFFICES ASSUME NEW w \in Doc!Win, wins[w].open, wins[w].slot # Doc!None
               PROVE  /\ tab[wins[w].slot].used /\ tab[wins[w].slot].name = home[w]
                      /\ Doc!Bound(wins[w].slot) = {w}
    BY DEF Doc!BoundToItsDocument
  <2> QED  BY <1>1 DEF BoundOK, Doc!Bound
<1> QED  BY <1>2, <1>3, <1>4

(* What a step may do. *)

LEMMA OwnStep == ASSUME Doc!ConstantsOK, DocsInv PROVE Doc!SavesOnlyItsOwnStep
<1> SUFFICES ASSUME NEW w \in Doc!Win, NEW r \in Doc!Outcomes, Doc!Save(w, r) \/ Doc!Yes(w, r) \/ (\E n \in Name : Doc!SaveAs(w, n, r)),
                    NEW n \in Doc!Files, Doc!SlotOf(n) # {}, dir'[n] # dir[n]
             PROVE  n = home[w]
  BY DEF Doc!SavesOnlyItsOwnStep
<1>1. /\ wins[w].open /\ DiskOK /\ TableOK(tab) /\ Indexed /\ DocWinsOK /\ BoundOK /\ n \in Name
      /\ wins[w] \in Pad
  BY DEF Doc!Save, Doc!Yes, Doc!SaveAs, DocsInv, IndexOK, DocWinsOK, Doc!Files
<1>2. PICK x \in Doc!Slot : tab[x].used /\ tab[x].name = n  BY DEF Doc!SlotOf
<1>3. CASE Doc!Save(w, r) \/ Doc!Yes(w, r)
  <2>1. Doc!SaveDoes(w, r)  BY <1>3 DEF Doc!Save, Doc!Yes
  <2>2. /\ Doc!SaveEnds(w, r) = "full" <=> Doc!Target(w) = Doc!None
        /\ Doc!SaveEnds(w, r) # "saved" => UNCHANGED Doc!disk
        /\ Doc!SaveEnds(w, r) = "saved" => Doc!Put(Doc!TargetName(w), wins[w].text)
    BY <1>1, <2>1, SaveIs
  <2>3. Doc!SaveEnds(w, r) = "saved"  BY <2>2 DEF Doc!disk
  <2>4. Doc!Target(w) # Doc!None  BY <2>2, <2>3
  <2>5. /\ Doc!TargetName(w) \in Name
        /\ \A y \in Doc!Slot : y # Doc!Target(w) /\ tab[y].used => tab[y].name # Doc!TargetName(w)
        /\ wins[w].slot # Doc!None => Doc!TargetName(w) = home[w]
        /\ wins[w].slot = Doc!None => ~tab[Doc!Target(w)].used
    BY <1>1, <2>4, TargetIs
  <2>6. n = Doc!TargetName(w)
    <3> PICK m \in Name : m = Doc!TargetName(w)  BY <2>5
    <3> PICK u \in Text : u = wins[w].text  BY <1>1 DEF Pad
    <3>1. Doc!Put(m, u)  BY <2>2, <2>3
    <3> QED  BY <1>1, <3>1, PutIs
  <2> QED  BY <1>2, <2>5, <2>6
<1>4. ASSUME NEW k \in Name, Doc!SaveAs(w, k, r) PROVE n = home[w]
  <2>1. Doc!SlotOf(k) = {} \/ Doc!SlotOf(k) = {wins[w].slot}  BY <1>4 DEF Doc!SaveAs
  <2>2. UNCHANGED Doc!disk \/ Doc!Put(k, wins[w].text)  BY <1>4 DEF Doc!SaveAs
  <2>3. Doc!Put(k, wins[w].text)  BY <2>2 DEF Doc!disk
  <2>4. n = k
    <3> PICK u \in Text : u = wins[w].text  BY <1>1 DEF Pad
    <3>1. Doc!Put(k, u)  BY <2>3
    <3> QED  BY <1>1, <3>1, PutIs
  <2>5. x = wins[w].slot  BY <1>2, <2>1, <2>4 DEF Doc!SlotOf
  <2>6. x # Doc!None  BY <1>2, Numbered
  <2> QED  BY <1>1, <1>2, <2>5, <2>6 DEF BoundOK
<1> QED  BY <1>3, <1>4

LEMMA YesStep == ASSUME Doc!ConstantsOK, DocsInv PROVE Doc!YesKeepsTextStep
<1> SUFFICES ASSUME NEW w \in Doc!Win, NEW r \in Doc!Outcomes, Doc!Yes(w, r), Doc!Target(w) # Doc!None, wins'[w].text # wins[w].text
             PROVE  \E n \in Name : dir'[n] # Doc!None /\ file'[dir'[n]] = wins[w].text
  BY DEF Doc!YesKeepsTextStep
<1>1. wins[w].open /\ Doc!SaveDoes(w, r) /\ wins \in [Doc!Win -> Pad] /\ wins[w] \in Pad /\ DiskOK  BY DEF Doc!Yes, DocsInv, DocWinsOK
<1>2. /\ Doc!SaveEnds(w, r) \in {"full", "failed", "saved"}
      /\ Doc!SaveEnds(w, r) = "full" <=> Doc!Target(w) = Doc!None
      /\ Doc!SaveEnds(w, r) = "saved" => Doc!Put(Doc!TargetName(w), wins[w].text)
  BY <1>1, SaveIs
<1>3. Doc!SaveEnds(w, r) # "failed"
  <2> SUFFICES ASSUME Doc!SaveEnds(w, r) = "failed" PROVE FALSE  OBVIOUS
  <2>1. wins' = [wins EXCEPT ![w] = [wins[w] EXCEPT !.dialog = "none"]]  BY <1>1 DEF Doc!Yes
  <2>2. [wins[w] EXCEPT !.dialog = "none"].text = wins[w].text  BY <1>1 DEF Pad
  <2> QED  BY <1>1, <2>1, <2>2
<1>4. Doc!Put(Doc!TargetName(w), wins[w].text)  BY <1>2, <1>3
<1>5. Doc!TargetName(w) \in Name  BY <1>1, TargetIs
<1> PICK m \in Name : m = Doc!TargetName(w)  BY <1>5
<1> PICK u \in Text : u = wins[w].text  BY <1>1 DEF Pad
<1>6. Doc!Put(m, u)  BY <1>4
<1> QED  BY <1>1, <1>6, PutIs

LEMMA NumbersStep == ASSUME Doc!ConstantsOK, Spared, DocsInv, [Doc!Next]_(Doc!vars) PROVE Doc!SlotsKeepTheirNumberStep
<1> SUFFICES ASSUME NEW s \in Doc!Slot, tab[s].used, dir'[tab[s].name] # Doc!None, ~Doc!Boot
             PROVE  tab'[s].used /\ tab'[s].name = tab[s].name
  BY DEF Doc!SlotsKeepTheirNumberStep
<1>1. /\ DiskOK /\ TableOK(tab) /\ Indexed /\ tab \in [Doc!Slot -> Entry] /\ tab[s].name \in Name
      /\ \A w \in Doc!Win : wins[w] \in Pad
  BY DEF DocsInv, IndexOK, TableOK, Indexed, Doc!Files, DocWinsOK
<1>2. tab[s].name \in Doc!Files'  BY <1>1 DEF Doc!Files
<1>3. CASE tab' = tab  BY <1>3
<1>4. ASSUME NEW w \in Doc!Win, NEW r, Doc!Save(w, r) \/ Doc!Yes(w, r)  PROVE tab'[s].used /\ tab'[s].name = tab[s].name
  <2>1. Doc!SaveDoes(w, r) /\ wins[w].open  BY <1>4 DEF Doc!Save, Doc!Yes
  <2> QED  BY <2>1, SaveIs
<1>5. ASSUME NEW w \in Doc!Win, NEW n \in Name, NEW r, Doc!SaveAs(w, n, r)  PROVE tab'[s].used /\ tab'[s].name = tab[s].name
  <2> DEFINE a == AsSlot(w, n)  T == AsTab(w, n)
  <2>1. /\ wins[w].open /\ (Doc!SlotOf(n) = {} \/ Doc!SlotOf(n) = {wins[w].slot})  BY <1>5 DEF Doc!SaveAs
  <2>2. CASE a = Doc!None
    <3>1. tab' = tab  BY <1>5, <2>1, <2>2 DEF Doc!SaveAs, AsSlot
    <3> QED  BY <3>1
  <2>3. CASE a # Doc!None
    <3>1. tab' = T \/ (Doc!Put(n, wins[w].text) /\ tab' = Doc!Stored(T, a, n) /\ icon' = [icon EXCEPT ![a] = TRUE])
      BY <1>5, <2>1, <2>3 DEF Doc!SaveAs, AsSlot, AsTab
    <3>2. /\ a \in Doc!Slot /\ TableOK(T) /\ \A x \in Doc!Slot : x # a => T[x] = tab[x] /\ (tab[x].used => tab[x].name # n)
          /\ tab[a].used => Doc!SlotOf(n) # {} /\ wins[w].slot = a /\ tab[a] = T[a]
      BY <2>1, <2>3, AsIs
    <3>3. tab[a].used => tab[a].name = n  BY <2>1, <3>2 DEF Doc!SlotOf
    <3> HIDE DEF a, T
    <3>4. CASE tab' = T  BY <3>2, <3>4
    <3>5. CASE Doc!Put(n, wins[w].text) /\ tab' = Doc!Stored(T, a, n) /\ icon' = [icon EXCEPT ![a] = TRUE]
      <4> PICK u \in Text : u = wins[w].text  BY <1>1 DEF Pad
      <4> PICK b \in Doc!Slot : b = a  BY <3>2
      <4> PICK U : U = T  OBVIOUS
      <4>1. Filing(U, b, n, u)  BY <3>2, <3>5 DEF Filing
      <4>2. tab'[b].used /\ tab'[b].name = n /\ \A x \in Doc!Slot : x # b /\ tab[x].used => tab'[x] = tab[x]
        <5>1. DiskOK /\ IndexOK  BY DEF DocsInv
        <5> QED  BY <4>1, <5>1, FiledIs
      <4>3. CASE s = b  BY <3>3, <4>2, <4>3
      <4>4. CASE s # b  BY <4>2, <4>4
      <4> QED  BY <4>3, <4>4
    <3> QED  BY <3>1, <3>4, <3>5
  <2> QED  BY <2>2, <2>3
<1>6. ASSUME Doc!Resync, DiskOK'  PROVE tab'[s].used /\ tab'[s].name = tab[s].name  BY <1>2, <1>6, ResyncIs
<1>7. ASSUME NEW n \in Name, NEW t \in Text, Doc!OthersWrite(n, t)  PROVE tab'[s].used /\ tab'[s].name = tab[s].name
  BY <1>1, <1>6, <1>7, PutIs DEF Doc!OthersWrite
<1>8. ASSUME NEW n \in Name, Doc!OthersRemove(n) \/ Doc!FilesDelete(n)  PROVE tab'[s].used /\ tab'[s].name = tab[s].name
  BY <1>1, <1>6, <1>8, RemoveIs DEF Doc!OthersRemove, Doc!FilesDelete
<1>9. ASSUME NEW n \in Name, NEW m \in Name, Doc!OthersRename(n, m)  PROVE tab'[s].used /\ tab'[s].name = tab[s].name
  BY <1>1, <1>6, <1>9, RenameIs DEF Doc!OthersRename
<1>10. ASSUME NEW x \in Doc!Slot, Doc!Del(x)  PROVE tab'[s].used /\ tab'[s].name = tab[s].name
  <2>1. Doc!Remove(tab[x].name) /\ tab' = [tab EXCEPT ![x] = Doc!NoEntry]  BY <1>10 DEF Doc!Del, Spared
  <2>2. x # s  BY <1>1, <2>1 DEF Doc!Remove, DiskOK
  <2> QED  BY <1>1, <2>1, <2>2
<1>11. ASSUME NEW w \in Doc!Win, Doc!No(w) \/ Doc!Dismiss(w) \/ (\E q \in {"new", "close", "saveas"} : Doc!Ask(w, q)) \/ (\E t \in Text : Doc!Edit(w, t))
       PROVE  tab' = tab
  BY <1>11 DEF Doc!No, Doc!Dismiss, Doc!Ask, Doc!Edit
<1>12. Doc!OpenBlank \/ (\E x \in Doc!Slot : Doc!OpenDocument(x)) => tab' = tab  BY DEF Doc!OpenBlank, Doc!OpenDocument
<1>13. UNCHANGED Doc!vars => tab' = tab  BY DEF Doc!vars
<1> QED  BY <1>3, <1>4, <1>5, <1>7, <1>8, <1>9, <1>10, <1>11, <1>12, <1>13 DEF Doc!Next

(* Where nobody but MiniFiles removes or renames a document that is open, and no removal
   fails: a slot stands for its file and a window for its document, for any names, slots,
   windows and inodes. *)
THEOREM IndexStands == ASSUME Doc!ConstantsOK, Spared PROVE Doc!Spec => [](Doc!TypeOK /\ Doc!IndexMatches /\ Doc!BoundToItsDocument)
<1>1. Doc!Init => DocsInv  BY DocsInit
<1>2. DocsInv /\ [Doc!Next]_(Doc!vars) => DocsInv'  BY DocsStep
<1>3. DocsInv => Doc!TypeOK /\ Doc!IndexMatches /\ Doc!BoundToItsDocument  BY DocsSays
<1> QED  BY <1>1, <1>2, <1>3, PTL DEF Doc!Spec

(* Under the same assumption: a save changes only the document the window is of, Yes keeps
   the text, and a slot keeps its number. *)
THEOREM SavesStayApart == ASSUME Doc!ConstantsOK, Spared PROVE Doc!Spec => Doc!SavesOnlyItsOwn /\ Doc!YesKeepsText /\ Doc!SlotsKeepTheirNumber
<1>1. Doc!Init => DocsInv  BY DocsInit
<1>2. DocsInv /\ [Doc!Next]_(Doc!vars) => DocsInv'  BY DocsStep
<1>3. DocsInv /\ [Doc!Next]_(Doc!vars) => [Doc!SavesOnlyItsOwnStep]_(Doc!vars) /\ [Doc!YesKeepsTextStep]_(Doc!vars) /\ [Doc!SlotsKeepTheirNumberStep]_(Doc!vars)
  BY OwnStep, YesStep, NumbersStep
<1> QED  BY <1>1, <1>2, <1>3, PTL DEF Doc!Spec, Doc!SavesOnlyItsOwn, Doc!YesKeepsText, Doc!SlotsKeepTheirNumber

-----------------------------------------------------------------------------
(* The properties of the whole, from those of its parts: a step of the whole is a step
   of the part that runs, and leaves the others alone. *)
LEMMA FrameSteps == [Next]_vars => [Frm!Next]_(Frm!vars)
  BY DEF Next, InFrame, InBar, InDesk, InShell, InDocs, InHangul, InTyping, InTree, InFiles, vars, frameVars, Frm!vars
LEMMA BarSteps == [Next]_vars => [Bar!Next]_(Bar!vars)
  BY DEF Next, InFrame, InBar, InDesk, InShell, InDocs, InHangul, InTyping, InTree, InFiles, vars, barVars, Bar!vars
LEMMA DeskSteps == [Next]_vars => [Dsk!Next]_(Dsk!vars)
  BY DEF Next, InFrame, InBar, InDesk, InShell, InDocs, InHangul, InTyping, InTree, InFiles, vars, deskVars, Dsk!vars
LEMMA ShellSteps == [Next]_vars => [Shl!Next]_(Shl!vars)
  BY DEF Next, InFrame, InBar, InDesk, InShell, InDocs, InHangul, InTyping, InTree, InFiles, vars, shellVars, Shl!vars,
         Shl!session, Shl!screen, Shl!hist, Shl!counts
LEMMA DocSteps == [Next]_vars => [Doc!Next]_(Doc!vars)
  BY DEF Next, InFrame, InBar, InDesk, InShell, InDocs, InHangul, InTyping, InTree, InFiles, vars, docVars, Doc!vars

(* Where it is a part's turn, what changes is its own. *)
LEMMA TurnOfFrame == [Next]_vars /\ part = "frame" /\ UNCHANGED Frm!vars => UNCHANGED vars
  BY DEF Next, InFrame, InBar, InDesk, InShell, InDocs, InHangul, InTyping, InTree, InFiles, vars, frameVars, Frm!vars
LEMMA TurnOfBar == [Next]_vars /\ part = "scrollbar" /\ UNCHANGED Bar!vars => UNCHANGED vars
  BY DEF Next, InFrame, InBar, InDesk, InShell, InDocs, InHangul, InTyping, InTree, InFiles, vars, barVars, Bar!vars
LEMMA TurnOfDesk == [Next]_vars /\ part = "desk" /\ UNCHANGED Dsk!vars => UNCHANGED vars
  BY DEF Next, InFrame, InBar, InDesk, InShell, InDocs, InHangul, InTyping, InTree, InFiles, vars, deskVars, Dsk!vars
LEMMA TurnOfShell == [Next]_vars /\ part = "shell" /\ UNCHANGED Shl!vars => UNCHANGED vars
  BY DEF Next, InFrame, InBar, InDesk, InShell, InDocs, InHangul, InTyping, InTree, InFiles, vars, shellVars, Shl!vars,
         Shl!session, Shl!screen, Shl!hist, Shl!counts
LEMMA TurnOfDocs == [Next]_vars /\ part = "documents" /\ UNCHANGED Doc!vars => UNCHANGED vars
  BY DEF Next, InFrame, InBar, InDesk, InShell, InDocs, InHangul, InTyping, InTree, InFiles, vars, docVars, Doc!vars

(* Whatever is pressed, moved and closed: see FramesStand, BarsReach and StackStands above. *)
THEOREM WindowsStayStanding == Spec => []WindowsStand
<1>1. Init => Frm!Init /\ Bar!Init /\ Dsk!Init  BY DEF Init
<1>2. Frm!Spec => [](Frm!TypeOK /\ Frm!ComesBack /\ Frm!SidesNearlyStay)  BY InstancesOK, FramesStand
<1>3. Bar!Spec => [](Bar!TypeOK /\ Bar!EndsReached)  BY InstancesOK, BarsReach
<1>4. Dsk!Spec => [](Dsk!TypeOK /\ Dsk!StackMatches /\ Dsk!FocusIsLast)  BY InstancesOK, StackStands
<1>5. Frm!ComesBack /\ Frm!SidesNearlyStay /\ Bar!EndsReached /\ Dsk!StackMatches /\ Dsk!FocusIsLast => WindowsStand
  BY DEF WindowsStand
<1> QED
  BY <1>1, <1>2, <1>3, <1>4, <1>5, FrameSteps, BarSteps, DeskSteps, PTL DEF Spec, Frm!Spec, Bar!Spec, Dsk!Spec

(* Where installations are left to run and open documents are left alone: see NothingEchoed
   and IndexStands above. *)
THEOREM SessionsStayTrue == ASSUME Patient, Spared PROVE Spec => []SessionsTrue
<1>1. Init => Shl!Init /\ Doc!Init  BY DEF Init
<1>2. Shl!Spec => [](Shl!TypeOK /\ Shl!NeverEchoed /\ Shl!RootIsEarned)  BY InstancesOK, NothingEchoed
<1>3. Doc!Spec => [](Doc!TypeOK /\ Doc!IndexMatches /\ Doc!BoundToItsDocument)  BY InstancesOK, IndexStands
<1>4. Shl!NeverEchoed /\ Shl!RootIsEarned /\ Doc!IndexMatches /\ Doc!BoundToItsDocument => SessionsTrue  BY DEF SessionsTrue
<1> QED
  BY <1>1, <1>2, <1>3, <1>4, ShellSteps, DocSteps, PTL DEF Spec, Shl!Spec, Doc!Spec

(* Under the same assumptions: see StaysMovable, ThumbsFollow, ClosesWhenAnswered,
   InstallsAsAsked and SavesStayApart above. *)
THEOREM GesturesAreObeyed == ASSUME Patient, Spared PROVE Spec => GesturesObeyed
<1>1. Init => Frm!Init /\ Bar!Init /\ Dsk!Init /\ Shl!Init /\ Doc!Init  BY DEF Init
<1>2. Frm!Spec => Frm!MovableAgain  BY InstancesOK, StaysMovable
<1>3. Bar!Spec => Bar!ThumbFollows  BY InstancesOK, ThumbsFollow
<1>4. Dsk!Spec => Dsk!ClosesByAnswer  BY InstancesOK, ClosesWhenAnswered
<1>5. Shl!Spec => Shl!StartsAsAsked /\ Shl!OwnLineOnly  BY InstancesOK, InstallsAsAsked
<1>6. Doc!Spec => Doc!SavesOnlyItsOwn /\ Doc!YesKeepsText /\ Doc!SlotsKeepTheirNumber  BY InstancesOK, SavesStayApart
<1>7. [Next]_vars /\ [Frm!MovableAgainStep]_(Frm!vars) => [part = "frame" => Frm!MovableAgainStep]_vars
  BY TurnOfFrame
<1>8. [Next]_vars /\ [Bar!ThumbFollowsStep]_(Bar!vars) => [part = "scrollbar" => Bar!ThumbFollowsStep]_vars
  BY TurnOfBar
<1>9. [Next]_vars /\ [Dsk!ClosesByAnswerStep]_(Dsk!vars) => [part = "desk" => Dsk!ClosesByAnswerStep]_vars
  BY TurnOfDesk
<1>10. [Next]_vars /\ [Shl!StartsAsAskedStep]_(Shl!vars) /\ [Shl!OwnLineOnlyStep]_(Shl!vars) =>
         [part = "shell" => Shl!StartsAsAskedStep /\ Shl!OwnLineOnlyStep]_vars
  BY TurnOfShell
<1>11. [Next]_vars /\ [Doc!SavesOnlyItsOwnStep]_(Doc!vars) /\ [Doc!YesKeepsTextStep]_(Doc!vars)
         /\ [Doc!SlotsKeepTheirNumberStep]_(Doc!vars) =>
         [part = "documents" => Doc!SavesOnlyItsOwnStep /\ Doc!YesKeepsTextStep /\ Doc!SlotsKeepTheirNumberStep]_vars
  BY TurnOfDocs
<1>12. [part = "frame" => Frm!MovableAgainStep]_vars /\ [part = "scrollbar" => Bar!ThumbFollowsStep]_vars
       /\ [part = "desk" => Dsk!ClosesByAnswerStep]_vars
       /\ [part = "shell" => Shl!StartsAsAskedStep /\ Shl!OwnLineOnlyStep]_vars
       /\ [part = "documents" => Doc!SavesOnlyItsOwnStep /\ Doc!YesKeepsTextStep /\ Doc!SlotsKeepTheirNumberStep]_vars
       => [GestureStep]_vars
  BY DEF GestureStep
<1> QED
  BY <1>1, <1>2, <1>3, <1>4, <1>5, <1>6, <1>7, <1>8, <1>9, <1>10, <1>11, <1>12,
     FrameSteps, BarSteps, DeskSteps, ShellSteps, DocSteps, PTL
  DEF Spec, Frm!Spec, Bar!Spec, Dsk!Spec, Shl!Spec, Doc!Spec, Frm!MovableAgain, Bar!ThumbFollows, Dsk!ClosesByAnswer,
      Shl!StartsAsAsked, Shl!OwnLineOnly, Doc!SavesOnlyItsOwn, Doc!YesKeepsText, Doc!SlotsKeepTheirNumber, GesturesObeyed
=============================================================================
