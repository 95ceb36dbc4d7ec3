-------------------------------- MODULE Desk --------------------------------
(***************************************************************************)
(* The windows of the desktop and what a press, a release and a key do to  *)
(* them (kernel/ui/input.h): the stack of open windows, the taskbar, the   *)
(* start menu, title bar buttons that act when they are let go, drop-downs *)
(* and the dialogs of Notepad.  Where windows lie is left out: any window  *)
(* on the screen may be the one under the pointer.  A poll of the mouse    *)
(* sees at most one press or one release.                                  *)
(***************************************************************************)
EXTENDS Integers, Sequences, SequencesExt

CONSTANTS
  Notes,       (* the windows of Notepad                                           *)
  Plain,       (* Settings, MiniWeb and MiniShell: an icon opens them, and they are closed at once *)
  Files,       (* MiniFiles, whose icon also brings it back from the taskbar       *)
  Prog,        (* the window programs run in                                       *)
  NoWin

(* What the constants must satisfy. *)
ConstantsOK == NoWin \notin Notes \cup Plain \cup Files \cup Prog /\ Notes \cap Prog = {}

Win == Notes \cup Plain \cup Files \cup Prog

VARIABLES
  open, mini,   (* the windows that are open, and minimized                    *)
  stack,        (* z_order, back to front                                      *)
  ask,          (* confirm_mode of each Notepad window                         *)
  menu,         (* mb_owner                                                    *)
  armed,        (* pressed_btn_kind and pressed_btn_win                        *)
  hold,         (* dragging_id or resizing_id                                  *)
  popup,        (* what has popped up over everything: start menu, clock...    *)
  first,        (* the icons that were clicked once, not long ago              *)
  last          (* history: the window the user dealt with last, if it is still there *)

vars == <<open, mini, stack, ask, menu, armed, hold, popup, first, last>>

NotArmed == [kind |-> "none", win |-> NoWin]
Seen(w) == w \in open \ mini

(* The key goes to the topmost window on the screen. *)
Focused ==
  LET seen == {i \in DOMAIN stack : Seen(stack[i])}
  IN  IF seen = {} THEN NoWin ELSE stack[CHOOSE i \in seen : \A j \in seen : j <= i]

-----------------------------------------------------------------------------
(* win_z_remove(), which closes the gap behind the first entry that is w. *)
Dropped(s, w) ==
  LET at == {i \in DOMAIN s : s[i] = w}
      first_at == CHOOSE i \in at : \A j \in at : i <= j
  IN  IF at = {} THEN s ELSE [k \in 1 .. Len(s) - 1 |-> IF k < first_at THEN s[k] ELSE s[k + 1]]

(* A fault for comparison: the window's old place in the stack stays. *)
RaisedToo(s, w) == Append(s, w)

(* win_z_raise(). *)
Raised(s, w) == Append(Dropped(s, w), w)

Raise(w) == stack' = Raised(stack, w) /\ last' = w

(* A window that opens; only MiniFiles and Notepad also leave the taskbar. *)
Opens(w) ==
  /\ open' = open \cup {w}
  /\ mini' = IF w \in Plain THEN mini ELSE mini \ {w}
  /\ ask' = IF w \in Notes THEN [ask EXCEPT ![w] = "none"] ELSE ask
  /\ Raise(w)

(* A fault for comparison: a closed window stays in the stack. *)
ClosesOnly(w) ==
  /\ open' = open \ {w} /\ mini' = mini \ {w}
  /\ last' = (IF last = w THEN NoWin ELSE last) /\ UNCHANGED stack

(* A window that closes. *)
Closes(w) ==
  /\ open' = open \ {w} /\ mini' = mini \ {w}
  /\ stack' = Dropped(stack, w) /\ last' = IF last = w THEN NoWin ELSE last

SameWins == UNCHANGED <<open, mini, stack, ask, last>>

(* What an icon or an item of the start menu opens: Notepad a free window, or
   none when all of them are open. *)
Icons == {"notepad"} \cup Plain \cup Files
OpensFor(i) ==
  IF i # "notepad" THEN Opens(i)
  ELSE IF Notes \subseteq open THEN SameWins
  ELSE \E w \in Notes \ open : Opens(w)

-----------------------------------------------------------------------------
(* Presses, in the order in which handle_mouse() looks for what is hit. *)

(* A press while something has popped up picks an item of it or dismisses it. *)
OnPopup ==
  /\ popup # "none"
  /\ \/ popup' = "none" /\ SameWins
     \/ popup = "start" /\ popup' = "power" /\ SameWins
     \/ popup = "start" /\ popup' = "none" /\ \E i \in Icons : OpensFor(i)
  /\ UNCHANGED <<menu, armed, hold, first>>

(* The start button and the clock. *)
PopsUp(what) ==
  /\ popup = "none" /\ popup' = what
  /\ SameWins /\ UNCHANGED <<menu, armed, hold, first>>

(* A fault for comparison: a window comes back from the taskbar where it was. *)
RestoreInPlace(w) ==
  /\ popup = "none" /\ w \in open \cap mini
  /\ mini' = mini \ {w} /\ last' = w
  /\ UNCHANGED <<open, stack, ask, menu, armed, hold, popup, first>>

(* The restore glyph of a minimized window on the taskbar. *)
PillRestore(w) ==
  /\ popup = "none" /\ w \in open \cap mini
  /\ mini' = mini \ {w} /\ Raise(w)
  /\ UNCHANGED <<open, ask, menu, armed, hold, popup, first>>

(* The X of a minimized window: Notepad comes back and asks first. *)
PillClose(w) ==
  /\ popup = "none" /\ w \in open \cap mini
  /\ IF w \in Notes
       THEN /\ mini' = mini \ {w} /\ ask' = [ask EXCEPT ![w] = "close"]
            /\ Raise(w) /\ UNCHANGED open
       ELSE Closes(w) /\ UNCHANGED ask
  /\ UNCHANGED <<menu, armed, hold, popup, first>>

(* Any press that lands on a window, or beside them all, closes the drop-down
   of another one. *)
MenuAfter(w) == IF menu = w THEN w ELSE NoWin

(* An edge, a scroll bar, a title bar button or the title bar, which all raise
   the window.  A dialog of Notepad leaves only its own X besides the edges. *)
PressEdge(w) ==
  /\ popup = "none" /\ Seen(w) /\ Raise(w) /\ menu' = MenuAfter(w) /\ hold' \in {w, hold}
  /\ UNCHANGED <<open, mini, ask, armed, popup, first>>

PressButton(w, kind) ==
  /\ popup = "none" /\ Seen(w) /\ Raise(w) /\ menu' = MenuAfter(w)
  /\ kind = "dialog" <=> (w \in Notes /\ ask[w] # "none")
  /\ armed' = [kind |-> kind, win |-> w]
  /\ UNCHANGED <<open, mini, ask, hold, popup, first>>

NoDialog(w) == w \in Notes => ask[w] = "none"

PressTitle(w) ==
  /\ popup = "none" /\ Seen(w) /\ NoDialog(w) /\ Raise(w)
  /\ menu' = NoWin /\ hold' \in {w, hold}
  /\ UNCHANGED <<open, mini, ask, armed, popup, first>>

(* mb_click() on a title of the menu bar, which opens, switches or closes a
   drop-down, and on an item of it.  Programs have no menus. *)
PressMenu(w) ==
  /\ popup = "none" /\ Seen(w) /\ w \notin Prog /\ NoDialog(w) /\ Raise(w)
  /\ \/ menu' \in {w, NoWin} /\ UNCHANGED ask
     \/ menu = w /\ menu' = NoWin
        /\ IF w \in Notes THEN \E q \in {"none", "new", "close", "other"} : ask' = [ask EXCEPT ![w] = q]
           ELSE UNCHANGED ask
  /\ UNCHANGED <<open, mini, armed, hold, popup, first>>

(* confirm_yes_action() and confirm_no_action(), which also have keys.  A save
   that fails keeps the window, and a bad name keeps Save As open. *)
Answer(w) ==
  \/ /\ ask[w] = "close" /\ Closes(w) /\ ask' = [ask EXCEPT ![w] = "none"]
  \/ /\ ask' = [ask EXCEPT ![w] = "none"] /\ UNCHANGED <<open, mini, stack, last>>
  \/ /\ ask[w] = "other" /\ UNCHANGED <<open, mini, stack, ask, last>>

PressAnswer(w) ==
  /\ popup = "none" /\ Seen(w) /\ ask[w] # "none"
  /\ \/ /\ ask[w] = "close" /\ Closes(w)
        /\ ask' = [ask EXCEPT ![w] = "none"]
     \/ /\ Raise(w) /\ UNCHANGED <<open, mini>>
        /\ ask' = [ask EXCEPT ![w] = "none"] \/ (ask[w] = "other" /\ UNCHANGED ask)
  /\ menu' = MenuAfter(w)
  /\ UNCHANGED <<armed, hold, popup, first>>

(* An icon, where the second of two quick clicks opens. *)
PressIcon(i) ==
  /\ popup = "none" /\ menu' = NoWin
  /\ IF i \in first THEN OpensFor(i) /\ first' = first \ {i}
     ELSE SameWins /\ first' = first \cup {i}
  /\ UNCHANGED <<armed, hold, popup>>

(* The time for a second click passes. *)
TooLate(i) == i \in first /\ first' = first \ {i} /\ SameWins /\ UNCHANGED <<menu, armed, hold, popup>>

-----------------------------------------------------------------------------
(* A fault for comparison: the X of Notepad closes it. *)
FireUnasked(w, kind) ==
  \/ kind = "min" /\ mini' = mini \cup {w} /\ UNCHANGED <<open, stack, ask, last>>
  \/ kind = "max" /\ SameWins
  \/ kind = "close" /\ Closes(w) /\ UNCHANGED ask
  \/ kind = "dialog" /\ ask' = [ask EXCEPT ![w] = "none"] /\ UNCHANGED <<open, mini, stack, last>>

(* What a button does when it is let go under the pointer. *)
Fire(w, kind) ==
  \/ kind = "min" /\ mini' = mini \cup {w} /\ UNCHANGED <<open, stack, ask, last>>
  \/ kind = "max" /\ SameWins
  \/ /\ kind = "close"
     /\ IF w \in Notes THEN ask' = [ask EXCEPT ![w] = "close"] /\ UNCHANGED <<open, mini, stack, last>>
        ELSE Closes(w) /\ UNCHANGED ask
  \/ kind = "dialog" /\ ask' = [ask EXCEPT ![w] = "none"] /\ UNCHANGED <<open, mini, stack, last>>

(* The button comes up, over what was pressed or elsewhere. *)
Release ==
  /\ armed # NotArmed \/ hold # NoWin
  /\ armed' = NotArmed /\ hold' = NoWin
  /\ SameWins \/ (armed # NotArmed /\ Fire(armed.win, armed.kind))
  /\ UNCHANGED <<menu, popup, first>>

-----------------------------------------------------------------------------
(* Keys that change windows: answers to a dialog, and Ctrl+N and Ctrl+W, which
   an open drop-down keeps from the text. *)
KeyAnswer ==
  /\ Focused \in Notes /\ ask[Focused] # "none" /\ Answer(Focused)
  /\ UNCHANGED <<menu, armed, hold, popup, first>>

KeyAsk(q) ==
  /\ Focused \in Notes /\ ask[Focused] = "none" /\ menu # Focused
  /\ ask' = [ask EXCEPT ![Focused] = q]
  /\ UNCHANGED <<open, mini, stack, menu, armed, hold, popup, first, last>>

(* A program starts in its window, from wherever, and ends when it likes. *)
Launch(p) ==
  /\ p \notin open /\ Opens(p)
  /\ UNCHANGED <<menu, armed, hold, popup, first>>

Ends(p) ==
  /\ p \in open /\ Closes(p)
  /\ UNCHANGED <<ask, menu, armed, hold, popup, first>>

Init ==
  /\ open = {} /\ mini = {} /\ stack = <<>> /\ ask = [w \in Notes |-> "none"]
  /\ menu = NoWin /\ armed = NotArmed /\ hold = NoWin /\ popup = "none"
  /\ first = {} /\ last = NoWin

Up == armed = NotArmed /\ hold = NoWin

Next ==
  \/ Up /\ OnPopup
  \/ \E what \in {"start", "clock"} : Up /\ PopsUp(what)
  \/ \E w \in Win : Up /\ (PillRestore(w) \/ PillClose(w) \/ PressEdge(w) \/ PressTitle(w) \/ PressMenu(w))
  \/ \E w \in Win, kind \in {"min", "max", "close", "dialog"} : Up /\ PressButton(w, kind)
  \/ \E w \in Notes : Up /\ PressAnswer(w)
  \/ \E i \in Icons : (Up /\ PressIcon(i)) \/ TooLate(i)
  \/ Release \/ KeyAnswer
  \/ \E q \in {"new", "close"} : KeyAsk(q)
  \/ \E p \in Prog : Launch(p) \/ Ends(p)

Spec == Init /\ [][Next]_vars

-----------------------------------------------------------------------------
(* Properties. *)

(* Windows and what belongs to them are of the kinds they have. *)
TypeOK ==
  /\ open \subseteq Win /\ ask \in [Notes -> {"none", "new", "close", "other"}]
  /\ menu \in Win \cup {NoWin} /\ hold \in Win \cup {NoWin} /\ armed.win \in Win \cup {NoWin}
  /\ popup \in {"none", "start", "power", "clock"} /\ first \subseteq Icons

(* "z_order lists every currently-OPEN window id", each once, whichever of the
   many ways a window opened, was restored, closed or ended: its array has no
   room for a second entry, and a stale one would take the keys. *)
StackMatches == IsInjective(stack) /\ ToSet(stack) = open

(* "the topmost window IS the keyboard focus": keys go to the window the user
   opened, restored or pressed last, as long as it is on the screen. *)
FocusIsLast == Seen(last) => Focused = last

(* A window of Notepad closes only by the answer to its question, whatever else
   was pressed, held or let go before. *)
ClosesByAnswerStep ==
  \A w \in Notes : w \in open \ open' => ask[w] = "close" /\ ask'[w] = "none"
ClosesByAnswer == [][ClosesByAnswerStep]_vars
=============================================================================
