------------------------------- MODULE Frame -------------------------------
(***************************************************************************)
(* The frame of a window under the mouse: the title bar that moves it, the *)
(* edges and corners that resize it, and the button that maximizes it and  *)
(* restores it (kernel/ui/input.h, resize.h, notepad/draw.h).  One window  *)
(* on a screen of a few pixels, whose metrics keep the order they have in  *)
(* the themes.  A step is one poll of the mouse.                           *)
(***************************************************************************)
EXTENDS Integers, FiniteSets

CONSTANTS
  ScreenW, ScreenH, TaskbarH,          (* the screen and the bar at its bottom           *)
  TitleH, BtnW, Gap, Inset,            (* the title bar and its three buttons            *)
  Margin, MinW, MinH,                  (* how far from an edge it is grabbed; least size *)
  Sliver,                              (* how much of a moved window stays on the screen *)
  MouseX, MouseY,                      (* where the pointer goes                         *)
  Starts,                              (* the places and sizes windows open with         *)
  Gestures                             (* bound: presses in a behaviour                  *)

(* What the constants must satisfy. *)
ConstantsOK ==
  /\ {ScreenW, ScreenH, TaskbarH, TitleH, BtnW, Gap, Inset, Margin, MinW, MinH, Sliver, Gestures} \subseteq Nat
  /\ MouseX \subseteq 0 .. ScreenW - 1 /\ MouseY \subseteq 0 .. ScreenH - 1
  /\ Starts \subseteq [x : Nat, y : Nat, w : Nat, h : Nat] /\ \A s \in Starts : s.w >= MinW /\ s.h >= MinH
  /\ MinW <= ScreenW /\ TaskbarH + MinH <= ScreenH /\ TitleH <= MinH
  /\ 2 * Margin + 1 < MinH /\ Margin + 1 < TitleH /\ Margin < Inset + BtnW /\ Inset + BtnW < Sliver /\ Sliver <= MinW
  /\ Gap > 0 /\ Inset + 3 * BtnW + 2 * Gap + Margin + 1 < MinW

VARIABLES
  win,      (* window_t: x, y, w, h                                                *)
  back,     (* restore_x and so on while the window is maximized, else NoPlace     *)
  grab,     (* dragging_id, resizing_id and what was noted when the grab began     *)
  armed,    (* pressed_btn_kind is BTN_MAX                                         *)
  at,       (* the pointer: mx, my                                                 *)
  count,    (* presses so far                                                      *)
  before    (* history: the place of the window when it was maximized              *)

vars == <<win, back, grab, armed, at, count, before>>

NoPlace == [x |-> 0, y |-> 0, w |-> 0, h |-> 0]
Full == [x |-> 0, y |-> 0, w |-> ScreenW, h |-> ScreenH - TaskbarH]
Maximized == back # NoPlace
NoGrab == [kind |-> "none", zone |-> {}, from |-> NoPlace, p |-> [x |-> 0, y |-> 0]]

Point == [x : 0 .. ScreenW - 1, y : 0 .. ScreenH - 1]
InRect(p, x, y, w, h) == p.x >= x /\ p.x < x + w /\ p.y >= y /\ p.y < y + h
Clamp(v, lo, hi) == IF v < lo THEN lo ELSE IF v > hi THEN hi ELSE v
Near(v, edge) == v >= edge - Margin /\ v <= edge + Margin

-----------------------------------------------------------------------------
(* resize_zone_at(): the edges under the pointer; a corner is two of them. *)
Zone(p, g) ==
  LET inX == p.x >= g.x - Margin /\ p.x <= g.x + g.w + Margin
      inY == p.y >= g.y - Margin /\ p.y <= g.y + g.h + Margin
  IN  {e \in {"N", "S", "W", "E"} :
         CASE e = "N" -> inX /\ Near(p.y, g.y)
           [] e = "S" -> inX /\ Near(p.y, g.y + g.h)
           [] e = "W" -> inY /\ Near(p.x, g.x)
           [] e = "E" -> inY /\ Near(p.x, g.x + g.w)}

(* compute_hover_resize_zone() for the one window. *)
Claims(p, g) == InRect(p, g.x - Margin, g.y - Margin, g.w + 2 * Margin, g.h + 2 * Margin)
HoverZone(p, g, max) == IF max \/ ~Claims(p, g) THEN {} ELSE Zone(p, g)

(* The three buttons from the right: X, [] and _. *)
BtnX(k, g) == g.x + g.w - Inset - k * BtnW - (k - 1) * Gap
OverBtn(k, p, g) == InRect(p, BtnX(k, g), g.y + 1, BtnW, TitleH - 1)
OverMax(p, g) == OverBtn(2, p, g)

(* titlebar_drag_hit(). *)
OverTitle(p, g) ==
  InRect(p, g.x + 1, g.y + 1, g.w - 2, TitleH) /\ \A k \in 1 .. 3 : ~OverBtn(k, p, g)

(* What a press at p on the window begins. *)
Begins(p, g, max) ==
  IF HoverZone(p, g, max) # {} THEN "size"
  ELSE IF ~Claims(p, g) THEN "none"
  ELSE IF OverMax(p, g) THEN "max"
  ELSE IF OverTitle(p, g) /\ ~max THEN "move"
  ELSE "none"

-----------------------------------------------------------------------------
(* A fault for comparison: the title bar may go below the taskbar. *)
MovedFurther(g, p) ==
  [g EXCEPT !.x = Clamp(p.x - grab.p.x, -(g.w - Sliver), ScreenW - Sliver),
            !.y = Clamp(p.y - grab.p.y, 0, ScreenH - TaskbarH)]

(* The window follows the pointer; part of its title bar stays in sight. *)
Moved(g, p) ==
  [g EXCEPT !.x = Clamp(p.x - grab.p.x, -(g.w - Sliver), ScreenW - Sliver),
            !.y = Clamp(p.y - grab.p.y, 0, ScreenH - TaskbarH - TitleH)]

(* A fault for comparison: the side that is held goes on when the least size
   is reached, and pushes the other side along. *)
SizedFree(p) ==
  LET s == grab.from
      dx == p.x - grab.p.x
      dy == p.y - grab.p.y
      Least(v, m) == IF v < m THEN m ELSE v
      w0 == s.w + (IF "E" \in grab.zone THEN dx ELSE 0)
      h0 == s.h + (IF "S" \in grab.zone THEN dy ELSE 0)
      w1 == IF "W" \in grab.zone THEN s.w - dx ELSE w0
      h1 == IF "N" \in grab.zone THEN s.h - dy ELSE h0
  IN  [x |-> Least(IF "W" \in grab.zone THEN s.x + dx ELSE s.x, 0),
       y |-> Least(IF "N" \in grab.zone THEN s.y + dy ELSE s.y, 0),
       w |-> Least(w1, MinW), h |-> Least(h1, MinH)]

(* The resize in progress: the new place from the one it began with. *)
Sized(p) ==
  LET s == grab.from
      dx == p.x - grab.p.x
      dy == p.y - grab.p.y
      w0 == s.w + (IF "E" \in grab.zone THEN dx ELSE 0)
      h0 == s.h + (IF "S" \in grab.zone THEN dy ELSE 0)
      w1 == IF "W" \in grab.zone THEN s.w - dx ELSE w0
      h1 == IF "N" \in grab.zone THEN s.h - dy ELSE h0
      Least(v, m) == IF v < m THEN m ELSE v
      x1 == IF "W" \in grab.zone THEN s.x + dx - (Least(w1, MinW) - w1) ELSE s.x
      y1 == IF "N" \in grab.zone THEN s.y + dy - (Least(h1, MinH) - h1) ELSE s.y
  IN  [x |-> Least(x1, 0), y |-> Least(y1, 0), w |-> Least(w1, MinW), h |-> Least(h1, MinH)]

(* The first part of a poll: what is held follows the pointer, or is let go. *)
Followed(p, held) ==
  CASE held /\ grab.kind = "move" /\ ~Maximized -> Moved(win, p)
    [] held /\ grab.kind = "size" -> Sized(p)
    [] OTHER -> win

(* A fault for comparison: the place to go back to is the one it opened with. *)
MaximizeOnce(g, b) ==
  /\ win' = IF Maximized THEN b ELSE Full
  /\ back' = IF Maximized THEN NoPlace ELSE CHOOSE s \in Starts : TRUE
  /\ before' = IF Maximized THEN NoPlace ELSE g

(* maximize_window() and unmaximize_window(). *)
Toggle(g, b) ==
  IF Maximized THEN win' = b /\ back' = NoPlace /\ before' = NoPlace
  ELSE win' = Full /\ back' = g /\ before' = g

(* A poll with the pointer at p: a press, a release, both, or neither (but no release
   and a new press at once, which takes a click faster than a frame); held
   says whether the button is down at its end.  The press is looked at before
   the release, whichever came first. *)
Poll(p, press, release, held) ==
  LET g == Followed(p, held)
      b == IF press THEN Begins(p, g, Maximized) ELSE "none"
      grabbed == IF ~held THEN NoGrab ELSE grab
      down == armed \/ b = "max"
      kept == IF Maximized /\ held /\ grab.kind = "size" THEN g ELSE back
  IN  /\ press => count < Gestures
      /\ at' = p
      /\ count' = IF press THEN count + 1 ELSE count
      /\ grab' = CASE b = "size" -> [kind |-> "size", zone |-> HoverZone(p, g, Maximized), from |-> g, p |-> p]
                   [] b = "move" -> [kind |-> "move", zone |-> {}, from |-> NoPlace,
                                     p |-> [x |-> p.x - g.x, y |-> p.y - g.y]]
                   [] OTHER -> grabbed
      /\ armed' = (down /\ ~release)
      /\ IF down /\ release /\ OverMax(p, g) THEN Toggle(g, kept)
         ELSE win' = g /\ back' = kept /\ UNCHANGED before

Down == armed \/ grab.kind # "none"

Press(p) == Poll(p, TRUE, FALSE, TRUE)
Drag(p) == Down /\ Poll(p, FALSE, FALSE, TRUE)
Release(p) == Down /\ Poll(p, FALSE, TRUE, FALSE)
Click(p) == Poll(p, TRUE, TRUE, FALSE)

Init ==
  /\ win \in Starts /\ back = NoPlace /\ before = NoPlace
  /\ grab = NoGrab /\ armed = FALSE
  /\ at = [x |-> ScreenW \div 2, y |-> ScreenH \div 2]
  /\ count = 0

Next ==
  \E p \in [x : MouseX, y : MouseY] :
    (~Down /\ (Press(p) \/ Click(p))) \/ Drag(p) \/ Release(p)

Spec == Init /\ [][Next]_vars

-----------------------------------------------------------------------------
(* Properties. *)

(* A window is never smaller than its least size. *)
TypeOK ==
  /\ win.x \in Int /\ win.y \in Nat /\ win.w >= MinW /\ win.h >= MinH
  /\ back = NoPlace \/ back.w >= MinW
  /\ grab.kind \in {"none", "move", "size"} /\ grab.zone \subseteq {"N", "S", "W", "E"}
  /\ armed \in BOOLEAN /\ at \in Point /\ count \in 0 .. Gestures

(* "the window can never be dragged somewhere the user can't grab it again"
   (handle_mouse): wherever a drag leaves a window, a point above the taskbar
   remains at which a press moves it again, beside the edges and the buttons. *)
MovableAgainStep ==
  \A p \in [x : MouseX, y : MouseY] : Drag(p) /\ win' # win /\ grab.kind = "move"
     => \E q \in Point : q.y < ScreenH - TaskbarH /\ Begins(q, win', FALSE) = "move"
MovableAgain == [][MovableAgainStep]_vars

(* A maximized window fills the screen, and a restored one is where it was,
   whatever was held when the button was pressed (maximize_window,
   resize_zone_at: "it can't be resized while maximized"). *)
ComesBack == Maximized => win = Full /\ back = before

(* While a window that lies on the screen is resized, the sides that are not
   held stay where they are, but for the few pixels beside an edge at which the
   pointer may have taken it (handle_mouse). *)
SidesNearlyStay ==
  LET s == grab.from IN
  grab.kind = "size" /\ s.x >= 0 =>
    /\ "W" \in grab.zone \/ win.x = s.x
    /\ "N" \in grab.zone \/ win.y = s.y
    /\ "W" \in grab.zone => win.x + win.w - (s.x + s.w) \in 0 .. Margin
    /\ "N" \in grab.zone => win.y + win.h - (s.y + s.h) \in 0 .. Margin

(* The same of a window that hangs over the left of the screen, as the comment
   has it: "anchored on the opposite edge(s) so the corner/side you're NOT
   dragging stays put" (handle_mouse). *)
SidesStay ==
  grab.kind = "size" => ("W" \in grab.zone \/ win.x = grab.from.x) /\ ("N" \in grab.zone \/ win.y = grab.from.y)
=============================================================================
