------------------------------- MODULE Scroll -------------------------------
(***************************************************************************)
(* The scroll bar of kernel/ui/scrollbar.h: its arrows, the track beside   *)
(* the thumb, the thumb that is dragged, and the wheel.  The window it     *)
(* belongs to may get more lines while the thumb is held.  A bar lies down *)
(* or stands: only the coordinate along it matters.                        *)
(***************************************************************************)
EXTENDS Integers

CONSTANTS
  Arrow, MinThumb, WheelLines,    (* SB_ARROW, SB_MIN_THUMB, SB_WHEEL_LINES     *)
  Bars,                           (* lengths of bars                            *)
  Totals, Pages, Lines            (* what there is to show, how much of it is seen, a step *)

(* What the constants must satisfy. *)
ConstantsOK ==
  /\ {Arrow, MinThumb, WheelLines} \subseteq Nat \ {0}
  /\ Bars \cup Totals \cup Pages \cup Lines \subseteq Nat \ {0}
  /\ \A h \in Bars : h >= 2 * Arrow
  /\ MinThumb >= 3

VARIABLES
  bar,     (* length, total, page and line, as the window reports them *)
  pos,     (* the first unit shown                                     *)
  grab,    (* sb_drag_owner, sb_drag_grab: where the thumb is held, or NotHeld *)
  held     (* history: position and pointer when the thumb was taken, if nothing was added since *)

vars == <<bar, pos, grab, held>>

NotHeld == -1
NoMark == [pos |-> -1, c |-> -1]

Larger(a, b) == IF a > b THEN a ELSE b
Smaller(a, b) == IF a < b THEN a ELSE b
MaxPos(b) == Larger(b.total - b.page, 0)
ClampPos(p, b) == Larger(0, Smaller(p, MaxPos(b)))

(* The start of the bar is at 0.  sb_thumb(): its size and its start. *)
Track(b) == Larger(b.h - 2 * Arrow, 4)
ThumbSize(b) ==
  Smaller(Larger(IF b.total > b.page THEN (Track(b) * b.page) \div b.total ELSE Track(b), MinThumb), Track(b))
ThumbAt(b, p) ==
  Arrow + (IF MaxPos(b) > 0 THEN ((Track(b) - ThumbSize(b)) * p) \div MaxPos(b) ELSE 0)

(* How far the thumb can go, as sb_drag() has it. *)
Room(b) == b.h - 2 * Arrow - ThumbSize(b)

-----------------------------------------------------------------------------
(* sb_press(): where a press at c takes the position, away from the thumb. *)
Paged(b, p, c) ==
  LET leap == IF b.page > b.line THEN b.page - b.line ELSE b.page
  IN  CASE c < Arrow -> p - b.line
        [] c >= b.h - Arrow -> p + b.line
        [] c >= Arrow /\ c < ThumbAt(b, p) -> p - leap
        [] OTHER -> p + leap

OnThumb(b, p, c) ==
  c >= Arrow /\ c < b.h - Arrow /\ c >= ThumbAt(b, p) /\ c < ThumbAt(b, p) + ThumbSize(b)

(* A fault for comparison: the thumb is taken by its start. *)
PressCorner(c) ==
  /\ grab = NotHeld
  /\ grab' = IF OnThumb(bar, pos, c) THEN 0 ELSE NotHeld
  /\ held' = IF OnThumb(bar, pos, c) THEN [pos |-> pos, c |-> c] ELSE NoMark
  /\ pos' = IF OnThumb(bar, pos, c) THEN pos ELSE ClampPos(Paged(bar, pos, c), bar)
  /\ UNCHANGED bar

(* A press on the bar. *)
Press(c) ==
  /\ grab = NotHeld
  /\ grab' = IF OnThumb(bar, pos, c) THEN c - ThumbAt(bar, pos) ELSE NotHeld
  /\ held' = IF OnThumb(bar, pos, c) THEN [pos |-> pos, c |-> c] ELSE NoMark
  /\ pos' = IF OnThumb(bar, pos, c) THEN pos ELSE ClampPos(Paged(bar, pos, c), bar)
  /\ UNCHANGED bar

(* A fault for comparison: a thumb at its end is one short of the end. *)
DraggedShort(c) ==
  LET want == Larger(0, Smaller(c - grab - Arrow, Room(bar)))
  IN  IF Room(bar) > 0 THEN (want * MaxPos(bar)) \div (Room(bar) + 1) ELSE 0

(* sb_drag(): the position for a pointer at c. *)
Dragged(c) ==
  LET want == Larger(0, Smaller(c - grab - Arrow, Room(bar)))
  IN  IF Room(bar) > 0 THEN (want * MaxPos(bar)) \div Room(bar) ELSE 0

(* A poll while the thumb is held. *)
Drag(c) == grab # NotHeld /\ pos' = Dragged(c) /\ UNCHANGED <<bar, grab, held>>

Release == grab # NotHeld /\ grab' = NotHeld /\ held' = NoMark /\ UNCHANGED <<bar, pos>>

(* sb_wheel(). *)
Wheel(n) ==
  /\ pos' = ClampPos(pos + n * WheelLines * bar.line, bar)
  /\ held' = NoMark
  /\ UNCHANGED <<bar, grab>>

(* The window shows something longer or shorter; it keeps its position within. *)
Shows(t) ==
  /\ t # bar.total
  /\ bar' = [bar EXCEPT !.total = t]
  /\ pos' = ClampPos(pos, [bar EXCEPT !.total = t])
  /\ held' = NoMark
  /\ UNCHANGED grab

Init ==
  /\ bar \in [h : Bars, total : Totals, page : Pages, line : Lines]
  /\ pos = 0 /\ grab = NotHeld /\ held = NoMark

Next ==
  \/ \E c \in 0 .. bar.h - 1 : Press(c)
  \/ \E c \in -2 .. bar.h + 1 : Drag(c)
  \/ Release \/ Wheel(-1) \/ Wheel(1)
  \/ \E t \in Totals : Shows(t)

Spec == Init /\ [][Next]_vars

-----------------------------------------------------------------------------
(* Properties. *)

(* The position is always one the window can show. *)
TypeOK ==
  /\ pos \in 0 .. MaxPos(bar) /\ grab \in NotHeld .. Track(bar)
  /\ held # NoMark => grab # NotHeld

(* The thumb lies in its track, and the first and last positions are those of
   a thumb at the ends of it: nothing at the end of a long text is out of reach
   (sb_thumb, sb_drag). *)
EndsReached ==
  /\ ThumbAt(bar, pos) >= Arrow
  /\ bar.h - 2 * Arrow >= 4 => ThumbAt(bar, pos) + ThumbSize(bar) <= bar.h - Arrow
  /\ grab # NotHeld /\ Room(bar) > 0 =>
       Dragged(Arrow + grab) = 0 /\ Dragged(Arrow + grab + Room(bar)) = MaxPos(bar)

(* A thumb that is moved never takes the text the other way, however the
   divisions of sb_thumb and sb_drag round. *)
ThumbFollowsStep ==
  \A c \in -2 .. bar.h + 1 : Drag(c) /\ held # NoMark /\ Room(bar) > 0 =>
     /\ c > held.c => pos' >= held.pos
     /\ c < held.c => pos' <= held.pos
ThumbFollows == [][ThumbFollowsStep]_vars
=============================================================================
