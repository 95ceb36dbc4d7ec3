--------------------------------- MODULE Input ---------------------------------
(* Keys and pointer (keyboard.h, mouse.h, usb/hid.h).  The PS/2 keyboard and mouse
   share the one output buffer of the i8042, where a bit tells whose byte it is;
   mouse_poll() empties it up to a byte of the keyboard, keyboard_poll_key() takes
   one byte, or a key of the queue that USB keyboards fill.  The desktop polls USB,
   then the mouse, then the keyboard, once a pass (kernel.c:121-165).

   A behaviour has some of the devices plugged in.  Both keyboards set one variable
   for shift, a USB keyboard with every report.  Times are not modelled: a held USB key
   may repeat at any pass.  A key is "a" with its shift, or an arrow; movement is
   along one axis. *)
EXTENDS Integers, Sequences, SequencesExt

CONSTANTS
  Plugs,    (* the sets of devices explored, of "kbd", "aux", "ukbd", "umouse" *)
  Queue,    (* keys the USB queue holds: KBD_Q_SIZE - 1 *)
  Fits,     (* keys a report of the USB keyboard can name: 6 *)
  Far,      (* counts the pointer is moved away from where it began *)
  None


VARIABLES
  pc,       (* where the pass is *)
  kb,       (* keyboard.h and the keyboard's usb_dev_t *)
  ms,       (* mouse.h *)
  hw,       (* the i8042, what its devices still have to say, what is held down, and ps2:
               shift as the bytes of the PS/2 keyboard have it, which no code reads *)
  sent,     (* PS/2 keys pressed and not read yet; no code reads it *)
  out       (* what keyboard_poll_key() returned, until the next pass *)

vars == <<pc, kb, ms, hw, sent, out>>

Keys == {"a", "b", "up"}
Extended == {"up"}
Byte1(left) == [aux |-> TRUE, at |-> 1, bit3 |-> TRUE, left |-> left, d |-> 0]
Moved(at, d, bit3) == [aux |-> TRUE, at |-> at, bit3 |-> bit3, left |-> FALSE, d |-> d]
Scan(code, up) == [aux |-> FALSE, code |-> code, up |-> up]

MouseBytes == [aux : {TRUE}, at : 1 .. 3, bit3 : BOOLEAN, left : BOOLEAN, d : Int]
KeyBytes == [aux : {FALSE}, code : Keys \cup {"e0", "shift"}, up : BOOLEAN]
Typed == [key : Keys, shift : BOOLEAN]
ConstantsOK ==
  /\ Plugs \subseteq SUBSET {"kbd", "aux", "ukbd", "umouse"} /\ Queue \in Nat /\ Fits \in Nat /\ Far \in Nat
  /\ None \notin Keys /\ None \notin MouseBytes /\ None \notin KeyBytes /\ None \notin Typed

Init ==
  /\ pc = "usb" /\ sent = <<>> /\ out = None
  /\ kb = [q |-> <<>>, shift |-> FALSE, ext |-> FALSE, last |-> {}, rep |-> None]
  /\ ms = [pkt |-> <<>>, left |-> FALSE, click |-> FALSE, acc |-> 0, usb |-> 0, rem |-> 0, moved |-> 0]
  /\ \E p \in Plugs : hw = [plug |-> p, obf |-> None, kout |-> <<>>, mout |-> <<>>, shift |-> FALSE,
                            ps2 |-> FALSE, held |-> {}, ushift |-> FALSE, seen |-> {}, total |-> 0]

-----------------------------------------------------------------------------
(* The devices. *)

Says(bytes) == "kbd" \in hw.plug /\ hw.kout = <<>> /\ hw' = [hw EXCEPT !.kout = bytes]
Prefix(k) == IF k \in Extended THEN <<Scan("e0", FALSE)>> ELSE <<>>

PressPs2(k) ==
  /\ Len(sent) < 2 /\ Says(Prefix(k) \o <<Scan(k, FALSE)>>)
  /\ sent' = Append(sent, [key |-> k, shift |-> hw.shift /\ k \notin Extended])
  /\ UNCHANGED <<pc, kb, ms, out>>
ReleasePs2(k) ==
  /\ Says(Prefix(k) \o <<Scan(k, TRUE)>>) /\ UNCHANGED <<pc, kb, ms, sent, out>>
(* Shift goes down or up; the keyboard also brackets arrows with a prefixed one. *)
Shift(fake) ==
  /\ IF fake THEN Says(<<Scan("e0", FALSE), Scan("shift", hw.shift)>>)
     ELSE "kbd" \in hw.plug /\ hw.kout = <<>> /\ hw' = [hw EXCEPT !.kout = <<Scan("shift", hw.shift)>>, !.shift = ~@]
  /\ UNCHANGED <<pc, kb, ms, sent, out>>

MovePs2(d, press, bit3) ==
  /\ "aux" \in hw.plug /\ hw.mout = <<>> /\ hw.total + d \in -Far .. Far
  /\ hw' = [hw EXCEPT !.mout = <<Byte1(press), Moved(2, d, bit3), Moved(3, 0, bit3)>>, !.total = @ + d]
  /\ UNCHANGED <<pc, kb, ms, sent, out>>

(* The controller loads its buffer, from either device. *)
LoadByte(aux) ==
  /\ hw.obf = None
  /\ IF aux THEN hw.mout # <<>> /\ hw' = [hw EXCEPT !.obf = Head(hw.mout), !.mout = Tail(@)]
     ELSE hw.kout # <<>> /\ hw' = [hw EXCEPT !.obf = Head(hw.kout), !.kout = Tail(@)]
  /\ UNCHANGED <<pc, kb, ms, sent, out>>

HoldUsb(k) ==
  /\ "ukbd" \in hw.plug
  /\ hw' = [hw EXCEPT !.held = IF k \in @ THEN @ \ {k} ELSE @ \cup {k}]
  /\ UNCHANGED <<pc, kb, ms, sent, out>>
ShiftUsb ==
  "ukbd" \in hw.plug /\ hw' = [hw EXCEPT !.ushift = ~@] /\ UNCHANGED <<pc, kb, ms, sent, out>>

-----------------------------------------------------------------------------
(* usb_poll(): a report of the keyboard, of the mouse, a repeat. *)

(* keyboard_inject(): what finds no room in the queue is lost. *)
Injected(q, keys) == SubSeq(q \o keys, 1, IF Len(q \o keys) < Queue THEN Len(q \o keys) ELSE Queue)
(* The keys of a report: all that are held, or the rollover marker alone. *)
Reported(held) == IF Cardinality(held) <= Fits THEN held ELSE {}
FreshAll(now) == now
Fresh(now) == now \ kb.last
RepeatKept(typed, now) == IF typed # <<>> THEN Last(typed) ELSE kb.rep
(* The key typed last repeats while it is held. *)
Repeat(typed, now) ==
  IF typed # <<>> THEN Last(typed)
  ELSE IF kb.rep \in now THEN kb.rep ELSE None

(* A report, of a change or of none: shift is what it says, whatever the other keyboard
   has held, and the new keys are typed with it, in an order of the keyboard's own. *)
KbdReport ==
  /\ "ukbd" \in hw.plug /\ pc = "usb"
  /\ LET now == Reported(hw.held)
     IN \E typed \in SetToSeqs(Fresh(now)) :
          LET keys == [i \in DOMAIN typed |-> [key |-> typed[i], shift |-> hw.ushift /\ typed[i] \notin Extended]]
          IN kb' = [kb EXCEPT !.shift = hw.ushift, !.last = now, !.rep = Repeat(typed, now), !.q = Injected(@, keys)]
  /\ hw' = [hw EXCEPT !.seen = hw.held]
  /\ UNCHANGED <<pc, ms, sent, out>>

Tick ==
  /\ pc = "usb" /\ kb.rep # None
  /\ kb' = [kb EXCEPT !.q = Injected(@, <<[key |-> kb.rep, shift |-> kb.shift /\ kb.rep \notin Extended]>>)]
  /\ pc' = "mouse" /\ out' = None /\ UNCHANGED <<ms, hw, sent>>

MouseReport(d) ==
  /\ "umouse" \in hw.plug /\ pc = "usb" /\ hw.total + d \in -Far .. Far
  /\ ms' = [ms EXCEPT !.usb = @ + d] /\ hw' = [hw EXCEPT !.total = @ + d]
  /\ pc' = "mouse" /\ out' = None /\ UNCHANGED <<kb, sent>>

UsbDone == pc = "usb" /\ pc' = "mouse" /\ out' = None /\ UNCHANGED <<kb, ms, hw, sent>>

-----------------------------------------------------------------------------
(* mouse_poll() *)

(* A byte joins the packet, unless the driver waits for a first byte and it is none. *)
Packet(b) == IF ms.pkt = <<>> /\ ~b.bit3 THEN <<>> ELSE Append(ms.pkt, b)

MouseByte ==
  /\ pc = "mouse" /\ hw.obf # None /\ hw.obf.aux
  /\ hw' = [hw EXCEPT !.obf = None]
  /\ LET p == Packet(hw.obf)
     IN ms' = IF Len(p) < 3 THEN [ms EXCEPT !.pkt = p]
              ELSE [ms EXCEPT !.pkt = <<>>, !.acc = @ + p[2].d,
                              !.click = @ \/ (p[1].left /\ ~ms.left), !.left = p[1].left]
  /\ UNCHANGED <<pc, kb, sent, out>>

(* mouse_scale() at half speed: the division rounds towards zero. *)
Halved(a) == IF a >= 0 THEN a \div 2 ELSE -((-a) \div 2)
CarriedNot(a) == 0
Carried(a) == a - 2 * Halved(a)

(* The bytes that stay between two polls are the packet's. *)
StaysNot(pkt) == <<>>
Stays(pkt) == pkt

(* Nothing waits, or the byte is the keyboard's: the desktop takes the movement. *)
MouseDone ==
  /\ pc = "mouse" /\ (hw.obf # None => ~hw.obf.aux)
  /\ LET a == ms.rem + ms.acc + ms.usb
     IN ms' = [ms EXCEPT !.acc = 0, !.usb = 0, !.click = FALSE, !.moved = @ + Halved(a), !.rem = Carried(a), !.pkt = Stays(@)]
  /\ pc' = "kbd" /\ UNCHANGED <<kb, hw, sent, out>>

-----------------------------------------------------------------------------
(* keyboard_poll_key() *)

Takes == hw.obf # None /\ ~hw.obf.aux

Queued ==
  /\ pc = "kbd" /\ kb.q # <<>>
  /\ out' = [usb |-> TRUE, key |-> Head(kb.q)] /\ kb' = [kb EXCEPT !.q = Tail(@)]
  /\ pc' = "usb" /\ UNCHANGED <<ms, hw, sent>>

(* What a byte of the keyboard means: a key, or only a change of state. *)
Decoded(b) ==
  IF b.code = "e0" \/ b.up \/ b.code = "shift" THEN None
  ELSE IF kb.ext THEN (IF b.code \in Extended THEN [key |-> b.code, shift |-> FALSE] ELSE None)
  ELSE IF b.code \in Extended THEN None ELSE [key |-> b.code, shift |-> kb.shift]
ShiftHeldAny(b, s) == IF b.code = "shift" THEN ~b.up ELSE s
ShiftHeld(b, s) == IF b.code = "shift" /\ ~kb.ext THEN ~b.up ELSE s

Scanned ==
  /\ pc = "kbd" /\ kb.q = <<>> /\ Takes
  /\ LET k == Decoded(hw.obf)
     IN /\ kb' = [kb EXCEPT !.ext = hw.obf.code = "e0", !.shift = ShiftHeld(hw.obf, @)]
        /\ out' = IF k = None THEN None ELSE [usb |-> FALSE, key |-> k]
        /\ sent' = IF k = None \/ sent = <<>> THEN sent ELSE Tail(sent)
  /\ hw' = [hw EXCEPT !.obf = None, !.ps2 = ShiftHeld(hw.obf, @)] /\ pc' = "usb" /\ UNCHANGED ms

NoKey == pc = "kbd" /\ kb.q = <<>> /\ ~Takes /\ pc' = "usb" /\ out' = None /\ UNCHANGED <<kb, ms, hw, sent>>

Next ==
  \/ \E k \in Keys \ {"b"} : PressPs2(k) \/ ReleasePs2(k)
  \/ \E f \in BOOLEAN : Shift(f) \/ LoadByte(f)
  \/ \E d \in {-1, 1}, f \in BOOLEAN : MovePs2(d, f, f)
  \/ \E k \in Keys \ {"up"} : HoldUsb(k)
  \/ \E d \in {-1, 1} : MouseReport(d)
  \/ ShiftUsb \/ KbdReport \/ Tick \/ UsbDone \/ MouseByte \/ MouseDone \/ Queued \/ Scanned \/ NoKey

Spec == Init /\ [][Next]_vars

-----------------------------------------------------------------------------
(* Properties. *)

TypeOK ==
  /\ pc \in {"usb", "mouse", "kbd"} /\ Len(kb.q) <= Queue /\ kb.last \subseteq Keys
  /\ kb.rep \in Keys \cup {None} /\ Len(ms.pkt) <= 2

(* What is typed on the PS/2 keyboard arrives key by key and in order, whatever bytes
   of the mouse lie between its bytes (keyboard.h:107: "random '7', '0', ''' characters
   typing themselves whenever someone so much as breathed on the mouse"), and with the
   shift it was typed with: always if there is no USB keyboard, else unless a report of
   it has put shift elsewhere since (hid.h:54). *)
TypedAsPressed ==
  [][out' # out /\ out' # None /\ ~out'.usb
       => /\ sent # <<>> /\ out'.key.key = Head(sent).key
          /\ "ukbd" \notin hw.plug \/ kb.shift = hw.ps2 => out'.key = Head(sent)]_vars

(* A packet is put together from the bytes of one report, though keyboard bytes
   and whole passes lie between them (mouse.h:141). *)
Framed == \A i \in DOMAIN ms.pkt : ms.pkt[i].at = i

(* The pointer stays where the hand is: slow speed loses no count in any sequence
   of small movements (mouse.h:56). *)
NoDrift ==
  pc # "mouse" /\ hw.mout = <<>> /\ hw.obf = None /\ ms.pkt = <<>> /\ ms.usb = 0
  => 2 * ms.moved - hw.total \in -1 .. 1

(* A report types the keys that went down since the last one, each once (hid.h:60:
   "held from before: not a new press").  A report of more keys than fit has none of
   them, so those that are still held after it are typed again. *)
PressedOnce ==
  [][hw'.seen # hw.seen /\ Cardinality(hw.seen) <= Fits =>
       LET new == SubSeq(kb'.q, Len(kb.q) + 1, Len(kb'.q))
       IN \A i \in DOMAIN new : new[i].key \in hw.held \ hw.seen]_vars

(* A key that was let go does not repeat. *)
RepeatStops == kb.rep # None => kb.rep \in hw.seen
=============================================================================
