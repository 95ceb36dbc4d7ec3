-------------------------------- MODULE NicRing --------------------------------
(* A network card and the poll of the stack (e1000.h, rtl8139.h, net_stack.h): the
   receive ring (descriptors, or one ring of words), the slots for sending, and
   where a frame goes that came in.  Sending waits for the card's receipt, for a
   bounded time.  A behaviour has one of the two cards; the next hop is known (the
   waiting for ARP is IpOut's). *)
EXTENDS Naturals, Sequences, FiniteSets

CONSTANTS
  Cards,     (* of "e1000", "rtl8139" *)
  Desc,      (* descriptors of the receive ring *)
  Slots,     (* slots for sending *)
  Words,     (* RTL_RING_SIZE *)
  Kind,      (* kinds of frames, of "arp", "echo", "dhcp", "dns", "tcp", "foreign" *)
  Sizes,     (* words of a frame with its header *)
  Frames,    (* bound: frames that come in *)
  Sends      (* bound: frames that go out *)

ConstantsOK ==
  /\ Cards \subseteq {"e1000", "rtl8139"} /\ {Desc, Slots, Words, Frames, Sends} \subseteq Nat \ {0}
  /\ Sizes \subseteq 2 .. Words \div 2 /\ Sizes # {}

VARIABLES
  card,
  rx,      (* memory, the card's pointers (put, free) and the driver's (cur), overflow *)
  tx,      (* slots, the driver's next one, the card's head and tail, what it is sending *)
  stack,   (* where net_stack_poll() is, and the table of UDP listeners *)
  seen     (* what arrived and was handed up, sent and given up; no code reads it *)

vars == <<card, rx, tx, stack, seen>>

Largest == CHOOSE s \in Sizes : \A t \in Sizes : t <= s
Memory == 0 .. (IF card = "e1000" THEN Desc - 1 ELSE Words + Largest - 1)
Nothing == [id |-> 0, size |-> 0, kind |-> "bad"]
NoSlot == [id |-> 0, own |-> FALSE, done |-> "no"]

(* e1000_init(), rtl8139_init(), net_stack_init(): every descriptor but one is the card's. *)
Init ==
  /\ card \in Cards
  /\ rx = [mem |-> [i \in Memory |-> Nothing], put |-> 0, cur |-> 0, over |-> FALSE,
           free |-> IF card = "e1000" THEN Desc - 1 ELSE 0]
  /\ tx = [slots |-> [i \in 0 .. Slots - 1 |-> NoSlot], next |-> 0, slot |-> 0, head |-> 0, tail |-> 0, fly |-> 0]
  /\ stack = [pc |-> "loop", then |-> "loop", listeners |-> <<"dns", "dhcp">>, ready |-> FALSE]
  /\ seen = [came |-> 0, last |-> 0, mark |-> 0, sent |-> 0, left |-> 0, owed |-> 0, odd |-> FALSE]

-----------------------------------------------------------------------------
(* Receiving: the card stores a frame or drops it; `sane` says whether its header
   makes sense. *)

Used == (rx.put + Words - rx.free) % Words
Arrives(size, kind, sane) ==
  LET id == seen.came + 1
      frame == IF sane THEN [id |-> id, size |-> size, kind |-> kind] ELSE Nothing
      body == (rx.put + 1) .. (rx.put + size - 1)
  IN /\ id <= Frames /\ (card = "e1000" => sane)
     /\ seen' = [seen EXCEPT !.came = id, !.odd = @ \/ (~ sane /\ Used + size < Words)]
     /\ IF card = "e1000"
        THEN rx' = IF rx.put = rx.free THEN rx
                   ELSE [rx EXCEPT !.mem[rx.put] = frame, !.put = (@ + 1) % Desc]
        ELSE rx' = IF Used + size >= Words THEN [rx EXCEPT !.over = TRUE]
                   ELSE [rx EXCEPT !.mem = [i \in Memory |-> IF i = rx.put THEN frame ELSE IF i \in body THEN Nothing ELSE @[i]],
                                   !.put = (@ + size) % Words]
     /\ UNCHANGED <<card, tx, stack>>

(* rtl8139_reset_rx(): ring empty, both pointers at its start. *)
ResetRx == [rx EXCEPT !.put = 0, !.free = 0, !.cur = 0, !.over = FALSE]

(* Wrapped at the size of the buffer, which is longer than the ring. *)
BehindBuffer(f) == IF card = "e1000" THEN (rx.cur + 1) % Desc ELSE (rx.cur + f.size) % (Words + Largest)
Behind(f) == IF card = "e1000" THEN (rx.cur + 1) % Desc ELSE (rx.cur + f.size) % Words
(* The descriptor's status is not cleared. *)
GivenBackFull(f) == [rx EXCEPT !.cur = Behind(f), !.free = IF card = "e1000" THEN rx.cur ELSE Behind(f)]
(* recv(): the frame is copied and its place given back. *)
GivenBack(f) ==
  [rx EXCEPT !.cur = Behind(f), !.free = IF card = "e1000" THEN rx.cur ELSE Behind(f),
             !.mem[rx.cur] = IF card = "e1000" THEN Nothing ELSE @]

Empty == IF card = "e1000" THEN rx.mem[rx.cur].id = 0 ELSE rx.put = rx.free
Desynced == card = "rtl8139" /\ (rx.over \/ (~ Empty /\ rx.mem[rx.cur].id = 0))
Delivers == ~ Empty /\ ~ Desynced

(* net_stack_handle_frame(): the layer a frame ends in. *)
Layer(f) ==
  CASE f.kind = "arp" -> "arp"
    [] f.kind = "foreign" -> IF stack.ready THEN "none" ELSE "tcp"
    [] f.kind \in {"dhcp", "dns"} -> IF \E i \in DOMAIN stack.listeners : stack.listeners[i] = f.kind THEN f.kind ELSE "none"
    [] f.kind = "echo" -> "icmp"
    [] f.kind = "tcp" -> "tcp"
    [] OTHER -> "none"

-----------------------------------------------------------------------------
(* Sending. *)

NextSlot(s) == (s + 1) % Slots
(* The receipt of the last frame in the slot is not taken out. *)
FilledStale(s) == [id |-> seen.sent + 1, own |-> TRUE, done |-> tx.slots[s].done]
Filled(s) == [id |-> seen.sent + 1, own |-> TRUE, done |-> "no"]

(* send(): the slot is filled and given to the card. *)
Send(then) ==
  /\ seen.sent < Sends
  /\ tx' = [tx EXCEPT !.slots[tx.next] = Filled(tx.next),
                      !.slot = tx.next, !.next = NextSlot(tx.next), !.tail = NextSlot(tx.next)]
  /\ stack' = [stack EXCEPT !.pc = "sending", !.then = then]

(* The card takes a frame from its head, and later says that it went out or, the
   RTL8139, that it was aborted. *)
Fetch ==
  /\ tx.fly = 0 /\ tx.slots[tx.head].own
  /\ card = "e1000" => tx.head # tx.tail
  /\ tx' = [tx EXCEPT !.fly = tx.slots[tx.head].id]
  /\ UNCHANGED <<card, rx, stack, seen>>

Flown(how) ==
  /\ tx.fly # 0 /\ (how = "abort" => card = "rtl8139")
  /\ tx' = [tx EXCEPT !.fly = 0, !.head = (@ + 1) % Slots, !.slots[tx.head].done = how, !.slots[tx.head].own = FALSE]
  /\ seen' = [seen EXCEPT !.left = IF how = "sent" THEN tx.fly ELSE @]
  /\ UNCHANGED <<card, rx, stack>>

(* The bounded wait of send() ends. *)
Returns(ok) ==
  /\ stack.pc = "sending"
  /\ ok <=> tx.slots[tx.slot].done = "sent"
  /\ stack' = [stack EXCEPT !.pc = stack.then]
  /\ seen' = [seen EXCEPT !.owed = IF ok /\ @ < Slots - 1 THEN 0 ELSE @ + 1]
  /\ UNCHANGED <<card, rx, tx>>

-----------------------------------------------------------------------------
(* net_stack_poll(): every frame, then the timers; anything else of the main loop
   may send. *)

(* The timers run before the frames. *)
FirstTimers == "timers"
First == "drain"
Poll ==
  /\ stack.pc = "loop" /\ stack' = [stack EXCEPT !.pc = First]
  /\ seen' = [seen EXCEPT !.mark = seen.came]
  /\ UNCHANGED <<card, rx, tx>>

Handled(f) ==
  IF Layer(f) = "icmp" /\ seen.sent < Sends
  THEN Send("drain") /\ seen' = [seen EXCEPT !.last = f.id, !.sent = @ + 1]
  ELSE /\ stack' = [stack EXCEPT !.ready = @ \/ Layer(f) = "dhcp"]
       /\ seen' = [seen EXCEPT !.last = f.id] /\ tx' = tx

Drain ==
  /\ stack.pc = "drain"
  /\ \/ /\ Delivers /\ Handled(rx.mem[rx.cur]) /\ rx' = GivenBack(rx.mem[rx.cur])
     \/ /\ ~ Delivers
        /\ rx' = IF Desynced THEN ResetRx ELSE rx
        /\ stack' = [stack EXCEPT !.pc = "timers"]
        (* A reset loses what was stored. *)
        /\ seen' = [seen EXCEPT !.mark = IF Desynced THEN 0 ELSE @, !.odd = @ /\ ~ Desynced]
        /\ UNCHANGED tx
  /\ UNCHANGED card

(* dhcp_poll(), tcp_poll_retransmit(), dns_poll() and the rest of the loop. *)
Timers ==
  /\ stack.pc = "timers"
  /\ \/ stack' = [stack EXCEPT !.pc = "loop"] /\ seen' = [seen EXCEPT !.mark = 0] /\ tx' = tx
     \/ Send("timers") /\ seen' = [seen EXCEPT !.sent = @ + 1]
  /\ UNCHANGED <<card, rx>>

Next ==
  \/ \E size \in Sizes, kind \in Kind, sane \in BOOLEAN : Arrives(size, kind, sane)
  \/ Fetch \/ \E how \in {"sent", "abort"} : Flown(how)
  \/ \E ok \in BOOLEAN : Returns(ok)
  \/ Poll \/ Drain \/ Timers

Spec == Init /\ [][Next]_vars

-----------------------------------------------------------------------------
(* Types: pointers inside the memory they point into. *)
TypeOK ==
  /\ rx.cur \in Memory /\ rx.put \in Memory /\ rx.free \in Memory
  /\ tx.next \in 0 .. Slots - 1 /\ tx.slots \in [0 .. Slots - 1 -> [id : 0 .. Sends, own : BOOLEAN, done : {"no", "sent", "abort"}]]
  /\ stack.pc \in {"loop", "drain", "sending", "timers"}

(* Frames are handed up in the order they came, none twice, whatever was dropped
   and wherever the ring wrapped (rtl8139.h:157). *)
InOrder == [][seen'.last # seen.last => seen'.last > seen.last]_vars

(* The driver reads where the card writes: what it finds makes no sense only when
   the card stored nonsense or overran the ring, and when the card has nothing the
   next frame will be at the driver's pointer (rtl8139.h:143: "stayed wedged forever"). *)
NotWedged ==
  /\ Desynced => rx.over \/ seen.odd
  /\ ~ rx.over /\ ~ seen.odd /\ Empty => rx.cur = rx.put

(* A timer fires only after the frames that had come in when the poll began were
   looked at: an answer that is there is never retransmitted for (net_stack.h:90). *)
AnswersFirst == stack.pc = "timers" /\ Delivers => rx.mem[rx.cur].id > seen.mark

(* What send() reports as sent has left: the receipt is not the one of an earlier
   frame in the same slot, as long as so many frames were never given up on end that
   the slots came round. *)
ReceiptIsTrue ==
  [][stack.pc = "sending" /\ stack'.pc # "sending" /\ seen'.owed = 0 => seen.left = tx.slots[tx.slot].id]_vars
=============================================================================
