-------------------------------- MODULE XhciRing --------------------------------
(* The rings of usb/xhci.h.  The driver writes requests (commands, or the two or
   three parts of a control transfer) into a ring whose last place is a link back
   to its start; the controller answers in a ring of events.  On either side what
   is new carries the cycle bit of the current lap.  Every wait is bounded. *)
EXTENDS Integers, Sequences

CONSTANTS
  Size,      (* places of the request ring, the link included *)
  Events,    (* places of the event ring *)
  Parts,     (* requests of one call, of which the last is answered *)
  Patient    (* the controller answers before the driver gives up *)

ConstantsOK == /\ {Size, Events} \subseteq Nat \ {0, 1} /\ Parts \subseteq 1 .. Size - 2 /\ Patient \in BOOLEAN

VARIABLES
  req,    (* the request ring, where the driver writes and the controller reads *)
  evt,    (* the event ring, where the controller writes and the driver reads *)
  call    (* the call under way and what it knows *)

vars == <<req, evt, call>>

Blank == [cyc |-> 0, what |-> "none", mine |-> FALSE]
NoEvent == [cyc |-> 0, mine |-> FALSE]

(* xhci_ring_init(), xhci_init() *)
Init ==
  /\ req = [mem |-> [i \in 0 .. Size - 1 |-> Blank], enq |-> 0, cyc |-> 1, deq |-> 0, ccs |-> 1]
  /\ evt = [mem |-> [i \in 0 .. Events - 1 |-> NoEvent], enq |-> 0, pcs |-> 1, deq |-> 0, cyc |-> 1, seen |-> 0]
  /\ call = [pc |-> "idle", left |-> 0, done |-> FALSE, mine |-> FALSE]

(* The link is written and the cycle stays. *)
PushedSame(r, what) ==
  LET m == [r.mem EXCEPT ![r.enq] = [cyc |-> r.cyc, what |-> what, mine |-> TRUE]]
  IN IF r.enq + 1 < Size - 1 THEN [r EXCEPT !.mem = m, !.enq = @ + 1]
     ELSE [r EXCEPT !.mem = [m EXCEPT ![Size - 1] = [cyc |-> r.cyc, what |-> "link", mine |-> FALSE]], !.enq = 0]
(* xhci_push() *)
Pushed(r, what) ==
  LET m == [r.mem EXCEPT ![r.enq] = [cyc |-> r.cyc, what |-> what, mine |-> TRUE]]
  IN IF r.enq + 1 < Size - 1 THEN [r EXCEPT !.mem = m, !.enq = @ + 1]
     ELSE [r EXCEPT !.mem = [m EXCEPT ![Size - 1] = [cyc |-> r.cyc, what |-> "link", mine |-> FALSE]],
                    !.enq = 0, !.cyc = 1 - @]

(* Requests of an earlier call are nobody's any more. *)
Disowned(r) == [r EXCEPT !.mem = [i \in DOMAIN @ |-> [@[i] EXCEPT !.mine = FALSE]]]

(* xhci_cmd() and xhci_control(): the parts are pushed one by one, then the doorbell
   is rung. *)
Start(n) ==
  /\ call.pc = "idle"
  /\ call' = [call EXCEPT !.pc = "push", !.left = n, !.done = FALSE, !.mine = FALSE]
  /\ req' = Disowned(req)
  /\ evt' = [evt EXCEPT !.mem = [i \in DOMAIN @ |-> [@[i] EXCEPT !.mine = FALSE]]]

Push ==
  /\ call.pc = "push"
  /\ req' = Pushed(req, IF call.left = 1 THEN "last" ELSE "part")
  /\ call' = [call EXCEPT !.left = @ - 1, !.pc = IF call.left = 1 THEN "wait" ELSE "push"]
  /\ UNCHANGED evt

-----------------------------------------------------------------------------
(* The controller: it follows what has its cycle bit, and answers the last part.  It
   keeps one place of the event ring free of what was not read (ERDP). *)
Given == req.mem[req.deq].cyc = req.ccs
Full == (evt.enq + 1) % Events = evt.seen

Execute ==
  LET r == req.mem[req.deq]
      next == [req EXCEPT !.deq = (@ + 1) % Size]
  IN /\ Given /\ UNCHANGED call
     /\ \/ r.what = "link" /\ req' = [next EXCEPT !.ccs = 1 - @] /\ UNCHANGED evt
        \/ r.what = "part" /\ req' = next /\ UNCHANGED evt
        \/ /\ r.what = "last" /\ ~ Full /\ req' = next
           /\ evt' = [evt EXCEPT !.mem[evt.enq] = [cyc |-> evt.pcs, mine |-> r.mine], !.enq = (@ + 1) % Events,
                                 !.pcs = IF evt.enq = Events - 1 THEN 1 - @ ELSE @]

(* xhci_events(): one event; how far was read is told to the controller. *)
New == evt.mem[evt.deq].cyc = evt.cyc
(* The lap is not counted. *)
ReadSame(e) == [e EXCEPT !.deq = (@ + 1) % Events, !.seen = (e.deq + 1) % Events]
Read(e) == [e EXCEPT !.deq = (@ + 1) % Events, !.seen = (e.deq + 1) % Events,
                     !.cyc = IF e.deq = Events - 1 THEN 1 - @ ELSE @]
TakeEvent ==
  /\ call.pc = "wait" /\ ~ call.done /\ New
  /\ evt' = Read(evt) /\ call' = [call EXCEPT !.done = TRUE, !.mine = evt.mem[evt.deq].mine]
  /\ UNCHANGED req

Return ==
  /\ call.pc = "wait" /\ (call.done \/ (~ Patient /\ ~ New))
  /\ call' = [call EXCEPT !.pc = "idle", !.left = 0] /\ UNCHANGED <<req, evt>>

Next == Push \/ Execute \/ TakeEvent \/ Return \/ \E n \in Parts : Start(n)
Spec == Init /\ [][Next]_vars
Fairness == WF_vars(Push) /\ WF_vars(Execute) /\ WF_vars(TakeEvent) /\ WF_vars(Return)

-----------------------------------------------------------------------------
(* Types: both rings and their ends. *)
TypeOK ==
  /\ req.enq \in 0 .. Size - 2 /\ req.deq \in 0 .. Size - 1 /\ {req.cyc, req.ccs, evt.cyc, evt.pcs} \subseteq {0, 1}
  /\ evt.enq \in 0 .. Events - 1 /\ evt.deq \in 0 .. Events - 1
  /\ call.pc \in {"idle", "push", "wait"}

(* The controller takes for new exactly what the driver wrote and it has not read,
   over any number of laps (xhci.h:56): what it would go on to read ends where the driver writes. *)
LapsAgree ==
  LET n[k \in 0 .. Size] == IF k = 0 THEN <<req.deq, req.ccs>>
        ELSE LET at == n[k - 1] IN
             IF req.mem[at[1]].cyc # at[2] THEN at
             ELSE IF req.mem[at[1]].what = "link" THEN <<0, 1 - at[2]>> ELSE <<at[1] + 1, at[2]>>
  IN n[Size] = <<req.enq, req.cyc>>

(* A call that returns success was answered itself: nothing that an earlier lap
   left in the event ring is read again (xhci.h:81). *)
AnsweredItself == call.done => call.mine

(* With a controller that answers, every call returns. *)
CallReturns == call.pc # "idle" ~> call.pc = "idle"
=============================================================================
