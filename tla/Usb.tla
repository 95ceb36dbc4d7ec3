---------------------------------- MODULE Usb ----------------------------------
(* USB (usb/core.h over xhci.h, ehci.h or ohci.h): noticing what is plugged in and
   pulled out, giving it a table entry, an address and an interrupt endpoint, and
   polling that.  Devices come and go between any two steps of an enumeration,
   which waits for tens of milliseconds.  A behaviour has one controller. *)
EXTENDS Naturals, FiniteSetTheorems, WellFoundedInduction, TLAPS

CONSTANTS
  Kinds,     (* of "xhci", "ehci", "ohci" *)
  Ports, MaxDevs,
  MaxInt,    (* interrupt endpoints: EHCI_MAX_INT, OHCI_MAX_INT, the slots of xhci *)
  Sticks,    (* controllers that also get devices MiniWin cannot use *)
  Speeds,    (* "high", "full", "low" *)
  Plugs,     (* bound: times something is plugged in *)
  Flaky,     (* a device that is there may fail a transfer *)
  Racing     (* an xHCI transfer may end between the events of a pass and its scan *)

ConstantsOK ==
  /\ Kinds \subseteq {"xhci", "ehci", "ohci"} /\ {Ports, MaxDevs, MaxInt, Plugs} \subseteq Nat \ {0}
  /\ Sticks \subseteq Kinds /\ {Flaky, Racing} \subseteq BOOLEAN

VARIABLES
  kind,
  port,   (* what is on each port, and its status bits *)
  devs,   (* usb_devs *)
  intr,   (* the interrupt endpoints, their list, and xf_done/xf_code *)
  act     (* where usb_poll() is *)

vars == <<kind, port, devs, intr, act>>

Port == 1 .. Ports
Entry == 1 .. MaxDevs
Chan == 1 .. MaxInt
NoEntry == [present |-> FALSE, port |-> 0, addr |-> 0, chan |-> 0, fn |-> "none", is |-> 0]
(* "is" numbers the devices as they are plugged in; no code reads it. *)
Nobody == [is |-> 0, fn |-> "none", speed |-> "full", change |-> TRUE, away |-> FALSE, on |-> FALSE, addr |-> 0]

(* usb_init() *)
Init ==
  /\ kind \in Kinds
  /\ port = [p \in Port |-> [Nobody EXCEPT !.change = FALSE]]
  /\ devs = [i \in Entry |-> NoEntry]
  /\ intr = [used |-> [n \in Chan |-> FALSE], with |-> [n \in Chan |-> 0], state |-> [n \in Chan |-> "idle"],
             flag |-> [n \in Chan |-> "none"], next |-> [n \in 0 .. MaxInt |-> 0]]
  /\ act = [pc |-> "scan", at |-> 1, first |-> TRUE, entry |-> 0, is |-> 0, plugs |-> 0]

-----------------------------------------------------------------------------
(* The world: devices come, go and move; the interrupt transfer of a device ends
   with a report or, when it is gone, with an error. *)

Plug(p, fn, speed) ==
  /\ port[p].is = 0 /\ act.plugs < Plugs /\ (fn = "none" => kind \in Sticks)
  /\ act' = [act EXCEPT !.plugs = @ + 1]
  /\ port' = [port EXCEPT ![p] = [Nobody EXCEPT !.is = act.plugs + 1, !.fn = fn, !.speed = speed]]
  /\ UNCHANGED <<kind, devs, intr>>

Pull(p) ==
  /\ port[p].is # 0 /\ port' = [port EXCEPT ![p] = Nobody]
  /\ UNCHANGED <<kind, devs, intr, act>>

(* Who answers on this bus: by its port with xHCI, by its address otherwise. *)
Answering(d) ==
  {p \in Port : port[p].on /\ ~ port[p].away /\ (IF kind = "xhci" THEN p = d.port ELSE port[p].addr = d.addr)}
Attached(is) == \E p \in Port : port[p].is = is /\ port[p].on

TransferEnds(n, how) ==
  /\ intr.state[n] = "armed"
  /\ how = "error" => ~ Attached(intr.with[n]) \/ Flaky
  /\ how = "done" => Attached(intr.with[n])
  /\ kind = "xhci" /\ ~ Racing => act.pc = "poll" /\ act.at = 1
  /\ intr' = [intr EXCEPT !.state[n] = how]
  /\ UNCHANGED <<kind, port, devs, act>>

-----------------------------------------------------------------------------
(* The table. *)

(* xhci_events(): whatever the event ring holds is noted for its slot. *)
Events(c) ==
  IF kind # "xhci" THEN c
  ELSE [c EXCEPT !.flag = [n \in Chan |-> IF c.state[n] \in {"done", "error"} THEN c.state[n] ELSE @[n]],
                 !.state = [n \in Chan |-> IF @[n] \in {"done", "error"} THEN "idle" ELSE @[n]]]

(* The endpoint is not given back. *)
ReleasedKept(c, n) == IF n = 0 THEN c ELSE [Events(c) EXCEPT !.state[n] = "idle", !.with[n] = 0]
(* xhci_release() and its command, ehci_release(), ohci_release(). *)
Released(c, n) == IF n = 0 THEN c ELSE [Events(c) EXCEPT !.used[n] = FALSE, !.state[n] = "idle", !.with[n] = 0]

EntriesAt(p) == {i \in Entry : devs[i].present /\ devs[i].port = p}
(* usb_release() of the entry of a port. *)
DropEntry(p) ==
  LET old == EntriesAt(p)
  IN /\ devs' = [i \in Entry |-> IF i \in old THEN NoEntry ELSE devs[i]]
     /\ intr' = IF old = {} THEN intr ELSE Released(intr, devs[CHOOSE i \in old : TRUE].chan)

NextPort == IF act.at < Ports THEN [act EXCEPT !.pc = "scan", !.at = @ + 1, !.entry = 0, !.is = 0]
            ELSE [act EXCEPT !.pc = "poll", !.at = 1, !.first = FALSE, !.entry = 0, !.is = 0]

(* xhci_port_scan(), ohci_port_scan(): a port without news is left alone, but at the
   first scan; a reset puts the device back to address 0. *)
Quiet(p) == (~ port[p].change /\ ~ act.first) \/ port[p].away \/ (port[p].is = 0 /\ ~ port[p].change)
AfterReset(q) == [q EXCEPT !.on = TRUE, !.addr = 0]
(* ehci_port_scan(): a slow device is given to the companion controller. *)
Companions(q) == kind = "ehci" /\ q.speed # "high"

(* The scan of a port and usb_port_changed(). *)
ScanPort ==
  LET p == act.at
      q == [port[p] EXCEPT !.change = FALSE]
  IN /\ act.pc = "scan" /\ UNCHANGED kind
     /\ \/ /\ Quiet(p) /\ port' = [port EXCEPT ![p] = q] /\ act' = NextPort /\ UNCHANGED <<devs, intr>>
        \/ /\ port[p].change /\ q.is = 0
           /\ port' = [port EXCEPT ![p] = q] /\ DropEntry(p) /\ act' = NextPort
        \/ /\ port[p].change \/ act.first
           /\ q.is # 0 /\ ~ q.away /\ Companions(q)
           /\ port' = [port EXCEPT ![p] = [q EXCEPT !.away = TRUE]] /\ act' = NextPort /\ UNCHANGED <<devs, intr>>
        \/ /\ port[p].change \/ act.first
           /\ q.is # 0 /\ ~ q.away /\ ~ Companions(q)
           /\ port' = [port EXCEPT ![p] = AfterReset(q)] /\ DropEntry(p)
           /\ act' = [act EXCEPT !.pc = "address", !.is = q.is]

-----------------------------------------------------------------------------
(* usb_enumerate(), in its three parts with the transfers of each. *)

(* A transfer reaches one of those that answer. *)
Talks(d, ok) == /\ ok => Answering(d) # {}
                /\ ~ ok => Flaky \/ Answering(d) = {} \/ (\A p \in Answering(d) : port[p].is # act.is)

(* The end of a failed enumeration: xhci gives its slot back. *)
Failed(i) ==
  /\ devs' = [devs EXCEPT ![i] = NoEntry]
  /\ intr' = IF kind = "xhci" THEN Released(intr, devs[i].chan) ELSE intr
  /\ act' = NextPort

Enabled == {n \in Chan : ~ intr.used[n]}
(* The first one, whoever has it. *)
FirstAlways == 1
First == CHOOSE n \in Enabled : \A m \in Enabled : n <= m

(* Entry, slot and address. *)
Address(ok) ==
  LET free == {i \in Entry : ~ devs[i].present}
      i == CHOOSE j \in free : \A k \in free : j <= k
      d == [NoEntry EXCEPT !.present = TRUE, !.port = act.at, !.is = act.is]
  IN /\ act.pc = "address" /\ UNCHANGED kind
     /\ \/ /\ free = {} \/ (kind = "xhci" /\ Enabled = {})
           /\ act' = NextPort /\ UNCHANGED <<port, devs, intr>>
        \/ /\ free # {} /\ (kind = "xhci" => Enabled # {}) /\ Talks(d, ok) /\ ~ ok
           /\ act' = NextPort /\ UNCHANGED <<port, devs, intr>>
        \/ /\ free # {} /\ (kind = "xhci" => Enabled # {}) /\ Talks(d, ok) /\ ok
           /\ \E p \in Answering(d) : port' = [port EXCEPT ![p].addr = i]
           /\ devs' = [devs EXCEPT ![i] = [d EXCEPT !.addr = i, !.chan = IF kind = "xhci" THEN First ELSE 0]]
           /\ intr' = IF kind = "xhci" THEN [Events(intr) EXCEPT !.used[First] = TRUE] ELSE intr
           /\ act' = [act EXCEPT !.pc = "describe", !.entry = i]

(* Descriptors: is there a keyboard, mouse or tablet in it? *)
Describe(ok) ==
  LET i == act.entry
  IN /\ act.pc = "describe" /\ UNCHANGED <<kind, port>> /\ Talks(devs[i], ok)
     /\ \/ ~ ok /\ Failed(i)
        \/ /\ ok
           /\ \E p \in Answering(devs[i]) :
                IF port[p].fn = "none" THEN Failed(i)
                ELSE /\ devs' = [devs EXCEPT ![i].fn = port[p].fn] /\ intr' = Events(intr)
                     /\ act' = [act EXCEPT !.pc = "configure"]

(* xhci_setup_intr(): the first transfer is given to the device at that address. *)
Armed(c, n, is) == [c EXCEPT !.state[n] = "armed", !.with[n] = is]
(* ehci_setup_intr(), ohci_setup_intr(): the endpoint is hung behind the anchor, 0. *)
Linked(c, n) == [c EXCEPT !.next[n] = c.next[0], !.next[0] = n]
(* Configuration and the interrupt endpoint. *)
Configure(ok) ==
  LET i == act.entry
      n == IF kind = "xhci" THEN devs[i].chan ELSE First
      c == Events(intr)
      linked == IF kind = "xhci" THEN c ELSE Linked([c EXCEPT !.used[n] = TRUE], n)
  IN /\ act.pc = "configure" /\ UNCHANGED <<kind, port>> /\ Talks(devs[i], ok)
     /\ \/ (~ ok \/ (kind # "xhci" /\ Enabled = {})) /\ Failed(i)
        \/ /\ ok /\ (kind # "xhci" => Enabled # {})
           /\ \E p \in Answering(devs[i]) : intr' = Armed(linked, n, port[p].is)
           /\ devs' = [devs EXCEPT ![i].chan = n]
           /\ act' = NextPort

-----------------------------------------------------------------------------
(* usb_poll(): every entry, then, every 250 ms, the ports. *)

Noted(n) == IF kind = "xhci" THEN intr.flag[n] ELSE intr.state[n]
Live(i) == devs[i].present /\ devs[i].chan # 0

(* xhci_intr_poll(): the report is taken and the transfer started again. *)
Rearmed(c, n) == [c EXCEPT !.flag[n] = "none", !.state[n] = "armed"]

PollEntry ==
  LET i == act.at
      n == devs[i].chan
      c == Events(intr)
      seen == IF kind = "xhci" THEN c.flag[n] ELSE c.state[n]
      last == i = MaxDevs
  IN /\ act.pc = "poll" /\ UNCHANGED <<kind, port>>
     /\ \E scans \in BOOLEAN :
          act' = IF ~ last THEN [act EXCEPT !.at = @ + 1]
                 ELSE [act EXCEPT !.at = 1, !.pc = IF scans THEN "scan" ELSE "poll"]
     /\ CASE ~ Live(i) -> intr' = IF i = 1 THEN c ELSE intr
          [] Live(i) /\ seen = "error" -> intr' = [Released(c, n) EXCEPT !.flag[n] = "none"]
          [] Live(i) /\ seen = "done" -> intr' = Rearmed(c, n)
          [] OTHER -> intr' = c
     /\ devs' = IF Live(i) /\ seen = "error" THEN [devs EXCEPT ![i] = NoEntry] ELSE devs

Next ==
  \/ \E p \in Port : Pull(p) \/ \E fn \in {"hid", "none"}, speed \in Speeds : Plug(p, fn, speed)
  \/ \E n \in Chan, how \in {"done", "error"} : TransferEnds(n, how)
  \/ ScanPort \/ PollEntry
  \/ \E ok \in BOOLEAN : Address(ok) \/ Describe(ok) \/ Configure(ok)

Spec == Init /\ [][Next]_vars

-----------------------------------------------------------------------------
(* Types: the ports, the table and the endpoints. *)
TypeOK ==
  /\ \A p \in Port : port[p].is \in 0 .. Plugs /\ port[p].addr \in 0 .. MaxDevs
  /\ \A i \in Entry : devs[i].port \in 0 .. Ports /\ devs[i].chan \in 0 .. MaxInt
  /\ intr.state \in [Chan -> {"idle", "armed", "done", "error"}] /\ intr.next \in [0 .. MaxInt -> 0 .. MaxInt]

(* Between two passes every port whose status was looked at has the entry of the
   device that is on it now, and none when it is empty: no plug or pull is missed
   and nothing is lost to an endpoint that was not given back (core.h:194).  Where
   a slow device took a fast one's place at once, and went to the companion, the old
   entry stays until its own transfer fails. *)
Noticed ==
  act.pc = "poll" =>
    \A p \in Port : ~ port[p].change =>
      LET is == {devs[i].is : i \in EntriesAt(p)}
      IN IF port[p].is = 0 THEN is = {}
         ELSE IF port[p].away THEN \A i \in EntriesAt(p) : devs[i].is # port[p].is /\ intr.used[devs[i].chan]
         ELSE is = {port[p].is} \/ (is = {} /\ port[p].fn = "none")

(* An endpoint is in use by one entry, and by one that is there. *)
OneUser == \A n \in Chan : intr.used[n] <=> Cardinality({i \in Entry : devs[i].present /\ devs[i].chan = n}) = 1

(* A report is the one of the device the entry was made for: not of one that had
   the endpoint before, and not of one that has the same address. *)
OwnReports == [][\A i \in Entry : act.pc = "poll" /\ act.at = i /\ Live(i) /\ devs'[i].present /\ Noted(devs[i].chan) = "done"
                   => intr.with[devs[i].chan] = devs[i].is]_vars

(* No two devices of a bus answer to the same address (core.h:62: "we hand out the address ourselves"). *)
OneAddress ==
  kind # "xhci" => \A p, q \in Port : p # q /\ port[p].on /\ port[q].on /\ port[p].addr # 0 => port[p].addr # port[q].addr

(* The controller reaches the end of its periodic list ("hang it behind the anchor ED", ohci.h:188). *)
ListEnds ==
  LET at[k \in 0 .. MaxInt + 1] == IF k = 0 THEN intr.next[0] ELSE IF at[k - 1] = 0 THEN 0 ELSE intr.next[at[k - 1]]
  IN at[MaxInt + 1] = 0
-----------------------------------------------------------------------------
(* What the properties rest on, and the proof that every step keeps it. *)

Below == {p \in Nat \X Nat : p[1] < p[2]}
LEMMA BelowRel == OpToRel(<, Nat) = Below
  BY DEF OpToRel, Below

(* A set of numbers that is not empty has a least one. *)
LEMMA Least == ASSUME NEW T \in SUBSET Nat, T # {} PROVE \E x \in T : \A y \in T : x <= y
<1>1. IsWellFoundedOn(Below, Nat)
  BY BelowRel, NatLessThanWellFounded
<1>2. PICK x \in T : \A y \in T : ~ (<<y, x>> \in Below)
  BY <1>1, WFMin
<1>3. ASSUME NEW y \in T PROVE x <= y
  <2>1. x \in Nat /\ y \in Nat
    OBVIOUS
  <2>2. <<y, x>> \in Nat \X Nat
    BY <2>1
  <2>3. ~ (y < x)
    BY <1>2, <2>2 DEF Below
  <2> QED
    BY <2>1, <2>3
<1> QED
  BY <1>3

(* Devices that are there do not fail a transfer, an xHCI transfer ends between two
   passes, and only xHCI is given devices that MiniWin cannot use. *)
Steady == ~ Flaky /\ ~ Racing /\ Sticks \subseteq {"xhci"}
(* The table and the endpoints are enough for a device on every port. *)
Roomy == Ports <= MaxDevs /\ Ports <= MaxInt

Places == [is : 0 .. Plugs, fn : {"none", "hid"}, speed : Speeds \cup {"full"}, change : BOOLEAN, away : BOOLEAN,
           on : BOOLEAN, addr : 0 .. MaxDevs]
Rows == [present : BOOLEAN, port : 0 .. Ports, addr : 0 .. MaxDevs, chan : 0 .. MaxInt, fn : {"none", "hid"}, is : 0 .. Plugs]
Ends == [used : [Chan -> BOOLEAN], with : [Chan -> 0 .. Plugs], state : [Chan -> {"idle", "armed", "done", "error"}],
         flag : [Chan -> {"none", "done", "error"}], next : [0 .. MaxInt -> 0 .. MaxInt]]
Acts == [pc : {"scan", "address", "describe", "configure", "poll"}, at : Nat, first : BOOLEAN, entry : 0 .. MaxDevs,
         is : 0 .. Plugs, plugs : 0 .. Plugs]
Shapes(k, P, D, C, A) ==
  k \in {"xhci", "ehci", "ohci"} /\ P \in [Port -> Places] /\ D \in [Entry -> Rows] /\ C \in Ends /\ A \in Acts

Busy(A) == A.pc \in {"address", "describe", "configure"}
Making(A, i) == A.pc \in {"describe", "configure"} /\ i = A.entry

(* The table: an entry for a port, an endpoint for an entry. *)
Table(k, D, C, A) ==
  /\ IF A.pc = "poll" THEN A.at \in Entry ELSE A.at \in Port
  /\ A.pc \in {"describe", "configure"} => A.entry \in Entry /\ D[A.entry].present /\ D[A.entry].port = A.at
  /\ A.pc = "address" => \A i \in Entry : D[i].present => D[i].port # A.at
  /\ \A i \in Entry : D[i].present => D[i].port \in Port /\ (D[i].chan # 0 <=> k = "xhci" \/ ~ Making(A, i))
  /\ \A i, j \in Entry : D[i].present /\ D[j].present /\ i # j => D[i].port # D[j].port /\ (D[i].chan # 0 => D[i].chan # D[j].chan)
  /\ \A n \in Chan : C.used[n] <=> \E i \in Entry : D[i].present /\ D[i].chan = n

(* Whose the names are. *)
Names(P, D, A) ==
  /\ \A p \in Port : P[p].is <= A.plugs
  /\ \A p, q \in Port : P[p].is # 0 /\ p # q => P[p].is # P[q].is
  /\ \A i \in Entry : D[i].present => /\ 0 < D[i].is /\ D[i].is <= A.plugs
                                      /\ \A p \in Port : P[p].is = D[i].is => p = D[i].port /\ P[p].on
  /\ Busy(A) => /\ 0 < A.is /\ A.is <= A.plugs
                /\ \A p \in Port : P[p].is = A.is => p = A.at
  /\ A.pc \in {"describe", "configure"} => D[A.entry].is = A.is

(* A port that is enabled is that of a device MiniWin found there. *)
Slow(k, s) == k = "ehci" /\ s # "high"
Faces(k, P, A) ==
  /\ \A p \in Port : P[p].on => P[p].is # 0 /\ ~ P[p].away /\ ~ P[p].change /\ ~ Slow(k, P[p].speed)
  /\ \A p \in Port : P[p].is # 0 /\ P[p].fn = "none" => k = "xhci"
  /\ Busy(A) => /\ P[A.at].on => P[A.at].is = A.is
                /\ ~ P[A.at].on => P[A.at].change
  /\ A.first => /\ A.pc # "poll"
                /\ \A p \in Port : P[p].is # 0 /\ (A.at < p \/ (A.at = p /\ A.pc = "scan")) => P[p].change

(* Nothing is missed on a port without news. *)
Known(P, D, A) ==
  \A p \in Port : ~ P[p].change /\ ~ (Busy(A) /\ p = A.at) /\ ~ P[p].away =>
    /\ \A i \in Entry : D[i].present /\ D[i].port = p => P[p].is # 0 /\ D[i].is = P[p].is
    /\ P[p].is # 0 /\ P[p].fn # "none" => \E i \in Entry : D[i].present /\ D[i].port = p

(* Who has an address has the entry of that number. *)
Addressed(k, P, D, A) ==
  /\ \A i \in Entry : D[i].present => D[i].addr = i
  /\ k # "xhci" => \A p \in Port : P[p].on =>
       IF P[p].addr = 0 THEN A.pc = "address" /\ A.at = p
       ELSE D[P[p].addr].present /\ D[P[p].addr].port = p /\ D[P[p].addr].is = P[p].is

Here(P, is) == \E p \in Port : P[p].is = is /\ P[p].on
(* What an endpoint is at, and for whom. *)
Wired(k, P, D, C, A) ==
  /\ \A n \in Chan : ~ C.used[n] => C.state[n] = "idle"
  /\ \A i \in Entry : D[i].present /\ D[i].chan # 0 => IF Making(A, i) THEN C.state[D[i].chan] = "idle" ELSE C.with[D[i].chan] = D[i].is
  /\ \A n \in Chan : k = "xhci" /\ C.state[n] \in {"done", "error"} => A.pc = "poll" /\ A.at = 1
  /\ \A n \in Chan : C.flag[n] # "none" => /\ k = "xhci" /\ A.pc = "poll"
                                           /\ \E i \in Entry : D[i].present /\ D[i].chan = n /\ A.at <= i
  /\ \A n \in Chan : C.state[n] = "error" \/ C.flag[n] = "error" => ~ Here(P, C.with[n])

Full(k, P, D, C, A) ==
  Shapes(k, P, D, C, A) /\ Table(k, D, C, A) /\ Names(P, D, A) /\ Faces(k, P, A) /\ Known(P, D, A) /\ Addressed(k, P, D, A)
  /\ Wired(k, P, D, C, A)
Inv == Full(kind, port, devs, intr, act)

LEMMA BoundsAre == ASSUME ConstantsOK PROVE /\ Ports \in Nat /\ Ports >= 1 /\ MaxDevs \in Nat /\ MaxDevs >= 1
                                            /\ MaxInt \in Nat /\ MaxInt >= 1 /\ Plugs \in Nat /\ Plugs >= 1
  BY DEF ConstantsOK

LEMMA ShapesAre ==
  ASSUME ConstantsOK, NEW k, NEW P, NEW D, NEW C, NEW A, Shapes(k, P, D, C, A)
  PROVE  /\ k \in {"xhci", "ehci", "ohci"}
         /\ P \in [Port -> Places] /\ D \in [Entry -> Rows] /\ C \in Ends /\ A \in Acts
         /\ \A p \in Port : /\ P[p] \in Places /\ P[p].is \in 0 .. Plugs /\ P[p].addr \in 0 .. MaxDevs
                            /\ P[p].change \in BOOLEAN /\ P[p].away \in BOOLEAN /\ P[p].on \in BOOLEAN
         /\ \A i \in Entry : /\ D[i] \in Rows /\ D[i].is \in 0 .. Plugs /\ D[i].addr \in 0 .. MaxDevs /\ D[i].port \in 0 .. Ports
                             /\ D[i].chan \in 0 .. MaxInt /\ D[i].present \in BOOLEAN
                             /\ D[i].chan # 0 => D[i].chan \in Chan
         /\ C.used \in [Chan -> BOOLEAN] /\ C.with \in [Chan -> 0 .. Plugs]
         /\ C.state \in [Chan -> {"idle", "armed", "done", "error"}] /\ C.flag \in [Chan -> {"none", "done", "error"}]
         /\ C.next \in [0 .. MaxInt -> 0 .. MaxInt]
         /\ A.pc \in {"scan", "address", "describe", "configure", "poll"} /\ A.at \in Nat /\ A.first \in BOOLEAN
         /\ A.entry \in 0 .. MaxDevs /\ A.is \in 0 .. Plugs /\ A.plugs \in 0 .. Plugs
<1>1. k \in {"xhci", "ehci", "ohci"} /\ P \in [Port -> Places] /\ D \in [Entry -> Rows] /\ C \in Ends /\ A \in Acts
  BY DEF Shapes
<1>2. ASSUME NEW p \in Port
      PROVE  /\ P[p] \in Places /\ P[p].is \in 0 .. Plugs /\ P[p].addr \in 0 .. MaxDevs
             /\ P[p].change \in BOOLEAN /\ P[p].away \in BOOLEAN /\ P[p].on \in BOOLEAN
  <2>1. P[p] \in Places
    BY <1>1
  <2> QED
    BY <2>1 DEF Places
<1>3. ASSUME NEW i \in Entry
      PROVE  /\ D[i] \in Rows /\ D[i].is \in 0 .. Plugs /\ D[i].addr \in 0 .. MaxDevs /\ D[i].port \in 0 .. Ports
             /\ D[i].chan \in 0 .. MaxInt /\ D[i].present \in BOOLEAN
             /\ D[i].chan # 0 => D[i].chan \in Chan
  <2>1. D[i] \in Rows
    BY <1>1
  <2>2. /\ D[i].is \in 0 .. Plugs /\ D[i].addr \in 0 .. MaxDevs /\ D[i].port \in 0 .. Ports
        /\ D[i].chan \in 0 .. MaxInt /\ D[i].present \in BOOLEAN
    BY <2>1 DEF Rows
  <2>3. D[i].chan # 0 => D[i].chan \in Chan
    BY <2>2, BoundsAre DEF Chan
  <2> QED
    BY <2>1, <2>2, <2>3
<1>4. /\ C.used \in [Chan -> BOOLEAN] /\ C.with \in [Chan -> 0 .. Plugs]
      /\ C.state \in [Chan -> {"idle", "armed", "done", "error"}] /\ C.flag \in [Chan -> {"none", "done", "error"}]
      /\ C.next \in [0 .. MaxInt -> 0 .. MaxInt]
  BY <1>1 DEF Ends
<1>5. /\ A.pc \in {"scan", "address", "describe", "configure", "poll"} /\ A.at \in Nat /\ A.first \in BOOLEAN
      /\ A.entry \in 0 .. MaxDevs /\ A.is \in 0 .. Plugs /\ A.plugs \in 0 .. Plugs
  BY <1>1 DEF Acts
<1> QED
  BY <1>1, <1>2, <1>3, <1>4, <1>5

(* xhci_events() empties the ring of events into the notes of the slots. *)
LEMMA EventsAre ==
  ASSUME ConstantsOK, NEW C \in Ends, kind \in {"xhci", "ehci", "ohci"}, NEW E, E = Events(C)
  PROVE  /\ E \in Ends /\ E.used = C.used /\ E.with = C.with /\ E.next = C.next
         /\ kind # "xhci" => E = C
         /\ kind = "xhci" => \A n \in Chan :
              IF C.state[n] \in {"done", "error"} THEN E.flag[n] = C.state[n] /\ E.state[n] = "idle"
              ELSE E.flag[n] = C.flag[n] /\ E.state[n] = C.state[n]
<1>1. /\ C.state \in [Chan -> {"idle", "armed", "done", "error"}] /\ C.flag \in [Chan -> {"none", "done", "error"}]
  BY DEF Ends
<1>2. CASE kind # "xhci"
  BY <1>2 DEF Events
<1>3. CASE kind = "xhci"
  <2> DEFINE f == [n \in Chan |-> IF C.state[n] \in {"done", "error"} THEN C.state[n] ELSE C.flag[n]]
             s == [n \in Chan |-> IF C.state[n] \in {"done", "error"} THEN "idle" ELSE C.state[n]]
  <2>1. E = [C EXCEPT !.flag = f, !.state = s]
    BY <1>3 DEF Events
  <2>2. f \in [Chan -> {"none", "done", "error"}] /\ s \in [Chan -> {"idle", "armed", "done", "error"}]
    BY <1>1
  <2>3. \A n \in Chan : IF C.state[n] \in {"done", "error"} THEN f[n] = C.state[n] /\ s[n] = "idle"
                        ELSE f[n] = C.flag[n] /\ s[n] = C.state[n]
    OBVIOUS
  <2> HIDE DEF f, s
  <2>4. E \in Ends /\ E.used = C.used /\ E.with = C.with /\ E.next = C.next /\ E.flag = f /\ E.state = s
    BY <2>1, <2>2 DEF Ends
  <2> QED
    BY <1>3, <2>3, <2>4
<1> QED
  BY <1>2, <1>3

(* Two records of endpoints are the same where they say the same. *)
LEMMA EndsSame ==
  ASSUME NEW C \in Ends, NEW E \in Ends, E.used = C.used, E.with = C.with, E.next = C.next,
         \A n \in Chan : E.state[n] = C.state[n] /\ E.flag[n] = C.flag[n]
  PROVE  E = C
<1>1. E.state \in [Chan -> {"idle", "armed", "done", "error"}] /\ C.state \in [Chan -> {"idle", "armed", "done", "error"}]
      /\ E.flag \in [Chan -> {"none", "done", "error"}] /\ C.flag \in [Chan -> {"none", "done", "error"}]
  BY DEF Ends
<1>2. E.state = C.state /\ E.flag = C.flag
  BY <1>1
<1> QED
  BY <1>2 DEF Ends

LEMMA NoEvents ==
  ASSUME ConstantsOK, NEW C \in Ends, kind \in {"xhci", "ehci", "ohci"},
         kind = "xhci" => \A n \in Chan : ~ (C.state[n] \in {"done", "error"})
  PROVE  Events(C) = C
<1>1. CASE kind # "xhci"
  BY <1>1 DEF Events
<1>2. CASE kind = "xhci"
  <2> DEFINE E == Events(C)
  <2>1. E = Events(C)
    OBVIOUS
  <2> HIDE DEF E
  <2>2. /\ E \in Ends /\ E.used = C.used /\ E.with = C.with /\ E.next = C.next
        /\ \A n \in Chan : E.state[n] = C.state[n] /\ E.flag[n] = C.flag[n]
    BY <1>2, <2>1, EventsAre
  <2>3. E = C
    BY <2>2, EndsSame
  <2> QED
    BY <2>1, <2>3
<1> QED
  BY <1>1, <1>2

LEMMA EventsFull ==
  ASSUME ConstantsOK, NEW P, NEW D, NEW C, NEW A, Full(kind, P, D, C, A), NEW E, E = Events(C)
  PROVE  /\ Full(kind, P, D, E, A)
         /\ kind = "xhci" => \A n \in Chan : ~ (E.state[n] \in {"done", "error"})
         /\ kind # "xhci" => E = C
<1>1. /\ Shapes(kind, P, D, C, A) /\ Table(kind, D, C, A) /\ Names(P, D, A) /\ Faces(kind, P, A) /\ Known(P, D, A)
      /\ Addressed(kind, P, D, A) /\ Wired(kind, P, D, C, A)
  BY DEF Full
<1>2. C \in Ends /\ kind \in {"xhci", "ehci", "ohci"} /\ (\A i \in Entry : D[i].chan # 0 => D[i].chan \in Chan)
      /\ (\A n \in Chan : C.flag[n] \in {"none", "done", "error"})
  BY <1>1, ShapesAre
<1>3. /\ E \in Ends /\ E.used = C.used /\ E.with = C.with /\ E.next = C.next
      /\ kind # "xhci" => E = C
      /\ kind = "xhci" => \A n \in Chan :
           IF C.state[n] \in {"done", "error"} THEN E.flag[n] = C.state[n] /\ E.state[n] = "idle"
           ELSE E.flag[n] = C.flag[n] /\ E.state[n] = C.state[n]
  BY <1>2, EventsAre
<1>4. CASE kind # "xhci"
  BY <1>3, <1>4
<1>5. CASE kind = "xhci"
  <2>1. Shapes(kind, P, D, E, A) /\ Table(kind, D, E, A)
    BY <1>1, <1>3 DEF Shapes, Table
  <2>2. \A n \in Chan : ~ E.used[n] => E.state[n] = "idle"
    BY <1>1, <1>3, <1>5 DEF Wired
  <2>3. \A i \in Entry : D[i].present /\ D[i].chan # 0 => IF Making(A, i) THEN E.state[D[i].chan] = "idle" ELSE E.with[D[i].chan] = D[i].is
    BY <1>1, <1>2, <1>3, <1>5 DEF Wired
  <2>4. \A n \in Chan : ~ (E.state[n] \in {"done", "error"})
    BY <1>3, <1>5
  <2>5. ASSUME NEW n \in Chan, E.flag[n] # "none"
        PROVE  A.pc = "poll" /\ \E i \in Entry : D[i].present /\ D[i].chan = n /\ A.at <= i
    <3>1. CASE C.state[n] \in {"done", "error"}
      <4>1. A.pc = "poll" /\ A.at = 1 /\ C.used[n]
        BY <1>1, <1>5, <3>1 DEF Wired
      <4>2. PICK i \in Entry : D[i].present /\ D[i].chan = n
        BY <1>1, <4>1 DEF Table
      <4>3. A.at <= i
        BY <4>1, BoundsAre DEF Entry
      <4> QED
        BY <4>1, <4>2, <4>3
    <3>2. CASE ~ (C.state[n] \in {"done", "error"})
      BY <1>1, <1>3, <1>5, <2>5, <3>2 DEF Wired
    <3> QED
      BY <3>1, <3>2
  <2>6. \A n \in Chan : E.state[n] = "error" \/ E.flag[n] = "error" => ~ Here(P, E.with[n])
    BY <1>1, <1>3, <1>5, <2>4 DEF Wired
  <2>7. Wired(kind, P, D, E, A)
    BY <1>5, <2>2, <2>3, <2>4, <2>5, <2>6 DEF Wired
  <2> QED
    BY <1>1, <1>5, <2>1, <2>4, <2>7 DEF Full
<1> QED
  BY <1>4, <1>5

(* An entry and its endpoint are given back. *)
Freed(C, n) == IF n = 0 THEN C
               ELSE [C EXCEPT !.used[n] = FALSE, !.with[n] = 0, !.state[n] = "idle", !.flag[n] = "none"]

LEMMA FreedIs ==
  ASSUME ConstantsOK, NEW C \in Ends, NEW n \in 0 .. MaxInt, NEW E, E = Freed(C, n)
  PROVE  /\ E \in Ends /\ (n = 0 => E = C)
         /\ \A m \in Chan : IF m = n THEN ~ E.used[m] /\ E.state[m] = "idle" /\ E.flag[m] = "none"
                            ELSE E.used[m] = C.used[m] /\ E.with[m] = C.with[m] /\ E.state[m] = C.state[m] /\ E.flag[m] = C.flag[m]
<1>1. CASE n = 0
  <2>1. \A m \in Chan : m # n
    BY <1>1 DEF Chan
  <2> QED
    BY <1>1, <2>1 DEF Freed
<1>2. CASE n # 0
  <2> DEFINE no == FALSE
             zero == 0
             u == [C.used EXCEPT ![n] = no]
             w == [C.with EXCEPT ![n] = zero]
             s == [C.state EXCEPT ![n] = "idle"]
             f == [C.flag EXCEPT ![n] = "none"]
  <2>1. /\ C.used \in [Chan -> BOOLEAN] /\ C.with \in [Chan -> 0 .. Plugs]
        /\ C.state \in [Chan -> {"idle", "armed", "done", "error"}] /\ C.flag \in [Chan -> {"none", "done", "error"}]
    BY DEF Ends
  <2>2. E = [C EXCEPT !.used = u, !.with = w, !.state = s, !.flag = f] /\ n \in Chan /\ no \in BOOLEAN /\ zero \in 0 .. Plugs
    BY <1>2, BoundsAre DEF Freed, Chan
  <2> HIDE DEF no, zero
  <2>3. /\ u \in [Chan -> BOOLEAN] /\ w \in [Chan -> 0 .. Plugs]
        /\ s \in [Chan -> {"idle", "armed", "done", "error"}] /\ f \in [Chan -> {"none", "done", "error"}]
        /\ \A m \in Chan : IF m = n THEN u[m] = no /\ s[m] = "idle" /\ f[m] = "none"
                           ELSE u[m] = C.used[m] /\ w[m] = C.with[m] /\ s[m] = C.state[m] /\ f[m] = C.flag[m]
    BY <2>1, <2>2
  <2> HIDE DEF u, w, s, f
  <2>4. E \in Ends /\ E.used = u /\ E.with = w /\ E.state = s /\ E.flag = f
    BY <2>2, <2>3 DEF Ends
  <2> QED
    BY <1>2, <2>3, <2>4 DEF no
<1> QED
  BY <1>1, <1>2

(* Where it is not made any more, what was said of it is said of nobody. *)
LEMMA RemovedFull ==
  ASSUME ConstantsOK, NEW P, NEW D, NEW C, NEW A, Full(kind, P, D, C, A), NEW i \in Entry, D[i].present,
         ~ Here(P, D[i].is) \/ (kind = "xhci" /\ Making(A, i)),
         NEW F, F = [D EXCEPT ![i] = NoEntry], NEW E, E = Freed(C, D[i].chan),
         NEW B \in Acts, B.at = A.at, B.is = A.is, B.plugs = A.plugs, B.first = A.first,
         IF Making(A, i) THEN B.pc = "address" ELSE B.pc = A.pc /\ A.pc \in {"scan", "poll"}
  PROVE  Full(kind, P, F, E, B)
<1>1. /\ Shapes(kind, P, D, C, A) /\ Table(kind, D, C, A) /\ Names(P, D, A) /\ Faces(kind, P, A) /\ Known(P, D, A)
      /\ Addressed(kind, P, D, A) /\ Wired(kind, P, D, C, A)
  BY DEF Full
<1>2. /\ C \in Ends /\ kind \in {"xhci", "ehci", "ohci"} /\ D \in [Entry -> Rows] /\ A \in Acts
      /\ \A j \in Entry : D[j].chan \in 0 .. MaxInt /\ (D[j].chan # 0 => D[j].chan \in Chan)
  BY <1>1, ShapesAre
<1> DEFINE no == FALSE
           row == [present |-> no, port |-> 0, addr |-> 0, chan |-> 0, fn |-> "none", is |-> 0]
<1>3. F = [D EXCEPT ![i] = row] /\ row \in Rows /\ ~ row.present
  BY BoundsAre DEF NoEntry, Rows
<1> HIDE DEF row
<1>4. F \in [Entry -> Rows] /\ ~ F[i].present /\ \A j \in Entry : j # i => F[j] = D[j]
  BY <1>2, <1>3
<1>5. /\ E \in Ends
      /\ \A m \in Chan : IF m = D[i].chan THEN ~ E.used[m] /\ E.state[m] = "idle" /\ E.flag[m] = "none"
                         ELSE E.used[m] = C.used[m] /\ E.with[m] = C.with[m] /\ E.state[m] = C.state[m] /\ E.flag[m] = C.flag[m]
  BY <1>2, FreedIs
<1>6. Shapes(kind, P, F, E, B)
  BY <1>1, <1>4, <1>5 DEF Shapes
<1>7. /\ \A j \in Entry : F[j].present => j # i /\ D[j].present /\ F[j] = D[j]
      /\ \A j \in Entry : ~ Making(B, j)
      /\ \A j \in Entry : j # i => ~ Making(A, j)
  BY <1>4 DEF Making
<1>8. Making(A, i) => D[i].port = A.at /\ A.pc \in {"describe", "configure"} /\ A.at \in Port
  BY <1>1 DEF Making, Table
<1>9. Table(kind, F, E, B)
  <2>1. IF B.pc = "poll" THEN B.at \in Entry ELSE B.at \in Port
    BY <1>1, <1>8 DEF Table
  <2>2. B.pc = "address" => \A j \in Entry : F[j].present => F[j].port # B.at
    BY <1>1, <1>7, <1>8 DEF Table
  <2>3. \A j \in Entry : F[j].present => F[j].port \in Port /\ F[j].chan # 0
    BY <1>1, <1>7 DEF Table
  <2>4. \A j, h \in Entry : F[j].present /\ F[h].present /\ j # h => F[j].port # F[h].port /\ (F[j].chan # 0 => F[j].chan # F[h].chan)
    BY <1>1, <1>7 DEF Table
  <2>5. ASSUME NEW n \in Chan PROVE E.used[n] <=> \E j \in Entry : F[j].present /\ F[j].chan = n
    <3>1. CASE n = D[i].chan
      <4>1. n # 0
        BY DEF Chan
      <4>2. ASSUME NEW j \in Entry, F[j].present, F[j].chan = n PROVE FALSE
        BY <1>1, <1>7, <3>1, <4>1, <4>2 DEF Table
      <4> QED
        BY <1>5, <3>1, <4>2
    <3>2. CASE n # D[i].chan
      <4>1. C.used[n] <=> \E j \in Entry : D[j].present /\ D[j].chan = n
        BY <1>1 DEF Table
      <4>2. (\E j \in Entry : D[j].present /\ D[j].chan = n) <=> \E j \in Entry : F[j].present /\ F[j].chan = n
        BY <1>4, <1>7, <3>2
      <4>3. E.used[n] = C.used[n]
        BY <1>5, <3>2
      <4> QED
        BY <4>1, <4>2, <4>3
    <3> QED
      BY <3>1, <3>2
  <2>6. ~ (B.pc \in {"describe", "configure"})
    BY <1>7
  <2> QED
    BY <1>7, <2>1, <2>2, <2>3, <2>4, <2>5, <2>6 DEF Table
<1>10. Names(P, F, B)
  <2>1. Busy(B) => Busy(A)
    BY <1>8 DEF Busy
  <2>2. ~ (B.pc \in {"describe", "configure"})
    BY <1>7
  <2> QED
    BY <1>1, <1>7, <2>1, <2>2 DEF Names
<1>11. Faces(kind, P, B)
  <2>1. Busy(B) => Busy(A)
    BY <1>8 DEF Busy
  <2>2. B.pc = "poll" => A.pc = "poll"
    OBVIOUS
  <2>3. B.pc = "scan" => A.pc = "scan"
    OBVIOUS
  <2> QED
    BY <1>1, <2>1, <2>2, <2>3 DEF Faces
<1>12. Known(P, F, B)
  <2> SUFFICES ASSUME NEW p \in Port, ~ P[p].change, ~ (Busy(B) /\ p = B.at), ~ P[p].away
               PROVE  /\ \A j \in Entry : F[j].present /\ F[j].port = p => P[p].is # 0 /\ F[j].is = P[p].is
                      /\ P[p].is # 0 /\ P[p].fn # "none" => \E j \in Entry : F[j].present /\ F[j].port = p
    BY DEF Known
  <2>1. ~ (Busy(A) /\ p = A.at)
    BY <1>8 DEF Busy, Making
  <2>2. /\ \A j \in Entry : D[j].present /\ D[j].port = p => P[p].is # 0 /\ D[j].is = P[p].is
        /\ P[p].is # 0 /\ P[p].fn # "none" => \E j \in Entry : D[j].present /\ D[j].port = p
    BY <1>1, <2>1 DEF Known
  <2>3. D[i].port # p
    <3>1. CASE Making(A, i)
      BY <1>8, <2>1, <3>1 DEF Busy
    <3>2. CASE ~ Making(A, i)
      <4>1. ~ Here(P, D[i].is)
        BY <3>2
      <4>2. D[i].port = p => P[p].is = D[i].is /\ P[p].on
        BY <1>1, <2>2 DEF Names
      <4> QED
        BY <4>1, <4>2 DEF Here
    <3> QED
      BY <3>1, <3>2
  <2> QED
    BY <1>4, <1>7, <2>2, <2>3
<1>13. Addressed(kind, P, F, B)
  <2>1. \A j \in Entry : F[j].present => F[j].addr = j
    BY <1>1, <1>7 DEF Addressed
  <2>2. ASSUME kind # "xhci", NEW p \in Port, P[p].on
        PROVE  IF P[p].addr = 0 THEN B.pc = "address" /\ B.at = p
               ELSE F[P[p].addr].present /\ F[P[p].addr].port = p /\ F[P[p].addr].is = P[p].is
    <3>1. IF P[p].addr = 0 THEN A.pc = "address" /\ A.at = p
          ELSE D[P[p].addr].present /\ D[P[p].addr].port = p /\ D[P[p].addr].is = P[p].is
      BY <1>1, <2>2 DEF Addressed
    <3>2. ~ Here(P, D[i].is)
      BY <2>2
    <3>3. P[p].addr # i
      BY <2>2, <3>1, <3>2 DEF Here, Entry
    <3>4. A.pc # "address"
      BY DEF Making
    <3>5. P[p].addr # 0 => P[p].addr \in Entry
      BY <1>1, ShapesAre, BoundsAre DEF Entry
    <3> QED
      BY <1>4, <3>1, <3>3, <3>4, <3>5
  <2> QED
    BY <2>1, <2>2 DEF Addressed
<1>14. Wired(kind, P, F, E, B)
  <2>1. \A n \in Chan : ~ E.used[n] => E.state[n] = "idle"
    BY <1>1, <1>5 DEF Wired
  <2>2. ASSUME NEW j \in Entry, F[j].present, F[j].chan # 0 PROVE E.with[F[j].chan] = F[j].is
    <3>1. j # i /\ D[j].present /\ F[j] = D[j] /\ ~ Making(A, j)
      BY <1>7, <2>2
    <3>2. C.with[D[j].chan] = D[j].is /\ D[j].chan \in Chan
      BY <1>1, <1>2, <2>2, <3>1 DEF Wired
    <3>3. D[j].chan # D[i].chan
      BY <1>1, <2>2, <3>1 DEF Table
    <3> QED
      BY <1>5, <3>1, <3>2, <3>3
  <2>3. \A n \in Chan : kind = "xhci" /\ E.state[n] \in {"done", "error"} => B.pc = "poll" /\ B.at = 1
    <3>1. \A n \in Chan : E.state[n] \in {"done", "error"} => C.state[n] \in {"done", "error"}
      BY <1>5
    <3>2. A.pc = "poll" => B.pc = "poll"
      BY DEF Making
    <3> QED
      BY <1>1, <3>1, <3>2 DEF Wired
  <2>4. ASSUME NEW n \in Chan, E.flag[n] # "none"
        PROVE  kind = "xhci" /\ B.pc = "poll" /\ \E j \in Entry : F[j].present /\ F[j].chan = n /\ B.at <= j
    <3>1. n # D[i].chan /\ C.flag[n] # "none"
      BY <1>5, <2>4
    <3>2. A.pc = "poll" => B.pc = "poll"
      BY DEF Making
    <3>3. PICK j \in Entry : D[j].present /\ D[j].chan = n /\ A.at <= j
      BY <1>1, <3>1 DEF Wired
    <3>4. j # i /\ F[j] = D[j]
      BY <1>4, <3>1, <3>3
    <3>5. kind = "xhci" /\ A.pc = "poll"
      BY <1>1, <3>1 DEF Wired
    <3> QED
      BY <3>2, <3>3, <3>4, <3>5
  <2>5. \A n \in Chan : E.state[n] = "error" \/ E.flag[n] = "error" => ~ Here(P, E.with[n])
    BY <1>1, <1>5 DEF Wired
  <2> QED
    BY <1>7, <2>1, <2>2, <2>3, <2>4, <2>5 DEF Wired
<1> QED
  BY <1>6, <1>9, <1>10, <1>11, <1>12, <1>13, <1>14 DEF Full

(* NextPort, of any place in a scan. *)
NextOf(A) == IF A.at < Ports THEN [A EXCEPT !.pc = "scan", !.at = @ + 1, !.entry = 0, !.is = 0]
             ELSE [A EXCEPT !.pc = "poll", !.at = 1, !.first = FALSE, !.entry = 0, !.is = 0]

LEMMA NextIs == NextPort = NextOf(act)
  BY DEF NextPort, NextOf

LEMMA NextOfIs ==
  ASSUME ConstantsOK, NEW A \in Acts, A.at \in Port, NEW B, B = NextOf(A)
  PROVE  /\ B \in Acts /\ B.pc \in {"scan", "poll"} /\ B.plugs = A.plugs
         /\ B.pc = "poll" => B.at = 1 /\ B.at \in Entry /\ ~ B.first
         /\ B.pc = "scan" => B.at = A.at + 1 /\ B.at \in Port /\ B.first = A.first
<1>1. A.at \in Nat /\ A.at >= 1 /\ A.at <= Ports /\ 1 \in Entry /\ Ports \in Nat
  BY BoundsAre DEF Port, Entry
<1> DEFINE no == FALSE
           zero == 0
           one == 1
<1>2. zero \in 0 .. MaxDevs /\ zero \in 0 .. Plugs /\ no \in BOOLEAN /\ one \in Nat
  BY BoundsAre
<1>3. CASE A.at < Ports
  <2> DEFINE u == A.at + 1
  <2>1. B = [A EXCEPT !.pc = "scan", !.at = u, !.entry = zero, !.is = zero]
    BY <1>3 DEF NextOf
  <2>2. u \in Nat /\ u \in Port
    BY <1>1, <1>3 DEF Port
  <2> HIDE DEF u, zero
  <2>3. B \in Acts /\ B.pc = "scan" /\ B.plugs = A.plugs /\ B.at = u /\ B.first = A.first
    BY <1>2, <2>1, <2>2 DEF Acts
  <2> QED
    BY <2>2, <2>3 DEF u
<1>4. CASE ~ (A.at < Ports)
  <2>1. B = [A EXCEPT !.pc = "poll", !.at = one, !.first = no, !.entry = zero, !.is = zero]
    BY <1>4 DEF NextOf
  <2> HIDE DEF zero, one, no
  <2>2. B \in Acts /\ B.pc = "poll" /\ B.plugs = A.plugs /\ B.at = one /\ B.first = no
    BY <1>2, <2>1 DEF Acts
  <2> QED
    BY <1>1, <2>2 DEF one, no
<1> QED
  BY <1>3, <1>4

(* The scan goes on: nothing is half made. *)
LEMMA GoesOnFull ==
  ASSUME ConstantsOK, NEW P, NEW D, NEW C, NEW A, Full(kind, P, D, C, A), A.pc \in {"scan", "address"}, NEW w \in Places,
         w.is = P[A.at].is, w.on = P[A.at].on, w.addr = P[A.at].addr, w.fn = P[A.at].fn, w.speed = P[A.at].speed,
         w.on => ~ w.change /\ ~ w.away, A.pc = "address" /\ kind # "xhci" => ~ w.on,
         \/ w.change \/ w.away
         \/ A.pc = "scan" /\ ~ P[A.at].change /\ ~ P[A.at].away
         \/ (w.is = 0 \/ w.fn = "none") /\ \A i \in Entry : D[i].present => D[i].port # A.at,
         NEW Q, Q = [P EXCEPT ![A.at] = w], NEW B, B = NextOf(A)
  PROVE  Full(kind, Q, D, C, B)
<1>1. /\ Shapes(kind, P, D, C, A) /\ Table(kind, D, C, A) /\ Names(P, D, A) /\ Faces(kind, P, A) /\ Known(P, D, A)
      /\ Addressed(kind, P, D, A) /\ Wired(kind, P, D, C, A)
  BY DEF Full
<1>2. A \in Acts /\ A.at \in Port /\ P \in [Port -> Places] /\ A.at \in Nat /\ Port \subseteq Nat
  BY <1>1, ShapesAre DEF Table, Port
<1>3. /\ B \in Acts /\ B.pc \in {"scan", "poll"} /\ B.plugs = A.plugs
      /\ B.pc = "poll" => B.at = 1 /\ B.at \in Entry /\ ~ B.first
      /\ B.pc = "scan" => B.at = A.at + 1 /\ B.at \in Port /\ B.first = A.first
  BY <1>2, NextOfIs
<1>4. Q \in [Port -> Places] /\ Q[A.at] = w /\ \A p \in Port : p # A.at => Q[p] = P[p]
  BY <1>2
<1>5. \A p \in Port : /\ Q[p].is = P[p].is /\ Q[p].on = P[p].on /\ Q[p].addr = P[p].addr /\ Q[p].fn = P[p].fn
                      /\ Q[p].speed = P[p].speed
  BY <1>4
<1>6. ~ Busy(B) /\ (\A i : ~ Making(B, i)) /\ \A i : ~ Making(A, i)
  BY <1>3 DEF Busy, Making
<1>7. Shapes(kind, Q, D, C, B)
  BY <1>1, <1>3, <1>4 DEF Shapes
<1>8. Table(kind, D, C, B)
  BY <1>1, <1>3, <1>6 DEF Table
<1>9. Names(Q, D, B)
  BY <1>1, <1>3, <1>5, <1>6 DEF Names
<1>10. Faces(kind, Q, B)
  <2>1. \A p \in Port : Q[p].on => Q[p].is # 0 /\ ~ Q[p].away /\ ~ Q[p].change /\ ~ Slow(kind, Q[p].speed)
    BY <1>1, <1>2, <1>4, <1>5 DEF Faces
  <2>2. \A p \in Port : Q[p].is # 0 /\ Q[p].fn = "none" => kind = "xhci"
    BY <1>1, <1>5 DEF Faces
  <2>3. ASSUME B.first, NEW p \in Port, Q[p].is # 0, B.at < p \/ (B.at = p /\ B.pc = "scan") PROVE Q[p].change
    <3>1. B.pc = "scan" /\ A.first /\ p \in Nat
      BY <1>2, <1>3, <2>3
    <3>2. A.at < p /\ p # A.at
      BY <1>2, <1>3, <2>3, <3>1
    <3>3. P[p].change
      BY <1>1, <1>5, <2>3, <3>1, <3>2 DEF Faces
    <3> QED
      BY <1>4, <3>2, <3>3
  <2> QED
    BY <1>3, <1>6, <2>1, <2>2, <2>3 DEF Faces
<1>11. Known(Q, D, B)
  <2> SUFFICES ASSUME NEW p \in Port, ~ Q[p].change, ~ Q[p].away
               PROVE  /\ \A i \in Entry : D[i].present /\ D[i].port = p => Q[p].is # 0 /\ D[i].is = Q[p].is
                      /\ Q[p].is # 0 /\ Q[p].fn # "none" => \E i \in Entry : D[i].present /\ D[i].port = p
    BY DEF Known
  <2>1. CASE p # A.at
    BY <1>1, <1>4, <2>1 DEF Known
  <2>2. CASE p = A.at /\ A.pc = "scan" /\ ~ P[A.at].change /\ ~ P[A.at].away
    <3>1. ~ (Busy(A) /\ p = A.at)
      BY <2>2 DEF Busy
    <3> QED
      BY <1>1, <1>5, <2>2, <3>1 DEF Known
  <2>3. CASE p = A.at /\ (w.is = 0 \/ w.fn = "none") /\ \A i \in Entry : D[i].present => D[i].port # A.at
    BY <1>4, <2>3
  <2> QED
    BY <1>4, <2>1, <2>2, <2>3
<1>12. Addressed(kind, Q, D, B)
  <2>1. ASSUME kind # "xhci", NEW p \in Port, Q[p].on
        PROVE  IF Q[p].addr = 0 THEN B.pc = "address" /\ B.at = p
               ELSE D[Q[p].addr].present /\ D[Q[p].addr].port = p /\ D[Q[p].addr].is = Q[p].is
    <3>1. IF P[p].addr = 0 THEN A.pc = "address" /\ A.at = p
          ELSE D[P[p].addr].present /\ D[P[p].addr].port = p /\ D[P[p].addr].is = P[p].is
      BY <1>1, <1>5, <2>1 DEF Addressed
    <3>2. ~ (A.pc = "address" /\ A.at = p)
      BY <1>4, <2>1
    <3> QED
      BY <1>5, <3>1, <3>2
  <2> QED
    BY <1>1, <2>1 DEF Addressed
<1>13. Wired(kind, Q, D, C, B)
  <2>1. \A n \in Chan : (kind = "xhci" => ~ (C.state[n] \in {"done", "error"})) /\ C.flag[n] = "none"
    BY <1>1 DEF Wired
  <2>2. \A is : Here(Q, is) => Here(P, is)
    BY <1>5 DEF Here
  <2> QED
    BY <1>1, <1>6, <2>1, <2>2 DEF Wired
<1> QED
  BY <1>7, <1>8, <1>9, <1>10, <1>11, <1>12, <1>13 DEF Full

(* A device is reset: it is at address 0, and there is no entry for its port. *)
LEMMA ResetFull ==
  ASSUME ConstantsOK, NEW P, NEW D, NEW C, Full(kind, P, D, C, act), act.pc = "scan", NEW w \in Places,
         w.is = P[act.at].is, w.is # 0, w.on, w.addr = 0, ~ w.change, ~ w.away, w.fn = P[act.at].fn, ~ Slow(kind, w.speed),
         \A i \in Entry : D[i].present => D[i].port # act.at,
         NEW Q, Q = [P EXCEPT ![act.at] = w], NEW B, B = [act EXCEPT !.pc = "address", !.is = w.is]
  PROVE  Full(kind, Q, D, C, B)
<1>1. /\ Shapes(kind, P, D, C, act) /\ Table(kind, D, C, act) /\ Names(P, D, act) /\ Faces(kind, P, act) /\ Known(P, D, act)
      /\ Addressed(kind, P, D, act) /\ Wired(kind, P, D, C, act)
  BY DEF Full
<1>2. /\ act \in Acts /\ act.at \in Port /\ P \in [Port -> Places] /\ w.is \in 0 .. Plugs /\ act.plugs \in Nat /\ Plugs \in Nat
      /\ \A i \in Entry : D[i].is \in Nat
  BY <1>1, ShapesAre, BoundsAre DEF Table, Places
<1>3. B \in Acts /\ B.pc = "address" /\ B.is = w.is /\ B.at = act.at /\ B.plugs = act.plugs /\ B.first = act.first
  BY <1>2 DEF Acts
<1>4. Q \in [Port -> Places] /\ Q[act.at] = w /\ \A p \in Port : p # act.at => Q[p] = P[p]
  BY <1>2
<1>5. \A p \in Port : Q[p].is = P[p].is
  BY <1>4
<1>6. Busy(B) /\ (\A i : ~ Making(B, i)) /\ \A i : ~ Making(act, i)
  BY <1>3 DEF Busy, Making
<1>7. Shapes(kind, Q, D, C, B)
  BY <1>1, <1>3, <1>4 DEF Shapes
<1>8. Table(kind, D, C, B)
  BY <1>1, <1>2, <1>3, <1>6 DEF Table
<1>9. Names(Q, D, B)
  <2>1. \A p, q \in Port : Q[p].is # 0 /\ p # q => Q[p].is # Q[q].is
    BY <1>1, <1>5 DEF Names
  <2>2. \A i \in Entry : D[i].present => /\ 0 < D[i].is /\ D[i].is <= B.plugs
                                         /\ \A p \in Port : Q[p].is = D[i].is => p = D[i].port /\ Q[p].on
    BY <1>1, <1>3, <1>4, <1>5 DEF Names
  <2>3. w.is = P[act.at].is /\ 0 < w.is /\ w.is <= B.plugs
    BY <1>1, <1>2, <1>3 DEF Names
  <2>4. \A p \in Port : Q[p].is = B.is => p = B.at
    BY <1>2, <1>3, <1>4, <2>1
  <2> QED
    BY <1>1, <1>3, <1>5, <2>1, <2>2, <2>3, <2>4 DEF Names
<1>10. Faces(kind, Q, B)
  <2>1. \A p \in Port : Q[p].on => Q[p].is # 0 /\ ~ Q[p].away /\ ~ Q[p].change /\ ~ Slow(kind, Q[p].speed)
    BY <1>1, <1>4 DEF Faces
  <2>2. \A p \in Port : Q[p].is # 0 /\ Q[p].fn = "none" => kind = "xhci"
    BY <1>1, <1>2, <1>4 DEF Faces
  <2>3. Q[B.at].on /\ Q[B.at].is = B.is
    BY <1>3, <1>4
  <2>4. ASSUME B.first, NEW p \in Port, Q[p].is # 0, B.at < p PROVE Q[p].change
    <3>1. p # act.at
      BY <1>3, <2>4 DEF Port
    <3> QED
      BY <1>1, <1>3, <1>4, <2>4, <3>1 DEF Faces
  <2> QED
    BY <1>3, <2>1, <2>2, <2>3, <2>4 DEF Faces
<1>11. Known(Q, D, B)
  <2>1. ~ Busy(act)
    BY DEF Busy
  <2> QED
    BY <1>1, <1>3, <1>4, <1>6, <2>1 DEF Known
<1>12. Addressed(kind, Q, D, B)
  <2>1. ASSUME kind # "xhci", NEW p \in Port, Q[p].on
        PROVE  IF Q[p].addr = 0 THEN B.pc = "address" /\ B.at = p
               ELSE D[Q[p].addr].present /\ D[Q[p].addr].port = p /\ D[Q[p].addr].is = Q[p].is
    <3>1. CASE p = act.at
      BY <1>3, <1>4, <3>1
    <3>2. CASE p # act.at
      BY <1>1, <1>4, <2>1, <3>2 DEF Addressed
    <3> QED
      BY <3>1, <3>2
  <2> QED
    BY <1>1, <2>1 DEF Addressed
<1>13. Wired(kind, Q, D, C, B)
  <2>1. \A n \in Chan : (kind = "xhci" => ~ (C.state[n] \in {"done", "error"})) /\ C.flag[n] = "none"
    BY <1>1 DEF Wired
  <2>2. ASSUME NEW n \in Chan, C.state[n] = "error" PROVE ~ Here(Q, C.with[n])
    <3>1. C.used[n]
      BY <1>1, <2>2 DEF Wired
    <3>2. PICK i \in Entry : D[i].present /\ D[i].chan = n
      BY <1>1, <3>1 DEF Table
    <3>3. n # 0
      BY DEF Chan
    <3>4. C.with[n] = D[i].is
      BY <1>1, <1>6, <3>2, <3>3 DEF Wired
    <3>5. ~ Here(P, D[i].is)
      BY <1>1, <2>2, <3>4 DEF Wired
    <3>6. \A p \in Port : P[p].is = D[i].is => P[p].on
      BY <1>1, <3>2 DEF Names
    <3>7. \A p \in Port : P[p].is # D[i].is
      BY <3>5, <3>6 DEF Here
    <3> QED
      BY <1>5, <3>4, <3>7 DEF Here
  <2> QED
    BY <1>1, <1>6, <2>1, <2>2 DEF Wired
<1> QED
  BY <1>7, <1>8, <1>9, <1>10, <1>11, <1>12, <1>13 DEF Full

LEMMA ReleasedIs ==
  ASSUME ConstantsOK, NEW C \in Ends, NEW n \in 0 .. MaxInt, kind \in {"xhci", "ehci", "ohci"},
         kind = "xhci" => \A m \in Chan : ~ (C.state[m] \in {"done", "error"}),
         n # 0 => C.flag[n] = "none"
  PROVE  Released(C, n) = Freed(C, n)
<1>1. CASE n = 0
  BY <1>1 DEF Released, Freed
<1>2. CASE n # 0
  <2>1. Events(C) = C
    BY NoEvents
  <2>2. C.flag \in [Chan -> {"none", "done", "error"}] /\ n \in Chan
    BY <1>2, BoundsAre DEF Ends, Chan
  <2> DEFINE f == [C.flag EXCEPT ![n] = "none"]
  <2>3. f = C.flag
    BY <1>2, <2>2
  <2> DEFINE E == [C EXCEPT !.used[n] = FALSE, !.state[n] = "idle", !.with[n] = 0]
  <2>4. Released(C, n) = E
    BY <1>2, <2>1 DEF Released
  <2>5. Freed(C, n) = [C EXCEPT !.used[n] = FALSE, !.with[n] = 0, !.state[n] = "idle", !.flag = f]
    BY <1>2 DEF Freed
  <2> HIDE DEF f
  <2>6. [C EXCEPT !.used[n] = FALSE, !.with[n] = 0, !.state[n] = "idle", !.flag = f] = E
    BY <2>3 DEF Ends
  <2> QED
    BY <2>4, <2>5, <2>6
<1> QED
  BY <1>1, <1>2

(* usb_release() of the entry of a port that has news. *)
LEMMA DropFull ==
  ASSUME ConstantsOK, Full(kind, port, devs, intr, act), act.pc = "scan", NEW p \in Port, port[p].change, DropEntry(p)
  PROVE  Full(kind, port, devs', intr', act) /\ \A i \in Entry : devs'[i].present => devs'[i].port # p
<1>1. /\ Shapes(kind, port, devs, intr, act) /\ Table(kind, devs, intr, act) /\ Names(port, devs, act) /\ Faces(kind, port, act)
      /\ Wired(kind, port, devs, intr, act)
  BY DEF Full
<1>2. /\ devs \in [Entry -> Rows] /\ intr \in Ends /\ act \in Acts /\ kind \in {"xhci", "ehci", "ohci"}
      /\ \A i \in Entry : devs[i].chan \in 0 .. MaxInt /\ (devs[i].chan # 0 => devs[i].chan \in Chan)
  BY <1>1, ShapesAre
<1>3. \A n \in Chan : intr.flag[n] = "none" /\ (kind = "xhci" => ~ (intr.state[n] \in {"done", "error"}))
  BY <1>1 DEF Wired
<1> DEFINE old == EntriesAt(p)
<1>4. /\ devs' = [i \in Entry |-> IF i \in old THEN NoEntry ELSE devs[i]]
      /\ intr' = IF old = {} THEN intr ELSE Released(intr, devs[CHOOSE i \in old : TRUE].chan)
  BY DEF DropEntry
<1>5. old = {i \in Entry : devs[i].present /\ devs[i].port = p}
  BY DEF EntriesAt
<1> HIDE DEF old
<1>6. CASE old = {}
  <2>1. devs' = devs /\ intr' = intr
    BY <1>2, <1>4, <1>6
  <2> QED
    BY <1>5, <1>6, <2>1
<1>7. CASE old # {}
  <2> DEFINE i == CHOOSE j \in old : TRUE
  <2>1. i \in old
    BY <1>7
  <2>2. intr' = Released(intr, devs[i].chan)
    BY <1>4, <1>7
  <2> HIDE DEF i
  <2>3. i \in Entry /\ devs[i].present /\ devs[i].port = p
    BY <1>5, <2>1
  <2>4. \A j \in old : j = i
    BY <1>1, <1>5, <2>3 DEF Table
  <2>5. devs' = [devs EXCEPT ![i] = NoEntry]
    BY <1>2, <1>4, <2>1, <2>4
  <2>6. intr' = Freed(intr, devs[i].chan)
    BY <1>2, <1>3, <2>2, <2>3, ReleasedIs
  <2>7. ~ Here(port, devs[i].is)
    BY <1>1, <2>3 DEF Here, Names, Faces
  <2>8. ~ Making(act, i)
    BY DEF Making
  <2>9. Full(kind, port, devs', intr', act)
    BY <1>2, <2>3, <2>5, <2>6, <2>7, <2>8, RemovedFull
  <2>10. \A j \in Entry : devs'[j].present => devs'[j].port # p
    <3>1. ~ NoEntry.present
      BY DEF NoEntry
    <3>2. devs'[i] = NoEntry /\ \A j \in Entry : j # i => devs'[j] = devs[j]
      BY <1>2, <2>3, <2>5
    <3>3. \A j \in Entry : j # i /\ devs[j].present => devs[j].port # p
      BY <1>5, <2>4
    <3> QED
      BY <3>1, <3>2, <3>3
  <2> QED
    BY <2>9, <2>10
<1> QED
  BY <1>6, <1>7

LEMMA ScanFull == ASSUME ConstantsOK, Full(kind, port, devs, intr, act), ScanPort
                  PROVE  Full(kind, port', devs', intr', act')
<1>1. /\ Shapes(kind, port, devs, intr, act) /\ Table(kind, devs, intr, act) /\ Names(port, devs, act) /\ Faces(kind, port, act)
      /\ act.pc = "scan"
  BY DEF Full, ScanPort
<1>2. /\ act.at \in Port /\ port[act.at] \in Places /\ act.first \in BOOLEAN
      /\ port[act.at].change \in BOOLEAN /\ port[act.at].away \in BOOLEAN /\ port[act.at].on \in BOOLEAN
  BY <1>1, ShapesAre DEF Table
<1> DEFINE p == act.at
           no == FALSE
           yes == TRUE
           zero == 0
           q == [port[p] EXCEPT !.change = no]
           B == NextPort
<1>3. q \in Places /\ q.change = no /\ q.is = port[p].is /\ q.on = port[p].on /\ q.addr = port[p].addr /\ q.fn = port[p].fn
      /\ q.speed = port[p].speed /\ q.away = port[p].away
  <2>1. no \in BOOLEAN
    OBVIOUS
  <2> HIDE DEF no
  <2> QED
    BY <1>2, <2>1 DEF Places
<1>4. ~ q.change /\ no = FALSE
  BY <1>3
<1>5. port[p].is # 0 /\ act.first => port[p].change
  BY <1>1, <1>2 DEF Faces
<1>6. port[p].change => ~ port[p].on
  BY <1>1, <1>2 DEF Faces
<1>7. port[p].on => ~ port[p].away
  BY <1>1, <1>2 DEF Faces
<1> HIDE DEF q, B
<1>8. CASE Quiet(p) /\ port' = [port EXCEPT ![p] = q] /\ act' = NextPort /\ UNCHANGED <<devs, intr>>
  <2>1. q.away \/ (~ port[p].change /\ ~ port[p].away)
    BY <1>2, <1>3, <1>8 DEF Quiet
  <2> QED
    BY <1>1, <1>3, <1>4, <1>7, <1>8, <2>1, NextIs, GoesOnFull
<1>9. CASE port[p].change /\ q.is = 0 /\ port' = [port EXCEPT ![p] = q] /\ DropEntry(p) /\ act' = NextPort
  <2>1. Full(kind, port, devs', intr', act) /\ \A i \in Entry : devs'[i].present => devs'[i].port # p
    BY <1>1, <1>2, <1>9, DropFull
  <2> DEFINE F == devs'
             E == intr'
  <2>2. Full(kind, port, F, E, act) /\ \A i \in Entry : F[i].present => F[i].port # p
    BY <2>1
  <2> HIDE DEF F, E
  <2>3. Full(kind, port', F, E, act')
    BY <1>1, <1>3, <1>4, <1>7, <1>9, <2>2, NextIs, GoesOnFull
  <2> QED
    BY <2>3 DEF F, E
<1>10. CASE /\ port[p].change \/ act.first
            /\ q.is # 0 /\ ~ q.away /\ Companions(q)
            /\ port' = [port EXCEPT ![p] = [q EXCEPT !.away = TRUE]] /\ act' = NextPort /\ UNCHANGED <<devs, intr>>
  <2>1. ~ port[p].on
    BY <1>3, <1>5, <1>6, <1>10
  <2> DEFINE w == [q EXCEPT !.away = yes]
  <2>2. port' = [port EXCEPT ![p] = w] /\ yes \in BOOLEAN
    BY <1>10
  <2> HIDE DEF yes
  <2>3. w \in Places /\ w.change = q.change /\ w.is = q.is /\ w.on = q.on /\ w.addr = q.addr /\ w.fn = q.fn
        /\ w.speed = q.speed /\ w.away = yes
    BY <1>3, <2>2 DEF Places
  <2> HIDE DEF w
  <2>4. w.away /\ ~ w.on
    BY <1>3, <2>1, <2>3 DEF yes
  <2> QED
    <3>1. /\ w \in Places /\ w.is = port[p].is /\ w.on = port[p].on /\ w.addr = port[p].addr /\ w.fn = port[p].fn
          /\ w.speed = port[p].speed /\ (w.on => ~ w.change /\ ~ w.away)
      BY <1>3, <2>3, <2>4
    <3>2. act' = NextPort /\ devs' = devs /\ intr' = intr
      BY <1>10
    <3> QED
      BY <1>1, <2>2, <2>4, <3>1, <3>2, NextIs, GoesOnFull
<1>11. CASE /\ port[p].change \/ act.first
            /\ q.is # 0 /\ ~ q.away /\ ~ Companions(q)
            /\ port' = [port EXCEPT ![p] = AfterReset(q)] /\ DropEntry(p)
            /\ act' = [act EXCEPT !.pc = "address", !.is = q.is]
  <2>1. port[p].change
    BY <1>3, <1>5, <1>11
  <2>2. Full(kind, port, devs', intr', act) /\ \A i \in Entry : devs'[i].present => devs'[i].port # p
    BY <1>1, <1>2, <1>11, <2>1, DropFull
  <2> DEFINE F == devs'
             E == intr'
             w == [q EXCEPT !.on = yes, !.addr = zero]
  <2>3. Full(kind, port, F, E, act) /\ \A i \in Entry : F[i].present => F[i].port # p
    BY <2>2
  <2>4. port' = [port EXCEPT ![p] = w] /\ yes \in BOOLEAN /\ zero \in 0 .. MaxDevs
    BY <1>11, BoundsAre DEF AfterReset
  <2> HIDE DEF F, E, yes, zero
  <2>5. w \in Places /\ w.change = q.change /\ w.is = q.is /\ w.on = yes /\ w.addr = zero /\ w.fn = q.fn
        /\ w.speed = q.speed /\ w.away = q.away
    BY <1>3, <2>4 DEF Places
  <2> HIDE DEF w
  <2>6. w.on /\ w.addr = 0 /\ ~ w.change
    BY <1>4, <2>5 DEF yes, zero
  <2>7. ~ Slow(kind, w.speed)
    BY <1>11, <2>5 DEF Companions, Slow
  <2>8. act' = [act EXCEPT !.pc = "address", !.is = w.is] /\ w.is # 0 /\ ~ w.away
    BY <1>11, <2>5
  <2>9. Full(kind, port', F, E, act')
    BY <1>1, <1>3, <2>3, <2>4, <2>5, <2>6, <2>7, <2>8, ResetFull
  <2> QED
    BY <2>9 DEF F, E
<1> QED
  <2>1. q = [port[p] EXCEPT !.change = FALSE] /\ p = act.at
    BY DEF q
  <2> QED
    BY <1>8, <1>9, <1>10, <1>11, <2>1 DEF ScanPort
Others(N, a) == (1 .. N) \ {a}
(* As many as there are places do not fit where one place is not to be had. *)
LEMMA Crowded ==
  ASSUME NEW N \in Nat, NEW M \in Nat, N <= M, NEW a \in 1 .. N, NEW f \in [1 .. M -> Others(N, a)]
  PROVE  \E x, y \in 1 .. M : x # y /\ f[x] = f[y]
<1>1. IsFiniteSet(1 .. N) /\ Cardinality(1 .. N) = N
  BY FS_Interval
<1>2. IsFiniteSet(1 .. M) /\ Cardinality(1 .. M) = M
  BY FS_Interval
<1>3. IsFiniteSet(Others(N, a)) /\ Cardinality(Others(N, a)) = N - 1
  BY <1>1, FS_RemoveElement DEF Others
<1>4. Cardinality(Others(N, a)) < Cardinality(1 .. M)
  BY <1>2, <1>3
<1> QED
  BY <1>2, <1>3, <1>4, FS_PigeonHole

LEMMA FreeEntry ==
  ASSUME ConstantsOK, Roomy, NEW k, NEW D, NEW C, NEW A, Table(k, D, C, A), A.pc = "address"
  PROVE  \E j \in Entry : ~ D[j].present
<1> SUFFICES ASSUME \A j \in Entry : D[j].present PROVE FALSE
  OBVIOUS
<1> DEFINE f == [j \in 1 .. MaxDevs |-> D[j].port]
<1>1. Entry = 1 .. MaxDevs /\ Port = 1 .. Ports
  BY DEF Entry, Port
<1>2. A.at \in 1 .. Ports /\ \A j \in 1 .. MaxDevs : D[j].port \in Others(Ports, A.at)
  BY <1>1 DEF Table, Others
<1>3. f \in [1 .. MaxDevs -> Others(Ports, A.at)]
  BY <1>2
<1>4. \A x, y \in 1 .. MaxDevs : x # y => f[x] # f[y]
  BY <1>1 DEF Table
<1> HIDE DEF f
<1>5. Ports \in Nat /\ MaxDevs \in Nat /\ Ports <= MaxDevs
  BY BoundsAre DEF Roomy
<1> QED
  <2>1. \E x, y \in 1 .. MaxDevs : x # y /\ f[x] = f[y]
    BY <1>2, <1>3, <1>5, Crowded
  <2> QED
    BY <1>4, <2>1

LEMMA FreeEnd ==
  ASSUME ConstantsOK, Roomy, NEW k, NEW D, NEW C, NEW A, Table(k, D, C, A), A.at \in Port,
         \A i \in Entry : D[i].present /\ D[i].chan # 0 => D[i].port # A.at
  PROVE  \E n \in Chan : ~ C.used[n]
<1> SUFFICES ASSUME \A n \in Chan : C.used[n] PROVE FALSE
  OBVIOUS
<1> DEFINE u == [n \in Chan |-> CHOOSE i \in Entry : D[i].present /\ D[i].chan = n]
           f == [n \in 1 .. MaxInt |-> D[u[n]].port]
<1>1. ASSUME NEW n \in Chan PROVE u[n] \in Entry /\ D[u[n]].present /\ D[u[n]].chan = n /\ n # 0
  <2>1. \E i \in Entry : D[i].present /\ D[i].chan = n
    BY DEF Table
  <2> QED
    BY <2>1 DEF Chan
<1> HIDE DEF u
<1>2. Chan = 1 .. MaxInt /\ Port = 1 .. Ports
  BY DEF Chan, Port
<1>3. A.at \in 1 .. Ports /\ \A n \in 1 .. MaxInt : D[u[n]].port \in Others(Ports, A.at)
  BY <1>1, <1>2 DEF Table, Others
<1>4. f \in [1 .. MaxInt -> Others(Ports, A.at)]
  BY <1>3
<1>5. \A x, y \in 1 .. MaxInt : x # y => f[x] # f[y]
  <2> SUFFICES ASSUME NEW x \in 1 .. MaxInt, NEW y \in 1 .. MaxInt, x # y PROVE D[u[x]].port # D[u[y]].port
    OBVIOUS
  <2>1. u[x] # u[y] /\ u[x] \in Entry /\ u[y] \in Entry /\ D[u[x]].present /\ D[u[y]].present
    BY <1>1, <1>2
  <2> QED
    BY <2>1 DEF Table
<1> HIDE DEF f
<1>6. Ports \in Nat /\ MaxInt \in Nat /\ Ports <= MaxInt
  BY BoundsAre DEF Roomy
<1> QED
  <2>1. \E x, y \in 1 .. MaxInt : x # y /\ f[x] = f[y]
    BY <1>3, <1>4, <1>6, Crowded
  <2> QED
    BY <1>5, <2>1

LEMMA FirstIs == ASSUME ConstantsOK, NEW n \in Chan, ~ intr.used[n] PROVE First \in Chan /\ ~ intr.used[First]
<1>1. Enabled \in SUBSET Nat /\ Enabled # {}
  BY DEF Enabled, Chan
<1>2. PICK x \in Enabled : \A y \in Enabled : x <= y
  BY <1>1, Least
<1>3. First \in Enabled
  BY <1>2 DEF First
<1> QED
  BY <1>3 DEF Enabled

(* Nothing is made of a device after all; one that answers at an address is not left so. *)
LEMMA GiveUpFull ==
  ASSUME ConstantsOK, NEW P, NEW D, NEW C, NEW A, Full(kind, P, D, C, A), A.pc = "address",
         P[A.at].change \/ (kind = "xhci" /\ P[A.at].fn = "none")
  PROVE  Full(kind, P, D, C, NextOf(A))
<1>1. /\ Shapes(kind, P, D, C, A) /\ Table(kind, D, C, A) /\ Faces(kind, P, A)
  BY DEF Full
<1>2. A.at \in Port /\ P \in [Port -> Places] /\ P[A.at] \in Places
  BY <1>1, ShapesAre DEF Table
<1> DEFINE w == P[A.at]
           B == NextOf(A)
           Q == [P EXCEPT ![A.at] = w]
<1>3. Q = P
  BY <1>2
<1>4. w.on => ~ w.change /\ ~ w.away
  BY <1>1, <1>2 DEF Faces
<1>5. A.pc = "address" /\ kind # "xhci" => ~ w.on
  BY <1>4
<1>6. w.change \/ w.away \/ ((w.is = 0 \/ w.fn = "none") /\ \A i \in Entry : D[i].present => D[i].port # A.at)
  BY <1>1 DEF Table
<1>7. /\ w \in Places /\ w.is = P[A.at].is /\ w.on = P[A.at].on /\ w.addr = P[A.at].addr /\ w.fn = P[A.at].fn /\ w.speed = P[A.at].speed
      /\ B = NextOf(A) /\ Q = [P EXCEPT ![A.at] = w]
  BY <1>2
<1> HIDE DEF w, B, Q
<1>8. Full(kind, Q, D, C, B)
  BY <1>4, <1>5, <1>6, <1>7, GoesOnFull
<1> QED
  BY <1>3, <1>8 DEF B

(* The one that answers is the one on this port. *)
LEMMA AnsweringIs ==
  ASSUME ConstantsOK, Full(kind, port, devs, intr, act), Busy(act), NEW d, d.port = act.at,
         d.addr = IF act.pc = "address" THEN 0 ELSE act.entry
  PROVE  /\ \A p \in Answering(d) : p = act.at /\ port[p].on /\ port[p].is = act.is
         /\ port[act.at].on => act.at \in Answering(d)
         /\ act.at \in Port /\ (~ port[act.at].on => port[act.at].change)
<1>1. /\ Shapes(kind, port, devs, intr, act) /\ Table(kind, devs, intr, act) /\ Names(port, devs, act) /\ Faces(kind, port, act)
      /\ Addressed(kind, port, devs, act)
  BY DEF Full
<1>2. act.at \in Port
  BY <1>1 DEF Table, Busy
<1>3. Answering(d) = {p \in Port : port[p].on /\ ~ port[p].away /\ (IF kind = "xhci" THEN p = act.at ELSE port[p].addr = d.addr)}
  BY DEF Answering
<1>4. port[act.at].on => ~ port[act.at].away /\ port[act.at].is = act.is
  BY <1>1, <1>2 DEF Faces
<1>5. ASSUME kind # "xhci", NEW p \in Port, port[p].on PROVE port[p].addr = d.addr <=> p = act.at
  <2>1. IF port[p].addr = 0 THEN act.pc = "address" /\ act.at = p
        ELSE devs[port[p].addr].present /\ devs[port[p].addr].port = p
    BY <1>1, <1>5 DEF Addressed
  <2>2. port[p].addr \in 0 .. MaxDevs
    BY <1>1, ShapesAre
  <2>3. port[p].addr # 0 => port[p].addr \in Entry
    BY <2>2, BoundsAre DEF Entry
  <2>4. CASE act.pc = "address"
    <3>1. p = act.at => port[p].addr = 0
      BY <1>1, <2>1, <2>3, <2>4 DEF Table
    <3>2. port[p].addr = 0 => p = act.at
      BY <2>1
    <3> QED
      BY <2>4, <3>1, <3>2
  <2>5. CASE act.pc # "address"
    <3>1. /\ act.entry \in Entry /\ devs[act.entry].present /\ devs[act.entry].port = act.at /\ d.addr = act.entry
          /\ port[p].addr # 0
      BY <1>1, <2>1, <2>5 DEF Table, Busy
    <3>2. p = act.at => port[p].addr = act.entry
      BY <1>1, <2>1, <2>3, <3>1 DEF Table
    <3>3. port[p].addr = act.entry => p = act.at
      BY <2>1, <3>1
    <3> QED
      BY <3>1, <3>2, <3>3
  <2> QED
    BY <2>4, <2>5
<1>6. \A p \in Answering(d) : p = act.at /\ port[p].on /\ port[p].is = act.is
  BY <1>3, <1>4, <1>5
<1>7. port[act.at].on => act.at \in Answering(d)
  BY <1>2, <1>3, <1>4, <1>5
<1>8. ~ port[act.at].on => port[act.at].change
  BY <1>1 DEF Faces
<1> QED
  BY <1>2, <1>6, <1>7, <1>8

LEMMA TalksIs ==
  ASSUME ConstantsOK, Steady, Full(kind, port, devs, intr, act), Busy(act), NEW d, d.port = act.at,
         d.addr = (IF act.pc = "address" THEN 0 ELSE act.entry), NEW ok \in BOOLEAN, Talks(d, ok)
  PROVE  /\ ok => port[act.at].on /\ Answering(d) = {act.at}
         /\ ~ ok => ~ port[act.at].on /\ port[act.at].change
<1>1. /\ \A p \in Answering(d) : p = act.at /\ port[p].on /\ port[p].is = act.is
      /\ port[act.at].on => act.at \in Answering(d)
      /\ act.at \in Port /\ (~ port[act.at].on => port[act.at].change)
  BY AnsweringIs
<1>2. /\ ok => Answering(d) # {}
      /\ ~ ok => Answering(d) = {} \/ (\A p \in Answering(d) : port[p].is # act.is)
  BY DEF Talks, Steady
<1> QED
  BY <1>1, <1>2

GotEnd(C, E, n) ==
  /\ E.state = C.state /\ E.with = C.with /\ E.flag = C.flag
  /\ IF kind = "xhci" THEN n \in Chan /\ ~ C.used[n] /\ E.used = [C.used EXCEPT ![n] = TRUE] ELSE n = 0 /\ E.used = C.used
GotAddress(v, w, i) ==
  /\ w.addr = i /\ w.is = v.is /\ w.on = v.on /\ w.change = v.change /\ w.away = v.away /\ w.fn = v.fn /\ w.speed = v.speed

(* A device gets its address, and an entry to go with it. *)
LEMMA AddressedFull ==
  ASSUME ConstantsOK, NEW P, NEW D, NEW C, NEW A, Full(kind, P, D, C, A), A.pc = "address", P[A.at].on,
         NEW i \in Entry, ~ D[i].present,
         NEW row \in Rows, row.present, row.port = A.at, row.addr = i, row.is = A.is,
         NEW E \in Ends, GotEnd(C, E, row.chan), NEW w \in Places, GotAddress(P[A.at], w, i),
         NEW Q, Q = [P EXCEPT ![A.at] = w], NEW F, F = [D EXCEPT ![i] = row],
         NEW B, B = [A EXCEPT !.pc = "describe", !.entry = i]
  PROVE  Full(kind, Q, F, E, B)
<1>1. /\ Shapes(kind, P, D, C, A) /\ Table(kind, D, C, A) /\ Names(P, D, A) /\ Faces(kind, P, A) /\ Known(P, D, A)
      /\ Addressed(kind, P, D, A) /\ Wired(kind, P, D, C, A)
  BY DEF Full
<1>2. /\ A.at \in Port /\ P \in [Port -> Places] /\ D \in [Entry -> Rows] /\ C \in Ends /\ A \in Acts
      /\ C.used \in [Chan -> BOOLEAN] /\ \A j \in Entry : D[j].chan # 0 => D[j].chan \in Chan
  BY <1>1, ShapesAre DEF Table
<1> USE DEF GotEnd, GotAddress
<1>3. i \in 0 .. MaxDevs /\ i # 0
  BY BoundsAre DEF Entry
<1>4. B \in Acts /\ B.pc = "describe" /\ B.entry = i /\ B.at = A.at /\ B.is = A.is /\ B.plugs = A.plugs /\ B.first = A.first
  BY <1>2, <1>3 DEF Acts
<1>5. Q \in [Port -> Places] /\ Q[A.at] = w /\ \A p \in Port : p # A.at => Q[p] = P[p]
  BY <1>2
<1>6. F \in [Entry -> Rows] /\ F[i] = row /\ \A j \in Entry : j # i => F[j] = D[j]
  BY <1>2
<1>7. \A p \in Port : /\ Q[p].is = P[p].is /\ Q[p].on = P[p].on /\ Q[p].change = P[p].change /\ Q[p].away = P[p].away
                      /\ Q[p].fn = P[p].fn /\ Q[p].speed = P[p].speed
  BY <1>5
<1>8. /\ Busy(A) /\ Busy(B) /\ (\A j : Making(B, j) <=> j = i) /\ \A j : ~ Making(A, j)
  BY <1>4 DEF Busy, Making
<1>9. Shapes(kind, Q, F, E, B)
  BY <1>1, <1>4, <1>5, <1>6 DEF Shapes
<1>10. \A j \in Entry : D[j].present => j # i
  OBVIOUS
<1>11. Table(kind, F, E, B)
  <2>1. \A j \in Entry : D[j].present => D[j].port # A.at
    BY <1>1 DEF Table
  <2>2. \A j \in Entry : F[j].present => F[j].port \in Port /\ (F[j].chan # 0 <=> kind = "xhci" \/ ~ Making(B, j))
    <3>1. row.chan # 0 <=> kind = "xhci"
      BY DEF Chan
    <3> QED
      BY <1>1, <1>2, <1>6, <1>8, <3>1 DEF Table
  <2>3. ASSUME NEW j \in Entry, D[j].present, row.chan # 0 PROVE D[j].chan # row.chan
    <3>1. kind = "xhci" /\ row.chan \in Chan /\ ~ C.used[row.chan]
      BY <2>3
    <3> QED
      BY <1>1, <2>3, <3>1 DEF Table
  <2>4. \A j, h \in Entry : F[j].present /\ F[h].present /\ j # h => F[j].port # F[h].port /\ (F[j].chan # 0 => F[j].chan # F[h].chan)
    <3>1. ASSUME NEW j \in Entry, NEW h \in Entry, F[j].present, F[h].present, j # h
          PROVE  F[j].port # F[h].port /\ (F[j].chan # 0 => F[j].chan # F[h].chan)
      <4>1. CASE j = i
        BY <1>6, <2>1, <2>3, <3>1, <4>1
      <4>2. CASE h = i
        BY <1>6, <2>1, <2>3, <3>1, <4>2
      <4>3. CASE j # i /\ h # i
        BY <1>1, <1>6, <3>1, <4>3 DEF Table
      <4> QED
        BY <4>1, <4>2, <4>3
    <3> QED
      BY <3>1
  <2>5. ASSUME NEW n \in Chan PROVE E.used[n] <=> \E j \in Entry : F[j].present /\ F[j].chan = n
    <3>1. C.used[n] <=> \E j \in Entry : D[j].present /\ D[j].chan = n
      BY <1>1 DEF Table
    <3>2. (\E j \in Entry : F[j].present /\ F[j].chan = n) <=> row.chan = n \/ \E j \in Entry : D[j].present /\ D[j].chan = n
      BY <1>6, <1>10
    <3>3. E.used[n] <=> row.chan = n \/ C.used[n]
      <4>1. n # 0
        BY DEF Chan
      <4> QED
        BY <1>2, <4>1
    <3> QED
      BY <3>1, <3>2, <3>3
  <2> QED
    BY <1>2, <1>4, <1>6, <2>2, <2>4, <2>5 DEF Table
<1>12. Names(Q, F, B)
  <2>1. \A p \in Port : P[p].is = A.is => p = A.at /\ P[p].on
    BY <1>1, <1>8 DEF Names
  <2>2. 0 < A.is /\ A.is <= A.plugs
    BY <1>1, <1>8 DEF Names
  <2> QED
    BY <1>1, <1>4, <1>6, <1>7, <1>8, <2>1, <2>2 DEF Names
<1>13. Faces(kind, Q, B)
  BY <1>1, <1>2, <1>4, <1>7, <1>8 DEF Faces
<1>14. Known(Q, F, B)
  <2> SUFFICES ASSUME NEW p \in Port, ~ Q[p].change, p # A.at, ~ Q[p].away
               PROVE  /\ \A j \in Entry : F[j].present /\ F[j].port = p => Q[p].is # 0 /\ F[j].is = Q[p].is
                      /\ Q[p].is # 0 /\ Q[p].fn # "none" => \E j \in Entry : F[j].present /\ F[j].port = p
    BY <1>4, <1>8 DEF Known
  <2>1. /\ \A j \in Entry : D[j].present /\ D[j].port = p => P[p].is # 0 /\ D[j].is = P[p].is
        /\ P[p].is # 0 /\ P[p].fn # "none" => \E j \in Entry : D[j].present /\ D[j].port = p
    BY <1>1, <1>7 DEF Known
  <2> QED
    BY <1>6, <1>7, <1>10, <2>1
<1>15. Addressed(kind, Q, F, B)
  <2>1. \A j \in Entry : F[j].present => F[j].addr = j
    BY <1>1, <1>6 DEF Addressed
  <2>2. ASSUME kind # "xhci", NEW p \in Port, Q[p].on
        PROVE  IF Q[p].addr = 0 THEN B.pc = "address" /\ B.at = p
               ELSE F[Q[p].addr].present /\ F[Q[p].addr].port = p /\ F[Q[p].addr].is = Q[p].is
    <3>1. CASE p = A.at
      <4>1. Q[p].addr = i /\ Q[p].is = A.is
        BY <1>1, <1>5, <1>7, <1>8, <3>1 DEF Faces
      <4> QED
        BY <1>3, <1>6, <3>1, <4>1
    <3>2. CASE p # A.at
      <4>1. P[p].on /\ Q[p] = P[p]
        BY <1>5, <2>2, <3>2
      <4>2. P[p].addr # 0 /\ D[P[p].addr].present /\ D[P[p].addr].port = p /\ D[P[p].addr].is = P[p].is
        BY <1>1, <2>2, <3>2, <4>1 DEF Addressed
      <4>3. P[p].addr \in Entry
        BY <1>1, <4>2, ShapesAre, BoundsAre DEF Entry
      <4> QED
        BY <1>6, <1>10, <4>1, <4>2, <4>3
    <3> QED
      BY <3>1, <3>2
  <2> QED
    BY <2>1, <2>2 DEF Addressed
<1>16. Wired(kind, Q, F, E, B)
  <2>1. \A n \in Chan : C.flag[n] = "none" /\ (kind = "xhci" => ~ (C.state[n] \in {"done", "error"}))
    BY <1>1 DEF Wired
  <2>2. \A n \in Chan : ~ E.used[n] => ~ C.used[n]
    BY <1>2
  <2>3. \A is : Here(Q, is) => Here(P, is)
    BY <1>7 DEF Here
  <2>4. row.chan # 0 => C.state[row.chan] = "idle"
    BY <1>1 DEF Wired
  <2>5. \A j \in Entry : F[j].present /\ F[j].chan # 0 =>
          IF Making(B, j) THEN E.state[F[j].chan] = "idle" ELSE E.with[F[j].chan] = F[j].is
    BY <1>1, <1>6, <1>8, <2>4 DEF Wired
  <2>6. \A n \in Chan : ~ E.used[n] => E.state[n] = "idle"
    BY <1>1, <2>2 DEF Wired
  <2>7. \A n \in Chan : kind = "xhci" /\ E.state[n] \in {"done", "error"} => B.pc = "poll" /\ B.at = 1
    BY <2>1
  <2>8. \A n \in Chan : E.flag[n] = "none"
    BY <2>1
  <2>9. \A n \in Chan : E.state[n] = "error" \/ E.flag[n] = "error" => ~ Here(Q, E.with[n])
    BY <1>1, <2>3 DEF Wired
  <2> QED
    BY <2>5, <2>6, <2>7, <2>8, <2>9 DEF Wired
<1> QED
  BY <1>9, <1>11, <1>12, <1>13, <1>14, <1>15, <1>16 DEF Full

LEMMA AddressFull == ASSUME ConstantsOK, Steady, Roomy, Full(kind, port, devs, intr, act), NEW ok \in BOOLEAN, Address(ok)
                     PROVE  Full(kind, port', devs', intr', act')
<1>1. /\ Shapes(kind, port, devs, intr, act) /\ Table(kind, devs, intr, act) /\ Names(port, devs, act) /\ Faces(kind, port, act)
      /\ Wired(kind, port, devs, intr, act) /\ act.pc = "address" /\ Busy(act)
  BY DEF Full, Address, Busy
<1>2. /\ port \in [Port -> Places] /\ devs \in [Entry -> Rows] /\ intr \in Ends /\ act \in Acts /\ act.at \in Port
      /\ port[act.at] \in Places /\ act.is \in 0 .. Plugs /\ kind \in {"xhci", "ehci", "ohci"}
  BY <1>1, ShapesAre DEF Table
<1> DEFINE free == {i \in Entry : ~ devs[i].present}
           i == CHOOSE j \in free : \A k \in free : j <= k
           yes == TRUE
           d == [NoEntry EXCEPT !.present = yes, !.port = act.at, !.is = act.is]
<1>3. i \in Entry /\ ~ devs[i].present /\ free # {}
  <2>1. free \in SUBSET Nat /\ free # {}
    BY <1>1, FreeEntry DEF Entry
  <2> HIDE DEF free
  <2>2. \E j \in free : \A k \in free : j <= k
    BY <2>1, Least
  <2>3. i \in free
    BY <2>2
  <2> QED
    BY <2>1, <2>3 DEF free
<1>4. \E n \in Chan : ~ intr.used[n]
  <2>1. \A j \in Entry : devs[j].present /\ devs[j].chan # 0 => devs[j].port # act.at
    BY <1>1 DEF Table
  <2> QED
    BY <1>1, <1>2, <2>1, FreeEnd
<1>5. Enabled # {} /\ First \in Chan /\ ~ intr.used[First]
  BY <1>4, FirstIs DEF Enabled
<1>6. d.present = yes /\ d.port = act.at /\ d.is = act.is /\ d.addr = 0 /\ d.chan = 0 /\ d \in Rows /\ d.fn = "none"
  <2> DEFINE no == FALSE
             zero == 0
             none == [present |-> no, port |-> zero, addr |-> zero, chan |-> zero, fn |-> "none", is |-> zero]
  <2>3. NoEntry = none
    BY DEF NoEntry
  <2>4. d = [none EXCEPT !.present = yes, !.port = act.at, !.is = act.is]
    BY <2>3
  <2>1. no \in BOOLEAN /\ yes \in BOOLEAN /\ zero = 0
    OBVIOUS
  <2> HIDE DEF yes, no, zero
  <2>2. act.at \in 0 .. Ports /\ zero \in 0 .. Ports /\ zero \in 0 .. MaxDevs /\ zero \in 0 .. MaxInt /\ zero \in 0 .. Plugs
    BY <1>2, <2>1, BoundsAre DEF Port
  <2>5. none \in Rows /\ none.addr = zero /\ none.chan = zero /\ none.fn = "none"
    BY <2>1, <2>2 DEF Rows
  <2> HIDE DEF none
  <2>6. d \in Rows /\ d.present = yes /\ d.port = act.at /\ d.is = act.is /\ d.addr = zero /\ d.chan = zero /\ d.fn = "none"
    BY <1>2, <2>1, <2>2, <2>4, <2>5 DEF Rows
  <2> QED
    BY <2>1, <2>6
<1> HIDE DEF i, d
<1>7. CASE Talks(d, ok) /\ ~ ok /\ act' = NextPort /\ UNCHANGED <<port, devs, intr>>
  <2>1. port[act.at].change
    BY <1>1, <1>6, <1>7, TalksIs
  <2>2. Full(kind, port, devs, intr, NextOf(act))
    BY <1>1, <2>1, GiveUpFull
  <2> QED
    BY <1>7, <2>2, NextIs
<1>8. CASE /\ Talks(d, ok) /\ ok
           /\ \E p \in Answering(d) : port' = [port EXCEPT ![p].addr = i]
           /\ devs' = [devs EXCEPT ![i] = [d EXCEPT !.addr = i, !.chan = IF kind = "xhci" THEN First ELSE 0]]
           /\ intr' = IF kind = "xhci" THEN [Events(intr) EXCEPT !.used[First] = TRUE] ELSE intr
           /\ act' = [act EXCEPT !.pc = "describe", !.entry = i]
  <2>1. port[act.at].on /\ Answering(d) = {act.at}
    BY <1>1, <1>6, <1>8, TalksIs
  <2> DEFINE w == [port[act.at] EXCEPT !.addr = i]
             c == IF kind = "xhci" THEN First ELSE 0
             row == [d EXCEPT !.addr = i, !.chan = c]
  <2>2. port' = [port EXCEPT ![act.at] = w] /\ devs' = [devs EXCEPT ![i] = row]
    BY <1>8, <2>1
  <2>3. i \in 0 .. MaxDevs /\ c \in 0 .. MaxInt
    BY <1>3, <1>5, BoundsAre DEF Entry, Chan
  <2>4. w \in Places /\ GotAddress(port[act.at], w, i)
    BY <1>2, <2>3 DEF Places, GotAddress
  <2> HIDE DEF c
  <2>5. row \in Rows /\ row.present /\ row.port = act.at /\ row.addr = i /\ row.is = act.is /\ row.chan = c
    <3>1. row \in Rows /\ row.present = d.present /\ row.port = d.port /\ row.addr = i /\ row.is = d.is /\ row.chan = c
      BY <1>6, <2>3 DEF Rows
    <3> QED
      BY <1>6, <3>1
  <2> HIDE DEF w, row
  <2> DEFINE E == intr'
  <2>6. E \in Ends /\ GotEnd(intr, E, row.chan)
    <3>1. CASE kind # "xhci"
      BY <1>2, <1>8, <2>5, <3>1 DEF c, GotEnd
    <3>2. CASE kind = "xhci"
      <4>1. \A n \in Chan : ~ (intr.state[n] \in {"done", "error"})
        BY <1>1, <3>2 DEF Wired
      <4>2. Events(intr) = intr
        BY <1>2, <4>1, NoEvents
      <4> DEFINE u == [intr.used EXCEPT ![First] = yes]
      <4>3. intr' = [intr EXCEPT !.used = u]
        BY <1>8, <3>2, <4>2
      <4>4. u \in [Chan -> BOOLEAN]
        <5>1. intr.used \in [Chan -> BOOLEAN] /\ yes \in BOOLEAN
          BY <1>2 DEF Ends
        <5> HIDE DEF yes
        <5> QED
          BY <1>5, <5>1
      <4> HIDE DEF u
      <4>5. E \in Ends /\ E.state = intr.state /\ E.with = intr.with /\ E.flag = intr.flag /\ E.used = u
        BY <1>2, <4>3, <4>4 DEF Ends
      <4>6. row.chan = First
        BY <2>5, <3>2 DEF c
      <4> QED
        BY <1>5, <3>2, <4>5, <4>6 DEF u, yes, GotEnd
    <3> QED
      BY <3>1, <3>2
  <2> DEFINE Q == port'
             F == devs'
             B == act'
  <2>7. Q = [port EXCEPT ![act.at] = w] /\ F = [devs EXCEPT ![i] = row] /\ B = [act EXCEPT !.pc = "describe", !.entry = i]
    BY <1>8, <2>2
  <2> HIDE DEF E, Q, F, B
  <2>8. Full(kind, Q, F, E, B)
    BY <1>1, <1>3, <2>1, <2>4, <2>5, <2>6, <2>7, AddressedFull
  <2> QED
    BY <2>8 DEF E, Q, F, B
<1> QED
  <2>1. /\ i = CHOOSE j \in free : \A k \in free : j <= k
        /\ d = [NoEntry EXCEPT !.present = TRUE, !.port = act.at, !.is = act.is]
    BY DEF i, d
  <2>2. kind = "xhci" => Enabled # {}
    BY <1>5
  <2> QED
    BY <1>3, <1>5, <1>7, <1>8 DEF Address, i, d

LEMMA NextOfAny == ASSUME NEW A \in Acts, NEW s, NEW B, B = [A EXCEPT !.pc = s] PROVE NextOf(B) = NextOf(A)
<1>1. B.at = A.at
  BY DEF Acts
<1>2. ASSUME NEW x PROVE [B EXCEPT !.pc = "scan", !.at = x, !.entry = 0, !.is = 0] = [A EXCEPT !.pc = "scan", !.at = x, !.entry = 0, !.is = 0]
  BY DEF Acts
<1> DEFINE no == FALSE
<1>3. NextOf(A) = IF A.at < Ports THEN [A EXCEPT !.pc = "scan", !.at = A.at + 1, !.entry = 0, !.is = 0]
                  ELSE [A EXCEPT !.pc = "poll", !.at = 1, !.first = no, !.entry = 0, !.is = 0]
  BY DEF NextOf
<1>4. NextOf(B) = IF B.at < Ports THEN [B EXCEPT !.pc = "scan", !.at = B.at + 1, !.entry = 0, !.is = 0]
                  ELSE [B EXCEPT !.pc = "poll", !.at = 1, !.first = no, !.entry = 0, !.is = 0]
  BY DEF NextOf
<1> HIDE DEF no
<1>5. [B EXCEPT !.pc = "poll", !.at = 1, !.first = no, !.entry = 0, !.is = 0] = [A EXCEPT !.pc = "poll", !.at = 1, !.first = no, !.entry = 0, !.is = 0]
  BY DEF Acts
<1> DEFINE u == A.at + 1
<1>6. [B EXCEPT !.pc = "scan", !.at = u, !.entry = 0, !.is = 0] = [A EXCEPT !.pc = "scan", !.at = u, !.entry = 0, !.is = 0]
  BY <1>2
<1> QED
  BY <1>1, <1>3, <1>4, <1>5, <1>6

(* An enumeration that fails: its device is gone, or xHCI was given one it cannot use. *)
LEMMA FailedFull ==
  ASSUME ConstantsOK, Full(kind, port, devs, intr, act), act.pc \in {"describe", "configure"}, NEW i, i = act.entry, Failed(i),
         ~ port[act.at].on \/ (kind = "xhci" /\ port[act.at].fn = "none")
  PROVE  Full(kind, port, devs', intr', act')
<1>1. /\ Shapes(kind, port, devs, intr, act) /\ Table(kind, devs, intr, act) /\ Names(port, devs, act) /\ Faces(kind, port, act)
      /\ Wired(kind, port, devs, intr, act) /\ Busy(act)
  BY DEF Full, Busy
<1>2. /\ devs \in [Entry -> Rows] /\ intr \in Ends /\ act \in Acts /\ kind \in {"xhci", "ehci", "ohci"}
      /\ i \in Entry /\ devs[i].present /\ devs[i].port = act.at /\ act.at \in Port /\ Making(act, i)
      /\ devs[i].chan \in 0 .. MaxInt /\ (devs[i].chan # 0 => devs[i].chan \in Chan)
      /\ devs[i].is = act.is
  BY <1>1, ShapesAre DEF Table, Making, Names
<1> DEFINE B == [act EXCEPT !.pc = "address"]
           F == devs'
           E == intr'
<1>3. B \in Acts /\ B.pc = "address" /\ B.at = act.at /\ B.is = act.is /\ B.plugs = act.plugs /\ B.first = act.first
      /\ NextOf(B) = NextOf(act)
  <2>1. B \in Acts /\ B.pc = "address" /\ B.at = act.at /\ B.is = act.is /\ B.plugs = act.plugs /\ B.first = act.first
    BY <1>2 DEF Acts
  <2> DEFINE G == B
  <2>2. G = [act EXCEPT !.pc = "address"]
    OBVIOUS
  <2> HIDE DEF G
  <2>3. NextOf(G) = NextOf(act)
    BY <1>2, <2>2, NextOfAny
  <2> QED
    BY <2>1, <2>3 DEF G
<1>4. F = [devs EXCEPT ![i] = NoEntry]
  BY DEF Failed
<1>5. E = Freed(intr, devs[i].chan)
  <2>1. CASE kind = "xhci"
    <3>1. /\ \A n \in Chan : ~ (intr.state[n] \in {"done", "error"})
          /\ devs[i].chan # 0 => intr.flag[devs[i].chan] = "none"
      BY <1>1, <1>2, <2>1 DEF Wired
    <3>2. Released(intr, devs[i].chan) = Freed(intr, devs[i].chan)
      BY <1>2, <3>1, ReleasedIs
    <3> QED
      BY <2>1, <3>2 DEF Failed
  <2>2. CASE kind # "xhci"
    <3>1. devs[i].chan = 0
      BY <1>1, <1>2, <2>2 DEF Table
    <3> QED
      BY <2>2, <3>1 DEF Failed, Freed
  <2> QED
    BY <2>1, <2>2
<1>6. ~ Here(port, devs[i].is) \/ (kind = "xhci" /\ Making(act, i))
  BY <1>1, <1>2 DEF Here, Names
<1>7. port[act.at].change \/ (kind = "xhci" /\ port[act.at].fn = "none")
  BY <1>1 DEF Faces
<1> HIDE DEF B, F, E
<1>8. Full(kind, port, F, E, B)
  BY <1>2, <1>3, <1>4, <1>5, <1>6, RemovedFull
<1>9. Full(kind, port, F, E, NextOf(B))
  BY <1>3, <1>7, <1>8, GiveUpFull
<1> QED
  BY <1>3, <1>9, NextIs DEF Failed, F, E

LEMMA DescribedFull ==
  ASSUME ConstantsOK, NEW P, NEW D, NEW C, NEW A, Full(kind, P, D, C, A), A.pc = "describe", NEW f \in {"none", "hid"},
         NEW F, F = [D EXCEPT ![A.entry].fn = f], NEW B, B = [A EXCEPT !.pc = "configure"]
  PROVE  Full(kind, P, F, C, B)
<1>1. /\ Shapes(kind, P, D, C, A) /\ Table(kind, D, C, A) /\ Names(P, D, A) /\ Faces(kind, P, A) /\ Known(P, D, A)
      /\ Addressed(kind, P, D, A) /\ Wired(kind, P, D, C, A)
  BY DEF Full
<1>2. /\ A.at \in Port /\ D \in [Entry -> Rows] /\ A \in Acts /\ A.entry \in Entry /\ D[A.entry] \in Rows
  BY <1>1, ShapesAre DEF Table
<1>3. B \in Acts /\ B.pc = "configure" /\ B.entry = A.entry /\ B.at = A.at /\ B.is = A.is /\ B.plugs = A.plugs /\ B.first = A.first
  BY <1>2 DEF Acts
<1> DEFINE row == [D[A.entry] EXCEPT !.fn = f]
<1>4. /\ row \in Rows /\ row.present = D[A.entry].present /\ row.port = D[A.entry].port /\ row.addr = D[A.entry].addr
      /\ row.chan = D[A.entry].chan /\ row.is = D[A.entry].is
  BY <1>2 DEF Rows
<1>5. F = [D EXCEPT ![A.entry] = row]
  OBVIOUS
<1> HIDE DEF row
<1>6. /\ F \in [Entry -> Rows]
      /\ \A i \in Entry : /\ F[i].present = D[i].present /\ F[i].port = D[i].port /\ F[i].addr = D[i].addr
                          /\ F[i].chan = D[i].chan /\ F[i].is = D[i].is
  BY <1>2, <1>4, <1>5
<1>7. Busy(A) /\ Busy(B) /\ \A i : Making(B, i) <=> Making(A, i)
  BY <1>3 DEF Busy, Making
<1>8. Shapes(kind, P, F, C, B)
  BY <1>1, <1>3, <1>6 DEF Shapes
<1>9. Table(kind, F, C, B)
  <2>1. \A i, j \in Entry : F[i].present /\ F[j].present /\ i # j => F[i].port # F[j].port /\ (F[i].chan # 0 => F[i].chan # F[j].chan)
    BY <1>1, <1>6 DEF Table
  <2>2. \A n \in Chan : C.used[n] <=> \E i \in Entry : F[i].present /\ F[i].chan = n
    BY <1>1, <1>6 DEF Table
  <2>3. \A i \in Entry : F[i].present => F[i].port \in Port /\ (F[i].chan # 0 <=> kind = "xhci" \/ ~ Making(B, i))
    BY <1>1, <1>6, <1>7 DEF Table
  <2>4. F[A.entry].present /\ F[A.entry].port = A.at
    BY <1>1, <1>2, <1>6 DEF Table
  <2> QED
    BY <1>2, <1>3, <2>1, <2>2, <2>3, <2>4 DEF Table
<1>10. Names(P, F, B)
  <2>1. \A i \in Entry : F[i].present => /\ 0 < F[i].is /\ F[i].is <= B.plugs
                                         /\ \A p \in Port : P[p].is = F[i].is => p = F[i].port /\ P[p].on
    BY <1>1, <1>3, <1>6 DEF Names
  <2>2. F[B.entry].is = B.is
    BY <1>1, <1>2, <1>3, <1>6 DEF Names
  <2> QED
    BY <1>1, <1>3, <1>7, <2>1, <2>2 DEF Names
<1>11. Faces(kind, P, B)
  BY <1>1, <1>3, <1>7 DEF Faces
<1>12. Known(P, F, B)
  BY <1>1, <1>3, <1>6, <1>7 DEF Known
<1>13. Addressed(kind, P, F, B)
  <2>1. ASSUME kind # "xhci", NEW p \in Port, P[p].on
        PROVE  P[p].addr # 0 /\ F[P[p].addr].present /\ F[P[p].addr].port = p /\ F[P[p].addr].is = P[p].is
    <3>1. P[p].addr # 0 /\ D[P[p].addr].present /\ D[P[p].addr].port = p /\ D[P[p].addr].is = P[p].is
      BY <1>1, <2>1 DEF Addressed
    <3>2. P[p].addr \in Entry
      BY <1>1, <3>1, ShapesAre, BoundsAre DEF Entry
    <3> QED
      BY <1>6, <3>1, <3>2
  <2>2. \A i \in Entry : F[i].present => F[i].addr = i
    BY <1>1, <1>6 DEF Addressed
  <2> QED
    BY <2>1, <2>2 DEF Addressed
<1>14. Wired(kind, P, F, C, B)
  <2>1. \A n \in Chan : C.flag[n] = "none" /\ (kind = "xhci" => ~ (C.state[n] \in {"done", "error"}))
    BY <1>1 DEF Wired
  <2>2. \A i \in Entry : F[i].present /\ F[i].chan # 0 => IF Making(B, i) THEN C.state[F[i].chan] = "idle" ELSE C.with[F[i].chan] = F[i].is
    BY <1>1, <1>6, <1>7 DEF Wired
  <2>3. \A n \in Chan : ~ C.used[n] => C.state[n] = "idle"
    BY <1>1 DEF Wired
  <2>4. \A n \in Chan : C.state[n] = "error" \/ C.flag[n] = "error" => ~ Here(P, C.with[n])
    BY <1>1 DEF Wired
  <2> QED
    BY <2>1, <2>2, <2>3, <2>4 DEF Wired
<1> QED
  BY <1>8, <1>9, <1>10, <1>11, <1>12, <1>13, <1>14 DEF Full

LEMMA DescribeFull == ASSUME ConstantsOK, Steady, Full(kind, port, devs, intr, act), NEW ok \in BOOLEAN, Describe(ok)
                      PROVE  Full(kind, port', devs', intr', act')
<1>1. /\ Shapes(kind, port, devs, intr, act) /\ Table(kind, devs, intr, act) /\ Names(port, devs, act) /\ Faces(kind, port, act)
      /\ Addressed(kind, port, devs, act) /\ Wired(kind, port, devs, intr, act) /\ act.pc = "describe" /\ Busy(act) /\ port' = port
  BY DEF Full, Busy, Describe
<1> DEFINE i == act.entry
           d == devs[i]
<1>2. i \in Entry /\ d.port = act.at /\ d.addr = i /\ act.at \in Port /\ intr \in Ends /\ port[act.at] \in Places
      /\ kind \in {"xhci", "ehci", "ohci"}
  BY <1>1, ShapesAre DEF Table, Addressed
<1>3. /\ ok => port[act.at].on /\ Answering(d) = {act.at}
      /\ ~ ok => ~ port[act.at].on
  <2>1. Talks(d, ok)
    BY DEF Describe
  <2>2. d.addr = IF act.pc = "address" THEN 0 ELSE act.entry
    BY <1>1, <1>2
  <2> HIDE DEF d
  <2> QED
    BY <1>1, <1>2, <2>1, <2>2, TalksIs
<1>4. CASE ~ ok /\ Failed(i)
  BY <1>1, <1>3, <1>4, FailedFull
<1>5. CASE ok /\ port[act.at].fn = "none" /\ Failed(i)
  <2>1. kind = "xhci"
    BY <1>1, <1>2, <1>3, <1>5 DEF Faces
  <2> QED
    BY <1>1, <1>5, <2>1, FailedFull
<1>6. CASE /\ ok /\ port[act.at].fn # "none"
           /\ devs' = [devs EXCEPT ![i].fn = port[act.at].fn] /\ intr' = Events(intr) /\ act' = [act EXCEPT !.pc = "configure"]
  <2>1. Events(intr) = intr
    <3>1. kind = "xhci" => \A n \in Chan : ~ (intr.state[n] \in {"done", "error"})
      BY <1>1 DEF Wired
    <3> QED
      BY <1>2, <3>1, NoEvents
  <2>2. port[act.at].fn \in {"none", "hid"}
    BY <1>2 DEF Places
  <2> QED
    BY <1>1, <1>6, <2>1, <2>2, DescribedFull
<1> QED
  <2>1. Failed(i) \/ (ok /\ \E p \in Answering(d) : IF port[p].fn = "none" THEN Failed(i)
                      ELSE /\ devs' = [devs EXCEPT ![i].fn = port[p].fn] /\ intr' = Events(intr) /\ act' = [act EXCEPT !.pc = "configure"])
    BY DEF Describe
  <2> QED
    BY <1>3, <1>4, <1>5, <1>6 DEF Describe

(* The first transfer of an endpoint is under way. *)
SetGoing(C, E, n, is) ==
  /\ \A m \in Chan : IF m = n THEN E.used[m] /\ E.with[m] = is /\ E.state[m] = "armed"
                     ELSE E.used[m] = C.used[m] /\ E.with[m] = C.with[m] /\ E.state[m] = C.state[m]
  /\ \A m \in Chan : E.flag[m] = C.flag[m]

LEMMA ConfiguredFull ==
  ASSUME ConstantsOK, NEW P, NEW D, NEW C, NEW A, Full(kind, P, D, C, A), A.pc = "configure", P[A.at].on, NEW n \in Chan,
         IF kind = "xhci" THEN n = D[A.entry].chan ELSE ~ C.used[n],
         NEW E \in Ends, SetGoing(C, E, n, A.is),
         NEW F, F = [D EXCEPT ![A.entry].chan = n], NEW B, B = NextOf(A)
  PROVE  Full(kind, P, F, E, B)
<1>1. /\ Shapes(kind, P, D, C, A) /\ Table(kind, D, C, A) /\ Names(P, D, A) /\ Faces(kind, P, A) /\ Known(P, D, A)
      /\ Addressed(kind, P, D, A) /\ Wired(kind, P, D, C, A)
  BY DEF Full
<1> DEFINE i == A.entry
           row == [D[i] EXCEPT !.chan = n]
<1>2. /\ A.at \in Port /\ A.at \in Nat /\ Port \subseteq Nat /\ D \in [Entry -> Rows] /\ A \in Acts /\ i \in Entry /\ D[i] \in Rows
      /\ D[i].present /\ D[i].port = A.at /\ D[i].is = A.is /\ n # 0 /\ n \in 0 .. MaxInt
  BY <1>1, ShapesAre, BoundsAre DEF Table, Names, Chan, Port
<1>3. /\ B \in Acts /\ B.pc \in {"scan", "poll"} /\ B.plugs = A.plugs
      /\ B.pc = "poll" => B.at = 1 /\ B.at \in Entry /\ ~ B.first
      /\ B.pc = "scan" => B.at = A.at + 1 /\ B.at \in Port /\ B.first = A.first
  BY <1>2, NextOfIs
<1>4. /\ row \in Rows /\ row.present /\ row.port = A.at /\ row.addr = D[i].addr /\ row.chan = n /\ row.is = A.is
  <2>1. /\ row \in Rows /\ row.present = D[i].present /\ row.port = D[i].port /\ row.addr = D[i].addr /\ row.chan = n /\ row.is = D[i].is
    BY <1>2 DEF Rows
  <2> QED
    BY <1>2, <2>1
<1>5. F = [D EXCEPT ![i] = row]
  OBVIOUS
<1> HIDE DEF row, i
<1>6. F \in [Entry -> Rows] /\ F[i] = row /\ \A j \in Entry : j # i => F[j] = D[j]
  BY <1>2, <1>4, <1>5
<1>7. \A j \in Entry : /\ F[j].present = D[j].present /\ F[j].port = D[j].port /\ F[j].addr = D[j].addr /\ F[j].is = D[j].is
  <2>1. D[i].present = TRUE /\ row.present = TRUE
    <3>1. row.present \in BOOLEAN /\ D[i].present \in BOOLEAN
      BY <1>2, <1>4 DEF Rows
    <3> QED
      BY <1>2, <1>4, <3>1
  <2> QED
    BY <1>2, <1>4, <1>6, <2>1
<1>8. Busy(A) /\ ~ Busy(B) /\ (\A j : ~ Making(B, j)) /\ \A j : Making(A, j) <=> j = i
  BY <1>3 DEF Busy, Making, i
<1>9. Shapes(kind, P, F, E, B)
  BY <1>1, <1>3, <1>6 DEF Shapes
<1>10. \A j \in Entry : D[j].present /\ j # i => D[j].chan # n /\ D[j].port # A.at
  <2>1. ASSUME NEW j \in Entry, D[j].present, j # i PROVE D[j].chan # n /\ D[j].port # A.at
    <3>1. D[j].port # A.at
      BY <1>1, <1>2, <2>1 DEF Table
    <3>2. CASE kind = "xhci"
      <4>1. n = D[i].chan
        BY <3>2 DEF i
      <4> QED
        BY <1>1, <1>2, <2>1, <3>1, <4>1 DEF Table
    <3>3. CASE kind # "xhci"
      BY <1>1, <2>1, <3>1, <3>3 DEF Table
    <3> QED
      BY <3>2, <3>3
  <2> QED
    BY <2>1
<1>11. Table(kind, F, E, B)
  <2>1. \A j, h \in Entry : F[j].present /\ F[h].present /\ j # h => F[j].port # F[h].port /\ (F[j].chan # 0 => F[j].chan # F[h].chan)
    <3>1. ASSUME NEW j \in Entry, NEW h \in Entry, F[j].present, F[h].present, j # h
          PROVE  F[j].port # F[h].port /\ (F[j].chan # 0 => F[j].chan # F[h].chan)
      <4>1. D[j].present /\ D[h].present
        BY <1>7, <3>1
      <4>2. F[j].port # F[h].port
        BY <1>1, <1>7, <3>1, <4>1 DEF Table
      <4>3. CASE j = i
        <5>1. F[j].chan = n /\ h # i
          BY <1>4, <1>6, <3>1, <4>3
        <5>2. F[h].chan # n
          BY <1>6, <1>10, <4>1, <5>1
        <5> QED
          BY <4>2, <5>1, <5>2
      <4>4. CASE h = i
        <5>1. F[h].chan = n /\ j # i
          BY <1>4, <1>6, <3>1, <4>4
        <5>2. F[j].chan # n
          BY <1>6, <1>10, <4>1, <5>1
        <5> QED
          BY <4>2, <5>1, <5>2
      <4>5. CASE j # i /\ h # i
        BY <1>1, <1>6, <3>1, <4>1, <4>2, <4>5 DEF Table
      <4> QED
        BY <4>3, <4>4, <4>5
    <3> QED
      BY <3>1
  <2>2. ASSUME NEW j \in Entry, F[j].present PROVE F[j].port \in Port /\ F[j].chan # 0
    <3>1. CASE j = i
      BY <1>2, <1>4, <1>6, <3>1
    <3>2. CASE j # i
      <4>1. F[j] = D[j] /\ D[j].present /\ ~ Making(A, j)
        BY <1>6, <1>8, <2>2, <3>2
      <4>2. D[j].port \in Port /\ D[j].chan # 0
        BY <1>1, <4>1 DEF Table
      <4> QED
        BY <4>1, <4>2
    <3> QED
      BY <3>1, <3>2
  <2>3. ASSUME NEW m \in Chan PROVE E.used[m] <=> \E j \in Entry : F[j].present /\ F[j].chan = m
    <3>1. CASE m = n
      <4>1. F[i].present /\ F[i].chan = n
        BY <1>4, <1>6
      <4> QED
        BY <1>2, <3>1, <4>1 DEF SetGoing
    <3>2. CASE m # n
      <4>1. C.used[m] <=> \E j \in Entry : D[j].present /\ D[j].chan = m
        BY <1>1 DEF Table
      <4>2. D[i].chan # m
        <5>1. CASE kind = "xhci"
          BY <3>2, <5>1 DEF i
        <5>2. CASE kind # "xhci"
          <6>1. D[i].chan = 0
            BY <1>1, <1>2, <1>8, <5>2 DEF Table
          <6> QED
            BY <6>1 DEF Chan
        <5> QED
          BY <5>1, <5>2
      <4>3. F[i].chan # m
        BY <1>4, <1>6, <3>2
      <4>4. (\E j \in Entry : D[j].present /\ D[j].chan = m) <=> \E j \in Entry : F[j].present /\ F[j].chan = m
        BY <1>6, <4>2, <4>3
      <4> QED
        BY <3>2, <4>1, <4>4 DEF SetGoing
    <3> QED
      BY <3>1, <3>2
  <2> QED
    BY <1>3, <1>8, <2>1, <2>2, <2>3 DEF Table
<1>12. Names(P, F, B)
  <2>1. \A j \in Entry : F[j].present => /\ 0 < F[j].is /\ F[j].is <= B.plugs
                                         /\ \A p \in Port : P[p].is = F[j].is => p = F[j].port /\ P[p].on
    BY <1>1, <1>3, <1>7 DEF Names
  <2> QED
    BY <1>1, <1>3, <1>8, <2>1 DEF Names
<1>13. Faces(kind, P, B)
  <2>1. ASSUME B.first, NEW p \in Port, P[p].is # 0, B.at < p \/ (B.at = p /\ B.pc = "scan") PROVE P[p].change
    <3>1. B.pc = "scan" /\ A.first /\ p \in Nat
      BY <1>2, <1>3, <2>1
    <3>2. A.at < p
      BY <1>2, <1>3, <2>1, <3>1
    <3> QED
      BY <1>1, <2>1, <3>1, <3>2 DEF Faces
  <2> QED
    BY <1>1, <1>3, <1>8, <2>1 DEF Faces
<1>14. Known(P, F, B)
  <2> SUFFICES ASSUME NEW p \in Port, ~ P[p].change, ~ P[p].away
               PROVE  /\ \A j \in Entry : F[j].present /\ F[j].port = p => P[p].is # 0 /\ F[j].is = P[p].is
                      /\ P[p].is # 0 /\ P[p].fn # "none" => \E j \in Entry : F[j].present /\ F[j].port = p
    BY DEF Known
  <2>1. CASE p # A.at
    BY <1>1, <1>7, <2>1 DEF Known
  <2>2. CASE p = A.at
    <3>1. P[p].is = A.is /\ P[p].is # 0
      BY <1>1, <1>8, <2>2 DEF Faces
    <3>2. \A j \in Entry : F[j].present /\ F[j].port = p => j = i
      BY <1>7, <1>10, <2>2
    <3>3. F[i].present /\ F[i].port = p /\ F[i].is = A.is
      BY <1>4, <1>6, <2>2
    <3> QED
      BY <1>2, <3>1, <3>2, <3>3
  <2> QED
    BY <2>1, <2>2
<1>15. Addressed(kind, P, F, B)
  <2>1. ASSUME kind # "xhci", NEW p \in Port, P[p].on
        PROVE  P[p].addr # 0 /\ F[P[p].addr].present /\ F[P[p].addr].port = p /\ F[P[p].addr].is = P[p].is
    <3>1. P[p].addr # 0 /\ D[P[p].addr].present /\ D[P[p].addr].port = p /\ D[P[p].addr].is = P[p].is
      BY <1>1, <2>1 DEF Addressed
    <3>2. P[p].addr \in Entry
      BY <1>1, <3>1, ShapesAre, BoundsAre DEF Entry
    <3> QED
      BY <1>7, <3>1, <3>2
  <2>2. \A j \in Entry : F[j].present => F[j].addr = j
    BY <1>1, <1>7 DEF Addressed
  <2> QED
    BY <2>1, <2>2 DEF Addressed
<1>16. Wired(kind, P, F, E, B)
  <2>1. \A m \in Chan : C.flag[m] = "none" /\ (kind = "xhci" => ~ (C.state[m] \in {"done", "error"}))
    BY <1>1 DEF Wired
  <2>2. \A m \in Chan : E.flag[m] = "none" /\ (kind = "xhci" => ~ (E.state[m] \in {"done", "error"}))
    BY <2>1 DEF SetGoing
  <2>3. \A m \in Chan : ~ E.used[m] => E.state[m] = "idle"
    BY <1>1 DEF Wired, SetGoing
  <2>4. ASSUME NEW j \in Entry, F[j].present, F[j].chan # 0 PROVE E.with[F[j].chan] = F[j].is
    <3>1. CASE j = i
      BY <1>4, <1>6, <3>1 DEF SetGoing
    <3>2. CASE j # i
      <4>1. D[j].present /\ D[j].chan # 0 /\ F[j] = D[j] /\ D[j].chan # n /\ D[j].chan \in Chan
        <5>1. D[j].present /\ D[j].chan # 0 /\ F[j] = D[j]
          BY <1>6, <1>7, <2>4, <3>2
        <5>2. D[j].chan # n
          BY <1>10, <3>2, <5>1
        <5>3. D[j].chan \in Chan
          BY <1>1, <5>1, ShapesAre
        <5> QED
          BY <5>1, <5>2, <5>3
      <4>2. C.with[D[j].chan] = D[j].is
        BY <1>1, <1>8, <3>2, <4>1 DEF Wired
      <4>3. E.with[D[j].chan] = C.with[D[j].chan]
        BY <4>1 DEF SetGoing
      <4> QED
        BY <4>1, <4>2, <4>3
    <3> QED
      BY <3>1, <3>2
  <2>5. \A m \in Chan : E.state[m] = "error" => ~ Here(P, E.with[m])
    BY <1>1 DEF Wired, SetGoing
  <2> QED
    BY <1>8, <2>2, <2>3, <2>4, <2>5 DEF Wired
<1> QED
  BY <1>9, <1>11, <1>12, <1>13, <1>14, <1>15, <1>16 DEF Full

LEMMA ArmedIs ==
  ASSUME ConstantsOK, NEW C \in Ends, NEW n \in Chan, NEW is \in 0 .. Plugs, C.used[n], NEW E, E = Armed(C, n, is)
  PROVE  E \in Ends /\ SetGoing(C, E, n, is)
<1> DEFINE s == [C.state EXCEPT ![n] = "armed"]
           w == [C.with EXCEPT ![n] = is]
<1>1. C.state \in [Chan -> {"idle", "armed", "done", "error"}] /\ C.with \in [Chan -> 0 .. Plugs]
  BY DEF Ends
<1>2. /\ s \in [Chan -> {"idle", "armed", "done", "error"}] /\ w \in [Chan -> 0 .. Plugs]
      /\ \A m \in Chan : IF m = n THEN s[m] = "armed" /\ w[m] = is ELSE s[m] = C.state[m] /\ w[m] = C.with[m]
  BY <1>1
<1>3. E = [C EXCEPT !.state = s, !.with = w]
  BY DEF Armed
<1> HIDE DEF s, w
<1>4. E \in Ends /\ E.state = s /\ E.with = w /\ E.used = C.used /\ E.flag = C.flag
  BY <1>2, <1>3 DEF Ends
<1> QED
  BY <1>2, <1>4 DEF SetGoing

(* ehci_setup_intr() and ohci_setup_intr() take a free endpoint and hang it in the list. *)
LEMMA LinkedIs ==
  ASSUME ConstantsOK, NEW C \in Ends, NEW n \in Chan, NEW E, E = Linked([C EXCEPT !.used[n] = TRUE], n)
  PROVE  /\ E \in Ends /\ E.state = C.state /\ E.with = C.with /\ E.flag = C.flag /\ E.used[n]
         /\ \A m \in Chan : m # n => E.used[m] = C.used[m]
<1> DEFINE yes == TRUE
           u == [C.used EXCEPT ![n] = yes]
           G == [C EXCEPT !.used = u]
           a == [C.next EXCEPT ![n] = C.next[0]]
           b == [a EXCEPT ![0] = n]
<1>1. C.used \in [Chan -> BOOLEAN] /\ C.next \in [0 .. MaxInt -> 0 .. MaxInt]
  BY DEF Ends
<1>2. n \in 0 .. MaxInt /\ 0 \in 0 .. MaxInt /\ yes \in BOOLEAN
  BY BoundsAre DEF Chan
<1> HIDE DEF yes
<1>3. u \in [Chan -> BOOLEAN] /\ u[n] = yes /\ \A m \in Chan : m # n => u[m] = C.used[m]
  BY <1>1, <1>2
<1>4. a \in [0 .. MaxInt -> 0 .. MaxInt]
  BY <1>1, <1>2
<1> HIDE DEF a
<1>5. b \in [0 .. MaxInt -> 0 .. MaxInt]
  BY <1>2, <1>4
<1> HIDE DEF u
<1>6. G \in Ends /\ G.used = u /\ G.state = C.state /\ G.with = C.with /\ G.flag = C.flag /\ G.next = C.next
  BY <1>3 DEF Ends
<1>7. E = [G EXCEPT !.next = b]
  <2>1. E = Linked(G, n)
    BY DEF u, yes
  <2>2. Linked(G, n) = [G EXCEPT !.next[n] = G.next[0], !.next[0] = n]
    BY DEF Linked
  <2>3. [G EXCEPT !.next[n] = G.next[0], !.next[0] = n] = [G EXCEPT !.next = [[G.next EXCEPT ![n] = G.next[0]] EXCEPT ![0] = n]]
    <3> HIDE DEF G
    <3> QED
      BY <1>6 DEF Ends
  <2> QED
    BY <1>6, <2>1, <2>2, <2>3 DEF a
<1> HIDE DEF G, b
<1>8. E \in Ends /\ E.state = G.state /\ E.with = G.with /\ E.flag = G.flag /\ E.used = G.used
  BY <1>5, <1>6, <1>7 DEF Ends
<1> QED
  BY <1>3, <1>6, <1>8 DEF yes

LEMMA ConfigureFull == ASSUME ConstantsOK, Steady, Roomy, Full(kind, port, devs, intr, act), NEW ok \in BOOLEAN, Configure(ok)
                       PROVE  Full(kind, port', devs', intr', act')
<1>1. /\ Shapes(kind, port, devs, intr, act) /\ Table(kind, devs, intr, act) /\ Names(port, devs, act) /\ Faces(kind, port, act)
      /\ Addressed(kind, port, devs, act) /\ Wired(kind, port, devs, intr, act) /\ act.pc = "configure" /\ Busy(act) /\ port' = port
  BY DEF Full, Busy, Configure
<1> DEFINE i == act.entry
           d == devs[i]
           n == IF kind = "xhci" THEN d.chan ELSE First
           linked == IF kind = "xhci" THEN intr ELSE Linked([intr EXCEPT !.used[n] = TRUE], n)
<1>2. /\ i \in Entry /\ d.present /\ d.port = act.at /\ d.addr = i /\ act.at \in Port /\ intr \in Ends /\ act.is \in 0 .. Plugs
      /\ kind \in {"xhci", "ehci", "ohci"} /\ (d.chan # 0 => d.chan \in Chan)
      /\ d.chan # 0 <=> kind = "xhci"
  BY <1>1, ShapesAre DEF Table, Addressed, Making
<1>3. /\ ok => port[act.at].on /\ Answering(d) = {act.at}
      /\ ~ ok => ~ port[act.at].on
  <2>1. Talks(d, ok)
    BY DEF Configure
  <2>2. d.addr = IF act.pc = "address" THEN 0 ELSE act.entry
    BY <1>1, <1>2
  <2> HIDE DEF d
  <2> QED
    BY <1>1, <1>2, <2>1, <2>2, TalksIs
<1>4. kind # "xhci" => Enabled # {} /\ First \in Chan /\ ~ intr.used[First]
  <2>1. ASSUME kind # "xhci" PROVE \E m \in Chan : ~ intr.used[m]
    <3>1. \A j \in Entry : devs[j].present /\ devs[j].chan # 0 => devs[j].port # act.at
      BY <1>1, <1>2, <2>1 DEF Table
    <3> QED
      BY <1>1, <1>2, <3>1, FreeEnd
  <2> QED
    BY <2>1, FirstIs DEF Enabled
<1>5. Events(intr) = intr
  <2>1. kind = "xhci" => \A m \in Chan : ~ (intr.state[m] \in {"done", "error"})
    BY <1>1 DEF Wired
  <2> QED
    BY <1>2, <2>1, NoEvents
<1>6. CASE ~ ok /\ Failed(i)
  BY <1>1, <1>3, <1>6, FailedFull
<1>7. CASE /\ ok /\ intr' = Armed(linked, n, port[act.at].is)
           /\ devs' = [devs EXCEPT ![i].chan = n] /\ act' = NextPort
  <2>1. n \in Chan /\ IF kind = "xhci" THEN n = devs[act.entry].chan ELSE ~ intr.used[n]
    BY <1>2, <1>4
  <2>2. port[act.at].is = act.is
    BY <1>1, <1>3, <1>7 DEF Faces
  <2>3. /\ linked \in Ends /\ linked.state = intr.state /\ linked.with = intr.with /\ linked.flag = intr.flag /\ linked.used[n]
        /\ \A m \in Chan : m # n => linked.used[m] = intr.used[m]
    <3>1. CASE kind = "xhci"
      <4>1. intr.used[n]
        BY <1>1, <1>2, <2>1, <3>1 DEF Table
      <4> QED
        BY <1>2, <3>1, <4>1
    <3>2. CASE kind # "xhci"
      <4> DEFINE G == Linked([intr EXCEPT !.used[n] = TRUE], n)
      <4>1. G = Linked([intr EXCEPT !.used[n] = TRUE], n) /\ linked = G
        BY <3>2
      <4> HIDE DEF n, G
      <4>2. /\ G \in Ends /\ G.state = intr.state /\ G.with = intr.with /\ G.flag = intr.flag /\ G.used[n]
            /\ \A m \in Chan : m # n => G.used[m] = intr.used[m]
        BY <1>2, <2>1, <4>1, LinkedIs
      <4> QED
        BY <4>1, <4>2
    <3> QED
      BY <3>1, <3>2
  <2> DEFINE E == intr'
             F == devs'
  <2> HIDE DEF n, linked
  <2>4. E = Armed(linked, n, act.is) /\ F = [devs EXCEPT ![act.entry].chan = n]
    BY <1>7, <2>2
  <2> HIDE DEF E, F
  <2>5. E \in Ends /\ SetGoing(linked, E, n, act.is)
    BY <1>2, <2>1, <2>3, <2>4, ArmedIs
  <2>6. SetGoing(intr, E, n, act.is)
    BY <2>3, <2>5 DEF SetGoing
  <2>7. Full(kind, port, F, E, NextOf(act))
    BY <1>1, <1>3, <1>7, <2>1, <2>4, <2>5, <2>6, ConfiguredFull
  <2> QED
    BY <1>1, <1>7, <2>7, NextIs DEF E, F
<1> QED
  <2>1. kind # "xhci" => Enabled # {}
    BY <1>4
  <2>2. (Failed(i) /\ ~ ok) \/ (ok /\ (\E p \in Answering(d) : intr' = Armed(linked, n, port[p].is)) /\ devs' = [devs EXCEPT ![i].chan = n]
                                /\ act' = NextPort)
    BY <1>5, <2>1 DEF Configure
  <2> QED
    BY <1>3, <1>6, <1>7, <2>2

(* News on a port: what is on it now is not enabled yet, and is called as nothing was before. *)
LEMMA NewsFull ==
  ASSUME ConstantsOK, NEW P, NEW D, NEW C, NEW A, Full(kind, P, D, C, A), NEW p \in Port, NEW w \in Places, ~ w.on, w.change,
         w.is # 0 /\ w.fn = "none" => kind = "xhci", NEW Q, Q = [P EXCEPT ![p] = w],
         NEW B \in Acts, B.pc = A.pc, B.at = A.at, B.first = A.first, B.entry = A.entry, B.is = A.is,
         IF w.is = 0 THEN B.plugs = A.plugs ELSE w.is = A.plugs + 1 /\ B.plugs = A.plugs + 1
  PROVE  Full(kind, Q, D, C, B)
<1>1. /\ Shapes(kind, P, D, C, A) /\ Table(kind, D, C, A) /\ Names(P, D, A) /\ Faces(kind, P, A) /\ Known(P, D, A)
      /\ Addressed(kind, P, D, A) /\ Wired(kind, P, D, C, A)
  BY DEF Full
<1>2. /\ P \in [Port -> Places] /\ A.plugs \in Nat /\ B.plugs \in Nat /\ A.is \in Nat /\ w.is \in Nat
      /\ (\A q \in Port : P[q].is \in Nat) /\ \A i \in Entry : D[i].is \in Nat
  BY <1>1, ShapesAre, BoundsAre DEF Places, Acts
<1>3. Q \in [Port -> Places] /\ Q[p] = w /\ \A q \in Port : q # p => Q[q] = P[q]
  BY <1>2
<1>4. A.plugs <= B.plugs /\ w.is <= B.plugs /\ (w.is = 0 \/ w.is > A.plugs)
  BY <1>2
<1>5. (Busy(B) <=> Busy(A)) /\ \A i : Making(B, i) <=> Making(A, i)
  BY DEF Busy, Making
<1>6. Shapes(kind, Q, D, C, B)
  BY <1>1, <1>3 DEF Shapes
<1>7. Table(kind, D, C, B)
  BY <1>1, <1>5 DEF Table
<1>8. Names(Q, D, B)
  <2>1. ASSUME NEW q \in Port PROVE Q[q].is <= B.plugs
    <3>1. CASE q = p
      BY <1>3, <1>4, <3>1
    <3>2. CASE q # p
      <4>1. P[q].is <= A.plugs /\ Q[q].is = P[q].is
        BY <1>1, <1>3, <3>2 DEF Names
      <4> QED
        BY <1>2, <1>4, <4>1
    <3> QED
      BY <3>1, <3>2
  <2>2. \A q \in Port : q # p => Q[q].is = P[q].is /\ (w.is # 0 => P[q].is # w.is)
    <3>1. ASSUME NEW q \in Port, q # p PROVE Q[q].is = P[q].is /\ (w.is # 0 => P[q].is # w.is)
      <4>1. P[q].is <= A.plugs
        BY <1>1 DEF Names
      <4> QED
        BY <1>2, <1>3, <1>4, <3>1, <4>1
    <3> QED
      BY <3>1
  <2>3. \A q, r \in Port : Q[q].is # 0 /\ q # r => Q[q].is # Q[r].is
    <3>1. ASSUME NEW q \in Port, NEW r \in Port, Q[q].is # 0, q # r PROVE Q[q].is # Q[r].is
      <4>1. CASE q = p
        BY <1>3, <2>2, <3>1, <4>1
      <4>2. CASE r = p
        BY <1>3, <2>2, <3>1, <4>2
      <4>3. CASE q # p /\ r # p
        BY <1>1, <2>2, <3>1, <4>3 DEF Names
      <4> QED
        BY <4>1, <4>2, <4>3
    <3> QED
      BY <3>1
  <2>4. ASSUME NEW i \in Entry, D[i].present
        PROVE  /\ 0 < D[i].is /\ D[i].is <= B.plugs
               /\ \A q \in Port : Q[q].is = D[i].is => q = D[i].port /\ Q[q].on
    <3>1. 0 < D[i].is /\ D[i].is <= A.plugs /\ D[i].is \in Nat
      BY <1>1, <1>2, <2>4 DEF Names
    <3>2. D[i].is # w.is /\ D[i].is <= B.plugs
      BY <1>2, <1>4, <3>1
    <3> QED
      BY <1>1, <1>3, <2>4, <3>1, <3>2 DEF Names
  <2>5. ASSUME Busy(B) PROVE 0 < B.is /\ B.is <= B.plugs /\ \A q \in Port : Q[q].is = B.is => q = B.at
    <3>1. 0 < A.is /\ A.is <= A.plugs /\ \A q \in Port : P[q].is = A.is => q = A.at
      BY <1>1, <1>5, <2>5 DEF Names
    <3>2. A.is # w.is /\ A.is <= B.plugs
      BY <1>2, <1>4, <3>1
    <3> QED
      BY <1>3, <3>1, <3>2
  <2> QED
    BY <1>1, <2>1, <2>3, <2>4, <2>5 DEF Names
<1>9. Faces(kind, Q, B)
  <2>1. \A q \in Port : Q[q].on => Q[q].is # 0 /\ ~ Q[q].away /\ ~ Q[q].change /\ ~ Slow(kind, Q[q].speed)
    BY <1>1, <1>3 DEF Faces
  <2>2. \A q \in Port : Q[q].is # 0 /\ Q[q].fn = "none" => kind = "xhci"
    BY <1>1, <1>3 DEF Faces
  <2>3. Busy(B) => (Q[B.at].on => Q[B.at].is = B.is) /\ (~ Q[B.at].on => Q[B.at].change)
    <3>1. CASE B.at = p
      BY <1>3, <3>1
    <3>2. CASE B.at # p /\ Busy(B)
      <4>1. B.at \in Port
        BY <1>7, <3>2 DEF Table, Busy
      <4> QED
        BY <1>1, <1>3, <1>5, <3>2, <4>1 DEF Faces
    <3> QED
      BY <3>1, <3>2
  <2>4. B.first => B.pc # "poll" /\ \A q \in Port : Q[q].is # 0 /\ (B.at < q \/ (B.at = q /\ B.pc = "scan")) => Q[q].change
    BY <1>1, <1>3 DEF Faces
  <2> QED
    BY <2>1, <2>2, <2>3, <2>4 DEF Faces
<1>10. Known(Q, D, B)
  BY <1>1, <1>3, <1>5 DEF Known
<1>11. Addressed(kind, Q, D, B)
  BY <1>1, <1>3 DEF Addressed
<1>12. Wired(kind, Q, D, C, B)
  <2>1. ASSUME NEW is, Here(Q, is) PROVE Here(P, is)
    BY <1>3, <2>1 DEF Here
  <2> QED
    BY <1>1, <1>5, <2>1 DEF Wired
<1> QED
  BY <1>6, <1>7, <1>8, <1>9, <1>10, <1>11, <1>12 DEF Full

Placed(N, u, fn, speed) == [N EXCEPT !.is = u, !.fn = fn, !.speed = speed]
LEMMA PlacedIs ==
  ASSUME NEW N \in Places, NEW u \in 0 .. Plugs, NEW fn \in {"none", "hid"}, NEW speed \in Speeds \cup {"full"},
         NEW M, M = Placed(N, u, fn, speed)
  PROVE  M \in Places /\ M.is = u /\ M.fn = fn /\ M.on = N.on /\ M.change = N.change
  BY DEF Places, Placed

LEMMA PlugFull ==
  ASSUME ConstantsOK, Steady, Full(kind, port, devs, intr, act), NEW p \in Port, NEW fn \in {"hid", "none"}, NEW speed \in Speeds,
         Plug(p, fn, speed)
  PROVE  Full(kind', port', devs', intr', act')
<1> DEFINE yes == TRUE
           no == FALSE
           zero == 0
           u == act.plugs + 1
           N == [is |-> zero, fn |-> "none", speed |-> "full", change |-> yes, away |-> no, on |-> no, addr |-> zero]
<1>1. Shapes(kind, port, devs, intr, act) /\ act \in Acts /\ act.plugs \in Nat /\ act.plugs < Plugs /\ Plugs \in Nat
  BY ShapesAre, BoundsAre DEF Full, Plug, Acts
<1>2. u \in 0 .. Plugs /\ zero \in 0 .. MaxDevs /\ zero \in 0 .. Plugs /\ yes \in BOOLEAN /\ no \in BOOLEAN /\ u # 0
  BY <1>1, BoundsAre
<1>3. N = Nobody
  BY DEF Nobody
<1>4. fn = "none" => kind = "xhci"
  BY DEF Plug, Steady
<1> DEFINE w == Placed(N, u, fn, speed)
<1>9. act' = [act EXCEPT !.plugs = u] /\ UNCHANGED <<kind, devs, intr>> /\ port' = [port EXCEPT ![p] = w]
  BY <1>3 DEF Plug, Placed
<1> HIDE DEF u, yes, no, zero
<1>10. N \in Places /\ N.change = yes /\ N.away = no /\ N.on = no /\ N.addr = zero
  BY <1>2 DEF Places
<1> HIDE DEF N
<1>11. w = Placed(N, u, fn, speed) /\ fn \in {"none", "hid"} /\ speed \in Speeds \cup {"full"}
  OBVIOUS
<1> HIDE DEF w
<1>5. w \in Places /\ w.is = u /\ w.fn = fn /\ w.on = no /\ w.change = yes
  <2>1. w \in Places /\ w.is = u /\ w.fn = fn /\ w.on = N.on /\ w.change = N.change
    BY <1>2, <1>10, <1>11, PlacedIs
  <2> QED
    BY <1>10, <2>1
<1>6. /\ act' \in Acts /\ act'.pc = act.pc /\ act'.at = act.at /\ act'.first = act.first /\ act'.entry = act.entry /\ act'.is = act.is
      /\ act'.plugs = u
  BY <1>1, <1>2, <1>9 DEF Acts
<1>12. port' = [port EXCEPT ![p] = w] /\ UNCHANGED <<kind, devs, intr>>
  BY <1>9
<1>7. w.is = act.plugs + 1 /\ act'.plugs = act.plugs + 1 /\ ~ w.on /\ w.change /\ w.is # 0
  BY <1>2, <1>5, <1>6 DEF u, yes, no
<1>8. Full(kind, port', devs, intr, act')
  BY <1>12, <1>4, <1>5, <1>6, <1>7, NewsFull
<1> QED
  BY <1>12, <1>8

LEMMA PullFull ==
  ASSUME ConstantsOK, Full(kind, port, devs, intr, act), NEW p \in Port, Pull(p)
  PROVE  Full(kind', port', devs', intr', act')
<1> DEFINE yes == TRUE
           no == FALSE
           zero == 0
           w == [is |-> zero, fn |-> "none", speed |-> "full", change |-> yes, away |-> no, on |-> no, addr |-> zero]
<1>1. act \in Acts
  BY ShapesAre DEF Full
<1>2. zero \in 0 .. Plugs /\ zero \in 0 .. MaxDevs /\ yes \in BOOLEAN /\ no \in BOOLEAN
  BY BoundsAre
<1>3. port' = [port EXCEPT ![p] = w] /\ UNCHANGED <<kind, devs, intr, act>>
  BY DEF Pull, Nobody
<1> HIDE DEF yes, no, zero
<1>4. w \in Places /\ w.is = zero /\ w.on = no /\ w.change = yes
  BY <1>2 DEF Places
<1> HIDE DEF w
<1>5. w.is = 0 /\ ~ w.on /\ w.change
  BY <1>4 DEF zero, yes, no
<1>6. Full(kind, port', devs, intr, act)
  BY <1>1, <1>3, <1>4, <1>5, NewsFull
<1> QED
  BY <1>3, <1>6

(* A transfer ends: what is noted of it is the end's own. *)
LEMMA EndedIs ==
  ASSUME ConstantsOK, NEW C \in Ends, NEW n \in Chan, NEW how \in {"idle", "armed", "done", "error"},
         NEW E, E = [C EXCEPT !.state[n] = how]
  PROVE  /\ E \in Ends /\ E.used = C.used /\ E.with = C.with /\ E.flag = C.flag
         /\ \A m \in Chan : E.state[m] = IF m = n THEN how ELSE C.state[m]
<1> DEFINE s == [C.state EXCEPT ![n] = how]
<1>1. C.state \in [Chan -> {"idle", "armed", "done", "error"}]
  BY DEF Ends
<1>2. s \in [Chan -> {"idle", "armed", "done", "error"}] /\ \A m \in Chan : s[m] = IF m = n THEN how ELSE C.state[m]
  BY <1>1
<1>3. E = [C EXCEPT !.state = s]
  OBVIOUS
<1> HIDE DEF s
<1>4. E \in Ends /\ E.state = s /\ E.with = C.with /\ E.used = C.used /\ E.flag = C.flag
  BY <1>2, <1>3 DEF Ends
<1> QED
  BY <1>2, <1>4

LEMMA TransferFull ==
  ASSUME ConstantsOK, Steady, Full(kind, port, devs, intr, act), NEW n \in Chan, NEW how \in {"done", "error"}, TransferEnds(n, how)
  PROVE  Full(kind', port', devs', intr', act')
<1> DEFINE E == intr'
<1>1. /\ Shapes(kind, port, devs, intr, act) /\ Table(kind, devs, intr, act) /\ Names(port, devs, act) /\ Faces(kind, port, act)
      /\ Known(port, devs, act) /\ Addressed(kind, port, devs, act) /\ Wired(kind, port, devs, intr, act)
  BY DEF Full
<1>2. E = [intr EXCEPT !.state[n] = how] /\ UNCHANGED <<kind, port, devs, act>> /\ intr.state[n] = "armed"
      /\ (how = "error" => ~ Here(port, intr.with[n])) /\ (kind = "xhci" => act.pc = "poll" /\ act.at = 1)
  BY DEF TransferEnds, Steady, Attached, Here
<1> HIDE DEF E
<1>3. intr \in Ends /\ how \in {"idle", "armed", "done", "error"} /\ (\A i \in Entry : devs[i].chan # 0 => devs[i].chan \in Chan)
  BY <1>1, ShapesAre
<1>4. /\ E \in Ends /\ E.used = intr.used /\ E.with = intr.with /\ E.flag = intr.flag
      /\ \A m \in Chan : E.state[m] = IF m = n THEN how ELSE intr.state[m]
  BY <1>2, <1>3, EndedIs
<1>5. Shapes(kind, port, devs, E, act) /\ Table(kind, devs, E, act)
  BY <1>1, <1>4 DEF Shapes, Table
<1>6. Wired(kind, port, devs, E, act)
  <2>1. \A m \in Chan : ~ E.used[m] => E.state[m] = "idle"
    BY <1>1, <1>2, <1>4 DEF Wired
  <2>2. ASSUME NEW i \in Entry, devs[i].present, devs[i].chan # 0
        PROVE  IF Making(act, i) THEN E.state[devs[i].chan] = "idle" ELSE E.with[devs[i].chan] = devs[i].is
    <3>1. IF Making(act, i) THEN intr.state[devs[i].chan] = "idle" ELSE intr.with[devs[i].chan] = devs[i].is
      BY <1>1, <2>2 DEF Wired
    <3>2. devs[i].chan \in Chan
      BY <1>3, <2>2
    <3> QED
      BY <1>2, <1>4, <3>1, <3>2
  <2>3. \A m \in Chan : kind = "xhci" /\ E.state[m] \in {"done", "error"} => act.pc = "poll" /\ act.at = 1
    BY <1>2
  <2>4. \A m \in Chan : E.flag[m] # "none" => /\ kind = "xhci" /\ act.pc = "poll"
                                             /\ \E i \in Entry : devs[i].present /\ devs[i].chan = m /\ act.at <= i
    BY <1>1, <1>4 DEF Wired
  <2>5. \A m \in Chan : E.state[m] = "error" \/ E.flag[m] = "error" => ~ Here(port, E.with[m])
    BY <1>1, <1>2, <1>4 DEF Wired
  <2> QED
    BY <2>1, <2>2, <2>3, <2>4, <2>5 DEF Wired
<1>7. Full(kind, port, devs, E, act)
  BY <1>1, <1>5, <1>6 DEF Full
<1> QED
  BY <1>2, <1>7 DEF E

(* usb_poll() goes on to the next entry, or to the ports: it has left no note behind. *)
LEMMA AdvanceFull ==
  ASSUME ConstantsOK, NEW P, NEW D, NEW C, NEW A, Full(kind, P, D, C, A), A.pc = "poll",
         kind = "xhci" => \A n \in Chan : ~ (C.state[n] \in {"done", "error"}),
         D[A.at].present => \A n \in Chan : D[A.at].chan = n => C.flag[n] = "none",
         NEW B \in Acts, B.first = A.first, B.plugs = A.plugs,
         \/ A.at < MaxDevs /\ B.at = A.at + 1 /\ B.pc = "poll"
         \/ A.at = MaxDevs /\ B.at = 1 /\ B.pc \in {"scan", "poll"}
  PROVE  Full(kind, P, D, C, B)
<1>1. /\ Shapes(kind, P, D, C, A) /\ Table(kind, D, C, A) /\ Names(P, D, A) /\ Faces(kind, P, A) /\ Known(P, D, A)
      /\ Addressed(kind, P, D, A) /\ Wired(kind, P, D, C, A)
  BY DEF Full
<1>2. A.at \in Entry /\ A.at \in Nat /\ A.at >= 1 /\ MaxDevs \in Nat /\ Entry \subseteq Nat /\ 1 \in Port /\ 1 \in Entry
  BY <1>1, BoundsAre DEF Table, Entry, Port
<1>3. ~ Busy(A) /\ ~ Busy(B) /\ (\A i : ~ Making(A, i)) /\ (\A i : ~ Making(B, i)) /\ ~ A.first /\ ~ B.first
  BY <1>1 DEF Busy, Making, Faces
<1>4. B.pc = "poll" => B.at \in Entry
  BY <1>2 DEF Entry
<1>5. B.pc = "scan" => B.at \in Port
  BY <1>2
<1>6. Shapes(kind, P, D, C, B)
  BY <1>1 DEF Shapes
<1>7. Table(kind, D, C, B)
  BY <1>1, <1>3, <1>4, <1>5 DEF Table
<1>8. Names(P, D, B)
  BY <1>1, <1>3 DEF Names
<1>9. Faces(kind, P, B)
  BY <1>1, <1>3 DEF Faces
<1>10. Known(P, D, B)
  BY <1>1, <1>3 DEF Known
<1>11. Addressed(kind, P, D, B)
  BY <1>1 DEF Addressed
<1>12. Wired(kind, P, D, C, B)
  <2>1. ASSUME NEW n \in Chan, C.flag[n] # "none"
        PROVE  /\ kind = "xhci" /\ B.pc = "poll"
               /\ \E i \in Entry : D[i].present /\ D[i].chan = n /\ B.at <= i
    <3>1. kind = "xhci" /\ \E i \in Entry : D[i].present /\ D[i].chan = n /\ A.at <= i
      BY <1>1, <2>1 DEF Wired
    <3>2. PICK i \in Entry : D[i].present /\ D[i].chan = n /\ A.at <= i
      BY <3>1
    <3>3. i # A.at
      BY <2>1, <3>2
    <3>4. i \in Nat /\ i <= MaxDevs
      BY <1>2 DEF Entry
    <3>5. A.at < i
      BY <1>2, <3>2, <3>3, <3>4
    <3>6. A.at < MaxDevs
      BY <1>2, <3>4, <3>5
    <3>7. B.at = A.at + 1 /\ B.pc = "poll"
      BY <1>2, <3>6
    <3>8. B.at <= i
      BY <1>2, <3>4, <3>5, <3>7
    <3> QED
      BY <3>1, <3>2, <3>7, <3>8
  <2>2. \A i \in Entry : D[i].present /\ D[i].chan # 0 => IF Making(B, i) THEN C.state[D[i].chan] = "idle" ELSE C.with[D[i].chan] = D[i].is
    BY <1>1, <1>3 DEF Wired
  <2> QED
    BY <1>1, <2>1, <2>2 DEF Wired
<1> QED
  BY <1>6, <1>7, <1>8, <1>9, <1>10, <1>11, <1>12 DEF Full

LEMMA ForgottenIs ==
  ASSUME ConstantsOK, NEW C \in Ends, NEW n \in Chan, Events(C) = C, NEW E, E = [Released(C, n) EXCEPT !.flag[n] = "none"]
  PROVE  E = Freed(C, n)
<1> DEFINE no == FALSE
           zero == 0
           u == [C.used EXCEPT ![n] = no]
           w == [C.with EXCEPT ![n] = zero]
           s == [C.state EXCEPT ![n] = "idle"]
           f == [C.flag EXCEPT ![n] = "none"]
           R == [C EXCEPT !.used = u, !.state = s, !.with = w]
           G == [C EXCEPT !.used = u, !.with = w, !.state = s, !.flag = f]
<1>1. /\ C.used \in [Chan -> BOOLEAN] /\ C.with \in [Chan -> 0 .. Plugs]
      /\ C.state \in [Chan -> {"idle", "armed", "done", "error"}] /\ C.flag \in [Chan -> {"none", "done", "error"}]
      /\ n # 0 /\ no \in BOOLEAN /\ zero \in 0 .. Plugs
  BY BoundsAre DEF Ends, Chan
<1>2. Released(C, n) = R
  BY <1>1 DEF Released
<1>3. Freed(C, n) = G
  BY <1>1 DEF Freed
<1>4. E = [R EXCEPT !.flag = [R.flag EXCEPT ![n] = "none"]]
  BY <1>2
<1> HIDE DEF no, zero
<1>5. u \in [Chan -> BOOLEAN] /\ w \in [Chan -> 0 .. Plugs] /\ s \in [Chan -> {"idle", "armed", "done", "error"}]
      /\ f \in [Chan -> {"none", "done", "error"}] /\ f = [C.flag EXCEPT ![n] = "none"]
  BY <1>1
<1> HIDE DEF u, w, s, f
<1>6. R \in Ends /\ R.used = u /\ R.state = s /\ R.with = w /\ R.flag = C.flag /\ R.next = C.next
  BY <1>5 DEF Ends
<1>7. G \in Ends /\ G.used = u /\ G.state = s /\ G.with = w /\ G.flag = f /\ G.next = C.next
  BY <1>5 DEF Ends
<1> HIDE DEF R, G
<1>8. E = [R EXCEPT !.flag = f]
  BY <1>4, <1>5, <1>6
<1>9. E \in Ends /\ E.used = u /\ E.state = s /\ E.with = w /\ E.flag = f /\ E.next = C.next
  BY <1>5, <1>6, <1>8 DEF Ends
<1>10. E = G
  BY <1>7, <1>9, EndsSame
<1> QED
  BY <1>3, <1>10

(* The report is taken and the transfer started again. *)
LEMMA RearmedIs ==
  ASSUME ConstantsOK, NEW C \in Ends, NEW n \in Chan, NEW E, E = Rearmed(C, n)
  PROVE  /\ E \in Ends /\ E.used = C.used /\ E.with = C.with
         /\ \A m \in Chan : /\ E.state[m] = IF m = n THEN "armed" ELSE C.state[m]
                            /\ E.flag[m] = IF m = n THEN "none" ELSE C.flag[m]
<1> DEFINE s == [C.state EXCEPT ![n] = "armed"]
           f == [C.flag EXCEPT ![n] = "none"]
<1>1. C.state \in [Chan -> {"idle", "armed", "done", "error"}] /\ C.flag \in [Chan -> {"none", "done", "error"}]
  BY DEF Ends
<1>2. /\ s \in [Chan -> {"idle", "armed", "done", "error"}] /\ f \in [Chan -> {"none", "done", "error"}]
      /\ \A m \in Chan : s[m] = (IF m = n THEN "armed" ELSE C.state[m]) /\ f[m] = (IF m = n THEN "none" ELSE C.flag[m])
  BY <1>1
<1>3. E = [C EXCEPT !.flag = f, !.state = s]
  BY DEF Rearmed
<1> HIDE DEF s, f
<1>4. E \in Ends /\ E.state = s /\ E.with = C.with /\ E.used = C.used /\ E.flag = f
  BY <1>2, <1>3 DEF Ends
<1> QED
  BY <1>2, <1>4

LEMMA RearmedFull ==
  ASSUME ConstantsOK, NEW P, NEW D, NEW C, NEW A, Full(kind, P, D, C, A), A.pc = "poll", NEW n \in Chan,
         D[A.at].present, D[A.at].chan = n, NEW E, E = Rearmed(C, n)
  PROVE  Full(kind, P, D, E, A)
<1>1. /\ Shapes(kind, P, D, C, A) /\ Table(kind, D, C, A) /\ Names(P, D, A) /\ Faces(kind, P, A) /\ Known(P, D, A)
      /\ Addressed(kind, P, D, A) /\ Wired(kind, P, D, C, A)
  BY DEF Full
<1>2. C \in Ends /\ A.at \in Entry /\ C.used[n] /\ \A i \in Entry : D[i].chan # 0 => D[i].chan \in Chan
  BY <1>1, ShapesAre DEF Table
<1>3. /\ E \in Ends /\ E.used = C.used /\ E.with = C.with
      /\ \A m \in Chan : /\ E.state[m] = IF m = n THEN "armed" ELSE C.state[m]
                         /\ E.flag[m] = IF m = n THEN "none" ELSE C.flag[m]
  BY <1>2, RearmedIs
<1>4. Shapes(kind, P, D, E, A) /\ Table(kind, D, E, A) /\ \A i : ~ Making(A, i)
  BY <1>1, <1>3 DEF Shapes, Table, Making
<1>5. Wired(kind, P, D, E, A)
  <2>1. \A m \in Chan : ~ E.used[m] => E.state[m] = "idle"
    BY <1>1, <1>2, <1>3 DEF Wired
  <2>2. \A i \in Entry : D[i].present /\ D[i].chan # 0 => IF Making(A, i) THEN E.state[D[i].chan] = "idle" ELSE E.with[D[i].chan] = D[i].is
    BY <1>1, <1>3, <1>4 DEF Wired
  <2>3. \A m \in Chan : kind = "xhci" /\ E.state[m] \in {"done", "error"} => A.pc = "poll" /\ A.at = 1
    BY <1>1, <1>3 DEF Wired
  <2>4. \A m \in Chan : E.flag[m] # "none" => /\ kind = "xhci" /\ A.pc = "poll"
                                             /\ \E i \in Entry : D[i].present /\ D[i].chan = m /\ A.at <= i
    BY <1>1, <1>3 DEF Wired
  <2>5. \A m \in Chan : E.state[m] = "error" \/ E.flag[m] = "error" => ~ Here(P, E.with[m])
    BY <1>1, <1>3 DEF Wired
  <2> QED
    BY <2>1, <2>2, <2>3, <2>4, <2>5 DEF Wired
<1> QED
  BY <1>1, <1>4, <1>5 DEF Full

LEMMA PollFull == ASSUME ConstantsOK, Steady, Full(kind, port, devs, intr, act), PollEntry
                  PROVE  Full(kind', port', devs', intr', act')
<1> DEFINE i == act.at
           n == devs[i].chan
           E == Events(intr)
           F == devs'
           G == intr'
           what == IF kind = "xhci" THEN E.flag[n] ELSE E.state[n]
           last == i = MaxDevs
<1>1. /\ Shapes(kind, port, devs, intr, act) /\ Table(kind, devs, intr, act) /\ Wired(kind, port, devs, intr, act)
      /\ act.pc = "poll" /\ UNCHANGED <<kind, port>>
  BY DEF Full, PollEntry
<1>2. /\ i \in Entry /\ i \in Nat /\ i <= MaxDevs /\ MaxDevs \in Nat /\ act \in Acts /\ intr \in Ends /\ devs \in [Entry -> Rows]
      /\ kind \in {"xhci", "ehci", "ohci"} /\ (n # 0 => n \in Chan) /\ 1 \in Nat /\ i + 1 \in Nat
  BY <1>1, ShapesAre, BoundsAre DEF Table, Entry
<1>3. /\ Full(kind, port, devs, E, act)
      /\ kind = "xhci" => \A m \in Chan : ~ (E.state[m] \in {"done", "error"})
      /\ kind # "xhci" => E = intr
  <2> DEFINE H == E
  <2>1. H = Events(intr)
    OBVIOUS
  <2> HIDE DEF H
  <2>2. /\ Full(kind, port, devs, H, act)
        /\ kind = "xhci" => \A m \in Chan : ~ (H.state[m] \in {"done", "error"})
        /\ kind # "xhci" => H = intr
    BY <2>1, EventsFull
  <2> QED
    BY <2>2 DEF H
<1>4. i # 1 => E = intr
  <2>1. i # 1 /\ kind = "xhci" => \A m \in Chan : ~ (intr.state[m] \in {"done", "error"})
    BY <1>1 DEF Wired
  <2> QED
    BY <1>2, <1>3, <2>1, NoEvents
<1>5. /\ act' \in Acts /\ act'.first = act.first /\ act'.plugs = act.plugs
      /\ \/ act.at < MaxDevs /\ act'.at = act.at + 1 /\ act'.pc = "poll"
         \/ act.at = MaxDevs /\ act'.at = 1 /\ act'.pc \in {"scan", "poll"}
  <2>1. CASE ~ last
    <3> DEFINE u == i + 1
    <3>1. act' = [act EXCEPT !.at = u] /\ u \in Nat
      BY <1>2, <2>1 DEF PollEntry
    <3> HIDE DEF u
    <3>2. act' \in Acts /\ act'.first = act.first /\ act'.plugs = act.plugs /\ act'.at = u /\ act'.pc = act.pc
      BY <1>2, <3>1 DEF Acts
    <3> QED
      BY <1>1, <1>2, <2>1, <3>2 DEF u
  <2>2. CASE last
    <3> DEFINE one == 1
    <3>1. PICK s \in {"scan", "poll"} : act' = [act EXCEPT !.at = one, !.pc = s]
      BY <2>2 DEF PollEntry
    <3>2. one \in Nat
      OBVIOUS
    <3> HIDE DEF one
    <3>3. act' \in Acts /\ act'.first = act.first /\ act'.plugs = act.plugs /\ act'.at = one /\ act'.pc = s
      BY <1>2, <3>1, <3>2 DEF Acts
    <3> QED
      BY <2>2, <3>3 DEF one
  <2> QED
    BY <2>1, <2>2
<1>6. /\ ~ Live(i) => G = IF i = 1 THEN E ELSE intr
      /\ Live(i) /\ what = "error" => G = [Released(E, n) EXCEPT !.flag[n] = "none"]
      /\ Live(i) /\ what = "done" => G = Rearmed(E, n)
      /\ Live(i) /\ what # "error" /\ what # "done" => G = E
      /\ F = IF Live(i) /\ what = "error" THEN [devs EXCEPT ![i] = NoEntry] ELSE devs
  BY DEF PollEntry
<1>7. E \in Ends /\ Wired(kind, port, devs, E, act) /\ Table(kind, devs, E, act) /\ \A j : ~ Making(act, j)
  BY <1>1, <1>3, ShapesAre DEF Full, Making
<1>8. Live(i) => devs[i].present /\ n # 0 /\ n \in Chan
  BY <1>2 DEF Live
<1>9. devs[i].present => Live(i)
  BY <1>1, <1>2, <1>7 DEF Live, Table
<1> HIDE DEF E, F, G, i
<1>10. CASE ~ Live(i)
  <2>1. G = E /\ F = devs
    BY <1>4, <1>6, <1>10
  <2>2. ~ devs[act.at].present
    BY <1>9, <1>10 DEF i
  <2>3. Full(kind, port, F, G, act')
    BY <1>1, <1>3, <1>5, <2>1, <2>2, AdvanceFull
  <2> QED
    BY <1>1, <2>3 DEF F, G
<1>11. CASE Live(i) /\ what = "error"
  <2>1. Events(E) = E
    BY <1>2, <1>3, <1>7, NoEvents
  <2> DEFINE H == n
  <2>2. H \in Chan /\ G = [Released(E, H) EXCEPT !.flag[H] = "none"] /\ F = [devs EXCEPT ![i] = NoEntry] /\ H = devs[i].chan
        /\ devs[i].present
    BY <1>6, <1>8, <1>11
  <2>3. ~ Here(port, devs[i].is)
    <3>1. E.flag[n] = "error" \/ E.state[n] = "error"
      BY <1>11
    <3>2. E.with[n] = devs[i].is
      BY <1>2, <1>7, <1>8, <1>11 DEF Wired
    <3>3. ~ Here(port, E.with[n])
      BY <1>7, <1>8, <1>11, <3>1 DEF Wired
    <3> QED
      BY <3>2, <3>3
  <2> HIDE DEF H
  <2>4. G = Freed(E, devs[i].chan)
    BY <1>7, <2>1, <2>2, ForgottenIs
  <2>5. IF Making(act, i) THEN act.pc = "address" ELSE act.pc = act.pc /\ act.pc \in {"scan", "poll"}
    BY <1>1, <1>7
  <2>6. Full(kind, port, F, G, act)
    BY <1>2, <1>3, <2>2, <2>3, <2>4, <2>5, RemovedFull
  <2>7. ~ F[act.at].present
    BY <1>2, <2>2 DEF i, NoEntry
  <2>8. kind = "xhci" => \A m \in Chan : ~ (G.state[m] \in {"done", "error"})
    <3>1. devs[i].chan \in 0 .. MaxInt
      BY <2>2, BoundsAre DEF Chan
    <3>2. \A m \in Chan : IF m = devs[i].chan THEN G.state[m] = "idle" ELSE G.state[m] = E.state[m]
      BY <1>7, <2>4, <3>1, FreedIs
    <3> QED
      BY <1>3, <3>2
  <2>9. Full(kind, port, F, G, act')
    BY <1>1, <1>5, <2>6, <2>7, <2>8, AdvanceFull
  <2> QED
    BY <1>1, <2>9 DEF F, G
<1>12. CASE Live(i) /\ what = "done"
  <2> DEFINE H == n
  <2>1. H \in Chan /\ G = Rearmed(E, H) /\ F = devs /\ H = devs[act.at].chan /\ devs[act.at].present
    BY <1>6, <1>8, <1>12 DEF i
  <2> HIDE DEF H
  <2>2. Full(kind, port, F, G, act)
    BY <1>1, <1>3, <2>1, RearmedFull
  <2>3. \A m \in Chan : /\ G.state[m] = IF m = H THEN "armed" ELSE E.state[m]
                        /\ G.flag[m] = IF m = H THEN "none" ELSE E.flag[m]
    BY <1>7, <2>1, RearmedIs
  <2>4. kind = "xhci" => \A m \in Chan : ~ (G.state[m] \in {"done", "error"})
    BY <1>3, <2>3
  <2>5. \A m \in Chan : F[act.at].chan = m => G.flag[m] = "none"
    BY <2>1, <2>3
  <2>6. Full(kind, port, F, G, act')
    BY <1>1, <1>5, <2>2, <2>4, <2>5, AdvanceFull
  <2> QED
    BY <1>1, <2>6 DEF F, G
<1>13. CASE Live(i) /\ what # "error" /\ what # "done"
  <2>1. G = E /\ F = devs
    BY <1>6, <1>13
  <2>2. \A m \in Chan : devs[act.at].chan = m => E.flag[m] = "none"
    <3>1. ASSUME NEW m \in Chan, devs[act.at].chan = m PROVE E.flag[m] = "none"
      <4>1. E.flag[m] \in {"none", "done", "error"}
        BY <1>7 DEF Ends
      <4>2. m = n
        BY <3>1 DEF i
      <4>3. kind # "xhci" => E.flag[m] = "none"
        BY <1>7 DEF Wired
      <4> QED
        BY <1>13, <4>1, <4>2, <4>3
    <3> QED
      BY <3>1
  <2>3. Full(kind, port, F, G, act')
    BY <1>1, <1>3, <1>5, <2>1, <2>2, AdvanceFull
  <2> QED
    BY <1>1, <2>3 DEF F, G
<1> QED
  BY <1>10, <1>11, <1>12, <1>13

(* A device given to the companion is there. *)
Taken == \A p \in Port : port[p].away => port[p].is # 0

LEMMA InitFull == ASSUME ConstantsOK, Init PROVE Inv /\ Taken
<1> DEFINE no == FALSE
           yes == TRUE
           zero == 0
           one == 1
           N == [is |-> zero, fn |-> "none", speed |-> "full", change |-> yes, away |-> no, on |-> no, addr |-> zero]
           w == [N EXCEPT !.change = no]
           row == [present |-> no, port |-> zero, addr |-> zero, chan |-> zero, fn |-> "none", is |-> zero]
           C == [used |-> [n \in Chan |-> no], with |-> [n \in Chan |-> zero], state |-> [n \in Chan |-> "idle"],
                 flag |-> [n \in Chan |-> "none"], next |-> [n \in 0 .. MaxInt |-> zero]]
           A == [pc |-> "scan", at |-> one, first |-> yes, entry |-> zero, is |-> zero, plugs |-> zero]
<1>1. /\ kind \in {"xhci", "ehci", "ohci"} /\ devs = [i \in Entry |-> row] /\ intr = C /\ act = A
      /\ port = [p \in Port |-> w]
  <2>2. N = Nobody
    BY DEF Nobody
  <2>3. kind \in {"xhci", "ehci", "ohci"}
    BY DEF Init, ConstantsOK
  <2>4. devs = [i \in Entry |-> row]
    BY DEF Init, NoEntry
  <2>5. intr = C /\ act = A
    BY DEF Init
  <2>6. port = [p \in Port |-> w]
    BY <2>2 DEF Init
  <2> QED
    BY <2>3, <2>4, <2>5, <2>6
<1>2. /\ zero \in 0 .. Plugs /\ zero \in 0 .. MaxDevs /\ zero \in 0 .. MaxInt /\ zero \in 0 .. Ports /\ no \in BOOLEAN /\ yes \in BOOLEAN
      /\ one \in Nat /\ one \in Port
  BY BoundsAre DEF Port
<1> HIDE DEF no, yes, zero, one
<1>3. w \in Places /\ w.is = zero /\ w.on = no /\ w.away = no
  <2>1. N \in Places /\ N.is = zero /\ N.on = no /\ N.away = no
    BY <1>2 DEF Places
  <2> HIDE DEF N
  <2> QED
    BY <1>2, <2>1 DEF Places
<1>4. row \in Rows /\ row.present = no
  BY <1>2 DEF Rows
<1>5. C \in Ends /\ \A n \in Chan : C.used[n] = no /\ C.state[n] = "idle" /\ C.flag[n] = "none"
  BY <1>2 DEF Ends
<1>6. A \in Acts /\ A.pc = "scan" /\ A.at = one
  BY <1>2 DEF Acts
<1> HIDE DEF N, w, row, C, A
<1>7. Shapes(kind, port, devs, intr, act)
  BY <1>1, <1>3, <1>4, <1>5, <1>6 DEF Shapes
<1>8. /\ \A p \in Port : port[p].is = 0 /\ ~ port[p].on /\ ~ port[p].away
      /\ \A i \in Entry : ~ devs[i].present
      /\ \A n \in Chan : ~ intr.used[n] /\ intr.state[n] = "idle" /\ intr.flag[n] = "none"
      /\ act.pc = "scan" /\ act.at \in Port /\ act.plugs \in Nat
  <2>1. act.plugs \in Nat
    BY <1>7, ShapesAre, BoundsAre
  <2> QED
    BY <1>1, <1>2, <1>3, <1>4, <1>5, <1>6, <2>1 DEF no, zero
<1>9. Table(kind, devs, intr, act)
  BY <1>8 DEF Table
<1>10. Names(port, devs, act)
  BY <1>8 DEF Names, Busy
<1>11. Faces(kind, port, act)
  BY <1>8 DEF Faces, Busy
<1>12. Known(port, devs, act)
  BY <1>8 DEF Known
<1>13. Addressed(kind, port, devs, act)
  BY <1>8 DEF Addressed
<1>14. Wired(kind, port, devs, intr, act)
  BY <1>8 DEF Wired
<1> QED
  BY <1>7, <1>8, <1>9, <1>10, <1>11, <1>12, <1>13, <1>14 DEF Inv, Full, Taken

LEMMA NextFull == ASSUME ConstantsOK, Steady, Roomy, Inv, [Next]_vars PROVE Inv'
<1>1. Full(kind, port, devs, intr, act)
  BY DEF Inv
<1>2. CASE UNCHANGED vars
  BY <1>1, <1>2 DEF Inv, vars
<1>3. CASE \E p \in Port : Pull(p)
  BY <1>1, <1>3, PullFull DEF Inv
<1>4. CASE \E p \in Port : \E fn \in {"hid", "none"}, speed \in Speeds : Plug(p, fn, speed)
  BY <1>1, <1>4, PlugFull DEF Inv
<1>5. CASE \E n \in Chan, how \in {"done", "error"} : TransferEnds(n, how)
  BY <1>1, <1>5, TransferFull DEF Inv
<1>6. CASE ScanPort
  <2>1. kind' = kind
    BY <1>6 DEF ScanPort
  <2> QED
    BY <1>1, <1>6, <2>1, ScanFull DEF Inv
<1>7. CASE PollEntry
  BY <1>1, <1>7, PollFull DEF Inv
<1>8. CASE \E ok \in BOOLEAN : Address(ok) \/ Describe(ok) \/ Configure(ok)
  <2>1. kind' = kind
    BY <1>8 DEF Address, Describe, Configure
  <2> QED
    BY <1>1, <1>8, <2>1, AddressFull, DescribeFull, ConfigureFull DEF Inv
<1> QED
  BY <1>2, <1>3, <1>4, <1>5, <1>6, <1>7, <1>8 DEF Next

LEMMA TakenNext == ASSUME ConstantsOK, Inv, Taken, [Next]_vars PROVE Taken'
<1>1. port \in [Port -> Places] /\ (act.pc = "scan" => act.at \in Port)
  BY ShapesAre DEF Inv, Full, Table
<1> DEFINE Q == port'
<1>2. \A p \in Port : Q[p].away => Q[p].is # 0
  <2>1. CASE Q = port
    BY <2>1 DEF Taken
  <2>2. ASSUME NEW p \in Port, NEW w, Q = [port EXCEPT ![p] = w], w.away => w.is # 0 PROVE \A q \in Port : Q[q].away => Q[q].is # 0
    BY <1>1, <2>2 DEF Taken
  <2>3. ASSUME NEW p \in Port, Pull(p) PROVE \A q \in Port : Q[q].away => Q[q].is # 0
    <3>1. ~ Nobody.away
      BY DEF Nobody
    <3> QED
      BY <2>2, <2>3, <3>1 DEF Pull
  <2>4. ASSUME NEW p \in Port, NEW fn \in {"hid", "none"}, NEW speed \in Speeds, Plug(p, fn, speed)
        PROVE  \A q \in Port : Q[q].away => Q[q].is # 0
    <3> DEFINE w == [Nobody EXCEPT !.is = act.plugs + 1, !.fn = fn, !.speed = speed]
    <3>1. ~ w.away
      BY DEF Nobody
    <3>2. Q = [port EXCEPT ![p] = w]
      BY <2>4 DEF Plug
    <3> HIDE DEF w, Q
    <3> QED
      BY <2>2, <3>1, <3>2
  <2>5. CASE ScanPort
    <3> DEFINE a == act.at
               q == [port[a] EXCEPT !.change = FALSE]
    <3>1. a \in Port /\ port[a] \in Places
      BY <1>1, <2>5 DEF ScanPort
    <3>2. q.away = port[a].away /\ q.is = port[a].is
      BY <3>1 DEF Places
    <3>3. q.away => q.is # 0
      BY <3>1, <3>2 DEF Taken
    <3>4. CASE Q = [port EXCEPT ![a] = q]
      <4> HIDE DEF q, Q
      <4> QED
        BY <2>2, <3>1, <3>3, <3>4
    <3>5. CASE Q = [port EXCEPT ![a] = [q EXCEPT !.away = TRUE]] /\ q.is # 0
      <4> DEFINE w == [q EXCEPT !.away = TRUE]
      <4>1. w.is = q.is
        BY <3>1 DEF Places
      <4> HIDE DEF w, q, Q
      <4>2. Q = [port EXCEPT ![a] = w]
        BY <3>5 DEF w
      <4> QED
        BY <2>2, <3>1, <3>5, <4>1, <4>2
    <3>6. CASE Q = [port EXCEPT ![a] = AfterReset(q)] /\ q.is # 0
      <4> DEFINE w == [q EXCEPT !.on = TRUE, !.addr = 0]
      <4>1. w.is = q.is
        BY <3>1 DEF Places
      <4>2. Q = [port EXCEPT ![a] = w]
        BY <3>6 DEF AfterReset
      <4> HIDE DEF w, q, Q
      <4> QED
        BY <2>2, <3>1, <3>6, <4>1, <4>2
    <3> QED
      BY <2>5, <3>4, <3>5, <3>6 DEF ScanPort
  <2>6. ASSUME NEW ok \in BOOLEAN, Address(ok) PROVE \A q \in Port : Q[q].away => Q[q].is # 0
    <3>1. ASSUME NEW p \in Port, NEW i, Q = [port EXCEPT ![p].addr = i] PROVE \A q \in Port : Q[q].away => Q[q].is # 0
      <4> DEFINE w == [port[p] EXCEPT !.addr = i]
      <4>1. w.is = port[p].is /\ w.away = port[p].away
        BY <1>1 DEF Places
      <4>2. w.away => w.is # 0
        BY <4>1 DEF Taken
      <4>3. Q = [port EXCEPT ![p] = w]
        BY <3>1
      <4> HIDE DEF w, Q
      <4> QED
        BY <2>2, <4>2, <4>3
    <3>2. Q = port \/ \E p \in Port : \E i : Q = [port EXCEPT ![p].addr = i]
      BY <2>6 DEF Address, Answering
    <3> QED
      BY <2>1, <3>1, <3>2
  <2>7. CASE Q # port
    <3>1. ~ UNCHANGED vars
      BY <2>7 DEF vars
    <3>2. ~ PollEntry /\ (\A n, how : ~ TransferEnds(n, how)) /\ \A ok : ~ Describe(ok) /\ ~ Configure(ok)
      BY <2>7 DEF PollEntry, TransferEnds, Describe, Configure
    <3> QED
      BY <2>3, <2>4, <2>5, <2>6, <3>1, <3>2 DEF Next
  <2> QED
    BY <2>1, <2>7
<1> QED
  BY <1>2 DEF Taken, Q

LEMMA ExactlyOne ==
  ASSUME NEW S, \A x, y \in S : x = y
  PROVE  Cardinality(S) = 1 <=> S # {}
<1>1. CASE S = {}
  BY <1>1, FS_EmptySet
<1>2. CASE S # {}
  <2>1. PICK x \in S : TRUE
    BY <1>2
  <2>2. S = {x}
    BY <2>1
  <2>3. Cardinality({x}) = 1
    BY FS_Singleton
  <2> QED
    BY <1>2, <2>2, <2>3
<1> QED
  BY <1>1, <1>2

LEMMA InvShows == ASSUME ConstantsOK, Inv, Taken PROVE TypeOK /\ Noticed /\ OneUser
<1>1. /\ Shapes(kind, port, devs, intr, act) /\ Table(kind, devs, intr, act) /\ Names(port, devs, act) /\ Faces(kind, port, act)
      /\ Known(port, devs, act) /\ Wired(kind, port, devs, intr, act)
  BY DEF Inv, Full
<1>2. /\ \A p \in Port : port[p].is \in 0 .. Plugs /\ port[p].addr \in 0 .. MaxDevs
      /\ \A i \in Entry : devs[i].port \in 0 .. Ports /\ devs[i].chan \in 0 .. MaxInt /\ (devs[i].chan # 0 => devs[i].chan \in Chan)
      /\ intr.state \in [Chan -> {"idle", "armed", "done", "error"}] /\ intr.next \in [0 .. MaxInt -> 0 .. MaxInt]
  BY <1>1, ShapesAre
<1>3. TypeOK
  BY <1>2 DEF TypeOK
<1>4. Noticed
  <2> SUFFICES ASSUME act.pc = "poll", NEW p \in Port, ~ port[p].change
               PROVE  LET is == {devs[i].is : i \in EntriesAt(p)}
                      IN IF port[p].is = 0 THEN is = {}
                         ELSE IF port[p].away THEN \A i \in EntriesAt(p) : devs[i].is # port[p].is /\ intr.used[devs[i].chan]
                         ELSE is = {port[p].is} \/ (is = {} /\ port[p].fn = "none")
    BY DEF Noticed
  <2>1. EntriesAt(p) = {i \in Entry : devs[i].present /\ devs[i].port = p}
    BY DEF EntriesAt
  <2>2. ~ Busy(act) /\ \A i : ~ Making(act, i)
    BY DEF Busy, Making
  <2>3. CASE port[p].away
    <3>1. port[p].is # 0
      BY <2>3 DEF Taken
    <3>2. ASSUME NEW i \in EntriesAt(p) PROVE devs[i].is # port[p].is /\ intr.used[devs[i].chan]
      <4>1. i \in Entry /\ devs[i].present
        BY <2>1
      <4>2. devs[i].chan # 0
        BY <1>1, <2>2, <4>1 DEF Table
      <4>3. devs[i].chan \in Chan
        BY <1>2, <4>1, <4>2
      <4>4. intr.used[devs[i].chan]
        BY <1>1, <4>1, <4>3 DEF Table
      <4>5. devs[i].is # port[p].is
        BY <1>1, <2>3, <4>1 DEF Names, Faces
      <4> QED
        BY <4>4, <4>5
    <3> QED
      BY <2>3, <3>1, <3>2
  <2>4. CASE ~ port[p].away
    <3>1. /\ \A i \in EntriesAt(p) : port[p].is # 0 /\ devs[i].is = port[p].is
          /\ port[p].is # 0 /\ port[p].fn # "none" => EntriesAt(p) # {}
      BY <1>1, <2>1, <2>2, <2>4 DEF Known
    <3> QED
      BY <2>4, <3>1
  <2> QED
    BY <2>3, <2>4
<1>5. OneUser
  <2>1. ASSUME NEW n \in Chan PROVE intr.used[n] <=> Cardinality({i \in Entry : devs[i].present /\ devs[i].chan = n}) = 1
    <3> DEFINE S == {i \in Entry : devs[i].present /\ devs[i].chan = n}
    <3>1. n # 0
      BY DEF Chan
    <3>2. \A x, y \in S : x = y
      BY <1>1, <3>1 DEF Table
    <3>3. intr.used[n] <=> S # {}
      BY <1>1 DEF Table
    <3> HIDE DEF S
    <3>4. Cardinality(S) = 1 <=> S # {}
      BY <3>2, ExactlyOne
    <3>5. intr.used[n] <=> Cardinality(S) = 1
      BY <3>3, <3>4
    <3> QED
      BY <3>5 DEF S
  <2> QED
    BY <2>1 DEF OneUser
<1> QED
  BY <1>3, <1>4, <1>5

LEMMA ReportsOwn ==
  ASSUME ConstantsOK, Inv, NEW i \in Entry, act.pc = "poll", Live(i) PROVE intr.with[devs[i].chan] = devs[i].is
<1>1. Wired(kind, port, devs, intr, act) /\ ~ Making(act, i)
  BY DEF Inv, Full, Making
<1> QED
  BY <1>1 DEF Wired, Live

(* Whatever is plugged in and pulled out, and whenever: between two passes the table is what
   is on the ports, each endpoint in use has its one entry, and a report is that of the
   device its entry was made for. *)

THEOREM PortsStayTrue == ASSUME ConstantsOK, Steady, Roomy PROVE Spec => [](TypeOK /\ Noticed /\ OneUser) /\ OwnReports
<1>1. Init => Inv /\ Taken
  BY InitFull
<1>2. Inv /\ Taken /\ [Next]_vars => Inv' /\ Taken'
  BY NextFull, TakenNext
<1>3. Inv /\ Taken => TypeOK /\ Noticed /\ OneUser
  BY InvShows
<1>4. Inv => \A i \in Entry : act.pc = "poll" /\ act.at = i /\ Live(i) /\ devs'[i].present /\ Noted(devs[i].chan) = "done"
                   => intr.with[devs[i].chan] = devs[i].is
  BY ReportsOwn
<1> QED
  BY <1>1, <1>2, <1>3, <1>4, PTL DEF Spec, OwnReports

=============================================================================
