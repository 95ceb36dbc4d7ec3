-------------------------------- MODULE Dhcp --------------------------------
(***************************************************************************)
(* The DHCP client (kernel/dhcp.h) with its lease clock, against servers   *)
(* that share one table of leases and a network that loses, delays and     *)
(* repeats.                                                                *)
(*                                                                         *)
(* A transaction id is only ever compared with the current one, so a       *)
(* message carries whether it belongs to the current conversation.  Offers *)
(* and refusals bind a server to nothing and may come whenever something   *)
(* was asked; an ACK is kept, because the lease runs from the moment it is *)
(* granted.  Retries fire at any poll; the lease is counted in seconds.    *)
(***************************************************************************)
EXTENDS Integers, FiniteSets

CONSTANTS
  Server, NoServer,
  Addr, NoAddr,
  LeaseSecs,   (* the length of a lease                                        *)
  Heard,       (* the servers that answer if they are asked again and again      *)
  Prompt,      (* TRUE: an ACK is heard within the second it is sent, or never *)
  Others       (* TRUE: a lapsed address may be given to another machine       *)

(* What the constants must satisfy. *)
ConstantsOK ==
  /\ NoServer \notin Server /\ NoAddr \notin Addr
  /\ LeaseSecs \in Nat \ {0}
  /\ Heard \subseteq Server
  /\ Prompt \in BOOLEAN /\ Others \in BOOLEAN

VARIABLES
  state,     (* dhcp_state                                                     *)
  cfg,       (* net_cfg.my_ip; NoAddr while net_cfg.ready is 0                 *)
  offered,   (* dhcp_offered_ip                                                *)
  server,    (* dhcp_server_id                                                 *)
  tries,     (* dhcp_tries                                                     *)
  age,       (* dhcp_lease_age                                                 *)
  asked,     (* what the current conversation has asked, as it is on the wire  *)
  acks,      (* ACKs on the wire                                               *)
  left,      (* left[a]: seconds the servers still hold address a for us       *)
  other      (* the addresses given to other machines                          *)

client == <<state, cfg, offered, server, tries, age>>
vars == <<state, cfg, offered, server, tries, age, asked, acks, left, other>>

Holding == {"bound", "renewing", "rebinding"}
T1 == LeaseSecs \div 2
T2 == LeaseSecs - LeaseSecs \div 8
MaxTries == 5   (* the retry interval grows no more, so the count matters no more *)

Init ==
  /\ state = "discover_sent"
  /\ cfg = NoAddr /\ offered = NoAddr /\ server = NoServer
  /\ tries = 0 /\ age = 0
  /\ asked = {<<"discover">>}
  /\ acks = {}
  /\ left = [a \in Addr |-> 0]
  /\ other = {}

-----------------------------------------------------------------------------
(* A new transaction id: what is on the wire belongs to an old conversation. *)
Converse(question, onWire) ==
  /\ asked' = {question}
  /\ acks' = {[m EXCEPT !.current = FALSE] : m \in onWire}

(* dhcp_send_discover() after dhcp_new_xid(), from dhcp_poll(). *)
StartOver ==
  /\ state' = "discover_sent" /\ tries' = 0
  /\ Converse(<<"discover">>, acks)
  /\ UNCHANGED <<cfg, offered, server, age>>

PollIdle == state = "idle" /\ StartOver /\ UNCHANGED <<left, other>>

Tried == IF tries < MaxTries THEN tries + 1 ELSE tries

(* dhcp_poll(): no answer within the interval. *)
PollDiscover ==
  /\ state = "discover_sent"
  /\ tries' = Tried
  /\ UNCHANGED <<state, cfg, offered, server, age, asked, acks, left, other>>

(* A fault for comparison: the REQUEST is repeated for ever. *)
PollRequestForever ==
  /\ state = "request_sent"
  /\ tries' = Tried
  /\ UNCHANGED <<state, cfg, offered, server, age, asked, acks, left, other>>

PollRequest ==
  /\ state = "request_sent"
  /\ IF Tried >= 3 THEN StartOver
     ELSE /\ tries' = Tried
          /\ UNCHANGED <<state, cfg, offered, server, age, asked, acks>>
  /\ UNCHANGED <<left, other>>

(* dhcp_handle_reply(): an OFFER is answered with a REQUEST. *)
HearOffer(s, a) ==
  /\ state = "discover_sent"
  /\ a \notin other
  /\ state' = "request_sent" /\ offered' = a /\ server' = s
  /\ asked' = asked \cup {<<"request", s, a>>}
  /\ UNCHANGED <<cfg, tries, age, acks, left, other>>

(* A REBINDING client may be answered by any server, others by their own. *)
FromOurs(s) == state = "rebinding" \/ s = server
Expected == IF state \in Holding THEN cfg ELSE offered

HearAck(m) ==
  /\ m.current
  /\ state \in {"request_sent", "renewing", "rebinding"}
  /\ FromOurs(m.from) /\ m.addr = Expected
  /\ state' = "bound" /\ cfg' = m.addr /\ server' = m.from
  /\ tries' = 0 /\ age' = 0
  /\ UNCHANGED <<offered, asked, acks, left, other>>

(* A fault for comparison: the address stays configured. *)
DropLeaseKeepsAddress == state' = "idle" /\ tries' = 0 /\ UNCHANGED cfg

(* dhcp_drop_lease(): nothing may keep using the address. *)
DropLease == state' = "idle" /\ cfg' = NoAddr /\ tries' = 0

HearNak(s) ==
  /\ state \in {"request_sent", "renewing", "rebinding"}
  /\ FromOurs(s)
  /\ IF state = "request_sent" THEN state' = "idle" /\ UNCHANGED <<cfg, tries>> ELSE DropLease
  /\ UNCHANGED <<offered, server, age, asked, acks, left, other>>

(* A fault for comparison: the lease is held for its last second too. *)
LeaseTickPastEnd(t, onWire) ==
  /\ age' = t
  /\ CASE t > LeaseSecs -> DropLease /\ acks' = onWire /\ UNCHANGED asked
       [] t <= LeaseSecs /\ state = "bound" /\ t >= T1 ->
            state' = "renewing" /\ Converse(<<"extend", cfg>>, onWire) /\ UNCHANGED <<cfg, tries>>
       [] t <= LeaseSecs /\ state = "renewing" /\ t >= T2 ->
            state' = "rebinding" /\ Converse(<<"extend", cfg>>, onWire) /\ UNCHANGED <<cfg, tries>>
       [] OTHER -> acks' = onWire /\ UNCHANGED <<state, cfg, tries, asked>>
  /\ UNCHANGED <<offered, server>>

(* dhcp_lease_tick(), as the clock says that the lease is t seconds old: at T1
   the client asks its own server, at T2 any server. *)
LeaseTick(t, onWire) ==
  /\ age' = t
  /\ CASE t >= LeaseSecs -> DropLease /\ acks' = onWire /\ UNCHANGED asked
       [] t < LeaseSecs /\ state = "bound" /\ t >= T1 ->
            state' = "renewing" /\ Converse(<<"extend", cfg>>, onWire) /\ UNCHANGED <<cfg, tries>>
       [] t < LeaseSecs /\ state = "renewing" /\ t >= T2 ->
            state' = "rebinding" /\ Converse(<<"extend", cfg>>, onWire) /\ UNCHANGED <<cfg, tries>>
       [] OTHER -> acks' = onWire /\ UNCHANGED <<state, cfg, tries, asked>>
  /\ UNCHANGED <<offered, server>>

-----------------------------------------------------------------------------
(* The servers. *)

(* A server may answer an extension if it is asked: our own alone at T1, any
   at T2. *)
Grants(s, a) ==
  /\ a \notin other
  /\ \/ <<"request", s, a>> \in asked
     \/ <<"extend", a>> \in asked /\ FromOurs(s)
  /\ left' = [left EXCEPT ![a] = LeaseSecs]
  /\ acks' = acks \cup {[from |-> s, addr |-> a, current |-> TRUE]}
  /\ UNCHANGED <<client, asked, other>>

GivesToOther(a) ==
  /\ Others /\ left[a] = 0
  /\ other' = other \cup {a}
  /\ UNCHANGED <<client, asked, acks, left>>

TakesBack(a) == a \in other /\ other' = other \ {a} /\ UNCHANGED <<client, asked, acks, left>>

(* A second passes for the servers and for the client, which polls its clock
   many times a second. *)
OneSecond ==
  /\ left' = [a \in Addr |-> IF left[a] = 0 THEN 0 ELSE left[a] - 1]
  /\ LET late == IF Prompt THEN {} ELSE acks
     IN  IF state \in Holding THEN LeaseTick(age + 1, late)
                              ELSE acks' = late /\ UNCHANGED <<client, asked>>
  /\ UNCHANGED other

Next ==
  \/ PollIdle \/ PollDiscover \/ PollRequest \/ OneSecond
  \/ \E m \in acks : HearAck(m)
  \/ \E s \in Server : HearNak(s) \/ \E a \in Addr : HearOffer(s, a) \/ Grants(s, a)
  \/ \E a \in Addr : GivesToOther(a) \/ TakesBack(a)

Spec == Init /\ [][Next]_vars

(* The loop polls for ever, and a server of Heard that is asked again and again
   is heard at last; the others may offer and refuse and never grant. *)
Fairness ==
  /\ WF_vars(PollIdle) /\ WF_vars(PollDiscover) /\ WF_vars(PollRequest) /\ WF_vars(OneSecond)
  /\ \A s \in Heard, a \in Addr :
       SF_vars(HearOffer(s, a)) /\ SF_vars(Grants(s, a))
         /\ SF_vars(HearAck([from |-> s, addr |-> a, current |-> TRUE]))

-----------------------------------------------------------------------------
(* Properties. *)

States == {"idle", "discover_sent", "request_sent"} \cup Holding

(* The client has an address exactly while it holds a lease, in every state
   its replies, refusals and clocks can lead to. *)
TypeOK ==
  /\ state \in States
  /\ cfg \in Addr \cup {NoAddr} /\ offered \in Addr \cup {NoAddr} /\ server \in Server \cup {NoServer}
  /\ tries \in 0 .. MaxTries /\ age \in 0 .. LeaseSecs
  /\ state \in Holding <=> cfg # NoAddr

(* "An address held past its lease is an address the server may already have
   handed to somebody else": the machine never uses one that was. *)
NoSharedAddress == cfg \notin other

(* However many packets are lost and requests refused, and whatever a server
   offers that never grants it, the machine gets an address again and again,
   as long as there is one to be had (dhcp_poll). *)
GetsAddress == <>[](other = {}) => []<>(cfg # NoAddr)
=============================================================================
