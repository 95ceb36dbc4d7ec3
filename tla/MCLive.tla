------------------------------- MODULE MCLive -------------------------------
(* What must end in the end.  A behaviour runs one part, chosen at the start, on
   constants small enough for its whole graph to be searched for cycles, under the
   fairness its module states and justifies (Fairness there). *)
EXTENDS Integers, Sequences

CONSTANTS l1, near, far, g1, s1, s2, a1, h1, h3, ns, gw, pub1, pub2, www, none, p1, k1, sub

VARIABLES part, lease, cache, park, tick, who, verdict, frames,
  state, cfg, offered, server, tries, age, asked, acks, left, other,
  dns, expired, wire, lookups, cpu, pw, sys, owed, inst, ui, disk,
  kind, dev, drv, told, req, evt, call, host, pipe, box, tls, web

ipVars == <<lease, cache, park, tick, who, verdict, frames>>
dhcpVars == <<state, cfg, offered, server, tries, age, asked, acks, left, other>>
dnsVars == <<dns, expired, wire, lookups>>
progVars == <<cpu, pw, sys, owed>>
instVars == <<inst, ui, disk>>
diskVars == <<kind, dev, drv, told>>
ringVars == <<req, evt, call>>
tlsVars == <<host, pipe, box, tls, web>>
all == <<ipVars, dhcpVars, dnsVars, progVars, instVars, diskVars, ringVars, tlsVars>>

(* Two destinations, one of them behind the gateway, want the same cache entry. *)
Out == INSTANCE IpOut WITH
  Lease <- {l1}, NoLease <- none, Dst <- {near, far}, Hop <- {near, g1}, NoHop <- none,
  NextHop <- [l \in {l1} |-> [d \in {near, far} |-> IF d = near THEN near ELSE g1]],
  Slots <- 1, PendingTimeout <- 2, TickMod <- 3, Tracked <- 0, asked <- who

(* The server s2 is heard again and again, s1 may never grant what it offers. *)
Leases == INSTANCE Dhcp WITH
  Server <- {s1, s2}, NoServer <- none, Addr <- {a1}, NoAddr <- none,
  LeaseSecs <- 8, Heard <- {s2}, Prompt <- TRUE, Others <- TRUE

Names == INSTANCE Dns WITH
  Ip <- {ns, gw, pub1, pub2, www}, NoIp <- none, Host <- {h1, h3}, Id <- {1}, MaxLookups <- 1,
  AddressOf <- [h \in {h1, h3} |-> IF h = h1 THEN www ELSE none], Silent <- {},
  Configured <- {<<ns, gw>>, <<none, gw>>, <<none, none>>}, Public <- <<pub1, pub2>>, MaxAttempts <- 4

Window == INSTANCE ProgWin WITH
  Prog <- {p1}, Refused <- {}, None <- none, Key <- {k1}, Ring <- 2, Blocks <- {}, Spins <- 1, TickMod <- 4

(* One partition, of whose disk the boot code may be blank. *)
Job == INSTANCE Install WITH
  Target <- {sub}, Whole <- {}, Chainable <- {sub}, System <- 2, Had <- {"blank"}, None <- none

(* Devices that answer late, twice or never. *)
Que == INSTANCE Queues WITH
  Kinds <- {"ata", "ahci", "nvme", "mpt"}, Late <- {"ata", "ahci"}, Lba <- {0}, Ring <- 2, None <- none

Xhci == INSTANCE XhciRing WITH
  Size <- 5, Events <- 3, Parts <- {1, 2, 3}, Patient <- TRUE

Sec == INSTANCE Tls WITH
  Cuts <- {{4, 8}}, Replies <- {<<3, 2>>}, RawSize <- 5, AppSize <- 4, Take <- 2, Space <- 3, Losses <- FALSE

ASSUME Out!ConstantsOK /\ Leases!ConstantsOK /\ Names!ConstantsOK /\ Window!ConstantsOK
ASSUME Job!ConstantsOK /\ Que!ConstantsOK /\ Xhci!ConstantsOK /\ Sec!ConstantsOK

(* The parts that do not run start in one state and not in each. *)
Init ==
  /\ part \in {"ip", "dhcp", "dns", "program", "install", "disk", "ring", "tls"}
  /\ Out!Init /\ Leases!Init /\ Names!Init /\ Window!Init /\ Xhci!Init
  /\ Job!Init /\ (part # "install" => \A t \in {sub} : disk[t].code = "other")
  /\ Que!Init /\ (part # "disk" => kind = "ata")
  /\ Sec!Init /\ (part # "tls" => ~ host.asks /\ host.trusted /\ ~ host.notify)

InOut(A) == part = "ip" /\ A /\ UNCHANGED <<part, dhcpVars, dnsVars, progVars, instVars, diskVars, ringVars, tlsVars>>
InLeases(A) == part = "dhcp" /\ A /\ UNCHANGED <<part, ipVars, dnsVars, progVars, instVars, diskVars, ringVars, tlsVars>>
InNames(A) == part = "dns" /\ A /\ UNCHANGED <<part, ipVars, dhcpVars, progVars, instVars, diskVars, ringVars, tlsVars>>
InWindow(A) == part = "program" /\ A /\ UNCHANGED <<part, ipVars, dhcpVars, dnsVars, instVars, diskVars, ringVars, tlsVars>>
InJob(A) == part = "install" /\ A /\ UNCHANGED <<part, ipVars, dhcpVars, dnsVars, progVars, diskVars, ringVars, tlsVars>>
InDisk(A) == part = "disk" /\ A /\ UNCHANGED <<part, ipVars, dhcpVars, dnsVars, progVars, instVars, ringVars, tlsVars>>
InRing(A) == part = "ring" /\ A /\ UNCHANGED <<part, ipVars, dhcpVars, dnsVars, progVars, instVars, diskVars, tlsVars>>
InTls(A) == part = "tls" /\ A /\ UNCHANGED <<part, ipVars, dhcpVars, dnsVars, progVars, instVars, diskVars, ringVars>>

Next ==
  \/ InOut(Out!Next) \/ InLeases(Leases!Next) \/ InNames(Names!Next) \/ InWindow(Window!Next)
  \/ InJob(Job!Next) \/ InDisk(Que!Next) \/ InRing(Xhci!Next) \/ InTls(Sec!Next)

Spec == Init /\ [][Next]_<<part, all>>

(* The fairness of the part that runs: part never changes, so fairness of a disjunction
   over the parts is fairness of the one disjunct that is of this part. *)
Weak1 == \/ InOut(Out!Tick) \/ InLeases(Leases!PollIdle) \/ InNames(Names!AttemptExpires)
         \/ InWindow(Window!Step) \/ InJob(Job!ShellPoll) \/ InDisk(Que!Submit) \/ InRing(Xhci!Push) \/ InTls(Sec!HttpsPoll)
Weak2 == \/ InLeases(Leases!PollDiscover) \/ InNames(Names!Poll) \/ InWindow(Window!PolledAgain) \/ InJob(Job!WindowFrame)
         \/ InDisk(Que!Collect) \/ InRing(Xhci!Execute) \/ InTls(Sec!Hears)
Weak3 == \/ InLeases(Leases!PollRequest) \/ InWindow(Window!Woken) \/ InDisk(\E s \in BOOLEAN : Que!GiveUp(s))
         \/ InRing(Xhci!TakeEvent) \/ InTls(Sec!Arrives)
Weak4 == \/ InLeases(Leases!OneSecond) \/ InDisk(\E ok, landed, sent \in BOOLEAN : Que!Execute(ok, landed, sent))
         \/ InRing(Xhci!Return) \/ InTls(Sec!Ends)
Weak5 == InTls(Sec!Connects)
Strong1 == InOut(Out!Retry(near)) \/ InLeases(Leases!HearOffer(s2, a1)) \/ InWindow(Window!Poll)
Strong2 == InOut(Out!Retry(far)) \/ InLeases(Leases!Grants(s2, a1))
Strong3 == InOut(Out!HearReply(near)) \/ InLeases(Leases!HearAck([from |-> s2, addr |-> a1, current |-> TRUE]))
Strong4 == InOut(Out!HearReply(g1))

FairSpec ==
  /\ Spec
  /\ WF_<<part, all>>(Weak1) /\ WF_<<part, all>>(Weak2) /\ WF_<<part, all>>(Weak3) /\ WF_<<part, all>>(Weak4) /\ WF_<<part, all>>(Weak5)
  /\ SF_<<part, all>>(Strong1) /\ SF_<<part, all>>(Strong2) /\ SF_<<part, all>>(Strong3) /\ SF_<<part, all>>(Strong4)

(* Two destinations that fight for one cache entry are both reached (arp.h, ip.h). *)
Reaches == Out!Reaches
(* With a server that is heard again and again the machine gets an address (dhcp.h). *)
GetsAddress == part = "dhcp" => Leases!GetsAddress
(* Whoever waits is answered, however the answer turns out: a lookup ends (dns.h), a page
   over https is shown or fails (https.h:75), a call of a disk driver returns although the
   device may be dead or late, and so does one of the xHCI driver. *)
CallsEnd ==
  Names!LookupEnds /\ Que!CallEnds /\ Xhci!CallReturns /\ (part = "tls" => Sec!LoadEnds)
(* Work that takes many passes of the main loop neither stops nor stops the loop: an
   installation ends also when its window is closed (installer.h:23), and a program that
   only polls the keys gives the desktop its turn (progwin.h:12). *)
WorkGoesOn == Job!JobEnds /\ Window!TurnsCome
=============================================================================
