------------------------------- MODULE IpOut -------------------------------
(***************************************************************************)
(* How a datagram leaves the machine: ip_send() and its parking place of   *)
(* one packet (kernel/ip.h) over the cache of neighbours' addresses        *)
(* (kernel/arp.h).                                                         *)
(*                                                                         *)
(* The network loses, repeats and delays requests and replies; neighbours  *)
(* are honest, so hop h answers with its own address, and learning it is   *)
(* all there is to learn.  The masks of ip_next_hop() are the constant     *)
(* NextHop, one routing for each lease the machine may hold.  A request's  *)
(* time stamp keeps the low bits of the tick counter (16 in the code).     *)
(***************************************************************************)
EXTENDS Integers, Sequences, FiniteSets, SequencesExt

CONSTANTS
  Lease,           (* the addresses DHCP may give the machine, with their networks *)
  NoLease,         (* not configured: net_cfg.ready is 0                            *)
  Dst,             (* destinations                                                  *)
  Hop,             (* neighbours                                                    *)
  NoHop,           (* the address in an empty cache entry                           *)
  NextHop,         (* NextHop[l][d]: ip_next_hop(d) under lease l                   *)
  Slots,           (* ARP_CACHE_SIZE                                                *)
  TickMod,         (* values of a request's time stamp                              *)
  PendingTimeout,  (* ARP_PENDING_TIMEOUT_TICKS                                     *)
  Tracked          (* how many packets are told apart; later ones are nameless      *)

(* What the constants must satisfy. *)
ConstantsOK ==
  /\ NextHop \in [Lease -> [Dst -> Hop]]
  /\ NoLease \notin Lease /\ NoHop \notin Hop
  /\ {Slots, TickMod, PendingTimeout} \subseteq Nat \ {0} /\ Tracked \in Nat
  /\ PendingTimeout < TickMod

VARIABLES
  lease,    (* net_cfg                                                    *)
  cache,    (* arp_cache                                                  *)
  park,     (* ip_pending                                                 *)
  tick,     (* the low bits of net_ticks                                  *)
  asked,    (* who-has requests on the wire, with the address they name   *)
  verdict,  (* what ip_send() said of each tracked packet                 *)
  frames    (* the tracked packets handed to the interface, in order      *)

vars == <<lease, cache, park, tick, asked, verdict, frames>>

Slot == 1 .. Slots
Nameless == 0
EmptyEntry == [ip |-> NoHop, state |-> "empty", stamp |-> 0]
NoPacket == [on |-> FALSE, dst |-> CHOOSE d \in Dst : TRUE, id |-> Nameless]

Init ==
  /\ lease = NoLease
  /\ cache = [s \in Slot |-> EmptyEntry]
  /\ park = NoPacket
  /\ tick = 0
  /\ asked = {}
  /\ verdict = <<>>
  /\ frames = <<>>

-----------------------------------------------------------------------------
(* The cache. *)

Known(h) == \E s \in Slot : cache[s].state = "resolved" /\ cache[s].ip = h

(* arp_find_pending_slot() *)
PendingSlots(h) == {s \in Slot : cache[s].state = "pending" /\ cache[s].ip = h}

(* A fault for comparison: a neighbour is asked once, ever. *)
IsPendingForever(h) == <<h, lease>> \in asked

(* arp_is_pending(): asked, and not so long ago. *)
IsPending(h) ==
  PendingSlots(h) # {} /\ (tick - cache[Min(PendingSlots(h))].stamp) % TickMod < PendingTimeout

(* A fault for comparison: an empty slot is preferred to the entry there is. *)
SlotForFresh(h) ==
  LET empty == {s \in Slot : cache[s].state = "empty"}
  IN  Min(IF empty # {} THEN empty ELSE {1})

(* arp_find_or_alloc_slot(): its own entry, an empty one, or the first. *)
SlotFor(h) ==
  LET own == {s \in Slot : cache[s].state # "empty" /\ cache[s].ip = h}
      empty == {s \in Slot : cache[s].state = "empty"}
  IN  Min(IF own # {} THEN own ELSE IF empty # {} THEN empty ELSE {1})

(* arp_send_request() *)
Ask(h) ==
  /\ cache' = [cache EXCEPT ![SlotFor(h)] = [ip |-> h, state |-> "pending", stamp |-> tick]]
  /\ asked' = asked \cup {<<h, lease>>}

-----------------------------------------------------------------------------
(* ip_send_now(): the frame goes to the address of hop h, and the interface
   may refuse it. *)
SendNow(p, d, h) ==
  \/ UNCHANGED frames
  \/ frames' = IF p = Nameless THEN frames ELSE Append(frames, [id |-> p, dst |-> d, to |-> h])

Says(p, v) == verdict' = IF p = Nameless THEN verdict ELSE Append(verdict, v)

(* The interface takes it or refuses it, and ip_send() says so. *)
SendAtOnce(p, d, h) ==
  \/ Says(p, "sent") /\ frames' = IF p = Nameless THEN frames ELSE Append(frames, [id |-> p, dst |-> d, to |-> h])
  \/ Says(p, "failed") /\ UNCHANGED frames

(* A fault for comparison: a big packet is parked although the caller is told
   to retry. *)
SendParksBig(d, small) ==
  LET p == IF Len(verdict) < Tracked THEN Len(verdict) + 1 ELSE Nameless
      h == NextHop[lease][d]
  IN  /\ lease # NoLease
      /\ \/ /\ Known(h)
            /\ SendAtOnce(p, d, h)
            /\ UNCHANGED <<cache, park, asked>>
         \/ /\ ~Known(h)
            /\ IF IsPending(h) THEN UNCHANGED <<cache, asked>> ELSE Ask(h)
            /\ park' = [on |-> TRUE, dst |-> d, id |-> p]
            /\ Says(p, IF small THEN "queued" ELSE "failed")
            /\ UNCHANGED frames
      /\ UNCHANGED <<lease, tick>>

(* ip_send() of a packet that is small enough to be parked, or not. *)
Send(d, small) ==
  LET p == IF Len(verdict) < Tracked THEN Len(verdict) + 1 ELSE Nameless
      h == NextHop[lease][d]
  IN  /\ \/ /\ lease = NoLease
            /\ Says(p, "failed")
            /\ UNCHANGED <<cache, park, asked, frames>>
         \/ /\ lease # NoLease /\ Known(h)
            /\ SendAtOnce(p, d, h)
            /\ UNCHANGED <<cache, park, asked>>
         \/ /\ lease # NoLease /\ ~Known(h)
            /\ IF IsPending(h) THEN UNCHANGED <<cache, asked>> ELSE Ask(h)
            /\ park' = IF small THEN [on |-> TRUE, dst |-> d, id |-> p] ELSE park
            /\ Says(p, IF small THEN "queued" ELSE "failed")
            /\ UNCHANGED frames
      /\ UNCHANGED <<lease, tick>>

(* Faults for comparison: the packet stays parked; it goes to whoever resolves. *)
FlushKeeps(h) ==
  IF park.on /\ NextHop[lease][park.dst] = h
    THEN SendNow(park.id, park.dst, h) /\ UNCHANGED park
    ELSE UNCHANGED <<park, frames>>
FlushAny(h) ==
  IF park.on THEN park' = NoPacket /\ SendNow(park.id, park.dst, h)
             ELSE UNCHANGED <<park, frames>>

(* ip_flush_pending(h): called the moment h is resolved. *)
Flush(h) ==
  IF park.on /\ NextHop[lease][park.dst] = h
    THEN park' = NoPacket /\ SendNow(park.id, park.dst, h)
    ELSE UNCHANGED <<park, frames>>

(* arp_handle_frame(), a reply: believed if it is for our address and answers
   a question that is open. *)
HearReply(h) ==
  /\ <<h, lease>> \in asked
  /\ lease # NoLease
  /\ PendingSlots(h) # {}
  /\ cache' = [cache EXCEPT ![Min(PendingSlots(h))] = [ip |-> h, state |-> "resolved", stamp |-> 0]]
  /\ Flush(h)
  /\ UNCHANGED <<lease, tick, asked, verdict>>

(* arp_handle_frame(), a who-has for our address: the asker is remembered if
   there is no entry for it and one is free.  Nothing is flushed. *)
HearRequest(h) ==
  /\ lease # NoLease
  /\ \A s \in Slot : cache[s].state # "empty" => cache[s].ip # h
  /\ \E s \in Slot : cache[s].state = "empty"
  /\ cache' = [cache EXCEPT ![SlotFor(h)] = [ip |-> h, state |-> "resolved", stamp |-> 0]]
  /\ UNCHANGED <<lease, park, tick, asked, verdict, frames>>

-----------------------------------------------------------------------------
Tick == tick' = (tick + 1) % TickMod /\ UNCHANGED <<lease, cache, park, asked, verdict, frames>>

(* dhcp.h gives the machine an address, or takes it away: the cache and the
   parked packet stay. *)
LeaseChanges(l) ==
  /\ l # lease /\ NoLease \in {l, lease}
  /\ lease' = l
  /\ UNCHANGED <<cache, park, tick, asked, verdict, frames>>

Next ==
  \/ \E d \in Dst, small \in BOOLEAN : Send(d, small)
  \/ \E h \in Hop : HearReply(h) \/ HearRequest(h)
  \/ Tick
  \/ \E l \in Lease \cup {NoLease} : LeaseChanges(l)

Spec == Init /\ [][Next]_vars

(* The main loop ticks for ever.  Senders retry for ever (TCP and DNS do, on their own clocks, and not always
   in the short time in which a question counts as asked), and a neighbour that
   is asked again and again is heard at last. *)
Retry(d) == lease # NoLease /\ ~IsPending(NextHop[lease][d]) /\ Send(d, TRUE)

Fairness ==
  /\ WF_vars(Tick)
  /\ \A d \in Dst : SF_vars(Retry(d))
  /\ \A h \in Hop : SF_vars(HearReply(h))

-----------------------------------------------------------------------------
(* Properties. *)

(* The cache and the parking place hold what they should. *)
TypeOK ==
  /\ lease \in Lease \cup {NoLease}
  /\ cache \in [Slot -> [ip : Hop \cup {NoHop}, state : {"empty", "pending", "resolved"}, stamp : 0 .. TickMod - 1]]
  /\ park \in [on : BOOLEAN, dst : Dst, id : 0 .. Tracked]
  /\ tick \in 0 .. TickMod - 1
  /\ asked \subseteq Hop \X Lease
  /\ verdict \in Seq({"sent", "queued", "failed"}) /\ Len(verdict) <= Tracked

(* A neighbour has one entry, whatever is stomped, asked again or heard from:
   a second one could shadow the first (arp_find_or_alloc_slot). *)
OneEntryEach ==
  \A s, t \in Slot : cache[s].state # "empty" /\ cache[t].state # "empty" /\ cache[s].ip = cache[t].ip => s = t

(* A packet is handed to the interface at most once: sent at once or from the
   parking place, never both (ip_flush_pending clears the slot first). *)
SentOnce == \A i, j \in DOMAIN frames : frames[i].id = frames[j].id => i = j

(* What ip_send() calls failed does not leave later: TCP counts on it to keep
   its sequence numbers (IP_SEND_FAILED). *)
FailedNeverLeaves == \A i \in DOMAIN frames : verdict[frames[i].id] # "failed"

(* Every frame goes to the hop the routing names at that moment, also a packet
   that was parked under another lease, and never without a lease. *)
RoutedNowStep ==
  \A i \in (DOMAIN frames') \ DOMAIN frames :
    lease # NoLease /\ frames'[i].to = NextHop[lease][frames'[i].dst]
RoutedNow == [][RoutedNowStep]_vars

(* Senders that keep trying come to know every hop they need, although the
   cache is too small for all of them and requests are lost or stomped. *)
Reaches == \A l \in Lease, d \in Dst : <>[](lease = l) => []<>Known(NextHop[l][d])
=============================================================================
