-------------------------------- MODULE Dns --------------------------------
(***************************************************************************)
(* The resolver (kernel/dns.h): one lookup at a time, up to four attempts  *)
(* at a list of servers, each attempt with its own time limit.             *)
(*                                                                         *)
(* Servers are honest but may fail or be silent; the network loses, delays *)
(* and repeats, so any question ever asked may be answered at any time and *)
(* more than once.  Transaction ids come from a small set: lookups may     *)
(* come to share one.  Names and records are not spelled out: a reply says *)
(* which question it echoes and what it answers.                           *)
(***************************************************************************)
EXTENDS Integers, Sequences, SequencesExt

CONSTANTS
  Host, Ip, NoIp,
  AddressOf,     (* AddressOf[h]: the address of h, or NoIp if there is no such host *)
  Silent,        (* hosts that exist and have no A record                            *)
  Configured,    (* the servers DHCP may have named: <<dns, gateway>>, NoIp if none  *)
  Public,        (* the public servers, in their order                               *)
  Id,            (* transaction ids                                                  *)
  MaxAttempts,   (* DNS_MAX_ATTEMPTS                                                 *)
  MaxLookups     (* bound: lookups made                                              *)

(* What the constants must satisfy. *)
ConstantsOK ==
  /\ NoIp \notin Ip
  /\ AddressOf \in [Host -> Ip \cup {NoIp}] /\ Silent \subseteq Host
  /\ Configured \subseteq (Ip \cup {NoIp}) \X (Ip \cup {NoIp}) /\ Public \in Seq(Ip)
  /\ MaxAttempts \in Nat \ {0} /\ Public # <<>> /\ MaxLookups \in Nat

VARIABLES
  dns,       (* dns_client                                              *)
  expired,   (* the attempt in flight has used up its time              *)
  wire,      (* the questions on the wire, with the server they went to *)
  lookups    (* how many lookups were started (bounded)                 *)

vars == <<dns, expired, wire, lookups>>

NoLookup ==
  [state |-> "idle", host |-> CHOOSE h \in Host : TRUE, id |-> CHOOSE i \in Id : TRUE,
   servers |-> <<>>, attempt |-> 0, result |-> NoIp, why |-> ""]

Init == dns = NoLookup /\ expired = FALSE /\ wire = {} /\ lookups = 0

-----------------------------------------------------------------------------
(* A fault for comparison: an address of 0.0.0.0 is asked like any other. *)
CandidatesWithNone(c) == SubSeq(<<c[1], c[1], c[2]>> \o Public, 1, MaxAttempts)

(* The candidates in their order, without those that are 0.0.0.0. *)
Candidates(c) ==
  LET known == SelectSeq(<<c[1], c[1], c[2]>> \o Public, LAMBDA s : s # NoIp)
  IN  SubSeq(known, 1, IF Len(known) < MaxAttempts THEN Len(known) ELSE MaxAttempts)

Question(d) == [id |-> d.id, host |-> d.host, server |-> d.servers[d.attempt]]

(* dns_send_attempt(): a question that cannot be sent is one that is lost. *)
SendAttempt(d) == dns' = d /\ expired' = FALSE /\ wire' = wire \cup {Question(d)}

(* dns_resolve(): overwrites a lookup in flight. *)
Resolve(h, i, c) ==
  /\ lookups < MaxLookups
  /\ lookups' = lookups + 1
  /\ SendAttempt([NoLookup EXCEPT !.state = "querying", !.host = h, !.id = i,
                                  !.servers = Candidates(c), !.attempt = 1])

End(state, why, ip) ==
  /\ dns' = [dns EXCEPT !.state = state, !.why = why, !.result = ip]
  /\ UNCHANGED <<expired, wire>>

(* A fault for comparison: the attempts wrap round. *)
NextAttemptForever(why) ==
  SendAttempt([dns EXCEPT !.attempt = IF @ < Len(dns.servers) THEN @ + 1 ELSE 1])

(* dns_next_attempt_or_fail() *)
NextAttemptOrFail(why) ==
  IF dns.attempt < Len(dns.servers)
    THEN SendAttempt([dns EXCEPT !.attempt = @ + 1])
    ELSE End("failed", why, NoIp)

(* dns_poll() *)
AttemptExpires == dns.state = "querying" /\ expired' = TRUE /\ UNCHANGED <<dns, wire, lookups>>

Poll ==
  /\ dns.state = "querying" /\ expired
  /\ NextAttemptOrFail("no reply")
  /\ UNCHANGED lookups

-----------------------------------------------------------------------------
(* What an honest server may say to question q: an answer, "no such host", or
   an error, which need not repeat the question. *)
Replies(q) ==
  LET reply(kind, ip, echo) == [id |-> q.id, from |-> q.server, kind |-> kind, ip |-> ip, echo |-> echo]
      truth == CASE q.host \in Silent -> reply("no address", NoIp, {q.host})
                 [] q.host \notin Silent /\ AddressOf[q.host] = NoIp -> reply("nxdomain", NoIp, {q.host})
                 [] OTHER -> reply("answer", AddressOf[q.host], {q.host})
  IN  {truth, reply("error", NoIp, {q.host}), reply("error", NoIp, {})}

(* Only a server that was asked in this lookup is believed, with its id. *)
Believed(r) ==
  /\ dns.state = "querying"
  /\ \E k \in 1 .. dns.attempt : dns.servers[k] = r.from
  /\ r.id = dns.id

(* A fault for comparison: the id alone ties a reply to the question. *)
AboutAnything(r) == r.id = dns.id

(* The echoed question must be ours; an error may come without one. *)
AboutOurQuestion(r) == r.echo = {dns.host} \/ (r.echo = {} /\ r.kind = "error")

(* dns_handle_reply() *)
HandleReply(r) ==
  /\ Believed(r) /\ AboutOurQuestion(r)
  /\ CASE r.kind = "error" -> NextAttemptOrFail("server error")
       [] r.kind = "nxdomain" -> End("failed", "no such host", NoIp)
       [] r.kind = "no address" -> End("failed", "no address", NoIp)
       [] r.kind = "answer" -> End("resolved", "", r.ip)
  /\ UNCHANGED lookups

Next ==
  \/ \E h \in Host, i \in Id, c \in Configured : Resolve(h, i, c)
  \/ AttemptExpires \/ Poll
  \/ \E q \in wire : \E r \in Replies(q) : HandleReply(r)

Spec == Init /\ [][Next]_vars

(* The clock runs and the loop polls. *)
Fairness == WF_vars(AttemptExpires) /\ WF_vars(Poll)

-----------------------------------------------------------------------------
(* Properties. *)

(* The attempt in flight is one of the list; only a lookup that ended well has
   a result. *)
TypeOK ==
  /\ dns.state \in {"idle", "querying", "resolved", "failed"}
  /\ Len(dns.servers) <= MaxAttempts
  /\ dns.attempt \in (IF dns.state = "idle" THEN {0} ELSE DOMAIN dns.servers)
  /\ dns.result # NoIp <=> dns.state = "resolved"
  /\ lookups <= MaxLookups

(* Whatever old replies arrive, under whatever id: the address is that of the
   host asked for, and "no such host" or "no address" is said of a host of
   which it is true (dns_handle_reply binds a reply to our question). *)
Truthful ==
  /\ dns.state = "resolved" => dns.result = AddressOf[dns.host]
  /\ dns.why = "no such host" => dns.host \notin Silent /\ AddressOf[dns.host] = NoIp
  /\ dns.why = "no address" => dns.host \in Silent

(* A lookup that fails for want of an answer has asked every server of its
   list, and a question to 0.0.0.0 is never one of them. *)
EveryServerAsked ==
  /\ dns.why \in {"no reply", "server error"} =>
       \A s \in {dns.servers[k] : k \in DOMAIN dns.servers} :
         [id |-> dns.id, host |-> dns.host, server |-> s] \in wire
  /\ \A q \in wire : q.server # NoIp

(* No lookup hangs: it resolves, fails or is replaced by the next. *)
LookupEnds == dns.state = "querying" ~> dns.state # "querying"
=============================================================================
