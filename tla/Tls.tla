-------------------------------- MODULE Tls --------------------------------
(* src/kernel/tls.h and the polling of https.h against a server that follows RFC 5246:
   the handshake, the two directions' ciphers and sequence numbers, records that arrive
   in pieces, and the three buffers a byte passes before the reader has it.
   The stream is made of units: a record is a header unit and its payload, a handshake
   message is two units that records may separate, and a sealed record has one unit of
   overhead.  What a signature or a digest covers is the list of the messages. *)
EXTENDS Naturals, Sequences, SequencesExt

CONSTANTS Cuts,       (* where the server's first flight is divided into records, in units *)
          Replies,    (* the application data records a server answers with: their sizes *)
          RawSize,    (* TLS_RX_RAW_BUF_SIZE, in units *)
          AppSize,    (* TLS_APP_RECV_BUF_SIZE *)
          Take,       (* units one tls_poll_recv_app_data() takes *)
          Space,      (* records the TCP send queue holds *)
          Losses      (* whether the server's side may be cut off *)

VARIABLES host,       (* the server: what it chose, its state, its ciphers and its transcript *)
          pipe,       (* TCP: its state, the stream still to arrive and whether its end follows *)
          box,        (* tcp_conn's receive buffer *)
          tls,        (* tls_conn *)
          web         (* https_client, and what the reader was given *)
tlsVars == <<host, pipe, box, tls, web>>

ConstantsOK == /\ {RawSize, AppSize, Take, Space} \subseteq Nat \ {0}
               /\ \A r \in Replies : \A i \in 1 .. Len(r) : r[i] + 2 <= RawSize /\ r[i] + 1 <= AppSize

Message(name, seen) == [name |-> name, seen |-> seen]
Plain(name) == Message(name, <<>>)
Units(m) == <<[m |-> m, k |-> 1], [m |-> m, k |-> 2]>>
(* A record on the wire: header with type, length and (when sealed) its number. *)
Record(type, seal, payload) ==
  <<[type |-> type, len |-> Len(payload) + IF seal < 0 THEN 0 ELSE 1, seal |-> seal]>>
    \o payload \o IF seal < 0 THEN <<>> ELSE <<"tag">>
Clear == 0 - 1

(* ---- the server ---- *)
Flight(asks) == <<"ServerHello", "Certificate", "ServerKeyExchange">>
                  \o (IF asks THEN <<"CertificateRequest">> ELSE <<>>) \o <<"ServerHelloDone">>
FlightUnits(asks) == LET names == Flight(asks)
                     IN FlattenSeq([i \in DOMAIN names |-> Units(Plain(names[i]))])
(* The flight in records that end anywhere: `cuts` are the unit counts they end at. *)
FlightRecords(asks, cuts) ==
  LET u == FlightUnits(asks)
      ends == SetToSortSeq((cuts \cap 1 .. Len(u) - 1) \cup {Len(u)}, <)
  IN FlattenSeq([i \in DOMAIN ends |->
       Record("handshake", Clear, SubSeq(u, IF i = 1 THEN 1 ELSE ends[i - 1] + 1, ends[i]))])

Server(asks, trusted, cuts, reply, notify) ==
  [asks |-> asks, trusted |-> trusted, cuts |-> cuts, reply |-> reply, notify |-> notify,
   state |-> "hello", seen |-> <<>>, renc |-> FALSE, rseq |-> 0, wseq |-> 0, upset |-> FALSE]

Expects(h) == CASE h.state = "hello" -> "ClientHello"
                [] h.state = "key" -> "ClientKeyExchange"
                [] h.state = "change" -> "ChangeCipherSpec"
                [] h.state = "finish" -> "Finished"
                [] OTHER -> "request"
Alert(h) == Record("alert", IF h.state \in {"up", "over"} THEN h.wseq ELSE Clear, <<"fatal">>)

(* The reply, numbered from 1 for the Finished that was sealed with 0. *)
ReplyRecords(h) ==
  LET Sized(i) == [k \in 1 .. h.reply[i] |-> <<i, k>>]
      n == Len(h.reply)
  IN FlattenSeq([i \in 1 .. n |-> Record("data", h.wseq + i - 1, Sized(i))])
       \o IF h.notify THEN Record("alert", h.wseq + n, <<"close_notify">>) ELSE <<>>
Whole(h) == FlattenSeq([i \in DOMAIN h.reply |-> [k \in 1 .. h.reply[i] |-> <<i, k>>]])

Hears ==
  /\ tls.out # <<>> /\ host.state # "over" /\ pipe.state = "up"
  /\ LET r == Head(tls.out)
         good == /\ r.seal = (IF host.renc THEN host.rseq ELSE Clear)
                 /\ r.m.name = Expects(host)
                 /\ r.m.name = "Finished" => r.m.seen = host.seen
         heard == [host EXCEPT !.seen = IF r.m.name \in {"request", "ChangeCipherSpec"} THEN @ ELSE Append(@, r.m.name),
                               !.rseq = IF host.renc THEN @ + 1 ELSE @]
         say(h, units) == host' = h /\ pipe' = [pipe EXCEPT !.down = @ \o units, !.fin = h.state = "over"]
     IN \/ ~good /\ say([host EXCEPT !.state = "over", !.upset = TRUE], Alert(host))
        \/ /\ good /\ host.state = "hello"
           /\ say([heard EXCEPT !.state = "key", !.seen = @ \o Flight(host.asks)], FlightRecords(host.asks, host.cuts))
        \/ /\ good /\ host.state = "key" /\ ~host.asks
           /\ say([heard EXCEPT !.state = "change"], <<>>)
        \/ /\ good /\ host.state = "key" /\ host.asks     \* the client owes a Certificate message
           /\ say([heard EXCEPT !.state = "over", !.upset = TRUE], Alert(host))
        \/ good /\ host.state = "change" /\ say([heard EXCEPT !.state = "finish", !.renc = TRUE, !.rseq = 0], <<>>)
        \/ /\ good /\ host.state = "finish"
           /\ say([heard EXCEPT !.state = "up", !.wseq = 1],
                  Record("ccs", Clear, <<"ccs">>) \o Record("handshake", 0, Units(Message("Finished", heard.seen))))
        \/ /\ good /\ host.state = "up"
           /\ host' = [heard EXCEPT !.state = "over"]
           /\ pipe' = [pipe EXCEPT !.down = @ \o ReplyRecords(host), !.fin = TRUE]
  /\ tls' = [tls EXCEPT !.out = Tail(@)]
  /\ UNCHANGED <<box, web>>

(* TCP hands over what there is room for, the end after the last byte, or a reset. *)
Arrives ==
  \E n \in 1 .. Len(pipe.down) :
    /\ pipe.state = "up" /\ Len(box) + n <= RawSize
    /\ box' = box \o SubSeq(pipe.down, 1, n)
    /\ pipe' = [pipe EXCEPT !.down = SubSeq(@, n + 1, Len(@))]
    /\ UNCHANGED <<host, tls, web>>
Ends ==
  /\ pipe.state = "up" /\ ~pipe.seenFin
  /\ \/ pipe.fin /\ pipe.down = <<>> /\ pipe' = [pipe EXCEPT !.seenFin = TRUE]
     \/ Losses /\ pipe' = [pipe EXCEPT !.down = <<>>, !.state = "closed"]
  /\ UNCHANGED <<host, box, tls, web>>
Connects ==
  /\ pipe.state = "syn"
  /\ \E s \in {"up"} \cup (IF Losses THEN {"closed"} ELSE {}) :
       pipe' = [pipe EXCEPT !.state = s]
  /\ UNCHANGED <<host, box, tls, web>>

(* ---- the client ---- *)
Fresh ==                                        \* tls_connect
  [state |-> "wait_tcp", raw |-> <<>>, hs |-> <<>>, app |-> <<>>, seen |-> <<>>, out |-> <<>>,
   cseq |-> 0, sseq |-> 0, wenc |-> FALSE, renc |-> FALSE, fail |-> "none", notified |-> FALSE]
Init ==
  /\ \E asks \in BOOLEAN, trusted \in BOOLEAN, notify \in BOOLEAN, reply \in Replies, cuts \in Cuts :
       host = Server(asks, trusted, cuts, reply, notify)
  /\ pipe = [state |-> "syn", down |-> <<>>, fin |-> FALSE, seenFin |-> FALSE]
  /\ box = <<>>
  /\ tls = Fresh
  /\ web = [state |-> "connecting", given |-> <<>>]

Fail(c, why) == [c EXCEPT !.state = "failed", !.fail = why]

(* tls_write_record: all of a record or nothing of it. *)
Fits(c) == Len(c.out) < Space
Write(c, m) ==
  IF ~Fits(c) THEN c
  ELSE [c EXCEPT !.out = Append(@, [m |-> m, seal |-> IF c.wenc THEN c.cseq ELSE Clear]),
                 !.cseq = IF c.wenc THEN @ + 1 ELSE @]
(* tls_send_handshake: into the transcript, then onto the wire. *)
SendHandshake(c, m) == Write([c EXCEPT !.seen = Append(@, m.name)], m)

(* tls_send_finished: the cipher is on and counts from 0 from here. *)
SendFinishedKeepSeq(c) ==
  LET ccs == Write(c, Plain("ChangeCipherSpec"))
  IN SendHandshake([ccs EXCEPT !.wenc = TRUE, !.cseq = @ + 1], Message("Finished", c.seen))
SendFinished(c) ==
  LET ccs == Write(c, Plain("ChangeCipherSpec"))
  IN SendHandshake([ccs EXCEPT !.wenc = TRUE, !.cseq = 0], Message("Finished", c.seen))

(* tls_dispatch_handshake_message *)
Dispatch(c, m) ==
  CASE c.state = "hello_sent" ->
         CASE m.name = "Certificate" /\ ~host.trusted -> Fail(c, "chain")
           [] m.name = "ServerHelloDone" ->
                [SendFinished(SendHandshake(c, Plain("ClientKeyExchange"))) EXCEPT !.state = "finished_sent"]
           [] m.name \in {"ServerHello", "Certificate", "ServerKeyExchange", "CertificateRequest"} -> c
           [] OTHER -> Fail(c, "unexpected")
    [] c.state = "finished_sent" ->
         IF m.name # "Finished" THEN Fail(c, "unexpected")
         ELSE IF m.seen # c.seen THEN Fail(c, "server_finished")
         ELSE [c EXCEPT !.state = "established"]
    [] OTHER -> c

(* tls_process_handshake_buffer: each message is folded into the transcript before it
   is dispatched, and the server's Finished after. *)
LateNever(c, m) == FALSE
Late(c, m) == c.state = "finished_sent" /\ m.name = "Finished"
Folds(c, m) == [c EXCEPT !.seen = Append(@, m.name)]
RECURSIVE ProcessHandshakes(_)
ProcessHandshakes(c) ==
  IF Len(c.hs) < 2 \/ c.state = "failed" THEN c
  ELSE LET m == c.hs[1].m
           rest == [c EXCEPT !.hs = SubSeq(@, 3, Len(@))]
           done == IF Late(c, m) THEN LET d == Dispatch(rest, m) IN IF d.state = "failed" THEN d ELSE Folds(d, m)
                   ELSE Dispatch(Folds(rest, m), m)
       IN ProcessHandshakes(done)

(* The record at the head of the raw buffer can be taken: it is all there, and there is
   room for what it holds. *)
HeldBackAtLimit(c, r) == r.type = "data" /\ Len(c.app) + r.len >= AppSize
HeldBack(c, r) == r.type = "data" /\ Len(c.app) + r.len > AppSize
Takable(c) ==
  /\ c.raw # <<>>
  /\ LET r == Head(c.raw) IN Len(c.raw) >= 1 + r.len /\ ~HeldBack(c, r)

(* tls_decrypt_record: the number in the additional data is ours, the tag the server's. *)
Opens(c, r) == r.seal = c.sseq

(* One record of tls_process_raw_buffer. *)
TakeRecord(c) ==
  LET r == Head(c.raw)
      left == [c EXCEPT !.raw = SubSeq(@, r.len + 2, Len(@))]
      plain == SubSeq(c.raw, 2, r.len + IF c.renc /\ r.type # "ccs" THEN 0 ELSE 1)
      opened == IF c.renc THEN [left EXCEPT !.sseq = @ + 1] ELSE left
      room == AppSize - Len(c.app)
  IN IF r.type = "ccs" THEN [left EXCEPT !.renc = TRUE, !.sseq = 0]
     ELSE IF c.renc /\ ~Opens(c, r) THEN Fail(left, "decrypt")
     ELSE CASE r.type = "alert" -> IF plain = <<"fatal">> THEN Fail(opened, "alert") ELSE [opened EXCEPT !.notified = TRUE]
            [] r.type = "handshake" -> [opened EXCEPT !.hs = @ \o plain]
            [] OTHER -> [opened EXCEPT !.app = @ \o SubSeq(plain, 1, IF Len(plain) < room THEN Len(plain) ELSE room)]

RECURSIVE ProcessRaw(_)
ProcessRaw(c) ==
  IF ~Takable(c) THEN c
  ELSE LET d == ProcessHandshakes(TakeRecord(c))
       IN IF d.state = "failed" THEN d ELSE ProcessRaw(d)

(* tls_poll: [tls, box] after it. *)
TlsPoll ==
  IF tls.state = "wait_tcp"
  THEN [box |-> box,
        tls |-> CASE pipe.state = "up" -> [SendHandshake(tls, Plain("ClientHello")) EXCEPT !.state = "hello_sent"]
                  [] pipe.state = "closed" -> Fail(tls, "tcp")
                  [] OTHER -> tls]
  ELSE IF tls.state \in {"hello_sent", "finished_sent", "established"}
  THEN LET room == RawSize - Len(tls.raw)
           n == IF Len(box) < room THEN Len(box) ELSE room
       IN [box |-> SubSeq(box, n + 1, Len(box)), tls |-> ProcessRaw([tls EXCEPT !.raw = @ \o SubSeq(box, 1, n)])]
  ELSE [box |-> box, tls |-> tls]

(* tls_close *)
Close(c) == [(IF c.wenc THEN Write(c, Plain("close_notify")) ELSE c) EXCEPT !.state = "closed"]

(* https_poll: the three phases; a reply is complete when all the server announced of it
   has been read. *)
Connecting ==
  /\ web.state = "connecting"
  /\ LET p == TlsPoll
     IN /\ tls' = p.tls /\ box' = p.box
        /\ web' = [web EXCEPT !.state = CASE p.tls.state = "established" -> "sending"
                                          [] p.tls.state = "failed" -> "failed"
                                          [] OTHER -> @]
  /\ UNCHANGED <<host, pipe>>
Sending ==
  /\ web.state = "sending"
  /\ LET p == TlsPoll
         goes == p.tls.state = "established" /\ Fits(p.tls) /\ pipe.state = "up"
     IN /\ box' = p.box
        /\ tls' = IF goes THEN Write(p.tls, Plain("request")) ELSE p.tls
        /\ web' = [web EXCEPT !.state = IF goes THEN "awaiting" ELSE @]
  /\ UNCHANGED <<host, pipe>>
PeerDoneUnread(b, c) == (pipe.seenFin \/ pipe.state = "closed" \/ c.notified) /\ b = <<>> /\ c.raw = <<>>
PeerDone(b, c) == PeerDoneUnread(b, c) /\ c.app = <<>>
Awaiting ==
  /\ web.state = "awaiting"
  /\ LET p == TlsPoll
         n == IF Len(p.tls.app) < Take THEN Len(p.tls.app) ELSE Take
         read == [p.tls EXCEPT !.app = SubSeq(@, n + 1, Len(@))]
         given == web.given \o SubSeq(p.tls.app, 1, n)
         ended == PeerDone(p.box, read)
     IN /\ box' = p.box
        /\ IF p.tls.state = "failed"
           THEN tls' = p.tls /\ web' = [web EXCEPT !.state = "failed"]
           ELSE /\ tls' = IF ended THEN Close(read) ELSE read
                /\ web' = [state |-> IF ended THEN "done" ELSE "awaiting", given |-> given]
  /\ UNCHANGED <<host, pipe>>
HttpsPoll == Connecting \/ Sending \/ Awaiting

Next == Hears \/ Arrives \/ Ends \/ Connects \/ HttpsPoll

TypeOK ==
  /\ pipe.state \in {"syn", "up", "closed"}
  /\ Len(box) <= RawSize /\ Len(tls.raw) <= RawSize /\ Len(tls.app) <= AppSize /\ Len(tls.out) <= Space
  /\ tls.state \in {"wait_tcp", "hello_sent", "finished_sent", "established", "failed", "closed"}
  /\ web.state \in {"connecting", "sending", "awaiting", "done", "failed"}

(* tls.h:1107 and :943: between two sides that keep to the protocol nothing ever fails to
   match, however the server's flight is put into records and these into pieces: no
   digest, no record number, no message out of place.  A connection fails only for a chain
   that is not trusted, a server that wants a certificate, or a lost connection. *)
NoQuarrel ==
  /\ tls.fail \in {"none", "chain", "alert", "tcp"}
  /\ tls.fail = "chain" => ~host.trusted
  /\ tls.fail = "alert" => host.asks
  /\ host.upset => host.asks

(* tls.h:1184, from end to end: what the reader gets is what the server said, in its
   order, and when the page is shown nothing of it is missing or still on its way. *)
DataWhole ==
  /\ IsPrefix(web.given, Whole(host))
  /\ web.state = "done" /\ pipe.state = "up" => web.given = Whole(host)

(* tls.h:1168 and :1184: no byte is stuck.  When all has arrived and a poll can do nothing
   more, the page is shown or has failed: no record waits for room that nobody makes. *)
CanMove == \/ pipe.fin /\ pipe.down = <<>> /\ ~pipe.seenFin
           \/ pipe.down # <<>> /\ Len(box) < RawSize
           \/ box # <<>> /\ Len(tls.raw) < RawSize
           \/ Takable(tls) \/ tls.app # <<>>
NotStuck ==
  web.state = "awaiting" /\ pipe.state = "up" /\ host.state = "over" /\ ~CanMove => PeerDone(box, tls)

(* Fairness: kernel.c's loop polls, and a server that is up goes on. *)
Fairness == WF_tlsVars(HttpsPoll) /\ WF_tlsVars(Hears) /\ WF_tlsVars(Arrives) /\ WF_tlsVars(Ends) /\ WF_tlsVars(Connects)
(* https.h:75: a page that is being loaded is shown or fails in the end. *)
LoadEnds == web.state \in {"connecting", "sending", "awaiting"} ~> web.state \in {"done", "failed"}
=============================================================================
