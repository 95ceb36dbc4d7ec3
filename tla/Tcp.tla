-------------------------------- MODULE Tcp --------------------------------
(***************************************************************************)
(* The kernel's TCP (kernel/tcp.h): one active connection at a time, a     *)
(* send queue drained stop-and-wait, one retransmit slot, the peer's       *)
(* window, and a receive buffer that the application polls.                *)
(*                                                                         *)
(* The network keeps every segment ever sent and delivers any of them at   *)
(* any time, so it loses, duplicates, delays and reorders.  The peer is an *)
(* honest TCP, external to the kernel: it accepts bytes in order, states   *)
(* any window, sends any slice of its stream at any time and acknowledges  *)
(* any prefix of what it has accepted.                                     *)
(*                                                                         *)
(* The k-th byte of a stream is <<port, k>>.  Sequence numbers are taken   *)
(* modulo SeqSpace (2^32 in the code), so the small instances wrap.  Clocks  *)
(* are abstracted: a timer that runs may have expired at any poll.         *)
(***************************************************************************)
EXTENDS Integers, Sequences, FiniteSets, SequencesExt, TLAPS

CONSTANTS
  Conns,       (* connections made one after the other; each takes the next local port *)
  SeqSpace,      (* sequence numbers                                                    *)
  Iss,         (* Iss[p]: the initial sequence number of the connection on port p     *)
  PeerIss,     (* the peer's                                                          *)
  OutLen,      (* bytes the application writes on a connection, at most               *)
  InLen,       (* bytes of the peer's stream                                          *)
  SendSize,    (* TCP_SEND_BUF_SIZE                                                   *)
  RecvSize,    (* TCP_RECV_BUF_SIZE, and at most TCP_ADV_WINDOW_MAX                   *)
  FullIsh,     (* TCP_RECV_MSS: less room than this, and a drain is told to the peer  *)
  Mss,         (* the smaller of TCP_SEND_MSS and the peer's                          *)
  MaxRetries,  (* TCP_MAX_RETRIES                                                     *)
  MinFails,    (* TCP_TX_FAIL_MIN_COUNT                                               *)
  Backstop,    (* TCP_TX_FAIL_BACKSTOP                                                *)
  Windows      (* the windows the peer states                                         *)

SeqNums == 0 .. SeqSpace - 1
Port == 1 .. Conns

ASSUME CountsNat == /\ {Conns, SeqSpace} \subseteq Nat /\ OutLen \in Nat /\ InLen \in Nat
                    /\ {SendSize, RecvSize, FullIsh, Mss} \subseteq Nat \ {0}
                    /\ {MaxRetries, MinFails, Backstop} \subseteq Nat \ {0}
                    /\ MinFails <= Backstop
ASSUME InitialSeqs == Iss \in [Port -> SeqNums] /\ PeerIss \in [Port -> SeqNums]
ASSUME WindowsNat == Windows \subseteq Nat
(* A stream is far shorter than half of the sequence space. *)
ASSUME ShortStreams == 2 * (OutLen + 2) < SeqSpace /\ 2 * (InLen + RecvSize + 2) < SeqSpace

VARIABLES
  conn,     (* tcp_conn                                                     *)
  app,      (* what the application has written to and read from it         *)
  peer,     (* peer[p]: the server's end of the connection from port p      *)
  sent,     (* every segment ever put on the wire                           *)
  replied   (* the last step put a segment on the wire                      *)

vars == <<conn, app, peer, sent, replied>>

Plus(a, n) == (a + n) % SeqSpace
Minus(a, b) == (a - b) % SeqSpace
Signed(d) == IF 2 * d < SeqSpace THEN d ELSE d - SeqSpace

NoConn ==
  [state |-> "CLOSED", port |-> 0, una |-> 0, nxt |-> 0, rcv |-> 0, sendq |-> <<>>,
   fin |-> FALSE, retx |-> "none", len |-> 0, count |-> 0, fails |-> 0,
   wnd |-> 0, wl1 |-> 0, wl2 |-> 0, zero |-> FALSE, recvq |-> <<>>, finSeen |-> FALSE]

NewPeer == [state |-> "listen", got |-> <<>>, finGot |-> FALSE]

Init ==
  /\ conn = NoConn
  /\ app = [wrote |-> 0, read |-> <<>>]
  /\ peer = [p \in Port |-> NewPeer]
  /\ sent = {}
  /\ replied = FALSE

-----------------------------------------------------------------------------
(* tcp_send_segment().  An ACK that the interface refuses is an ACK that is
   lost, so only the segments that occupy sequence space carry a verdict.    *)

Segment(c, kind, data) == [port |-> c.port, kind |-> kind, seq |-> c.nxt, data |-> data]
Ack(c) == [port |-> c.port, kind |-> "ack", seq |-> 0, data |-> <<>>]

(* tcp_arm_retransmit() and tcp_clear_retransmit() *)
Arm(c, kind, n) == [c EXCEPT !.retx = kind, !.len = n, !.count = 0]
Clear(c) == [c EXCEPT !.retx = "none", !.len = 0, !.count = 0]
(* A fault for comparison: the retransmit slot outlives the connection. *)
DropArmed(c) == [c EXCEPT !.state = "CLOSED"]
Drop(c) == [Clear(c) EXCEPT !.state = "CLOSED"]

(* A fault for comparison: refusals are counted and never end. *)
RefusedForever(c) == {[c EXCEPT !.fails = Backstop - 1]}

(* tcp_tx_refused(): a refused segment stays queued; whether the refusals
   have lasted long enough to give up is the wall clock's.                   *)
Refused(c) ==
  LET d == [c EXCEPT !.fails = @ + 1]
  IN  (IF d.fails >= MinFails THEN {Drop(d)} ELSE {})
        \cup (IF d.fails < Backstop THEN {d} ELSE {})

(* tcp_zero_window_wait(): starts waiting; then waits, probes or gives up.  The
   probe is an ACK, which the peer answers with its window at some time.     *)
ZeroWindowWait(c) ==
  IF ~c.zero THEN {<<[c EXCEPT !.zero = TRUE], {}>>}
  ELSE {<<c, {}>>, <<c, {Ack(c)}>>, <<Drop(c), {}>>}

(* A fault for comparison: the length in flight is not limited by the queue. *)
PumpDataLong(c) ==
  LET n == Min({Mss, c.wnd})
  IN  {<<[Arm(c, "data", n) EXCEPT !.fails = 0, !.nxt = Plus(@, n), !.zero = FALSE],
         {Segment(c, "data", SubSeq(c.sendq, 1, Min({n, Len(c.sendq)})))}>>}

PumpData(c) ==
  LET d == [c EXCEPT !.zero = FALSE]
      n == Min({Len(c.sendq), Mss, c.wnd})
      armed == [Arm(d, "data", n) EXCEPT !.fails = 0, !.nxt = Plus(@, n)]
  IN  {<<armed, {Segment(c, "data", SubSeq(c.sendq, 1, n))}>>}
        \cup (Refused(d) \X {{}})

PumpFin(c) ==
  LET armed == [Arm(c, "fin", 0) EXCEPT !.fails = 0, !.fin = FALSE,
                                        !.nxt = Plus(@, 1), !.state = "FIN_WAIT_1"]
  IN  {<<armed, {Segment(c, "fin", <<>>)}>>} \cup (Refused(c) \X {{}})

(* tcp_pump_send(): the connections it may leave, with what it sends. *)
Pump(c) ==
  LET stay == {<<c, {}>>}
      backingOff == IF c.fails > 0 THEN stay ELSE {}
  IN  CASE \/ c.state # "ESTABLISHED" \/ c.retx # "none"
           \/ c.sendq = <<>> /\ ~c.fin                    -> stay
        [] OTHER -> backingOff \cup
                    CASE c.sendq = <<>> -> PumpFin(c)
                      [] c.sendq # <<>> /\ c.wnd = 0 -> ZeroWindowWait(c)
                      [] OTHER -> PumpData(c)

(* A step leaves the connection at one of the results. *)
Become(results) ==
  \E r \in results :
    /\ conn' = r[1]
    /\ sent' = sent \cup r[2]
    /\ replied' = (r[2] # {})

-----------------------------------------------------------------------------
(* What the application calls. *)

(* A fault for comparison: the queue of the last connection is kept. *)
ConnectKeepsQueue ==
  /\ conn.port < Conns
  /\ LET p == conn.port + 1
         c == [NoConn EXCEPT !.port = p, !.una = Iss[p], !.nxt = Iss[p], !.sendq = conn.sendq]
     IN  Become({<<[Arm(c, "syn", 0) EXCEPT !.state = "SYN_SENT", !.nxt = Plus(@, 1)],
                   {Segment(c, "syn", <<>>)}>>})
  /\ app' = [wrote |-> 0, read |-> <<>>]
  /\ UNCHANGED peer

(* tcp_connect(): clobbers the connection there is.  A SYN that is refused
   ends it at once. *)
Connect ==
  /\ conn.port < Conns
  /\ LET p == conn.port + 1
         c == [NoConn EXCEPT !.port = p, !.una = Iss[p], !.nxt = Iss[p]]
         syn == [Arm(c, "syn", 0) EXCEPT !.state = "SYN_SENT", !.nxt = Plus(@, 1)]
     IN  Become({<<c, {}>>, <<syn, {Segment(c, "syn", <<>>)}>>})
  /\ app' = [wrote |-> 0, read |-> <<>>]
  /\ UNCHANGED peer

(* tcp_send_data(): all of it, or nothing. *)
SendData(n) ==
  /\ conn.state = "ESTABLISHED" /\ ~conn.fin
  /\ n <= SendSize - Len(conn.sendq)
  /\ app.wrote + n <= OutLen
  /\ app' = [app EXCEPT !.wrote = @ + n]
  /\ Become(Pump([conn EXCEPT !.sendq = @ \o [k \in 1 .. n |-> <<conn.port, app.wrote + k>>]]))
  /\ UNCHANGED peer

(* tcp_close() *)
Close ==
  /\ conn.state = "ESTABLISHED"
  /\ Become(Pump([conn EXCEPT !.fin = TRUE]))
  /\ UNCHANGED <<app, peer>>

(* tcp_poll_recv(): the drain of a buffer that was nearly full is told to the peer. *)
PollRecv(n) ==
  /\ n \in 1 .. Len(conn.recvq)
  /\ app' = [app EXCEPT !.read = @ \o SubSeq(conn.recvq, 1, n)]
  /\ LET fullIsh == RecvSize - Len(conn.recvq) < FullIsh
         update == IF fullIsh /\ conn.state = "ESTABLISHED" THEN {Ack(conn)} ELSE {}
     IN  Become({<<[conn EXCEPT !.recvq = SubSeq(@, n + 1, Len(@))], update>>})
  /\ UNCHANGED peer

-----------------------------------------------------------------------------
(* tcp_handle_packet().  A segment s from the peer has the fields port, flags,
   seq, ack, wnd and data. *)

(* A fault for comparison: any ACK frees the slot. *)
TakeAckOfAny(c, s) ==
  IF "ACK" \in s.flags /\ c.retx # "none"
    THEN [Clear(c) EXCEPT !.una = s.ack, !.sendq = SubSeq(@, c.len + 1, Len(@))]
    ELSE c

(* An ACK of everything in flight frees the retransmit slot, and the bytes of
   the segment leave the queue. *)
TakeAck(c, s) ==
  IF "ACK" \in s.flags /\ s.ack = c.nxt /\ c.retx # "none"
    THEN [Clear(c) EXCEPT !.una = s.ack, !.sendq = SubSeq(@, c.len + 1, Len(@))]
    ELSE c

(* tcp_update_peer_window() *)
TakeWindow(c, s) ==
  IF /\ "ACK" \in s.flags
     /\ Minus(s.ack, c.una) <= Minus(c.nxt, c.una)
     /\ \/ Signed(Minus(s.seq, c.wl1)) > 0
        \/ s.seq = c.wl1 /\ Signed(Minus(s.ack, c.wl2)) >= 0
    THEN [c EXCEPT !.wnd = s.wnd, !.wl1 = s.seq, !.wl2 = s.ack]
    ELSE c

Store(c, bytes) == [c EXCEPT !.recvq = @ \o bytes, !.rcv = Plus(@, Len(bytes))]
Room(c) == RecvSize - Len(c.recvq)

(* A fault for comparison: a repeated segment is stored whole. *)
TakeFreshWhole(c, s) ==
  LET already == Signed(Minus(c.rcv, s.seq))
  IN  IF already >= 0 /\ already < Len(s.data) /\ Len(s.data) <= Room(c)
        THEN Store(c, s.data) ELSE c

(* The bytes of s that are the next ones, if they all fit. *)
TakeFresh(c, s) ==
  LET already == Signed(Minus(c.rcv, s.seq))
      fresh == SubSeq(s.data, already + 1, Len(s.data))
  IN  IF already >= 0 /\ already < Len(s.data) /\ Len(fresh) <= Room(c)
        THEN Store(c, fresh) ELSE c

(* FIN_WAIT: only a segment that begins with the next byte. *)
HasNext(c, s) == s.data # <<>> /\ s.seq = c.rcv
TakeExact(c, s) == IF HasNext(c, s) /\ Len(s.data) <= Room(c) THEN Store(c, s.data) ELSE c

(* A fault for comparison: a FIN counts wherever it is. *)
FinAnywhere(c, s) == "FIN" \in s.flags

FinIsNext(c, s) == "FIN" \in s.flags /\ Plus(s.seq, Len(s.data)) = c.rcv
TakeFin(c, s) ==
  IF FinIsNext(c, s) THEN [c EXCEPT !.rcv = Plus(@, 1), !.finSeen = TRUE] ELSE c

Answer(c, yes) == IF yes THEN {Ack(c)} ELSE {}

InSynSent(c, s) ==
  LET up == [c EXCEPT !.state = "ESTABLISHED", !.rcv = Plus(s.seq, 1),
                      !.wnd = s.wnd, !.wl1 = s.seq, !.wl2 = s.ack]
  IN  IF {"SYN", "ACK"} \subseteq s.flags /\ s.ack = c.nxt THEN {<<up, {Ack(c)}>>}
                                                           ELSE {<<c, {}>>}

InEstablished(c, s) ==
  LET taken == TakeFresh(TakeWindow(c, s), s)
      finAgain == "FIN" \in s.flags /\ Plus(s.seq, Len(s.data) + 1) = taken.rcv
      answer == Answer(c, s.data # <<>> \/ FinIsNext(taken, s) \/ finAgain)
  IN  {<<r[1], r[2] \cup answer>> : r \in Pump(TakeFin(taken, s))}

(* FIN_WAIT_1: the ACK of our FIN, then the data, then the peer's FIN, which
   closes the connection if the ACK has come before it. *)
InFinWait1(c, s) ==
  LET finAcked == "ACK" \in s.flags /\ s.ack = c.nxt
      acked == IF ~finAcked THEN c
               ELSE [c EXCEPT !.state = IF c.finSeen THEN "CLOSED" ELSE "FIN_WAIT_2"]
      taken == TakeExact(acked, s)
      fin == TakeFin(taken, s)
      closed == FinIsNext(taken, s) /\ taken.state = "FIN_WAIT_2"
  IN  {<<[fin EXCEPT !.state = IF closed THEN "CLOSED" ELSE @],
         Answer(c, FinIsNext(taken, s) \/ HasNext(c, s))>>}

InFinWait2(c, s) ==
  LET taken == TakeExact(c, s)
      fin == TakeFin(taken, s)
  IN  {<<[fin EXCEPT !.state = IF FinIsNext(taken, s) THEN "CLOSED" ELSE @],
         Answer(c, FinIsNext(taken, s) \/ HasNext(c, s))>>}

(* A reset counts if it acknowledges our SYN, or has exactly the next sequence
   number; one inside the window is challenged. *)
TakeReset(c, s) ==
  LET ahead == Minus(s.seq, c.rcv)
      window == IF Room(c) = 0 THEN 1 ELSE Room(c)
      counts == IF c.state = "SYN_SENT" THEN "ACK" \in s.flags /\ s.ack = c.nxt ELSE ahead = 0
  IN  {<<IF counts THEN Drop(c) ELSE c,
         Answer(c, c.state # "SYN_SENT" /\ ahead \in 1 .. window - 1)>>}

(* A fault for comparison: segments of an earlier connection are handled. *)
HandleStalePacket(s) ==
  /\ conn.state # "CLOSED"
  /\ LET c == TakeAck(conn, s)
     IN  Become(CASE "RST" \in s.flags -> TakeReset(conn, s)
                  [] OTHER ->
                     CASE c.state = "SYN_SENT" -> InSynSent(c, s)
                       [] c.state = "ESTABLISHED" -> InEstablished(c, s)
                       [] c.state = "FIN_WAIT_1" -> InFinWait1(c, s)
                       [] OTHER -> InFinWait2(c, s))
  /\ UNCHANGED <<app, peer>>

HandlePacket(s) ==
  /\ conn.state # "CLOSED"
  /\ s.port = conn.port
  /\ LET c == TakeAck(conn, s)
     IN  Become(CASE "RST" \in s.flags -> TakeReset(conn, s)
                  [] OTHER ->
                     CASE c.state = "SYN_SENT" -> InSynSent(c, s)
                       [] c.state = "ESTABLISHED" -> InEstablished(c, s)
                       [] c.state = "FIN_WAIT_1" -> InFinWait1(c, s)
                       [] OTHER -> InFinWait2(c, s))
  /\ UNCHANGED <<app, peer>>

(* A connection that is closed has no use for segments. *)
IgnorePacket(s) ==
  /\ conn.state = "CLOSED"
  /\ s.port = conn.port
  /\ replied' = FALSE
  /\ UNCHANGED <<conn, app, peer, sent>>

(* A fault for comparison: the bytes are sent again at the next number. *)
ResentAtNext(c) == Segment(c, c.retx, SubSeq(c.sendq, 1, c.len))

(* What a retransmission sends: the front of the queue, at the oldest sequence
   number that is not acknowledged. *)
Resent(c) ==
  [Segment(c, c.retx, SubSeq(c.sendq, 1, c.len)) EXCEPT !.seq = c.una]

(* A fault for comparison: no retry is ever the last. *)
RetransmitForever ==
  /\ conn.retx # "none"
  /\ Become({<<conn, {Resent(conn)}>>})
  /\ UNCHANGED <<app, peer>>

Retransmit ==
  /\ conn.retx # "none"
  /\ Become(IF conn.count >= MaxRetries THEN {<<Drop(conn), {}>>}
            ELSE {<<[conn EXCEPT !.count = @ + 1], {Resent(conn)}>>})
  /\ UNCHANGED <<app, peer>>

(* tcp_poll_retransmit(): the pump first; a segment that is still in flight
   then, and overdue, is sent again. *)
PollPump ==
  /\ conn.retx = "none"
  /\ Become(Pump(conn))
  /\ UNCHANGED <<app, peer>>

-----------------------------------------------------------------------------
(* The peer, and the segments it may have put on the wire. *)

Stream(p, n) == [k \in 1 .. n |-> <<p, k>>]

PeerNext(p) == Len(peer[p].got) + IF peer[p].finGot THEN 1 ELSE 0
PeerAcks(p) == {Plus(Iss[p], 1 + n) : n \in 0 .. PeerNext(p)}

SynAcks(p) ==
  IF peer[p].state \in {"synrcvd", "up"}
    THEN [port : {p}, flags : {{"SYN", "ACK"}}, seq : {PeerIss[p]}, ack : {Plus(Iss[p], 1)},
          wnd : Windows, data : {<<>>}]
    ELSE {}

(* The bytes k .. e of the stream, with a FIN perhaps if they are its last. *)
Slice(p, k, e, fin, a, w) ==
  [port |-> p, flags |-> {"ACK"} \cup IF fin THEN {"FIN"} ELSE {},
   seq |-> Plus(PeerIss[p], k), ack |-> a, wnd |-> w,
   data |-> SubSeq(Stream(p, InLen), k, e)]

Slices(p) ==
  IF peer[p].state # "up" THEN {}
  ELSE UNION {{Slice(p, r[1], r[2], fin, a, w) :
                 fin \in {r[2] = InLen, FALSE}, a \in PeerAcks(p), w \in Windows} :
              r \in {q \in (1 .. InLen + 1) \X (0 .. InLen) : q[1] <= q[2] + 1}}

(* A refused SYN, and a reset sent from any place of the stream. *)
Resets(p) ==
  IF peer[p].state = "reset"
    THEN [port : {p}, flags : {{"RST", "ACK"}}, seq : {Plus(PeerIss[p], k) : k \in 0 .. InLen + 1},
          ack : {Plus(Iss[p], 1)}, wnd : {0}, data : {<<>>}]
    ELSE {}

Arriving == UNION {SynAcks(p) \cup Slices(p) \cup Resets(p) : p \in Port}

(* The peer takes the part of a segment that it has not got, or a prefix of it. *)
PeerTakes(p, s) ==
  LET q == peer[p]
      becomes(e) == peer' = [peer EXCEPT ![p] = e]
      already == Signed(Minus(Plus(Iss[p], 1 + Len(q.got)), s.seq))
      data == \E n \in already + 1 .. Len(s.data) :
                /\ already >= 0
                /\ becomes([q EXCEPT !.got = @ \o SubSeq(s.data, already + 1, n), !.state = "up"])
      fin == /\ s.seq = Plus(Iss[p], 1 + Len(q.got))
             /\ becomes([q EXCEPT !.finGot = TRUE, !.state = "up"])
  IN  CASE s.kind = "syn"  -> q.state = "listen" /\ becomes([q EXCEPT !.state = "synrcvd"])
        [] s.kind = "ack"  -> q.state = "synrcvd" /\ becomes([q EXCEPT !.state = "up"])
        [] s.kind = "data" -> q.state \in {"synrcvd", "up"} /\ ~q.finGot /\ data
        [] s.kind = "fin"  -> q.state \in {"synrcvd", "up"} /\ ~q.finGot /\ fin

PeerReceive == \E s \in sent : PeerTakes(s.port, s) /\ UNCHANGED <<conn, app, sent>> /\ replied' = FALSE

PeerResets ==
  \E p \in Port :
    /\ peer[p].state # "reset"
    /\ \E s \in sent : s.port = p
    /\ peer' = [peer EXCEPT ![p] = [peer[p] EXCEPT !.state = "reset"]]
    /\ UNCHANGED <<conn, app, sent>> /\ replied' = FALSE

-----------------------------------------------------------------------------
Kernel ==
  \/ Connect \/ Close \/ Retransmit \/ PollPump
  \/ \E n \in 1 .. OutLen : SendData(n)
  \/ \E n \in 1 .. RecvSize : PollRecv(n)

Next == Kernel \/ (\E s \in Arriving : HandlePacket(s) \/ IgnorePacket(s)) \/ PeerReceive \/ PeerResets

Spec == Init /\ [][Next]_vars

(* The main loop polls for ever: a timer that runs expires, and a refused or
   closed transmit path is tried again until the clock says to give up.      *)
PumpAdvances == PollPump /\ conn' # conn
FairSpec == Spec /\ WF_vars(Retransmit) /\ WF_vars(PumpAdvances)

-----------------------------------------------------------------------------
(* Properties. *)

States == {"CLOSED", "SYN_SENT", "ESTABLISHED", "FIN_WAIT_1", "FIN_WAIT_2"}

(* The numbers of the connection stay inside their ranges: buffers inside
   their sizes, one segment in flight, at most MaxRetries repetitions. *)
TypeOK ==
  /\ conn.state \in States
  /\ conn.port \in 0 .. Conns
  /\ {conn.una, conn.nxt, conn.rcv, conn.wl1, conn.wl2} \subseteq SeqNums
  /\ Len(conn.sendq) <= SendSize /\ Len(conn.recvq) <= RecvSize
  /\ conn.retx \in {"none", "syn", "data", "fin"}
  /\ conn.len <= Len(conn.sendq)
  /\ conn.count <= MaxRetries /\ conn.fails < Backstop + 1
  /\ app.wrote \in 0 .. OutLen
  /\ \A p \in Port : peer[p].state \in {"listen", "synrcvd", "up", "reset"}

Received == app.read \o conn.recvq

(* What the application reads is the peer's stream in order, each byte once,
   and rcv_nxt says exactly how much of it there is (tcp_handle_packet). *)
InOrder ==
  /\ IsPrefix(Received, Stream(conn.port, InLen))
  /\ conn.state \notin {"CLOSED", "SYN_SENT"} =>
       conn.rcv = Plus(PeerIss[conn.port], 1 + Len(Received) + IF conn.finSeen THEN 1 ELSE 0)

(* Bytes leave the send queue only when the peer has them: whatever the
   application wrote is in the queue or with the peer (tcp_send_data). *)
NothingLost ==
  conn.port # 0 =>
    LET got == peer[conn.port].got
        acked == app.wrote - Len(conn.sendq)
    IN  /\ IsPrefix(got, Stream(conn.port, app.wrote))
        /\ acked \in 0 .. Len(got)
        /\ conn.sendq = SubSeq(Stream(conn.port, app.wrote), acked + 1, app.wrote)

(* A FIN is believed only after every byte before it, by the kernel and (the
   kernel's own FIN) by the peer. *)
FinAfterAll ==
  /\ conn.finSeen => Len(Received) = InLen
  /\ conn.port # 0 /\ peer[conn.port].finGot => Len(peer[conn.port].got) = app.wrote

(* A connection that is closed or given up never transmits again: no timer,
   queue or late segment wakes it (tcp_clear_retransmit). *)
ClosedIsSilent ==
  [][conn.state = "CLOSED" /\ conn'.port = conn.port => ~replied']_vars

(* A retransmission repeats a segment of the same bytes at the same sequence
   number: the front of the queue has not moved while it was in flight
   (tcp_poll_retransmit). *)
RetransmitsTheSame == [][Retransmit => sent' = sent]_vars

(* Both directions of the byte stream: no byte is out of place, lost or made up, and the
   end of the stream comes after all of it (tcp.h). *)
StreamsTrue == InOrder /\ NothingLost /\ FinAfterAll

(* A closed connection is silent, and a retransmission says what was said. *)
WireTrue == ClosedIsSilent /\ RetransmitsTheSame

(* Nothing stays in flight for ever: it is acknowledged or given up. *)
InFlightEnds == conn.retx # "none" ~> conn.retx = "none"

(* A close that was asked for sends its FIN or ends the connection, however
   long the peer keeps its window shut and the interface refuses (tcp_close). *)
CloseCompletes == conn.fin ~> ~conn.fin \/ conn.state = "CLOSED"

-----------------------------------------------------------------------------
(* What is proved, for any number of connections, any lengths and sizes, and any
   initial sequence numbers: the invariant counts bytes, and the sequence numbers
   on the wire are these counts modulo SeqSpace.                               *)

(* n bytes of the stream of port p, after the first k. *)
Bytes(p, k, n) == [i \in 1 .. n |-> <<p, k + i>>]
Byte == (0 .. Conns) \X Int

Connection ==
  [state : States, port : 0 .. Conns, una : SeqNums, nxt : SeqNums, rcv : SeqNums,
   sendq : Seq(Byte), fin : BOOLEAN, retx : {"none", "syn", "data", "fin"}, len : Nat,
   count : 0 .. MaxRetries, fails : 0 .. Backstop, wnd : Nat, wl1 : SeqNums, wl2 : SeqNums,
   zero : BOOLEAN, recvq : Seq(Byte), finSeen : BOOLEAN]
PeerEnd == [state : {"listen", "synrcvd", "up", "reset"}, got : Seq(Byte), finGot : BOOLEAN]
OnWire == [port : Port, kind : {"syn", "ack", "data", "fin"}, seq : SeqNums, data : Seq(Byte)]

Typed ==
  /\ conn \in Connection
  /\ app \in [wrote : 0 .. OutLen, read : Seq(Byte)]
  /\ peer \in [Port -> PeerEnd]
  /\ sent \subseteq OnWire
  /\ replied \in BOOLEAN

(* The bytes that are acknowledged, and those the application has or can read. *)
Acked(c, w) == w - Len(c.sendq)
Got(c, r) == Len(r) + Len(c.recvq)

(* The queue is the end of what was written. *)
QueueOK(c, w) ==
  /\ Len(c.sendq) <= SendSize /\ Len(c.sendq) <= w
  /\ c.sendq = Bytes(c.port, Acked(c, w), Len(c.sendq))
  /\ c.len <= Len(c.sendq)

(* What is in flight, and the sequence numbers around it. *)
FlightOK(c, w) ==
  /\ c.state \in {"CLOSED", "FIN_WAIT_2"} => c.retx = "none"
  /\ c.state = "SYN_SENT" => /\ c.retx = "syn" /\ w = 0 /\ c.len = 0
                             /\ c.una = Plus(Iss[c.port], 0) /\ c.nxt = Plus(Iss[c.port], 1)
  /\ c.state = "ESTABLISHED" => /\ c.retx \in {"none", "data"}
                                /\ (c.retx = "none") = (c.len = 0)
                                /\ c.una = Plus(Iss[c.port], 1 + Acked(c, w))
                                /\ c.nxt = Plus(Iss[c.port], 1 + Acked(c, w) + c.len)
  /\ c.state = "FIN_WAIT_1" => c.sendq = <<>>
  /\ c.state # "CLOSED" => c.fails < Backstop

(* What is received, and rcv_nxt. *)
ReceiptOK(c, r) ==
  /\ Len(c.recvq) <= RecvSize /\ Got(c, r) <= InLen
  /\ r = Bytes(c.port, 0, Len(r)) /\ c.recvq = Bytes(c.port, Len(r), Len(c.recvq))
  /\ c.finSeen => Got(c, r) = InLen
  /\ c.state = "SYN_SENT" => Got(c, r) = 0 /\ ~c.finSeen
  /\ c.state \in {"ESTABLISHED", "FIN_WAIT_1", "FIN_WAIT_2"} =>
       c.rcv = Plus(PeerIss[c.port], 1 + Got(c, r) + IF c.finSeen THEN 1 ELSE 0)

(* The other end has what is acknowledged, and nothing that was not written. *)
PeerOK(c, w, q) ==
  /\ q.got = Bytes(c.port, 0, Len(q.got))
  /\ Acked(c, w) <= Len(q.got) /\ Len(q.got) <= w
  /\ q.finGot => Len(q.got) = w /\ c.state \in {"FIN_WAIT_1", "FIN_WAIT_2", "CLOSED"}
  /\ c.state = "SYN_SENT" => q.state # "up"

(* A segment on the wire has bytes that were written at the number that is theirs. *)
Says(c, w, s) ==
  /\ s.kind # "syn" => c.state # "SYN_SENT"
  /\ s.kind = "data" => \E k \in 0 .. w : /\ k + Len(s.data) <= w
                                          /\ s.seq = Plus(Iss[s.port], 1 + k)
                                          /\ s.data = Bytes(s.port, k, Len(s.data))
  /\ s.kind = "fin" => /\ s.seq = Plus(Iss[s.port], 1 + w)
                       /\ c.state \in {"FIN_WAIT_1", "FIN_WAIT_2", "CLOSED"}
WireOK(c, w, snt) ==
  /\ \A s \in snt : s.port = c.port => Says(c, w, s)
  /\ c.retx # "none" => Resent(c) \in snt

Ending == {"FIN_WAIT_1", "FIN_WAIT_2", "CLOSED"}

(* A connection, what was written to it and read from it, the other end, and the wire. *)
Whole(c, w, r, q, snt) ==
  /\ c \in Connection
  /\ QueueOK(c, w) /\ FlightOK(c, w) /\ ReceiptOK(c, r) /\ PeerOK(c, w, q) /\ WireOK(c, w, snt)

(* What a step leaves: the connection on port p and what is sent. *)
Outcome(x, p, w, r, q, snt) ==
  /\ Whole(x[1], w, r, q, snt \cup x[2])
  /\ x[1].port = p
  /\ x[2] \subseteq OnWire /\ \A s \in x[2] : s.port = p

(* No connection has been made, or the parts agree about the one there is. *)
IInv ==
  /\ Typed
  /\ conn.port = 0 => conn = NoConn /\ sent = {} /\ app.read = <<>>
  /\ conn.port \in Port => Whole(conn, app.wrote, app.read, peer[conn.port], sent)
  /\ \A p \in Port : p > conn.port => peer[p] = NewPeer
  /\ \A s \in sent : s.port <= conn.port

(* The constants, one by one. *)
LEMMA Counts ==
  /\ Conns \in Nat /\ OutLen \in Nat /\ InLen \in Nat
  /\ SeqSpace \in Nat /\ SeqSpace > 0
  /\ SendSize \in Nat /\ SendSize > 0 /\ RecvSize \in Nat /\ RecvSize > 0
  /\ FullIsh \in Nat /\ FullIsh > 0 /\ Mss \in Nat /\ Mss > 0
  /\ MaxRetries \in Nat /\ MaxRetries > 0 /\ Backstop \in Nat /\ Backstop > 0
  /\ MinFails \in Nat /\ MinFails > 0 /\ MinFails <= Backstop
<1>1. /\ Conns \in Nat /\ OutLen \in Nat /\ InLen \in Nat /\ SeqSpace \in Nat
      /\ 2 * (OutLen + 2) < SeqSpace
  BY CountsNat, ShortStreams
<1>2. /\ SendSize \in Nat \ {0} /\ RecvSize \in Nat \ {0} /\ FullIsh \in Nat \ {0} /\ Mss \in Nat \ {0}
      /\ MaxRetries \in Nat \ {0} /\ Backstop \in Nat \ {0} /\ MinFails \in Nat \ {0}
      /\ MinFails <= Backstop
  BY CountsNat
<1>3. SeqSpace > 0
  BY <1>1
<1>4. \A x \in Nat \ {0} : x \in Nat /\ x > 0
  OBVIOUS
<1> QED BY <1>1, <1>2, <1>3, <1>4

(* Sequence numbers count modulo SeqSpace, and nothing here counts half as far. *)
LEMMA Remainder ==
  ASSUME NEW M \in Nat \ {0}, NEW x \in Int, NEW y \in Int
  PROVE  /\ x % M \in 0 .. M - 1
         /\ ((x % M) + y) % M = (x + y) % M /\ ((x % M) - (y % M)) % M = (x - y) % M
<1>1. x % M \in 0 .. M - 1 /\ x = M * (x \div M) + (x % M)
  OBVIOUS
<1>2. y % M \in 0 .. M - 1 /\ y = M * (y \div M) + (y % M)
  OBVIOUS
<1>3. ASSUME NEW z \in Int, NEW n \in Int PROVE (M * n + z) % M = z % M
  <2> DEFINE d == z \div M
             r == z % M
  <2>1. d \in Int /\ r \in 0 .. M - 1 /\ z = M * d + r
    OBVIOUS
  <2>2. M * n + z = M * (n + d) + r /\ n + d \in Int
    BY <2>1
  <2>3. ASSUME NEW k \in Int PROVE (M * k + r) % M = r
    <3> HIDE DEF r
    <3> QED BY <2>1
  <2> HIDE DEF d, r
  <2>4. (M * n + z) % M = r
    BY <2>2, <2>3
  <2> QED BY <2>4 DEF r
<1> DEFINE q == x \div M
           e == x % M
           o == y \div M
           f == y % M
<1>4. x + y = M * q + (e + y) /\ e + y \in Int /\ q \in Int
  BY <1>1
<1>5. x - y = M * (q - o) + (e - f) /\ e - f \in Int /\ q - o \in Int
  BY <1>1, <1>2
<1> HIDE DEF q, e, o, f
<1>6. (x + y) % M = (e + y) % M
  BY <1>3, <1>4
<1>7. (x - y) % M = (e - f) % M
  BY <1>3, <1>5
<1> QED BY <1>1, <1>6, <1>7 DEF e, f

LEMMA PlusFacts ==
  ASSUME NEW a \in SeqNums, NEW m \in Nat, NEW n \in Nat
  PROVE  /\ Plus(a, m) \in SeqNums /\ Plus(a, 0) = a
         /\ Plus(Plus(a, m), n) = Plus(a, m + n)
<1>1. SeqSpace \in Nat \ {0}
  BY Counts, ShortStreams DEF SeqNums
<1>2. (a + m) % SeqSpace \in 0 .. SeqSpace - 1 /\ (a + 0) % SeqSpace = a
  BY <1>1 DEF SeqNums
<1>3. (((a + m) % SeqSpace) + n) % SeqSpace = (a + (m + n)) % SeqSpace
  <2>1. a + m \in Int /\ (a + m) + n = a + (m + n)
    BY DEF SeqNums
  <2>2. (((a + m) % SeqSpace) + n) % SeqSpace = ((a + m) + n) % SeqSpace
    <3> DEFINE x == a + m
    <3>1. x \in Int /\ n \in Int
      BY <2>1
    <3> HIDE DEF x
    <3>2. ((x % SeqSpace) + n) % SeqSpace = (x + n) % SeqSpace
      BY <1>1, <3>1, Remainder, Zenon
    <3> QED BY <3>2 DEF x
  <2> QED BY <2>1, <2>2
<1> QED BY <1>2, <1>3 DEF Plus, SeqNums

LEMMA PlusDiffers ==
  ASSUME NEW a \in SeqNums, NEW m \in Nat, NEW n \in Nat,
         m - n < SeqSpace, n - m < SeqSpace, Plus(a, m) = Plus(a, n)
  PROVE  m = n
<1>1. SeqSpace \in Nat \ {0}
  BY Counts, ShortStreams DEF SeqNums
<1> QED BY <1>1 DEF Plus, SeqNums

LEMMA Distance ==
  ASSUME NEW a \in SeqNums, NEW m \in Nat, NEW n \in Nat,
         2 * (m - n) < SeqSpace, 2 * (n - m) < SeqSpace
  PROVE  Signed(Minus(Plus(a, m), Plus(a, n))) = m - n
<1>1. SeqSpace \in Nat \ {0}
  BY Counts, ShortStreams DEF SeqNums
<1>2. Minus(Plus(a, m), Plus(a, n)) = (m - n) % SeqSpace
  <2>1. a + m \in Int /\ a + n \in Int /\ (a + m) - (a + n) = m - n
    BY DEF SeqNums
  <2>2. (((a + m) % SeqSpace) - ((a + n) % SeqSpace)) % SeqSpace = ((a + m) - (a + n)) % SeqSpace
    <3> DEFINE x == a + m
               y == a + n
    <3>1. x \in Int /\ y \in Int
      BY <2>1
    <3> HIDE DEF x, y
    <3>2. ((x % SeqSpace) - (y % SeqSpace)) % SeqSpace = (x - y) % SeqSpace
      BY <1>1, <3>1, Remainder, Zenon
    <3> QED BY <3>2 DEF x, y
  <2> QED BY <2>1, <2>2 DEF Plus, Minus
<1>3. (m - n) % SeqSpace = IF m >= n THEN m - n ELSE SeqSpace + (m - n)
  BY <1>1
<1> QED BY <1>1, <1>2, <1>3 DEF Signed

(* Two sequences with the same elements are the same. *)
LEMMA SameSeq ==
  ASSUME NEW s, NEW t, NEW S, s \in Seq(S), t \in Seq(S), Len(s) = Len(t),
         \A i \in 1 .. Len(s) : s[i] = t[i]
  PROVE  s = t
OBVIOUS

LEMMA Joined ==
  ASSUME NEW S, NEW s \in Seq(S), NEW t \in Seq(S)
  PROVE  /\ s \o t \in Seq(S) /\ Len(s \o t) = Len(s) + Len(t)
         /\ \A i \in 1 .. Len(s) : (s \o t)[i] = s[i]
         /\ \A i \in 1 .. Len(t) : (s \o t)[Len(s) + i] = t[i]
OBVIOUS

LEMMA BytesSeq ==
  ASSUME NEW p \in 0 .. Conns, NEW k \in Int, NEW n \in Nat
  PROVE  /\ Bytes(p, k, n) \in Seq(Byte) /\ Len(Bytes(p, k, n)) = n
         /\ \A i \in 1 .. n : Bytes(p, k, n)[i] = <<p, k + i>>
<1>1. \A i \in 1 .. n : <<p, k + i>> \in Byte
  BY DEF Byte
<1> QED BY <1>1 DEF Bytes

LEMMA BytesCut ==
  ASSUME NEW p \in 0 .. Conns, NEW k \in Int, NEW n \in Nat, NEW i \in 0 .. n, NEW j \in i .. n
  PROVE  SubSeq(Bytes(p, k, n), i + 1, j) = Bytes(p, k + i, j - i)
<1> DEFINE s == Bytes(p, k, n)
<1>1. s \in Seq(Byte) /\ Len(s) = n /\ \A m \in 1 .. n : s[m] = <<p, k + m>>
  BY BytesSeq
<1>2. /\ Bytes(p, k + i, j - i) \in Seq(Byte) /\ Len(Bytes(p, k + i, j - i)) = j - i
      /\ \A m \in 1 .. j - i : Bytes(p, k + i, j - i)[m] = <<p, (k + i) + m>>
  <2>1. k + i \in Int /\ j - i \in Nat
    OBVIOUS
  <2> QED BY <2>1, BytesSeq
<1> HIDE DEF s
<1>3. /\ SubSeq(s, i + 1, j) \in Seq(Byte) /\ Len(SubSeq(s, i + 1, j)) = j - i
      /\ \A m \in 1 .. j - i : SubSeq(s, i + 1, j)[m] = s[i + m]
  BY <1>1
<1>4. \A m \in 1 .. j - i : s[i + m] = <<p, (k + i) + m>>
  BY <1>1
<1>5. SubSeq(s, i + 1, j) = Bytes(p, k + i, j - i)
  BY <1>2, <1>3, <1>4, SameSeq
<1> QED BY <1>5 DEF s

LEMMA BytesJoin ==
  ASSUME NEW p \in 0 .. Conns, NEW k \in Int, NEW n \in Nat, NEW m \in Nat
  PROVE  Bytes(p, k, n) \o Bytes(p, k + n, m) = Bytes(p, k, n + m)
<1> DEFINE s == Bytes(p, k, n)
           t == Bytes(p, k + n, m)
           u == Bytes(p, k, n + m)
<1>1. /\ s \in Seq(Byte) /\ Len(s) = n /\ \A i \in 1 .. n : s[i] = <<p, k + i>>
      /\ t \in Seq(Byte) /\ Len(t) = m /\ \A i \in 1 .. m : t[i] = <<p, (k + n) + i>>
      /\ u \in Seq(Byte) /\ Len(u) = n + m /\ \A i \in 1 .. n + m : u[i] = <<p, k + i>>
  <2>1. k + n \in Int /\ n + m \in Nat
    OBVIOUS
  <2> QED BY <2>1, BytesSeq
<1> HIDE DEF s, t, u
<1>2. s \o t \in Seq(Byte) /\ Len(s \o t) = n + m
  BY <1>1, Joined
<1>j. /\ \A i \in 1 .. n : (s \o t)[i] = s[i]
      /\ \A i \in 1 .. m : (s \o t)[n + i] = t[i]
  <2>1. s \in Seq(Byte) /\ t \in Seq(Byte)
    BY <1>1
  <2>2. \A i \in 1 .. Len(s) : (s \o t)[i] = s[i]
    BY <2>1, Joined
  <2>3. \A i \in 1 .. Len(t) : (s \o t)[Len(s) + i] = t[i]
    BY <2>1, Joined
  <2>4. Len(s) = n /\ Len(t) = m
    BY <1>1
  <2> QED BY <2>2, <2>3, <2>4
<1>3. ASSUME NEW i \in 1 .. n + m PROVE (s \o t)[i] = u[i]
  <2>0. i <= n \/ i > n
    OBVIOUS
  <2>1. CASE i <= n
    <3>1. i \in 1 .. n
      BY <2>1
    <3> QED BY <1>1, <1>j, <3>1
  <2>2. CASE i > n
    <3>1. (s \o t)[i] = t[i - n]
      <4>1. i - n \in 1 .. m /\ n + (i - n) = i
        BY <2>2
      <4> QED BY <1>j, <4>1
    <3>2. i - n \in 1 .. m /\ (k + n) + (i - n) = k + i
      BY <2>2
    <3> QED BY <1>1, <3>1, <3>2
  <2> QED BY <2>0, <2>1, <2>2, Zenon
<1>4. s \o t = u
  BY <1>1, <1>2, <1>3, SameSeq
<1> QED BY <1>4 DEF s, t, u

LEMMA LeastOfThree ==
  ASSUME NEW x \in Nat, NEW y \in Nat, NEW z \in Nat
  PROVE  /\ Min({x, y, z}) \in {x, y, z}
         /\ Min({x, y, z}) <= x /\ Min({x, y, z}) <= y /\ Min({x, y, z}) <= z
<1>1. \E l \in {x, y, z} : \A o \in {x, y, z} : l <= o
  <2>1. CASE x <= y /\ x <= z
    BY <2>1
  <2>2. CASE y <= x /\ y <= z
    BY <2>2
  <2>3. CASE z <= x /\ z <= y
    BY <2>3
  <2> QED BY <2>1, <2>2, <2>3
<1> QED BY <1>1 DEF Min

LEMMA ResentIs ==
  ASSUME NEW c
  PROVE  Resent(c) = [port |-> c.port, kind |-> c.retx, seq |-> c.una,
                      data |-> SubSeq(c.sendq, 1, c.len)]
<1> DEFINE y == SubSeq(c.sendq, 1, c.len)
           z == Segment(c, c.retx, y)
<1>1. z = [port |-> c.port, kind |-> c.retx, seq |-> c.nxt, data |-> y]
  BY DEF Segment
<1>2. Resent(c) = [z EXCEPT !.seq = c.una]
  BY DEF Resent
<1> HIDE DEF y, z
<1>3. Resent(c) = [port |-> c.port, kind |-> c.retx, seq |-> c.una, data |-> y]
  BY <1>1, <1>2
<1> QED BY <1>3 DEF y

(* What is on the wire stays true of a connection that goes on. *)
LEMMA WireCarried ==
  ASSUME NEW c, NEW d, NEW w, NEW snt, WireOK(c, w, snt), d.port = c.port,
         c.state # "SYN_SENT" => d.state # "SYN_SENT",
         c.state \in Ending => d.state \in Ending,
         d.retx # "none" => c.retx # "none" /\ Resent(d) = Resent(c)
  PROVE  WireOK(d, w, snt)
BY DEF WireOK, Says, Ending

LEMMA WireGrows ==
  ASSUME NEW c, NEW w, NEW snt, NEW more, WireOK(c, w, snt),
         \A s \in more : s.port = c.port /\ Says(c, w, s)
  PROVE  WireOK(c, w, snt \cup more)
<1>1. c.retx # "none" => Resent(c) \in snt \cup more
  BY DEF WireOK
<1>2. ASSUME NEW s \in snt \cup more PROVE s.port = c.port => Says(c, w, s)
  BY <1>2 DEF WireOK
<1> QED BY <1>1, <1>2 DEF WireOK

(* An acknowledgement has nothing to be wrong about. *)
LEMMA AckSent ==
  ASSUME NEW c, NEW w, NEW snt, WireOK(c, w, snt), c.state # "SYN_SENT", c.port \in Port
  PROVE  WireOK(c, w, snt \cup {Ack(c)}) /\ Ack(c) \in OnWire
<1>1. Ack(c).port = c.port /\ Ack(c).kind = "ack"
  BY DEF Ack
<1>2. Says(c, w, Ack(c))
  BY <1>1 DEF Says
<1>3. WireOK(c, w, snt \cup {Ack(c)})
  BY <1>1, <1>2, WireGrows
<1>4. Ack(c) \in OnWire
  BY Counts, ShortStreams DEF Ack, OnWire, SeqNums
<1> QED BY <1>3, <1>4

LEMMA DropWhole ==
  ASSUME NEW c, NEW w \in Nat, NEW r \in Seq(Byte), NEW q, NEW snt, Whole(c, w, r, q, snt)
  PROVE  /\ Whole(Drop(c), w, r, q, snt)
         /\ Drop(c).port = c.port /\ Drop(c).state = "CLOSED" /\ Drop(c).fails = c.fails
<1> DEFINE d == Drop(c)
<1>0. c \in Connection
  BY DEF Whole
<1>1. /\ d \in Connection /\ d.port = c.port /\ d.state = "CLOSED" /\ d.retx = "none" /\ d.len = 0
      /\ d.sendq = c.sendq /\ d.recvq = c.recvq /\ d.finSeen = c.finSeen /\ d.fails = c.fails
  <2>1. d \in Connection
    <3>1. 0 \in 0 .. MaxRetries
      BY Counts
    <3>2. Clear(c) \in Connection
      BY <1>0, <3>1 DEF Connection, Clear
    <3> QED BY <3>2 DEF Connection, Drop, States
  <2>2. d.port = c.port /\ d.state = "CLOSED" /\ d.retx = "none" /\ d.len = 0
    BY <1>0 DEF Connection, Drop, Clear
  <2>3. d.sendq = c.sendq /\ d.recvq = c.recvq /\ d.finSeen = c.finSeen /\ d.fails = c.fails
    BY <1>0 DEF Connection, Drop, Clear
  <2> QED BY <2>1, <2>2, <2>3
<1> HIDE DEF d
<1>2. QueueOK(d, w) /\ ReceiptOK(d, r) /\ FlightOK(d, w) /\ PeerOK(d, w, q)
  BY <1>0, <1>1 DEF Whole, QueueOK, ReceiptOK, FlightOK, PeerOK, Acked, Got, Connection
<1>3. WireOK(d, w, snt)
  BY <1>1, WireCarried DEF Whole, Ending
<1> QED BY <1>1, <1>2, <1>3 DEF d, Whole

(* The fields that only delay a segment or let it go. *)
LEMMA SameButTimers ==
  ASSUME NEW c, NEW d, NEW w, NEW r, NEW q, NEW snt, Whole(c, w, r, q, snt), d \in Connection,
         d.state = c.state, d.port = c.port, d.una = c.una, d.nxt = c.nxt, d.rcv = c.rcv,
         d.sendq = c.sendq, d.retx = c.retx, d.len = c.len, d.recvq = c.recvq,
         d.finSeen = c.finSeen, d.state # "CLOSED" => d.fails < Backstop
  PROVE  Whole(d, w, r, q, snt)
<1>1. QueueOK(d, w) /\ ReceiptOK(d, r) /\ FlightOK(d, w) /\ PeerOK(d, w, q)
  BY DEF Whole, QueueOK, ReceiptOK, FlightOK, PeerOK, Acked, Got
<1>2. Resent(d) = Resent(c)
  BY DEF Resent, Segment
<1>3. WireOK(d, w, snt)
  BY <1>2, WireCarried DEF Whole
<1> QED BY <1>1, <1>3 DEF Whole

LEMMA RefusedWhole ==
  ASSUME NEW c, NEW w \in Nat, NEW r \in Seq(Byte), NEW q, NEW snt, Whole(c, w, r, q, snt),
         NEW d \in Refused(c), c.fails < Backstop
  PROVE  /\ Whole(d, w, r, q, snt) /\ d.port = c.port
         /\ c.state # "SYN_SENT" => d.state # "SYN_SENT"
<1> DEFINE e == [c EXCEPT !.fails = @ + 1]
<1>0. c \in Connection
  BY DEF Whole
<1>1. /\ e \in Connection /\ e.state = c.state /\ e.port = c.port /\ e.una = c.una /\ e.nxt = c.nxt
      /\ e.rcv = c.rcv /\ e.sendq = c.sendq /\ e.retx = c.retx /\ e.len = c.len
      /\ e.recvq = c.recvq /\ e.finSeen = c.finSeen
  <2>1. c.fails + 1 \in 0 .. Backstop
    BY <1>0, Counts DEF Connection
  <2>2. e \in Connection
    BY <1>0, <2>1 DEF Connection
  <2> QED BY <1>0, <2>2 DEF Connection
<1>2. d = Drop(e) \/ (d = e /\ e.fails < Backstop)
  <2>1. Refused(c) = (IF e.fails >= MinFails THEN {Drop(e)} ELSE {})
                       \cup (IF e.fails < Backstop THEN {e} ELSE {})
    BY DEF Refused
  <2>2. e.fails \in Int /\ MinFails \in Int /\ Backstop \in Int
    <3>1. MinFails \in Int /\ Backstop \in Int
      BY Counts
    <3>2. e.fails \in 0 .. Backstop
      <4> HIDE DEF e
      <4> QED BY <1>1 DEF Connection
    <3> QED BY <3>1, <3>2
  <2> DEFINE f == Drop(e)
             A == IF e.fails >= MinFails THEN {f} ELSE {}
             B == IF e.fails < Backstop THEN {e} ELSE {}
  <2>3. d \in A \/ d \in B
    BY <2>1
  <2> HIDE DEF f
  <2>4. d \in A => d = f
    OBVIOUS
  <2>5. d \in B => d = e /\ e.fails < Backstop
    <3> HIDE DEF e
    <3> QED OBVIOUS
  <2>6. d = f \/ (d = e /\ e.fails < Backstop)
    <3> HIDE DEF A, B, e
    <3> QED BY <2>3, <2>4, <2>5
  <2> QED BY <2>6 DEF f
<1>3. CASE d = Drop(e)
  <2> DEFINE f == Drop(c)
  <2>1. Whole(f, w, r, q, snt) /\ f.port = c.port /\ f.state = "CLOSED" /\ f \in Connection
    BY DropWhole DEF Whole
  <2>2. d = [f EXCEPT !.fails = e.fails]
    BY <1>0, <1>3 DEF Drop, Clear, Connection
  <2>3. e.fails \in 0 .. Backstop
    BY <1>1 DEF Connection
  <2> HIDE DEF f, e
  <2>4. /\ d \in Connection /\ d.state = f.state /\ d.port = f.port /\ d.una = f.una /\ d.nxt = f.nxt
        /\ d.rcv = f.rcv /\ d.sendq = f.sendq /\ d.retx = f.retx /\ d.len = f.len
        /\ d.recvq = f.recvq /\ d.finSeen = f.finSeen
    BY <2>1, <2>2, <2>3 DEF Connection
  <2> QED BY <2>1, <2>4, SameButTimers
<1>4. CASE d = e /\ e.fails < Backstop
  BY <1>1, <1>4, SameButTimers
<1> QED BY <1>2, <1>3, <1>4

LEMMA ZeroWindowWhole ==
  ASSUME NEW c, NEW w \in Nat, NEW r \in Seq(Byte), NEW q, NEW snt, Whole(c, w, r, q, snt),
         c.state = "ESTABLISHED", c.port \in Port, NEW x \in ZeroWindowWait(c)
  PROVE  Outcome(x, c.port, w, r, q, snt) /\ x[1].state # "SYN_SENT"
<1> DEFINE d == [c EXCEPT !.zero = TRUE]
<1>0. c \in Connection
  BY DEF Whole
<1>1. \/ x[1] = d /\ x[2] = {}
      \/ x[1] = c /\ x[2] = {}
      \/ x[1] = c /\ x[2] = {Ack(c)}
      \/ x[1] = Drop(c) /\ x[2] = {}
  <2>1. CASE ~c.zero
    <3>1. x = <<d, {}>>
      BY <2>1 DEF ZeroWindowWait
    <3> HIDE DEF d
    <3> QED BY <3>1
  <2>2. CASE c.zero
    <3>1. x = <<c, {}>> \/ x = <<c, {Ack(c)}>> \/ x = <<Drop(c), {}>>
      BY <2>2 DEF ZeroWindowWait
    <3> QED BY <3>1
  <2> QED BY <2>1, <2>2
<1>2. CASE x[1] = d /\ x[2] = {}
  <2>1. /\ d \in Connection /\ d.state = c.state /\ d.port = c.port /\ d.una = c.una /\ d.nxt = c.nxt
        /\ d.rcv = c.rcv /\ d.sendq = c.sendq /\ d.retx = c.retx /\ d.len = c.len
        /\ d.recvq = c.recvq /\ d.finSeen = c.finSeen /\ d.fails = c.fails
    BY <1>0 DEF Connection
  <2> HIDE DEF d
  <2>2. d.state # "CLOSED" => d.fails < Backstop
    BY <2>1 DEF Whole, FlightOK
  <2>3. Whole(d, w, r, q, snt)
    BY <2>1, <2>2, SameButTimers
  <2>4. snt \cup x[2] = snt
    BY <1>2
  <2> QED BY <1>2, <2>1, <2>3, <2>4 DEF Outcome
<1>3. CASE x[1] = c /\ x[2] = {}
  <2>1. snt \cup x[2] = snt
    BY <1>3
  <2> QED BY <1>3, <2>1 DEF Outcome
<1>4. CASE x[1] = c /\ x[2] = {Ack(c)}
  <2>1. WireOK(c, w, snt \cup x[2]) /\ x[2] \subseteq OnWire
    BY <1>4, AckSent DEF Whole
  <2> QED BY <1>4, <2>1 DEF Whole, Ack, Outcome
<1>5. CASE x[1] = Drop(c) /\ x[2] = {}
  <2>1. snt \cup x[2] = snt
    BY <1>5
  <2> QED BY <1>5, <2>1, DropWhole DEF Outcome
<1> QED BY <1>1, <1>2, <1>3, <1>4, <1>5

(* The front of the queue goes out at the next number, and stays in the queue. *)
LEMMA PumpDataWhole ==
  ASSUME NEW c, NEW w \in Nat, NEW r \in Seq(Byte), NEW q, NEW snt, Whole(c, w, r, q, snt),
         c.state = "ESTABLISHED", c.retx = "none", c.port \in Port, c.sendq # <<>>, c.wnd # 0,
         NEW x \in PumpData(c)
  PROVE  Outcome(x, c.port, w, r, q, snt) /\ x[1].state # "SYN_SENT"
<1> DEFINE d == [c EXCEPT !.zero = FALSE]
           n == Min({Len(c.sendq), Mss, c.wnd})
           e == [Arm(d, "data", n) EXCEPT !.fails = 0, !.nxt = Plus(@, n)]
           s == Segment(c, "data", SubSeq(c.sendq, 1, n))
           a == Acked(c, w)
<1>0. c \in Connection /\ c.port \in 0 .. Conns /\ Conns \in Nat
  BY Counts DEF Whole, Connection
<1>1. \/ x[1] = e /\ x[2] = {s}
      \/ x[1] \in Refused(d) /\ x[2] = {}
  <2>1. PumpData(c) = {<<e, {s}>>} \cup (Refused(d) \X {{}})
    BY DEF PumpData
  <2> HIDE DEF d, e, s
  <2> QED BY <2>1
<1>2. /\ d \in Connection /\ d.state = c.state /\ d.port = c.port /\ d.una = c.una /\ d.nxt = c.nxt
      /\ d.rcv = c.rcv /\ d.sendq = c.sendq /\ d.retx = c.retx /\ d.len = c.len
      /\ d.recvq = c.recvq /\ d.finSeen = c.finSeen /\ d.fails = c.fails
  BY <1>0 DEF Connection
<1>3. /\ c.sendq \in Seq(Byte) /\ Len(c.sendq) \in Nat \ {0} /\ c.wnd \in Nat \ {0}
      /\ Mss \in Nat \ {0}
  BY <1>0, Counts DEF Connection
<1>4. n \in 1 .. Len(c.sendq)
  <2> DEFINE l == Len(c.sendq)
  <2>1. l \in Nat /\ Mss \in Nat /\ c.wnd \in Nat
    BY <1>3
  <2>2. Min({l, Mss, c.wnd}) \in {l, Mss, c.wnd} /\ Min({l, Mss, c.wnd}) <= l
    BY <2>1, LeastOfThree, Zenon
  <2> QED BY <1>3, <2>2
<1>5. /\ a \in Nat /\ a + Len(c.sendq) = w /\ a <= w /\ c.sendq = Bytes(c.port, a, Len(c.sendq))
      /\ c.una = Plus(Iss[c.port], 1 + a) /\ c.nxt = Plus(Iss[c.port], 1 + a) /\ c.fails < Backstop
      /\ c.len = 0
  <2>1. a \in Nat /\ a + Len(c.sendq) = w /\ a <= w /\ c.sendq = Bytes(c.port, a, Len(c.sendq))
    BY <1>3 DEF Whole, QueueOK, Acked
  <2>2. c.len = 0
    BY DEF Whole, FlightOK
  <2> QED BY <2>1, <2>2 DEF Whole, FlightOK
<1> HIDE DEF d, n, a
<1>6. Whole(d, w, r, q, snt)
  BY <1>2, <1>5, SameButTimers
<1>7. CASE x[1] \in Refused(d) /\ x[2] = {}
  <2>1. snt \cup x[2] = snt
    BY <1>7
  <2> QED BY <1>2, <1>5, <1>6, <1>7, <2>1, RefusedWhole DEF Outcome
<1>8. CASE x[1] = e /\ x[2] = {s}
  <2>0. Iss[c.port] \in SeqNums
    BY InitialSeqs
  <2>1. Plus(c.nxt, n) = Plus(Iss[c.port], 1 + a + n) /\ Plus(c.nxt, n) \in SeqNums /\ n \in Nat
    <3> DEFINE i == Iss[c.port]
    <3>1. 1 + a \in Nat /\ n \in Nat /\ (1 + a) + n = 1 + a + n
      BY <1>3, <1>4, <1>5
    <3> HIDE DEF i
    <3>2. Plus(Plus(i, 1 + a), n) = Plus(i, (1 + a) + n)
      BY <2>0, <3>1, PlusFacts DEF i
    <3>3. Plus(i, (1 + a) + n) \in SeqNums
      <4>1. (1 + a) + n \in Nat
        BY <3>1
      <4> QED BY <2>0, <4>1, PlusFacts DEF i
    <3> QED BY <1>5, <3>1, <3>2, <3>3 DEF i
  <2>2. Arm(d, "data", n) \in Connection
    <3>1. 0 \in 0 .. MaxRetries
      BY Counts
    <3> QED BY <1>2, <2>1, <3>1 DEF Connection, Arm
  <2>3. /\ e \in Connection /\ e.state = "ESTABLISHED" /\ e.port = c.port /\ e.una = c.una
        /\ e.nxt = Plus(c.nxt, n) /\ e.rcv = c.rcv /\ e.sendq = c.sendq
        /\ e.retx = "data" /\ e.len = n /\ e.recvq = c.recvq /\ e.finSeen = c.finSeen /\ e.fails = 0
    <3>1. 0 \in 0 .. Backstop /\ Arm(d, "data", n).nxt = c.nxt
      BY <1>2, Counts DEF Arm, Connection
    <3>2. e \in Connection
      BY <2>1, <2>2, <3>1 DEF Connection
    <3> QED BY <1>2, <2>1, <2>2, <3>1, <3>2 DEF Connection, Arm
  <2> HIDE DEF e
  <2>4. QueueOK(e, w) /\ ReceiptOK(e, r) /\ PeerOK(e, w, q)
    <3>1. QueueOK(e, w)
      BY <1>3, <1>4, <2>3 DEF Whole, QueueOK, Acked
    <3>2. ReceiptOK(e, r)
      BY <2>3 DEF Whole, ReceiptOK, Got
    <3>3. PeerOK(e, w, q)
      BY <2>3 DEF Whole, PeerOK, Acked
    <3> QED BY <3>1, <3>2, <3>3
  <2>5. FlightOK(e, w)
    BY <1>4, <1>5, <2>1, <2>3, Counts DEF Whole, FlightOK, Acked, a
  <2>6. SubSeq(c.sendq, 1, n) = Bytes(c.port, a, n)
    <3> DEFINE l == Len(c.sendq)
    <3>1. l \in Nat /\ n \in 0 .. l /\ a \in Int /\ 0 \in 0 .. l /\ a + 0 = a /\ n - 0 = n /\ 0 + 1 = 1
      BY <1>3, <1>4, <1>5
    <3> HIDE DEF l
    <3>2. SubSeq(Bytes(c.port, a, l), 0 + 1, n) = Bytes(c.port, a + 0, n - 0)
      BY <1>0, <3>1, BytesCut
    <3> QED BY <1>5, <3>1, <3>2 DEF l
  <2>7. /\ s.port = c.port /\ s.kind = "data" /\ s.seq = Plus(Iss[c.port], 1 + a)
        /\ s.data = Bytes(c.port, a, n) /\ Len(s.data) = n /\ s.data \in Seq(Byte)
    <3>1. Len(Bytes(c.port, a, n)) = n /\ Bytes(c.port, a, n) \in Seq(Byte)
      <4>1. a \in Int /\ n \in Nat
        BY <1>5, <2>1
      <4> QED BY <1>0, <4>1, BytesSeq
    <3> QED BY <1>5, <2>6, <3>1 DEF Segment
  <2>8. s \in OnWire
    BY <1>0, <1>5, <2>6, <2>7 DEF OnWire, Segment, Connection
  <2>9. Resent(e) = s
    <3>1. Resent(e) = [port |-> e.port, kind |-> e.retx, seq |-> e.una,
                       data |-> SubSeq(e.sendq, 1, e.len)]
      BY ResentIs
    <3> QED BY <1>5, <2>3, <3>1 DEF Segment
  <2> HIDE DEF s
  <2>10. Says(c, w, s)
    <3>1. a \in 0 .. w /\ a + n <= w
      BY <1>3, <1>4, <1>5
    <3> QED BY <2>7, <3>1 DEF Says
  <2>11. WireOK(c, w, snt \cup {s})
    BY <2>7, <2>10, WireGrows DEF Whole
  <2>12. WireOK(e, w, snt \cup {s})
    <3>1. \A z \in snt \cup {s} : z.port = e.port => Says(e, w, z)
      BY <2>3, <2>11 DEF WireOK, Says
    <3> QED BY <2>9, <3>1 DEF WireOK
  <2> QED BY <1>8, <2>3, <2>4, <2>5, <2>7, <2>8, <2>12 DEF Whole, Outcome
<1> QED BY <1>1, <1>7, <1>8

LEMMA PumpFinWhole ==
  ASSUME NEW c, NEW w \in Nat, NEW r \in Seq(Byte), NEW q, NEW snt, Whole(c, w, r, q, snt),
         c.state = "ESTABLISHED", c.retx = "none", c.port \in Port, c.sendq = <<>>,
         NEW x \in PumpFin(c)
  PROVE  Outcome(x, c.port, w, r, q, snt) /\ x[1].state # "SYN_SENT"
<1> DEFINE e == [Arm(c, "fin", 0) EXCEPT !.fails = 0, !.fin = FALSE,
                                         !.nxt = Plus(@, 1), !.state = "FIN_WAIT_1"]
           s == Segment(c, "fin", <<>>)
<1>0. c \in Connection /\ c.port \in 0 .. Conns /\ c.fails < Backstop
  BY DEF Whole, Connection, FlightOK
<1>1. \/ x[1] = e /\ x[2] = {s}
      \/ x[1] \in Refused(c) /\ x[2] = {}
  <2>1. PumpFin(c) = {<<e, {s}>>} \cup (Refused(c) \X {{}})
    BY DEF PumpFin
  <2> HIDE DEF e, s
  <2> QED BY <2>1
<1>2. CASE x[1] \in Refused(c) /\ x[2] = {}
  <2>1. snt \cup x[2] = snt
    BY <1>2
  <2> QED BY <1>0, <1>2, <2>1, RefusedWhole DEF Outcome
<1>3. CASE x[1] = e /\ x[2] = {s}
  <2>1. Plus(c.nxt, 1) \in SeqNums
    BY <1>0, PlusFacts DEF Connection
  <2>2. Arm(c, "fin", 0) \in Connection /\ Arm(c, "fin", 0).nxt = c.nxt
    <3>1. 0 \in 0 .. MaxRetries
      BY Counts
    <3> QED BY <1>0, <3>1 DEF Connection, Arm
  <2>3. /\ e \in Connection /\ e.state = "FIN_WAIT_1" /\ e.port = c.port /\ e.una = c.una
        /\ e.rcv = c.rcv /\ e.sendq = <<>> /\ e.retx = "fin" /\ e.len = 0
        /\ e.recvq = c.recvq /\ e.finSeen = c.finSeen /\ e.fails = 0
    <3>1. 0 \in 0 .. Backstop
      BY Counts
    <3>2. e \in Connection
      BY <2>1, <2>2, <3>1 DEF Connection, States
    <3> QED BY <1>0, <2>2, <3>1, <3>2 DEF Connection, Arm
  <2> HIDE DEF e
  <2>4. QueueOK(e, w)
    BY <1>0, <2>3 DEF Whole, QueueOK, Acked
  <2>5. ReceiptOK(e, r)
    BY <2>3 DEF Whole, ReceiptOK, Got
  <2>6. PeerOK(e, w, q)
    BY <2>3 DEF Whole, PeerOK, Acked
  <2>7. FlightOK(e, w)
    BY <2>3, Counts DEF FlightOK
  <2>8. c.una = Plus(Iss[c.port], 1 + w) /\ c.nxt = Plus(Iss[c.port], 1 + w) /\ c.nxt \in SeqNums
    <3>1. c.len = 0 /\ 1 + Acked(c, w) = 1 + w /\ 1 + Acked(c, w) + c.len = 1 + w
      BY <1>0 DEF Whole, FlightOK, Acked, Connection
    <3> QED BY <1>0, <3>1 DEF Whole, FlightOK, Connection
  <2>9. s = [port |-> c.port, kind |-> "fin", seq |-> c.nxt, data |-> <<>>]
    BY DEF Segment
  <2> HIDE DEF s
  <2>10. s \in OnWire
    <3>1. <<>> \in Seq(Byte)
      OBVIOUS
    <3> QED BY <2>8, <2>9, <3>1 DEF OnWire
  <2>11. Resent(e) = s
    <3>1. SubSeq(<<>>, 1, 0) = <<>>
      OBVIOUS
    <3>2. Resent(e) = [port |-> e.port, kind |-> e.retx, seq |-> e.una,
                       data |-> SubSeq(e.sendq, 1, e.len)]
      BY ResentIs
    <3> QED BY <2>3, <2>8, <2>9, <3>1, <3>2
  <2>12. WireOK(e, w, snt \cup {s})
    <3>1. Says(e, w, s)
      BY <2>3, <2>8, <2>9 DEF Says
    <3>2. ASSUME NEW z \in snt, z.port = e.port PROVE Says(e, w, z)
      BY <2>3, <3>2 DEF Whole, WireOK, Says
    <3> QED BY <2>11, <3>1, <3>2 DEF WireOK
  <2>13. s.port = c.port
    BY <2>9
  <2> QED BY <1>3, <2>3, <2>4, <2>5, <2>6, <2>7, <2>10, <2>12, <2>13 DEF Whole, Outcome
<1> QED BY <1>1, <1>2, <1>3

(* tcp_pump_send() keeps the connection whole, whatever it sends. *)
LEMMA PumpWhole ==
  ASSUME NEW c, NEW w \in Nat, NEW r \in Seq(Byte), NEW q, NEW snt, Whole(c, w, r, q, snt),
         c.port \in Port, NEW x \in Pump(c)
  PROVE  /\ Outcome(x, c.port, w, r, q, snt)
         /\ c.state = "ESTABLISHED" => x[1].state # "SYN_SENT"
         /\ c.state = "CLOSED" => x[2] = {}
<1>1. \/ x = <<c, {}>>
      \/ /\ c.state = "ESTABLISHED" /\ c.retx = "none"
         /\ \/ c.sendq = <<>> /\ x \in PumpFin(c)
            \/ c.sendq # <<>> /\ x \in ZeroWindowWait(c)
            \/ c.sendq # <<>> /\ c.wnd # 0 /\ x \in PumpData(c)
  BY DEF Pump
<1>2. CASE x = <<c, {}>>
  <2>1. snt \cup x[2] = snt
    BY <1>2
  <2> QED BY <1>2, <2>1 DEF Outcome
<1>3. CASE c.state = "ESTABLISHED" /\ c.retx = "none" /\ c.sendq = <<>> /\ x \in PumpFin(c)
  BY <1>3, PumpFinWhole
<1>4. CASE c.state = "ESTABLISHED" /\ c.sendq # <<>> /\ x \in ZeroWindowWait(c)
  BY <1>4, ZeroWindowWhole
<1>5. CASE /\ c.state = "ESTABLISHED" /\ c.retx = "none"
           /\ c.sendq # <<>> /\ c.wnd # 0 /\ x \in PumpData(c)
  BY <1>5, PumpDataWhole
<1> QED BY <1>1, <1>2, <1>3, <1>4, <1>5

-----------------------------------------------------------------------------
(* A segment that the peer may have sent: its numbers count the peer's bytes and its
   data are these bytes.                                                            *)
Honest(s, p, q) ==
  /\ s.port = p /\ s.seq \in SeqNums /\ s.ack \in SeqNums /\ s.wnd \in Nat
  /\ "RST" \notin s.flags =>
       /\ \E n \in 0 .. Len(q.got) + 1 : /\ s.ack = Plus(Iss[p], 1 + n)
                                         /\ n <= Len(q.got) \/ q.finGot
       /\ \E k \in 0 .. InLen + 1, m \in 0 .. InLen + 1 :
            /\ k + m <= InLen + 1 /\ (m > 0 => k > 0)
            /\ s.seq = Plus(PeerIss[p], k) /\ s.data = Bytes(p, k - 1, m)
            /\ "FIN" \in s.flags => k + m = InLen + 1
       /\ q.state # "up" => /\ s.flags = {"SYN", "ACK"}
                            /\ s.seq = Plus(PeerIss[p], 0) /\ s.ack = Plus(Iss[p], 1)

Up == {"ESTABLISHED", "FIN_WAIT_1", "FIN_WAIT_2"}

(* An acknowledgement of all that is in flight is one of bytes that the peer has. *)
LEMMA TakeAckWhole ==
  ASSUME NEW c, NEW w \in 0 .. OutLen, NEW r \in Seq(Byte), NEW q \in PeerEnd, NEW snt,
         Whole(c, w, r, q, snt), c.port \in Port, c.state \in Up,
         NEW s, Honest(s, c.port, q), "RST" \notin s.flags
  PROVE  /\ Whole(TakeAck(c, s), w, r, q, snt)
         /\ TakeAck(c, s).port = c.port /\ TakeAck(c, s).state = c.state
         /\ TakeAck(c, s).nxt = c.nxt
         /\ "ACK" \in s.flags /\ s.ack = c.nxt => TakeAck(c, s).retx = "none"
<1> DEFINE d == [Clear(c) EXCEPT !.una = s.ack, !.sendq = SubSeq(@, c.len + 1, Len(@))]
           a == Acked(c, w)
           l == Len(c.sendq)
<1>0. c \in Connection /\ c.port \in 0 .. Conns /\ s.ack \in SeqNums
  BY DEF Whole, Connection, Honest
<1>1. CASE ~ ("ACK" \in s.flags /\ s.ack = c.nxt /\ c.retx # "none")
  <2>1. TakeAck(c, s) = c
    BY <1>1 DEF TakeAck
  <2> QED BY <1>1, <2>1
<1>2. CASE "ACK" \in s.flags /\ s.ack = c.nxt /\ c.retx # "none"
  <2>1. TakeAck(c, s) = d
    BY <1>2 DEF TakeAck
  <2>2. /\ c.sendq \in Seq(Byte) /\ l \in Nat /\ c.len \in 0 .. l /\ a \in Nat /\ a + l = w
        /\ c.sendq = Bytes(c.port, a, l) /\ w \in Nat /\ OutLen \in Nat
    BY <1>0, Counts DEF Whole, QueueOK, Acked, Connection
  <2> HIDE DEF a, l
  <2>a. l \in Nat /\ c.len \in Nat /\ c.len <= l /\ a \in Nat /\ a + l = w /\ w <= OutLen
    BY <2>2
  <2>3. SubSeq(c.sendq, c.len + 1, l) = Bytes(c.port, a + c.len, l - c.len)
    <3>1. l \in c.len .. l /\ a \in Int
      BY <2>2
    <3>2. SubSeq(Bytes(c.port, a, l), c.len + 1, l) = Bytes(c.port, a + c.len, l - c.len)
      BY <1>0, <2>2, <3>1, BytesCut
    <3> QED BY <2>2, <3>2
  <2> DEFINE b == Bytes(c.port, a + c.len, l - c.len)
  <2>4. b \in Seq(Byte) /\ Len(b) = l - c.len
    <3>1. a + c.len \in Int /\ l - c.len \in Nat
      BY <2>2
    <3> QED BY <1>0, <3>1, BytesSeq
  <2> HIDE DEF b
  <2>5. Clear(c) \in Connection /\ Clear(c).sendq = c.sendq
    <3>1. 0 \in 0 .. MaxRetries
      BY Counts
    <3> QED BY <1>0, <3>1 DEF Connection, Clear
  <2>6. /\ d \in Connection /\ d.port = c.port /\ d.state = c.state /\ d.nxt = c.nxt /\ d.una = s.ack
        /\ d.retx = "none" /\ d.len = 0 /\ d.sendq = b /\ d.recvq = c.recvq /\ d.rcv = c.rcv
        /\ d.finSeen = c.finSeen /\ d.fails = c.fails
    <3>1. d = [Clear(c) EXCEPT !.una = s.ack, !.sendq = b]
      BY <2>3, <2>5 DEF l, b
    <3> HIDE DEF d
    <3>2. d \in Connection
      BY <1>0, <2>4, <2>5, <3>1 DEF Connection
    <3> QED BY <1>0, <2>5, <3>1, <3>2 DEF Connection, Clear
  <2> HIDE DEF d
  <2>7. Acked(d, w) = a + c.len
    <3>1. Acked(d, w) = w - (l - c.len)
      BY <2>4, <2>6 DEF Acked
    <3> QED BY <2>a, <3>1
  <2>8. QueueOK(d, w)
    <3>1. Len(d.sendq) = l - c.len /\ Len(d.sendq) <= l /\ Len(d.sendq) \in Nat /\ l <= SendSize
      BY <2>2, <2>4, <2>6 DEF Whole, QueueOK, l
    <3>2. SendSize \in Nat
      BY Counts
    <3>3. Len(d.sendq) <= SendSize /\ Len(d.sendq) <= w /\ d.len <= Len(d.sendq)
      BY <2>2, <2>6, <3>1, <3>2
    <3> QED BY <2>4, <2>6, <2>7, <3>1, <3>3 DEF QueueOK, b
  <2>9. ReceiptOK(d, r)
    BY <2>6 DEF Whole, ReceiptOK, Got
  <2>10. /\ a + c.len <= Len(q.got)
         /\ c.state = "ESTABLISHED" => s.ack = Plus(Iss[c.port], 1 + (a + c.len))
    <3>1. CASE c.state = "ESTABLISHED"
      <4>1. PICK n \in 0 .. Len(q.got) + 1 : s.ack = Plus(Iss[c.port], 1 + n) /\ (n <= Len(q.got) \/ q.finGot)
        BY DEF Honest
      <4>2. Len(q.got) \in Nat /\ Len(q.got) <= w /\ ~q.finGot
        BY <3>1 DEF Whole, PeerOK, PeerEnd
      <4>3. c.nxt = Plus(Iss[c.port], 1 + (a + c.len))
        <5>1. 1 + (a + c.len) = 1 + a + c.len
          BY <2>a
        <5> QED BY <3>1, <5>1 DEF Whole, FlightOK, a
      <4>4. 1 + n \in Nat /\ 1 + (a + c.len) \in Nat /\ n \in Nat
        <5>1. a + c.len \in Nat /\ Len(q.got) + 1 \in Nat
          BY <2>2, <4>2
        <5> HIDE DEF a
        <5> QED BY <5>1
      <4>5. (1 + n) - (1 + (a + c.len)) < SeqSpace /\ (1 + (a + c.len)) - (1 + n) < SeqSpace
        <5>1. n <= OutLen + 1 /\ a + c.len <= OutLen /\ SeqSpace \in Nat /\ OutLen \in Nat
          <6>1. n <= Len(q.got) /\ Len(q.got) <= OutLen /\ a + c.len <= OutLen
            <7>1. n <= Len(q.got)
              BY <4>1, <4>2
            <7>2. OutLen \in Int /\ w \in Int /\ w <= OutLen
              BY Counts
            <7>3. Len(q.got) <= OutLen
              BY <4>2, <7>2
            <7>4. a + c.len <= OutLen
              BY <2>a, <7>2
            <7> QED BY <7>1, <7>3, <7>4
          <6>2. OutLen \in Nat /\ SeqSpace \in Nat
            BY Counts
          <6> QED BY <4>2, <4>4, <6>1, <6>2
        <5>2. OutLen + 1 < SeqSpace
          BY <5>1, ShortStreams
        <5> DEFINE m == a + c.len
        <5>3. m \in Nat /\ m <= OutLen
          BY <2>2, <5>1
        <5> HIDE DEF m
        <5>4. (1 + n) - (1 + m) < SeqSpace /\ (1 + m) - (1 + n) < SeqSpace
          BY <4>4, <5>1, <5>2, <5>3
        <5> QED BY <5>4 DEF m
      <4>6. 1 + n = 1 + (a + c.len)
        <5>1. Iss[c.port] \in SeqNums
          BY InitialSeqs
        <5>2. Plus(Iss[c.port], 1 + n) = Plus(Iss[c.port], 1 + (a + c.len))
          BY <1>2, <4>1, <4>3
        <5> QED BY <4>4, <4>5, <5>1, <5>2, PlusDiffers
      <4>7. n = a + c.len
        <5>1. a + c.len \in Int
          BY <2>2
        <5> HIDE DEF a
        <5> QED BY <4>4, <4>6, <5>1
      <4>8. n <= Len(q.got)
        BY <4>1, <4>2
      <4> HIDE DEF a
      <4> QED BY <4>1, <4>7, <4>8
    <3>2. CASE c.state = "FIN_WAIT_1"
      <4>1. l = 0
        BY <3>2 DEF Whole, FlightOK, l
      <4>2. a <= Len(q.got)
        BY DEF Whole, PeerOK, a
      <4> QED BY <2>2, <3>2, <4>1, <4>2
    <3>3. CASE c.state = "FIN_WAIT_2"
      BY <1>2, <3>3 DEF Whole, FlightOK
    <3> QED BY <3>1, <3>2, <3>3 DEF Up
  <2>11. PeerOK(d, w, q)
    BY <2>6, <2>7, <2>10 DEF Whole, PeerOK
  <2>12. FlightOK(d, w)
    <3>1. c.state = "FIN_WAIT_1" => d.sendq = <<>>
      <4>1. ASSUME c.state = "FIN_WAIT_1" PROVE Len(b) = 0
        BY <2>2, <2>4, <4>1 DEF Whole, FlightOK, l
      <4> QED BY <2>4, <2>6, <4>1
    <3>2. c.state = "ESTABLISHED" => /\ d.una = Plus(Iss[d.port], 1 + Acked(d, w))
                                     /\ d.nxt = Plus(Iss[d.port], 1 + Acked(d, w) + d.len)
      <4>1. 1 + Acked(d, w) + d.len = 1 + (a + c.len) /\ 1 + Acked(d, w) = 1 + (a + c.len)
        BY <2>2, <2>6, <2>7
      <4> QED BY <1>2, <2>6, <2>10, <4>1
    <3> QED BY <2>6, <3>1, <3>2 DEF Whole, FlightOK, Up
  <2>13. WireOK(d, w, snt)
    BY <2>6, WireCarried DEF Whole
  <2> QED BY <2>1, <2>6, <2>8, <2>9, <2>11, <2>12, <2>13 DEF Whole
<1> QED BY <1>1, <1>2

(* tcp_update_peer_window() *)
LEMMA TakeWindowWhole ==
  ASSUME NEW c, NEW w, NEW r, NEW q, NEW snt, Whole(c, w, r, q, snt), c.state # "CLOSED",
         NEW s, s.seq \in SeqNums, s.ack \in SeqNums, s.wnd \in Nat
  PROVE  /\ Whole(TakeWindow(c, s), w, r, q, snt)
         /\ TakeWindow(c, s).port = c.port /\ TakeWindow(c, s).state = c.state
<1> DEFINE d == [c EXCEPT !.wnd = s.wnd, !.wl1 = s.seq, !.wl2 = s.ack]
<1>0. c \in Connection /\ c.fails < Backstop
  BY DEF Whole, FlightOK
<1>1. TakeWindow(c, s) = c \/ TakeWindow(c, s) = d
  BY DEF TakeWindow
<1>2. /\ d \in Connection /\ d.state = c.state /\ d.port = c.port /\ d.una = c.una /\ d.nxt = c.nxt
      /\ d.rcv = c.rcv /\ d.sendq = c.sendq /\ d.retx = c.retx /\ d.len = c.len
      /\ d.recvq = c.recvq /\ d.finSeen = c.finSeen /\ d.fails = c.fails
  <2>1. d \in Connection
    BY <1>0 DEF Connection
  <2> QED BY <1>0, <2>1 DEF Connection
<1> HIDE DEF d
<1>3. Whole(d, w, r, q, snt)
  BY <1>0, <1>2, SameButTimers
<1> QED BY <1>1, <1>2, <1>3

(* The next bytes of the stream, and room for them. *)
LEMMA StoreWhole ==
  ASSUME NEW c, NEW w, NEW r \in Seq(Byte), NEW q, NEW snt, Whole(c, w, r, q, snt),
         c.state \in Up, c.port \in Port, NEW n \in Nat \ {0}, Got(c, r) + n <= InLen,
         Len(c.recvq) + n <= RecvSize
  PROVE  LET d == Store(c, Bytes(c.port, Got(c, r), n))
         IN  /\ Whole(d, w, r, q, snt) /\ d.port = c.port /\ d.state = c.state
             /\ d.nxt = c.nxt /\ d.retx = c.retx
<1> DEFINE b == Bytes(c.port, Got(c, r), n)
           d == Store(c, b)
           g == Got(c, r)
           m == Len(c.recvq)
<1>0. c \in Connection /\ c.port \in 0 .. Conns /\ c.recvq \in Seq(Byte) /\ m \in Nat /\ g \in Nat
      /\ Len(r) \in Nat /\ Len(r) + m = g /\ c.rcv \in SeqNums
  BY DEF Whole, Connection, Got
<1>1. b \in Seq(Byte) /\ Len(b) = n
  <2>1. g \in Int /\ n \in Nat
    BY <1>0
  <2> QED BY <1>0, <2>1, BytesSeq
<1>2. ~c.finSeen /\ c.rcv = Plus(PeerIss[c.port], 1 + g)
  <2>1. ~c.finSeen
    <3>1. g + n <= InLen /\ InLen \in Nat /\ g # InLen
      BY <1>0, Counts
    <3> QED BY <3>1 DEF Whole, ReceiptOK
  <2>2. 1 + g + 0 = 1 + g
    BY <1>0
  <2> QED BY <2>1, <2>2 DEF Whole, ReceiptOK, Up
<1>3. Plus(c.rcv, n) = Plus(PeerIss[c.port], 1 + (g + n)) /\ Plus(c.rcv, n) \in SeqNums
  <2>1. PeerIss[c.port] \in SeqNums
    BY InitialSeqs
  <2>2. 1 + g \in Nat /\ n \in Nat /\ (1 + g) + n = 1 + (g + n)
    BY <1>0
  <2> DEFINE i == PeerIss[c.port]
  <2> HIDE DEF i
  <2>3. Plus(Plus(i, 1 + g), n) = Plus(i, (1 + g) + n)
    BY <2>1, <2>2, PlusFacts DEF i
  <2>4. Plus(c.rcv, n) \in SeqNums
    BY <1>0, <2>2, PlusFacts
  <2> QED BY <1>2, <2>2, <2>3, <2>4 DEF i
<1>4. c.recvq \o b = Bytes(c.port, Len(r), m + n)
  <2>1. c.recvq = Bytes(c.port, Len(r), m)
    BY DEF Whole, ReceiptOK
  <2>2. Bytes(c.port, Len(r), m) \o Bytes(c.port, Len(r) + m, n) = Bytes(c.port, Len(r), m + n)
    <3>1. Len(r) \in Int /\ n \in Nat
      BY <1>0
    <3> QED BY <1>0, <3>1, BytesJoin
  <2> QED BY <1>0, <2>1, <2>2
<1>5. c.recvq \o b \in Seq(Byte) /\ Len(c.recvq \o b) = m + n
  <2> HIDE DEF b
  <2>1. c.recvq \in Seq(Byte) /\ b \in Seq(Byte)
    BY <1>0, <1>1
  <2>2. c.recvq \o b \in Seq(Byte) /\ Len(c.recvq \o b) = Len(c.recvq) + Len(b)
    BY <2>1, Joined
  <2> QED BY <1>1, <2>2
<1> DEFINE y == c.recvq \o b
           v == Plus(c.rcv, n)
<1>6. d = [c EXCEPT !.recvq = y, !.rcv = v]
  BY <1>0, <1>1 DEF Store, Connection
<1> HIDE DEF b, d, g, m, y, v
<1>7. /\ d \in Connection /\ d.state = c.state /\ d.port = c.port /\ d.una = c.una /\ d.nxt = c.nxt
      /\ d.rcv = v /\ d.sendq = c.sendq /\ d.retx = c.retx /\ d.len = c.len
      /\ d.recvq = y /\ d.finSeen = c.finSeen /\ d.fails = c.fails
  <2>1. y \in Seq(Byte) /\ v \in SeqNums
    BY <1>3, <1>5 DEF y, v
  <2>2. d \in Connection
    BY <1>0, <1>6, <2>1 DEF Connection
  <2> QED BY <1>0, <1>6, <2>2 DEF Connection
<1>8. QueueOK(d, w) /\ FlightOK(d, w) /\ PeerOK(d, w, q)
  BY <1>7 DEF Whole, QueueOK, FlightOK, PeerOK, Acked
<1>9. WireOK(d, w, snt)
  <2>1. Resent(d) = Resent(c)
    BY <1>7, ResentIs
  <2> QED BY <1>7, <2>1, WireCarried DEF Whole
<1>10. Got(d, r) = g + n /\ Len(d.recvq) = m + n
  <2>1. Len(d.recvq) = m + n
    BY <1>5, <1>7 DEF y
  <2> QED BY <1>0, <2>1 DEF Got
<1>11. ReceiptOK(d, r)
  <2>1. Len(d.recvq) <= RecvSize /\ Got(d, r) <= InLen
    BY <1>10 DEF g, m
  <2>2. d.recvq = Bytes(d.port, Len(r), Len(d.recvq)) /\ r = Bytes(d.port, 0, Len(r))
    BY <1>4, <1>7, <1>10 DEF y, Whole, ReceiptOK
  <2>3. d.rcv = Plus(PeerIss[d.port], 1 + Got(d, r) + 0)
    <3>1. 1 + Got(d, r) + 0 = 1 + (g + n)
      BY <1>0, <1>10
    <3> QED BY <1>3, <1>7, <3>1 DEF v
  <2> QED BY <1>2, <1>7, <2>1, <2>2, <2>3 DEF ReceiptOK, Up
<1>12. Whole(d, w, r, q, snt)
  BY <1>7, <1>8, <1>9, <1>11 DEF Whole
<1> QED BY <1>7, <1>12 DEF d, b

LEMMA TakeFreshKeeps ==
  ASSUME NEW c, NEW w, NEW r \in Seq(Byte), NEW q, NEW snt, Whole(c, w, r, q, snt),
         c.state \in Up, c.port \in Port, NEW s, Honest(s, c.port, q), "RST" \notin s.flags
  PROVE  /\ Whole(TakeFresh(c, s), w, r, q, snt)
         /\ TakeFresh(c, s).port = c.port /\ TakeFresh(c, s).state = c.state
<1> DEFINE p == c.port
           g == Got(c, r)
           f == IF c.finSeen THEN 1 ELSE 0
           already == Signed(Minus(c.rcv, s.seq))
           fresh == SubSeq(s.data, already + 1, Len(s.data))
<1>0. c \in Connection /\ p \in 0 .. Conns /\ g \in Nat /\ f \in 0 .. 1 /\ InLen \in Nat
      /\ Len(c.recvq) \in Nat /\ RecvSize \in Nat /\ g <= InLen
  BY Counts DEF Whole, Connection, Got, ReceiptOK
<1>1. PICK k \in 0 .. InLen + 1, m \in 0 .. InLen + 1 :
        /\ k + m <= InLen + 1 /\ (m > 0 => k > 0)
        /\ s.seq = Plus(PeerIss[p], k) /\ s.data = Bytes(p, k - 1, m)
  BY DEF Honest
<1>2. CASE ~ (already >= 0 /\ already < Len(s.data) /\ Len(fresh) <= Room(c))
  <2>1. TakeFresh(c, s) = c
    BY <1>2 DEF TakeFresh
  <2> QED BY <2>1
<1>3. CASE already >= 0 /\ already < Len(s.data) /\ Len(fresh) <= Room(c)
  <2>1. TakeFresh(c, s) = Store(c, fresh)
    BY <1>3 DEF TakeFresh
  <2>2. c.rcv = Plus(PeerIss[p], 1 + g + f)
    BY DEF Whole, ReceiptOK, Up
  <2>3. already = (1 + g + f) - k
    <3>1. PeerIss[p] \in SeqNums /\ 1 + g + f \in Nat /\ k \in Nat
      BY <1>0, InitialSeqs
    <3>2. 2 * ((1 + g + f) - k) < SeqSpace /\ 2 * (k - (1 + g + f)) < SeqSpace
      <4>1. SeqSpace \in Nat /\ RecvSize \in Nat \ {0} /\ 2 * (InLen + RecvSize + 2) < SeqSpace
        BY Counts, ShortStreams
      <4>2. 1 + g + f <= InLen + 2 /\ k <= InLen + 1
        BY <1>0
      <4> QED BY <1>0, <3>1, <4>1, <4>2
    <3> DEFINE u == 1 + g + f
               i == PeerIss[p]
    <3> HIDE DEF u, i, g, f
    <3>3. Signed(Minus(Plus(i, u), Plus(i, k))) = u - k
      BY <3>1, <3>2, Distance DEF u, i
    <3> QED BY <1>1, <2>2, <3>3 DEF u, i
  <2> HIDE DEF already, g
  <2>4. Len(s.data) = m
    <3>1. k - 1 \in Int /\ m \in Nat
      BY <1>0
    <3>2. p \in 0 .. Conns
      BY <1>0
    <3> HIDE DEF p, f
    <3>3. Len(Bytes(p, k - 1, m)) = m
      BY <3>1, <3>2, BytesSeq
    <3> QED BY <1>1, <3>3
  <2>5. already \in 0 .. m /\ already < m /\ m <= (InLen + 1) - k
    <3>1. already >= 0 /\ already < m
      BY <1>3, <2>4
    <3>2. already \in Int
      <4> HIDE DEF f
      <4> QED BY <1>0, <2>3
    <3> QED BY <1>0, <1>1, <3>1, <3>2
  <2>6. ~c.finSeen
    <3>1. ASSUME c.finSeen PROVE FALSE
      <4>1. g = InLen /\ f = 1
        BY <3>1 DEF Whole, ReceiptOK, g
      <4>2. already = InLen + 2 - k
        BY <1>0, <2>3, <4>1
      <4> HIDE DEF f
      <4> QED BY <1>0, <2>5, <4>2
    <3> QED BY <3>1
  <2>7. already = 1 + g - k /\ (k - 1) + already = g /\ m - already \in Nat \ {0}
        /\ g + (m - already) <= InLen
    <3>1. f = 0
      BY <2>6
    <3> HIDE DEF f
    <3>2. already = 1 + g - k
      BY <1>0, <2>3, <3>1
    <3> QED BY <1>0, <1>1, <2>5, <3>2
  <2>8. fresh = Bytes(p, g, m - already)
    <3>1. k - 1 \in Int /\ m \in Nat /\ m \in already .. m
      BY <1>0, <2>5
    <3>2. SubSeq(Bytes(p, k - 1, m), already + 1, m) = Bytes(p, (k - 1) + already, m - already)
      BY <1>0, <2>5, <3>1, BytesCut
    <3> QED BY <1>1, <2>4, <2>7, <3>2
  <2>9. Len(fresh) = m - already
    <3>1. g \in Int /\ m - already \in Nat
      BY <1>0, <2>7
    <3>2. p \in 0 .. Conns
      BY <1>0
    <3> HIDE DEF p, f, fresh
    <3>3. Len(Bytes(p, g, m - already)) = m - already
      BY <3>1, <3>2, BytesSeq
    <3> QED BY <2>8, <3>3
  <2>10. Len(c.recvq) + (m - already) <= RecvSize
    <3>1. Len(fresh) <= RecvSize - Len(c.recvq)
      BY <1>3 DEF Room
    <3>2. m - already <= RecvSize - Len(c.recvq) /\ m - already \in Nat
      BY <2>7, <2>9, <3>1
    <3> HIDE DEF f, fresh
    <3> QED BY <1>0, <3>2
  <2> DEFINE n == m - already
  <2>11. n \in Nat \ {0} /\ g + n <= InLen /\ Len(c.recvq) + n <= RecvSize
    BY <2>7, <2>10
  <2> HIDE DEF n, fresh
  <2>12. LET d == Store(c, Bytes(c.port, Got(c, r), n))
         IN  Whole(d, w, r, q, snt) /\ d.port = c.port /\ d.state = c.state
    BY <2>11, StoreWhole DEF g
  <2> QED BY <2>1, <2>8, <2>12 DEF n, g
<1> QED BY <1>2, <1>3

LEMMA TakeExactKeeps ==
  ASSUME NEW c, NEW w, NEW r \in Seq(Byte), NEW q, NEW snt, Whole(c, w, r, q, snt),
         c.state \in Up, c.port \in Port, NEW s, Honest(s, c.port, q), "RST" \notin s.flags
  PROVE  /\ Whole(TakeExact(c, s), w, r, q, snt)
         /\ TakeExact(c, s).port = c.port /\ TakeExact(c, s).state = c.state
         /\ TakeExact(c, s).retx = c.retx
<1> DEFINE p == c.port
           g == Got(c, r)
           f == IF c.finSeen THEN 1 ELSE 0
<1>0. c \in Connection /\ p \in 0 .. Conns /\ g \in Nat /\ f \in 0 .. 1 /\ InLen \in Nat
      /\ Len(c.recvq) \in Nat /\ RecvSize \in Nat /\ g <= InLen
  BY Counts DEF Whole, Connection, Got, ReceiptOK
<1>1. PICK k \in 0 .. InLen + 1, m \in 0 .. InLen + 1 :
        /\ k + m <= InLen + 1 /\ (m > 0 => k > 0)
        /\ s.seq = Plus(PeerIss[p], k) /\ s.data = Bytes(p, k - 1, m)
  BY DEF Honest
<1>2. CASE ~ (HasNext(c, s) /\ Len(s.data) <= Room(c))
  <2>1. TakeExact(c, s) = c
    BY <1>2 DEF TakeExact
  <2> QED BY <2>1
<1>3. CASE HasNext(c, s) /\ Len(s.data) <= Room(c)
  <2>1. TakeExact(c, s) = Store(c, s.data)
    BY <1>3 DEF TakeExact
  <2>2. c.rcv = Plus(PeerIss[p], 1 + g + f) /\ s.data # <<>> /\ s.seq = c.rcv
    BY <1>3 DEF Whole, ReceiptOK, Up, HasNext
  <2>3. 1 + g + f = k
    <3>1. PeerIss[p] \in SeqNums /\ 1 + g + f \in Nat /\ k \in Nat
      BY <1>0, InitialSeqs
    <3>2. (1 + g + f) - k < SeqSpace /\ k - (1 + g + f) < SeqSpace
      <4>1. SeqSpace \in Nat /\ RecvSize \in Nat \ {0} /\ 2 * (InLen + RecvSize + 2) < SeqSpace
        BY Counts, ShortStreams
      <4>2. 1 + g + f <= InLen + 2 /\ k <= InLen + 1
        BY <1>0
      <4> QED BY <1>0, <3>1, <4>1, <4>2
    <3>3. Plus(PeerIss[p], 1 + g + f) = Plus(PeerIss[p], k)
      BY <1>1, <2>2
    <3> HIDE DEF f, g, p
    <3> QED BY <3>1, <3>2, <3>3, PlusDiffers
  <2>4. Len(s.data) = m /\ s.data \in Seq(Byte)
    <3>1. k - 1 \in Int /\ m \in Nat /\ p \in 0 .. Conns
      BY <1>0
    <3> HIDE DEF p, f
    <3>2. Len(Bytes(p, k - 1, m)) = m /\ Bytes(p, k - 1, m) \in Seq(Byte)
      BY <3>1, BytesSeq
    <3> QED BY <1>1, <3>2
  <2>5. m \in Nat \ {0}
    <3> HIDE DEF f, g, p
    <3> QED BY <2>2, <2>4
  <2>6. ~c.finSeen /\ k - 1 = g /\ g + m <= InLen
    <3>1. ASSUME c.finSeen PROVE FALSE
      <4>1. g = InLen /\ f = 1
        BY <3>1 DEF Whole, ReceiptOK
      <4> HIDE DEF f, g
      <4> QED BY <1>0, <1>1, <2>3, <2>5, <4>1
    <3>2. f = 0
      BY <3>1
    <3> HIDE DEF f, g
    <3> QED BY <1>0, <1>1, <2>3, <3>1, <3>2
  <2>7. Len(c.recvq) + m <= RecvSize
    <3>1. m <= RecvSize - Len(c.recvq)
      BY <1>3, <2>4 DEF Room
    <3> HIDE DEF f, g
    <3> QED BY <1>0, <2>5, <3>1
  <2> HIDE DEF g
  <2>8. LET d == Store(c, Bytes(c.port, Got(c, r), m))
        IN  Whole(d, w, r, q, snt) /\ d.port = c.port /\ d.state = c.state /\ d.retx = c.retx
    BY <2>5, <2>6, <2>7, StoreWhole DEF g
  <2> QED BY <1>1, <2>1, <2>6, <2>8 DEF g
<1> QED BY <1>2, <1>3

(* A FIN that is next comes after every byte of the stream. *)
LEMMA TakeFinKeeps ==
  ASSUME NEW c, NEW w, NEW r \in Seq(Byte), NEW q, NEW snt, Whole(c, w, r, q, snt),
         c.state \in Up, c.port \in Port, NEW s, Honest(s, c.port, q), "RST" \notin s.flags
  PROVE  /\ Whole(TakeFin(c, s), w, r, q, snt)
         /\ TakeFin(c, s).port = c.port /\ TakeFin(c, s).state = c.state
         /\ TakeFin(c, s).retx = c.retx
<1> DEFINE p == c.port
           g == Got(c, r)
           f == IF c.finSeen THEN 1 ELSE 0
           v == Plus(c.rcv, 1)
           d == [c EXCEPT !.rcv = v, !.finSeen = TRUE]
<1>0. c \in Connection /\ p \in 0 .. Conns /\ g \in Nat /\ f \in 0 .. 1 /\ InLen \in Nat
      /\ g <= InLen /\ PeerIss[p] \in SeqNums
  BY Counts, InitialSeqs DEF Whole, Connection, Got, ReceiptOK
<1>1. CASE ~ FinIsNext(c, s)
  <2>1. TakeFin(c, s) = c
    BY <1>1 DEF TakeFin
  <2> QED BY <2>1
<1>2. CASE FinIsNext(c, s)
  <2>1. TakeFin(c, s) = d
    BY <1>0, <1>2 DEF TakeFin, Connection
  <2>2. PICK k \in 0 .. InLen + 1, m \in 0 .. InLen + 1 :
          /\ k + m = InLen + 1
          /\ s.seq = Plus(PeerIss[p], k) /\ s.data = Bytes(p, k - 1, m)
    BY <1>2 DEF Honest, FinIsNext
  <2>3. Len(s.data) = m
    <3>1. k - 1 \in Int /\ m \in Nat /\ p \in 0 .. Conns
      BY <1>0
    <3> HIDE DEF p, f
    <3>2. Len(Bytes(p, k - 1, m)) = m
      BY <3>1, BytesSeq
    <3> QED BY <2>2, <3>2
  <2>4. c.rcv = Plus(PeerIss[p], 1 + g + f)
    BY DEF Whole, ReceiptOK, Up
  <2>5. Plus(s.seq, m) = Plus(PeerIss[p], InLen + 1)
    <3>1. k \in Nat /\ m \in Nat
      BY <1>0
    <3> DEFINE i == PeerIss[p]
    <3> HIDE DEF i, f, g
    <3>2. Plus(Plus(i, k), m) = Plus(i, k + m)
      BY <1>0, <3>1, PlusFacts DEF i
    <3> QED BY <2>2, <3>2 DEF i
  <2>6. 1 + g + f = InLen + 1
    <3>1. 1 + g + f \in Nat /\ InLen + 1 \in Nat
      BY <1>0
    <3>2. (1 + g + f) - (InLen + 1) < SeqSpace /\ (InLen + 1) - (1 + g + f) < SeqSpace
      <4>1. SeqSpace \in Nat /\ RecvSize \in Nat \ {0} /\ 2 * (InLen + RecvSize + 2) < SeqSpace
        BY Counts, ShortStreams
      <4>2. 1 + g + f <= InLen + 2
        BY <1>0
      <4> QED BY <1>0, <3>1, <4>1, <4>2
    <3>3. Plus(PeerIss[p], 1 + g + f) = Plus(PeerIss[p], InLen + 1)
      BY <1>2, <2>3, <2>4, <2>5 DEF FinIsNext
    <3> HIDE DEF f, g, p
    <3> QED BY <1>0, <3>1, <3>2, <3>3, PlusDiffers
  <2>7. ~c.finSeen /\ g = InLen
    <3>1. ASSUME c.finSeen PROVE FALSE
      <4>1. g = InLen /\ f = 1
        BY <3>1 DEF Whole, ReceiptOK
      <4> HIDE DEF f, g
      <4> QED BY <1>0, <2>6, <4>1
    <3>2. f = 0
      BY <3>1
    <3> HIDE DEF f, g
    <3> QED BY <1>0, <2>6, <3>1, <3>2
  <2>8. v = Plus(PeerIss[p], 1 + g + 1) /\ v \in SeqNums
    <3>1. c.rcv = Plus(PeerIss[p], InLen + 1) /\ InLen + 1 \in Nat /\ 1 \in Nat /\ c.rcv \in SeqNums
      BY <1>0, <2>4, <2>6 DEF Connection
    <3> DEFINE i == PeerIss[p]
    <3>0. i \in SeqNums /\ InLen + 1 \in Nat /\ 1 \in Nat
      BY <1>0, <3>1
    <3> HIDE DEF i, f, g
    <3>2. Plus(Plus(i, InLen + 1), 1) = Plus(i, (InLen + 1) + 1)
      BY <3>0, PlusFacts
    <3>3. (InLen + 1) + 1 = 1 + g + 1
      BY <1>0, <2>7
    <3>4. Plus(c.rcv, 1) \in SeqNums
      BY <3>1, PlusFacts
    <3> QED BY <3>1, <3>2, <3>3, <3>4 DEF i
  <2> HIDE DEF v, f, g
  <2>9. /\ d \in Connection /\ d.state = c.state /\ d.port = c.port /\ d.una = c.una /\ d.nxt = c.nxt
        /\ d.rcv = v /\ d.sendq = c.sendq /\ d.retx = c.retx /\ d.len = c.len
        /\ d.recvq = c.recvq /\ d.finSeen = TRUE /\ d.fails = c.fails
    <3>1. d \in Connection
      BY <1>0, <2>8 DEF Connection
    <3> QED BY <1>0, <3>1 DEF Connection
  <2> HIDE DEF d
  <2>10. QueueOK(d, w) /\ FlightOK(d, w) /\ PeerOK(d, w, q)
    BY <2>9 DEF Whole, QueueOK, FlightOK, PeerOK, Acked
  <2>11. WireOK(d, w, snt)
    <3>1. Resent(d) = Resent(c)
      BY <2>9, ResentIs
    <3> QED BY <2>9, <3>1, WireCarried DEF Whole
  <2>12. ReceiptOK(d, r)
    <3>1. Got(d, r) = g
      BY <2>9 DEF Got, g
    <3>2. d.rcv = Plus(PeerIss[d.port], 1 + Got(d, r) + 1)
      BY <2>8, <2>9, <3>1
    <3>3. d.state \in Up
      BY <2>9
    <3> QED BY <2>7, <2>9, <3>1, <3>2, <3>3 DEF Whole, ReceiptOK, Up, g
  <2> QED BY <2>1, <2>9, <2>10, <2>11, <2>12 DEF Whole
<1> QED BY <1>1, <1>2

(* A connection that is up, and a segment from its peer. *)
Hearing(c, w, r, q, snt, s) ==
  /\ Whole(c, w, r, q, snt) /\ c.state \in Up /\ c.port \in Port /\ r \in Seq(Byte)
  /\ Honest(s, c.port, q) /\ "RST" \notin s.flags

LEMMA Taken ==
  ASSUME NEW c, NEW w, NEW r, NEW q, NEW snt, NEW s, Hearing(c, w, r, q, snt, s)
  PROVE  /\ Hearing(TakeFresh(c, s), w, r, q, snt, s)
         /\ TakeFresh(c, s).port = c.port /\ TakeFresh(c, s).state = c.state
         /\ Hearing(TakeExact(c, s), w, r, q, snt, s)
         /\ TakeExact(c, s).port = c.port /\ TakeExact(c, s).state = c.state
         /\ TakeExact(c, s).retx = c.retx
         /\ Hearing(TakeFin(c, s), w, r, q, snt, s)
         /\ TakeFin(c, s).port = c.port /\ TakeFin(c, s).state = c.state
         /\ TakeFin(c, s).retx = c.retx
<1>0. /\ Whole(c, w, r, q, snt) /\ c.state \in Up /\ c.port \in Port /\ r \in Seq(Byte)
      /\ Honest(s, c.port, q) /\ "RST" \notin s.flags
  BY DEF Hearing
<1>1. /\ Whole(TakeFresh(c, s), w, r, q, snt)
      /\ TakeFresh(c, s).port = c.port /\ TakeFresh(c, s).state = c.state
  BY <1>0, TakeFreshKeeps
<1>2. /\ Whole(TakeExact(c, s), w, r, q, snt)
      /\ TakeExact(c, s).port = c.port /\ TakeExact(c, s).state = c.state
      /\ TakeExact(c, s).retx = c.retx
  BY <1>0, TakeExactKeeps
<1>3. /\ Whole(TakeFin(c, s), w, r, q, snt)
      /\ TakeFin(c, s).port = c.port /\ TakeFin(c, s).state = c.state
      /\ TakeFin(c, s).retx = c.retx
  BY <1>0, TakeFinKeeps
<1> QED BY <1>0, <1>1, <1>2, <1>3 DEF Hearing

(* After the peer's FIN there is nothing more to come. *)
LEMMA NothingAfterFin ==
  ASSUME NEW c, NEW w, NEW r \in Seq(Byte), NEW q, NEW snt, Whole(c, w, r, q, snt),
         c.state \in Up, c.port \in Port, NEW s, Honest(s, c.port, q), "RST" \notin s.flags,
         c.finSeen
  PROVE  ~ HasNext(c, s) /\ ~ FinIsNext(c, s)
<1> DEFINE p == c.port
           i == PeerIss[p]
<1>0. p \in 0 .. Conns /\ InLen \in Nat /\ i \in SeqNums /\ InLen < SeqSpace /\ SeqSpace \in Nat
  <2>1. p \in 0 .. Conns /\ i \in SeqNums
    BY InitialSeqs DEF Whole, Connection
  <2>2. InLen \in Nat /\ InLen < SeqSpace /\ SeqSpace \in Nat
    BY Counts, ShortStreams
  <2> QED BY <2>1, <2>2
<1>1. PICK k \in 0 .. InLen + 1, m \in 0 .. InLen + 1 :
        /\ k + m <= InLen + 1 /\ s.seq = Plus(i, k) /\ s.data = Bytes(p, k - 1, m)
        /\ "FIN" \in s.flags => k + m = InLen + 1
  BY DEF Honest
<1>2. c.rcv = Plus(i, InLen + 2)
  <2>1. Got(c, r) = InLen
    BY DEF Whole, ReceiptOK
  <2>2. 1 + InLen + 1 = InLen + 2
    BY <1>0
  <2> QED BY <2>1, <2>2 DEF Whole, ReceiptOK, Up
<1> HIDE DEF i, p
<1>3. Len(s.data) = m
  <2>1. k - 1 \in Int /\ m \in Nat
    BY <1>0
  <2>2. Len(Bytes(p, k - 1, m)) = m
    BY <1>0, <2>1, BytesSeq
  <2> QED BY <1>1, <2>2
<1>4. ASSUME NEW l \in 0 .. InLen + 1, Plus(i, l) = Plus(i, InLen + 2) PROVE FALSE
  <2>1. l \in Nat /\ InLen + 2 \in Nat /\ l - (InLen + 2) < SeqSpace
    BY <1>0
  <2>2. InLen + 2 - l < SeqSpace
    <3>1. RecvSize \in Nat \ {0} /\ 2 * (InLen + RecvSize + 2) < SeqSpace
      BY Counts, ShortStreams
    <3> QED BY <1>0, <2>1, <3>1
  <2>3. l = InLen + 2
    BY <1>0, <1>4, <2>1, <2>2, PlusDiffers
  <2> QED BY <1>0, <2>3
<1>5. ~ HasNext(c, s)
  BY <1>1, <1>2, <1>4 DEF HasNext
<1>6. ~ FinIsNext(c, s)
  <2>1. ASSUME FinIsNext(c, s) PROVE FALSE
    <3>1. k + m = InLen + 1 /\ k \in Nat /\ m \in Nat
      BY <1>0, <1>1, <2>1 DEF FinIsNext
    <3>2. Plus(Plus(i, k), m) = Plus(i, k + m)
      BY <1>0, <3>1, PlusFacts
    <3>3. Plus(i, InLen + 1) = Plus(i, InLen + 2)
      BY <1>1, <1>2, <1>3, <2>1, <3>1, <3>2 DEF FinIsNext
    <3>4. InLen + 1 \in 0 .. InLen + 1
      BY <1>0
    <3> QED BY <1>4, <3>3, <3>4
  <2> QED BY <2>1
<1> QED BY <1>5, <1>6

(* A connection that is done sending goes on to its end. *)
LEMMA MovedOn ==
  ASSUME NEW c, NEW w, NEW r, NEW q, NEW snt, Whole(c, w, r, q, snt),
         c.state \in {"FIN_WAIT_1", "FIN_WAIT_2"}, c.retx = "none",
         NEW st \in {"FIN_WAIT_2", "CLOSED"}
  PROVE  LET d == [c EXCEPT !.state = st]
         IN  /\ Whole(d, w, r, q, snt) /\ d.port = c.port /\ d.state = st /\ d.retx = "none"
             /\ d.finSeen = c.finSeen /\ d.rcv = c.rcv
<1> DEFINE d == [c EXCEPT !.state = st]
<1>0. c \in Connection
  BY DEF Whole
<1>1. /\ d \in Connection /\ d.state = st /\ d.port = c.port /\ d.una = c.una /\ d.nxt = c.nxt
      /\ d.rcv = c.rcv /\ d.sendq = c.sendq /\ d.retx = c.retx /\ d.len = c.len
      /\ d.recvq = c.recvq /\ d.finSeen = c.finSeen /\ d.fails = c.fails
  <2>1. d \in Connection
    BY <1>0 DEF Connection, States
  <2> QED BY <1>0, <2>1 DEF Connection
<1> HIDE DEF d
<1>2. QueueOK(d, w) /\ FlightOK(d, w)
  BY <1>1 DEF Whole, QueueOK, FlightOK, Acked
<1>3. PeerOK(d, w, q)
  BY <1>1 DEF Whole, PeerOK, Acked
<1>4. ReceiptOK(d, r)
  BY <1>1 DEF Whole, ReceiptOK, Got
<1>5. WireOK(d, w, snt)
  BY <1>1, WireCarried DEF Whole, Ending
<1> QED BY <1>1, <1>2, <1>3, <1>4, <1>5 DEF d, Whole

LEMMA Answered ==
  ASSUME NEW d, NEW c, NEW w, NEW r, NEW q, NEW snt, NEW more, NEW yes \in BOOLEAN,
         Outcome(<<d, more>>, c.port, w, r, q, snt), c.port \in Port,
         yes => d.state # "SYN_SENT"
  PROVE  Outcome(<<d, more \cup Answer(c, yes)>>, c.port, w, r, q, snt)
<1>1. Whole(d, w, r, q, snt \cup more) /\ d.port = c.port /\ more \subseteq OnWire
      /\ \A s \in more : s.port = c.port
  BY DEF Outcome
<1>2. CASE ~yes
  <2>1. more \cup Answer(c, yes) = more
    BY <1>2 DEF Answer
  <2> QED BY <2>1
<1>3. CASE yes
  <2>1. Answer(c, yes) = {Ack(d)}
    BY <1>1, <1>3 DEF Answer, Ack
  <2>2. WireOK(d, w, (snt \cup more) \cup {Ack(d)}) /\ Ack(d) \in OnWire
    BY <1>1, <1>3, AckSent DEF Whole
  <2>3. (snt \cup more) \cup {Ack(d)} = snt \cup (more \cup {Ack(d)})
    OBVIOUS
  <2>4. Whole(d, w, r, q, snt \cup (more \cup {Ack(d)}))
    BY <1>1, <2>2, <2>3 DEF Whole
  <2>5. Ack(d).port = c.port
    BY <1>1 DEF Ack
  <2> QED BY <1>1, <2>1, <2>2, <2>4, <2>5 DEF Outcome
<1> QED BY <1>2, <1>3

LEMMA EstablishedWhole ==
  ASSUME NEW c, NEW w \in Nat, NEW r \in Seq(Byte), NEW q, NEW snt, Whole(c, w, r, q, snt),
         c.state = "ESTABLISHED", c.port \in Port,
         NEW s, Honest(s, c.port, q), "RST" \notin s.flags, NEW x \in InEstablished(c, s)
  PROVE  Outcome(x, c.port, w, r, q, snt)
<1> DEFINE a == TakeWindow(c, s)
           taken == TakeFresh(a, s)
           finAgain == "FIN" \in s.flags /\ Plus(s.seq, Len(s.data) + 1) = taken.rcv
           yes == s.data # <<>> \/ FinIsNext(taken, s) \/ finAgain
           fin == TakeFin(taken, s)
<1>1. Hearing(a, w, r, q, snt, s) /\ a.port = c.port /\ a.state = "ESTABLISHED"
  <2>1. Whole(a, w, r, q, snt) /\ a.port = c.port /\ a.state = "ESTABLISHED"
    BY TakeWindowWhole DEF Honest
  <2> QED BY <2>1 DEF Hearing, Up
<1> HIDE DEF a
<1>2. Hearing(taken, w, r, q, snt, s) /\ taken.port = c.port /\ taken.state = "ESTABLISHED"
  BY <1>1, Taken
<1> HIDE DEF taken
<1>3. Whole(fin, w, r, q, snt) /\ fin.port = c.port /\ fin.state = "ESTABLISHED"
  <2>1. Hearing(fin, w, r, q, snt, s) /\ fin.port = c.port /\ fin.state = "ESTABLISHED"
    BY <1>2, Taken
  <2> QED BY <2>1 DEF Hearing
<1> HIDE DEF fin
<1>4. yes \in BOOLEAN
  BY DEF FinIsNext
<1>5. PICK y \in Pump(fin) : x = <<y[1], y[2] \cup Answer(c, yes)>>
  BY DEF InEstablished, a, taken, fin
<1> HIDE DEF yes
<1>6. Outcome(y, c.port, w, r, q, snt) /\ y[1].state # "SYN_SENT"
  BY <1>3, PumpWhole
<1> DEFINE d == y[1]
           more == y[2]
<1>7. Outcome(<<d, more>>, c.port, w, r, q, snt) /\ d.state # "SYN_SENT"
  BY <1>6 DEF Outcome
<1> HIDE DEF d, more
<1>8. Outcome(<<d, more \cup Answer(c, yes)>>, c.port, w, r, q, snt)
  BY <1>4, <1>7, Answered
<1> QED BY <1>5, <1>8 DEF d, more

LEMMA FinWait1Whole ==
  ASSUME NEW c, NEW w, NEW r, NEW q, NEW snt, NEW s, Hearing(c, w, r, q, snt, s),
         c.state = "FIN_WAIT_1", "ACK" \in s.flags /\ s.ack = c.nxt => c.retx = "none",
         NEW x \in InFinWait1(c, s)
  PROVE  Outcome(x, c.port, w, r, q, snt)
<1> DEFINE finAcked == "ACK" \in s.flags /\ s.ack = c.nxt
           st == IF c.finSeen THEN "CLOSED" ELSE "FIN_WAIT_2"
           acked == IF ~finAcked THEN c ELSE [c EXCEPT !.state = st]
           taken == TakeExact(acked, s)
           fin == TakeFin(taken, s)
           closed == FinIsNext(taken, s) /\ taken.state = "FIN_WAIT_2"
           d == [fin EXCEPT !.state = IF closed THEN "CLOSED" ELSE @]
           yes == FinIsNext(taken, s) \/ HasNext(c, s)
<1>0. /\ Whole(c, w, r, q, snt) /\ c \in Connection /\ c.port \in Port /\ r \in Seq(Byte)
      /\ Honest(s, c.port, q) /\ "RST" \notin s.flags
  BY DEF Hearing, Whole
<1>1. x = <<d, Answer(c, yes)>>
  BY DEF InFinWait1
<1>2. yes \in BOOLEAN
  BY DEF FinIsNext, HasNext
<1>3. Whole(d, w, r, q, snt) /\ d.port = c.port /\ d.state # "SYN_SENT"
  <2>1. CASE finAcked /\ c.finSeen
    <3>1. Whole(acked, w, r, q, snt) /\ acked.port = c.port /\ acked.state = "CLOSED"
          /\ acked.rcv = c.rcv /\ acked \in Connection
      <4>1. acked = [c EXCEPT !.state = "CLOSED"]
        BY <2>1
      <4> HIDE DEF acked
      <4> QED BY <1>0, <2>1, <4>1, MovedOn DEF Whole
    <3>2. ~ HasNext(c, s) /\ ~ FinIsNext(c, s)
      BY <1>0, <2>1, NothingAfterFin DEF Up
    <3> HIDE DEF acked
    <3>3. ~ HasNext(acked, s) /\ ~ FinIsNext(acked, s)
      BY <3>1, <3>2 DEF HasNext, FinIsNext
    <3>4. taken = acked
      BY <3>3 DEF TakeExact
    <3>5. fin = acked
      BY <3>3, <3>4 DEF TakeFin
    <3>6. d = acked
      <4>1. ~closed
        BY <3>3, <3>4
      <4> HIDE DEF closed, fin
      <4> QED BY <3>1, <3>5, <4>1 DEF Connection
    <3> QED BY <3>1, <3>6
  <2>2. CASE ~ (finAcked /\ c.finSeen)
    <3>1. /\ Hearing(acked, w, r, q, snt, s) /\ acked.port = c.port
          /\ acked.state \in {"FIN_WAIT_1", "FIN_WAIT_2"}
          /\ acked.state = "FIN_WAIT_2" => acked.retx = "none"
      <4>1. CASE ~finAcked
        <5>1. acked = c
          BY <4>1
        <5> QED BY <5>1
      <4>2. CASE finAcked
        <5>1. acked = [c EXCEPT !.state = "FIN_WAIT_2"]
          BY <2>2, <4>2
        <5> HIDE DEF acked
        <5>2. /\ Whole(acked, w, r, q, snt) /\ acked.port = c.port /\ acked.state = "FIN_WAIT_2"
              /\ acked.retx = "none"
          BY <1>0, <4>2, <5>1, MovedOn
        <5> QED BY <1>0, <5>2 DEF Hearing, Up
      <4> QED BY <4>1, <4>2
    <3> HIDE DEF acked
    <3>2. /\ Hearing(taken, w, r, q, snt, s) /\ taken.port = c.port
          /\ taken.state = acked.state /\ taken.retx = acked.retx
      BY <3>1, Taken
    <3> HIDE DEF taken
    <3>3. /\ Hearing(fin, w, r, q, snt, s) /\ fin.port = c.port
          /\ fin.state = acked.state /\ fin.retx = acked.retx
      BY <3>2, Taken
    <3> HIDE DEF fin
    <3>4. Whole(fin, w, r, q, snt) /\ fin \in Connection
      BY <3>3 DEF Hearing, Whole
    <3>5. CASE closed
      <4>1. d = [fin EXCEPT !.state = "CLOSED"]
        BY <3>5
      <4>2. fin.state = "FIN_WAIT_2" /\ fin.retx = "none"
        BY <3>1, <3>2, <3>3, <3>5
      <4> HIDE DEF d, closed
      <4> QED BY <3>3, <3>4, <4>1, <4>2, MovedOn
    <3>6. CASE ~closed
      <4>1. d = fin
        <5> HIDE DEF closed
        <5> QED BY <3>4, <3>6 DEF Connection
      <4> QED BY <3>1, <3>3, <3>4, <4>1
    <3> QED BY <3>5, <3>6
  <2> QED BY <2>1, <2>2
<1> HIDE DEF d, yes
<1>4. Outcome(<<d, {}>>, c.port, w, r, q, snt)
  <2>1. snt \cup {} = snt
    OBVIOUS
  <2> QED BY <1>3, <2>1 DEF Outcome
<1>5. Outcome(<<d, {} \cup Answer(c, yes)>>, c.port, w, r, q, snt)
  BY <1>0, <1>2, <1>3, <1>4, Answered
<1>6. {} \cup Answer(c, yes) = Answer(c, yes)
  OBVIOUS
<1> QED BY <1>1, <1>5, <1>6

LEMMA FinWait2Whole ==
  ASSUME NEW c, NEW w, NEW r, NEW q, NEW snt, NEW s, Hearing(c, w, r, q, snt, s),
         c.state = "FIN_WAIT_2", NEW x \in InFinWait2(c, s)
  PROVE  Outcome(x, c.port, w, r, q, snt)
<1> DEFINE taken == TakeExact(c, s)
           fin == TakeFin(taken, s)
           closed == FinIsNext(taken, s)
           d == [fin EXCEPT !.state = IF closed THEN "CLOSED" ELSE @]
           yes == closed \/ HasNext(c, s)
<1>0. c.port \in Port /\ c.retx = "none"
  BY DEF Hearing, Whole, FlightOK
<1>1. x = <<d, Answer(c, yes)>>
  BY DEF InFinWait2
<1>2. yes \in BOOLEAN
  BY DEF FinIsNext, HasNext
<1>3. Hearing(taken, w, r, q, snt, s) /\ taken.port = c.port /\ taken.state = c.state
      /\ taken.retx = "none"
  BY <1>0, Taken
<1> HIDE DEF taken
<1>4. Hearing(fin, w, r, q, snt, s) /\ fin.port = c.port /\ fin.state = "FIN_WAIT_2"
      /\ fin.retx = "none"
  BY <1>3, Taken
<1> HIDE DEF fin
<1>5. Whole(fin, w, r, q, snt) /\ fin \in Connection
  BY <1>4 DEF Hearing, Whole
<1>6. Whole(d, w, r, q, snt) /\ d.port = c.port /\ d.state # "SYN_SENT"
  <2>1. CASE closed
    <3>1. d = [fin EXCEPT !.state = "CLOSED"]
      BY <2>1
    <3> HIDE DEF d, closed
    <3> QED BY <1>4, <1>5, <3>1, MovedOn
  <2>2. CASE ~closed
    <3>1. d = fin
      <4> HIDE DEF closed
      <4> QED BY <1>5, <2>2 DEF Connection
    <3> QED BY <1>4, <1>5, <3>1
  <2> QED BY <2>1, <2>2
<1> HIDE DEF d, yes
<1>7. Outcome(<<d, {}>>, c.port, w, r, q, snt)
  <2>1. snt \cup {} = snt
    OBVIOUS
  <2> QED BY <1>6, <2>1 DEF Outcome
<1>8. Outcome(<<d, {} \cup Answer(c, yes)>>, c.port, w, r, q, snt)
  BY <1>0, <1>2, <1>6, <1>7, Answered
<1>9. {} \cup Answer(c, yes) = Answer(c, yes)
  OBVIOUS
<1> QED BY <1>1, <1>8, <1>9

LEMMA ResetWhole ==
  ASSUME NEW c, NEW w \in Nat, NEW r \in Seq(Byte), NEW q, NEW snt, Whole(c, w, r, q, snt),
         c.port \in Port, NEW s, NEW x \in TakeReset(c, s)
  PROVE  Outcome(x, c.port, w, r, q, snt)
<1>1. PICK d \in {c, Drop(c)}, yes \in BOOLEAN :
        x = <<d, Answer(c, yes)>> /\ (yes => c.state # "SYN_SENT")
  <2> DEFINE ahead == Minus(s.seq, c.rcv)
             window == IF Room(c) = 0 THEN 1 ELSE Room(c)
             counts == IF c.state = "SYN_SENT" THEN "ACK" \in s.flags /\ s.ack = c.nxt ELSE ahead = 0
             yes == c.state # "SYN_SENT" /\ ahead \in 1 .. window - 1
             d == IF counts THEN Drop(c) ELSE c
  <2>1. x = <<d, Answer(c, yes)>>
    BY DEF TakeReset
  <2>2. d \in {c, Drop(c)} /\ yes \in BOOLEAN /\ (yes => c.state # "SYN_SENT")
    OBVIOUS
  <2> HIDE DEF d, yes
  <2> QED BY <2>1, <2>2
<1>2. Whole(d, w, r, q, snt) /\ d.port = c.port /\ (yes => d.state # "SYN_SENT")
  BY <1>1, DropWhole
<1>3. Outcome(<<d, {}>>, c.port, w, r, q, snt)
  <2>1. snt \cup {} = snt
    OBVIOUS
  <2> QED BY <1>2, <2>1 DEF Outcome
<1>4. Outcome(<<d, {} \cup Answer(c, yes)>>, c.port, w, r, q, snt)
  BY <1>2, <1>3, Answered
<1>5. {} \cup Answer(c, yes) = Answer(c, yes)
  OBVIOUS
<1> QED BY <1>1, <1>4, <1>5

(* The answer to our SYN is the peer's first segment. *)
LEMMA SynSentWhole ==
  ASSUME NEW c, NEW w \in Nat, NEW r \in Seq(Byte), NEW q, NEW snt, Whole(c, w, r, q, snt),
         c.port \in Port, c.state = "SYN_SENT", NEW s, Honest(s, c.port, q), "RST" \notin s.flags,
         NEW x \in InSynSent(TakeAck(c, s), s)
  PROVE  Outcome(x, c.port, w, r, q, snt)
<1> DEFINE t == TakeAck(c, s)
           p == c.port
           v == Plus(s.seq, 1)
           e == [t EXCEPT !.state = "ESTABLISHED", !.rcv = v,
                          !.wnd = s.wnd, !.wl1 = s.seq, !.wl2 = s.ack]
<1>0. /\ c \in Connection /\ p \in 0 .. Conns /\ s.ack \in SeqNums /\ s.seq \in SeqNums /\ s.wnd \in Nat
      /\ Iss[p] \in SeqNums /\ PeerIss[p] \in SeqNums
  BY InitialSeqs DEF Whole, Connection, Honest
<1>1. q.state # "up" /\ c.retx = "syn" /\ w = 0 /\ c.len = 0 /\ c.nxt = Plus(Iss[p], 1) /\ ~c.finSeen
      /\ Got(c, r) = 0 /\ c.fails < Backstop
  BY DEF Whole, FlightOK, PeerOK, ReceiptOK
<1>2. s.flags = {"SYN", "ACK"} /\ s.seq = Plus(PeerIss[p], 0) /\ s.ack = Plus(Iss[p], 1)
  BY <1>1 DEF Honest
<1>3. c.sendq = <<>> /\ c.sendq \in Seq(Byte)
  <2>1. Len(c.sendq) \in Nat /\ c.sendq \in Seq(Byte) /\ Len(c.sendq) <= 0
    BY <1>0, <1>1 DEF Whole, QueueOK, Connection
  <2> QED BY <2>1
<1>4. t = [Clear(c) EXCEPT !.una = s.ack, !.sendq = <<>>]
  <2>1. SubSeq(c.sendq, c.len + 1, Len(c.sendq)) = <<>>
    BY <1>1, <1>3
  <2>2. Clear(c).sendq = c.sendq
    BY <1>0 DEF Clear, Connection
  <2>3. t = [Clear(c) EXCEPT !.una = s.ack, !.sendq = SubSeq(@, c.len + 1, Len(@))]
    BY <1>1, <1>2 DEF TakeAck
  <2> HIDE DEF t
  <2> QED BY <1>3, <2>1, <2>2, <2>3
<1> HIDE DEF t
<1>5. Clear(c) \in Connection
  <2>1. 0 \in 0 .. MaxRetries
    BY Counts
  <2> QED BY <1>0, <2>1 DEF Connection, Clear
<1>6. /\ t \in Connection /\ t.nxt = c.nxt /\ t.port = p /\ t.state = c.state /\ t.una = s.ack
      /\ t.retx = "none" /\ t.len = 0 /\ t.sendq = <<>> /\ t.recvq = c.recvq
      /\ t.finSeen = c.finSeen /\ t.fails = c.fails
  <2>1. t \in Connection
    BY <1>0, <1>3, <1>4, <1>5 DEF Connection
  <2> QED BY <1>0, <1>4, <1>5, <2>1 DEF Connection, Clear
<1>7. x = <<e, {Ack(t)}>>
  <2>1. x \in InSynSent(t, s)
    BY DEF t
  <2>2. {"SYN", "ACK"} \subseteq s.flags /\ s.ack = t.nxt
    BY <1>1, <1>2, <1>6
  <2> HIDE DEF p
  <2> QED BY <2>1, <2>2 DEF InSynSent, v
<1>8. v = Plus(PeerIss[p], 1) /\ v \in SeqNums
  <2>1. Plus(PeerIss[p], 0) = PeerIss[p] /\ Plus(PeerIss[p], 1) \in SeqNums
    BY <1>0, PlusFacts
  <2> QED BY <1>2, <2>1
<1> HIDE DEF v
<1>9. /\ e \in Connection /\ e.state = "ESTABLISHED" /\ e.port = p /\ e.una = s.ack /\ e.nxt = c.nxt
      /\ e.rcv = v /\ e.sendq = <<>> /\ e.retx = "none" /\ e.len = 0
      /\ e.recvq = c.recvq /\ e.finSeen = c.finSeen /\ e.fails = c.fails
  <2>1. e \in Connection
    <3>1. t \in Connection /\ s.wnd \in Nat /\ s.seq \in SeqNums /\ s.ack \in SeqNums
      BY <1>0, <1>6
    <3> DEFINE m == [t EXCEPT !.state = "ESTABLISHED", !.rcv = v]
    <3>2. m \in Connection
      BY <1>8, <3>1 DEF Connection, States
    <3>3. e = [m EXCEPT !.wnd = s.wnd, !.wl1 = s.seq, !.wl2 = s.ack]
      BY <3>1 DEF Connection
    <3> HIDE DEF m, e
    <3> QED BY <3>1, <3>2, <3>3 DEF Connection
  <2>2. t \in Connection
    BY <1>6
  <2>3. /\ e.state = "ESTABLISHED" /\ e.rcv = v /\ e.port = t.port /\ e.una = t.una /\ e.nxt = t.nxt
        /\ e.sendq = t.sendq /\ e.retx = t.retx /\ e.len = t.len
        /\ e.recvq = t.recvq /\ e.finSeen = t.finSeen /\ e.fails = t.fails
    BY <2>2 DEF Connection
  <2> HIDE DEF e
  <2> QED BY <1>1, <1>6, <2>1, <2>3
<1> HIDE DEF e
<1>10. QueueOK(e, w)
  BY <1>1, <1>3, <1>9 DEF Whole, QueueOK, Acked
<1>11. FlightOK(e, w)
  <2>1. 1 + Acked(e, w) = 1 /\ 1 + Acked(e, w) + e.len = 1
    BY <1>1, <1>9 DEF Acked
  <2> QED BY <1>1, <1>2, <1>9, <2>1 DEF FlightOK
<1>12. ReceiptOK(e, r)
  <2>1. Got(e, r) = 0 /\ 1 + 0 + 0 = 1
    BY <1>1, <1>9 DEF Got
  <2> QED BY <1>1, <1>8, <1>9, <2>1 DEF Whole, ReceiptOK
<1>13. PeerOK(e, w, q)
  BY <1>1, <1>3, <1>9 DEF Whole, PeerOK, Acked
<1>14. WireOK(e, w, snt)
  BY <1>9, WireCarried DEF Whole, Ending
<1>15. WireOK(e, w, snt \cup {Ack(e)}) /\ Ack(e) \in OnWire
  BY <1>9, <1>14, AckSent
<1>16. Ack(t) = Ack(e) /\ Ack(e).port = p
  BY <1>6, <1>9 DEF Ack
<1> HIDE DEF p
<1>17. Outcome(x, p, w, r, q, snt)
  BY <1>7, <1>9, <1>10, <1>11, <1>12, <1>13, <1>15, <1>16 DEF Outcome, Whole
<1> QED BY <1>17 DEF p

-----------------------------------------------------------------------------
(* One lemma for every action.  Each leaves the connection whole and its segments on the
   wire; what the rest of the invariant needs is the same for all of them.              *)
LEMMA BecomeKeeps ==
  ASSUME IInv, NEW results, Become(results), UNCHANGED peer, NEW p \in Port, conn.port <= p,
         NEW w \in 0 .. OutLen, NEW r \in Seq(Byte), app' = [wrote |-> w, read |-> r],
         \A x \in results : Outcome(x, p, w, r, peer[p], sent)
  PROVE  IInv'
<1>1. PICK x \in results : conn' = x[1] /\ sent' = sent \cup x[2] /\ replied' = (x[2] # {})
  BY DEF Become
<1>2. /\ Whole(x[1], w, r, peer[p], sent \cup x[2]) /\ x[1].port = p
      /\ x[2] \subseteq OnWire /\ \A s \in x[2] : s.port = p
  BY DEF Outcome
<1>3. conn'.port = p /\ peer'[conn'.port] = peer[p]
  BY <1>1, <1>2
<1>4. app'.wrote = w /\ app'.read = r
  OBVIOUS
<1>5. Typed'
  <2>1. conn' \in Connection
    BY <1>1, <1>2 DEF Whole
  <2>2. app' \in [wrote : 0 .. OutLen, read : Seq(Byte)]
    OBVIOUS
  <2> QED BY <1>1, <1>2, <2>1, <2>2 DEF IInv, Typed
<1>6. Whole(conn, app.wrote, app.read, peer[conn.port], sent)'
  BY <1>1, <1>2, <1>3, <1>4
<1>7. p # 0 /\ p \in Nat /\ Port \subseteq Nat
  BY Counts DEF Port
<1>8. (\A i \in Port : i > conn.port => peer[i] = NewPeer)'
  <2>1. conn.port \in Nat
    BY Counts DEF IInv, Typed, Connection
  <2>2. \A i \in Port : i > p => i > conn.port
    BY <1>7, <2>1
  <2> QED BY <1>3, <2>2 DEF IInv
<1>9. (\A s \in sent : s.port <= conn.port)'
  <2>1. conn.port \in Nat /\ \A s \in sent : s.port \in Nat
    <3>1. conn \in Connection /\ sent \subseteq OnWire
      BY DEF IInv, Typed
    <3>2. conn.port \in Nat
      BY <3>1, Counts DEF Connection
    <3>3. \A s \in sent : s.port \in Port
      BY <3>1 DEF OnWire
    <3> QED BY <1>7, <3>2, <3>3
  <2>2. ASSUME NEW s \in sent \cup x[2] PROVE s.port <= p
    <3>1. CASE s \in sent
      BY <1>7, <2>1, <3>1 DEF IInv
    <3>2. CASE s \in x[2]
      BY <1>2, <1>7, <3>2
    <3> QED BY <2>2, <3>1, <3>2
  <2> QED BY <1>1, <1>3, <2>2
<1> QED BY <1>3, <1>5, <1>6, <1>7, <1>8, <1>9 DEF IInv

(* The parts of the invariant, for the action lemmas. *)
LEMMA InvParts ==
  ASSUME IInv
  PROVE  /\ conn \in Connection /\ conn.port \in 0 .. Conns
         /\ conn.port = 0 \/ conn.port \in Port
         /\ app.wrote \in 0 .. OutLen /\ app.wrote \in Nat /\ app.read \in Seq(Byte)
         /\ app = [wrote |-> app.wrote, read |-> app.read]
         /\ conn.port \in Port => /\ Whole(conn, app.wrote, app.read, peer[conn.port], sent)
                                  /\ peer[conn.port] \in PeerEnd
         /\ conn.port = 0 => conn = NoConn /\ sent = {}
<1>1. conn \in Connection /\ app \in [wrote : 0 .. OutLen, read : Seq(Byte)] /\ peer \in [Port -> PeerEnd]
  BY DEF IInv, Typed
<1>2. conn.port \in 0 .. Conns
  BY <1>1 DEF Connection
<1>3. conn.port = 0 \/ conn.port \in Port
  BY <1>2, Counts DEF Port
<1>4. app.wrote \in 0 .. OutLen /\ app.wrote \in Nat /\ app.read \in Seq(Byte)
      /\ app = [wrote |-> app.wrote, read |-> app.read]
  BY <1>1, Counts
<1> QED BY <1>1, <1>2, <1>3, <1>4 DEF IInv

LEMMA StreamIs ==
  ASSUME NEW p \in 0 .. Conns, NEW n \in Nat
  PROVE  Stream(p, n) = Bytes(p, 0, n)
<1>1. \A k \in 1 .. n : 0 + k = k
  OBVIOUS
<1> QED BY <1>1 DEF Stream, Bytes

(* Whatever arrives is what a peer may have sent. *)
LEMMA ArrivingHonest ==
  ASSUME IInv, NEW s \in Arriving
  PROVE  s.port \in Port /\ Honest(s, s.port, peer[s.port])
<1>1. PICK p \in Port : s \in SynAcks(p) \cup Slices(p) \cup Resets(p)
  BY DEF Arriving
<1> DEFINE q == peer[p]
           g == Len(q.got)
<1>2. q \in PeerEnd /\ g \in Nat /\ InLen \in Nat /\ p \in 0 .. Conns /\ Windows \subseteq Nat
      /\ Iss[p] \in SeqNums /\ PeerIss[p] \in SeqNums
  <2>1. q \in PeerEnd
    BY DEF IInv, Typed
  <2>2. g \in Nat
    BY <2>1 DEF PeerEnd
  <2>3. InLen \in Nat /\ p \in 0 .. Conns /\ Windows \subseteq Nat
    BY Counts, WindowsNat DEF Port
  <2> QED BY <2>1, <2>2, <2>3, InitialSeqs
<1> HIDE DEF g
<1>3. \A n \in Nat : Plus(Iss[p], 1 + n) \in SeqNums /\ Plus(PeerIss[p], n) \in SeqNums
  <2>1. ASSUME NEW n \in Nat PROVE Plus(Iss[p], 1 + n) \in SeqNums /\ Plus(PeerIss[p], n) \in SeqNums
    <3>1. 1 + n \in Nat
      OBVIOUS
    <3> QED BY <1>2, <3>1, PlusFacts
  <2> QED BY <2>1
<1>4. Plus(Iss[p], 1) \in SeqNums /\ Plus(PeerIss[p], 0) = PeerIss[p]
  BY <1>2, PlusFacts
<1>5. CASE s \in SynAcks(p)
  <2>1. /\ s.port = p /\ s.flags = {"SYN", "ACK"} /\ s.seq = PeerIss[p] /\ s.ack = Plus(Iss[p], 1)
        /\ s.wnd \in Nat /\ s.data = <<>>
    BY <1>2, <1>5 DEF SynAcks
  <2>2. 0 \in 0 .. InLen + 1 /\ 0 + 0 <= InLen + 1 /\ ~ (0 > 0) /\ 0 \in 0 .. g + 1 /\ 0 <= g /\ 1 + 0 = 1
    BY <1>2
  <2>3. s.data = Bytes(p, 0 - 1, 0)
    <3>1. Bytes(p, 0 - 1, 0) \in Seq(Byte) /\ Len(Bytes(p, 0 - 1, 0)) = 0
      <4>1. 0 - 1 \in Int /\ 0 \in Nat
        OBVIOUS
      <4> QED BY <1>2, <4>1, BytesSeq
    <3>2. Bytes(p, 0 - 1, 0) = <<>>
      BY <3>1
    <3> QED BY <2>1, <3>2
  <2>4. "RST" \notin s.flags /\ "FIN" \notin s.flags
    BY <2>1
  <2>5. \E n \in 0 .. g + 1 : s.ack = Plus(Iss[p], 1 + n) /\ (n <= g \/ q.finGot)
    <3>1. s.ack = Plus(Iss[p], 1 + 0) /\ (0 <= g \/ q.finGot)
      BY <2>1, <2>2
    <3> QED BY <2>2, <3>1
  <2>6. \E k \in 0 .. InLen + 1, m \in 0 .. InLen + 1 :
          /\ k + m <= InLen + 1 /\ (m > 0 => k > 0)
          /\ s.seq = Plus(PeerIss[p], k) /\ s.data = Bytes(p, k - 1, m)
          /\ "FIN" \in s.flags => k + m = InLen + 1
    <3>1. /\ 0 + 0 <= InLen + 1 /\ (0 > 0 => 0 > 0)
          /\ s.seq = Plus(PeerIss[p], 0) /\ s.data = Bytes(p, 0 - 1, 0)
          /\ "FIN" \in s.flags => 0 + 0 = InLen + 1
      BY <1>4, <2>1, <2>2, <2>3, <2>4
    <3> QED BY <2>2, <3>1
  <2> QED BY <1>2, <1>4, <2>1, <2>4, <2>5, <2>6 DEF Honest, g
<1>6. CASE s \in Slices(p)
  <2>1. q.state = "up"
    <3>1. q.state # "up" => Slices(p) = {}
      BY DEF Slices
    <3> QED BY <1>6, <3>1
  <2>2. PICK k \in 1 .. InLen + 1, e \in 0 .. InLen, fin \in BOOLEAN, n \in 0 .. PeerNext(p), v \in Windows :
          /\ k <= e + 1 /\ (fin => e = InLen)
          /\ s = Slice(p, k, e, fin, Plus(Iss[p], 1 + n), v)
    <3> DEFINE Ends == {i \in (1 .. InLen + 1) \X (0 .. InLen) : i[1] <= i[2] + 1}
               F(i) == {i[2] = InLen, FALSE}
               From(i) == {Slice(p, i[1], i[2], fin, a, v) :
                             fin \in F(i), a \in PeerAcks(p), v \in Windows}
    <3>1. Slices(p) = UNION {From(i) : i \in Ends}
      BY <2>1 DEF Slices
    <3> HIDE DEF F, From, Ends
    <3>2. PICK i \in Ends : s \in From(i)
      BY <1>6, <3>1
    <3>3. i[1] \in 1 .. InLen + 1 /\ i[2] \in 0 .. InLen /\ i[1] <= i[2] + 1
      BY DEF Ends
    <3>4. PICK fin \in {i[2] = InLen, FALSE}, a \in PeerAcks(p), v \in Windows :
            s = Slice(p, i[1], i[2], fin, a, v)
      <4>1. PICK fin \in F(i), a \in PeerAcks(p), v \in Windows : s = Slice(p, i[1], i[2], fin, a, v)
        BY <3>2 DEF From
      <4>2. fin \in {i[2] = InLen, FALSE}
        BY DEF F
      <4> QED BY <4>1, <4>2
    <3>5. PICK n \in 0 .. PeerNext(p) : a = Plus(Iss[p], 1 + n)
      BY DEF PeerAcks
    <3>6. fin \in BOOLEAN /\ (fin => i[2] = InLen)
      BY <3>4
    <3>7. s = Slice(p, i[1], i[2], fin, Plus(Iss[p], 1 + n), v)
      BY <3>4, <3>5
    <3> QED BY <3>3, <3>6, <3>7
  <2>3. /\ s.port = p /\ s.flags = {"ACK"} \cup (IF fin THEN {"FIN"} ELSE {})
        /\ s.seq = Plus(PeerIss[p], k) /\ s.ack = Plus(Iss[p], 1 + n) /\ s.wnd = v
        /\ s.data = SubSeq(Stream(p, InLen), k, e)
    BY <2>2 DEF Slice
  <2>4. /\ k \in 0 .. InLen + 1 /\ (e - k) + 1 \in 0 .. InLen + 1 /\ k + ((e - k) + 1) = e + 1
        /\ e + 1 <= InLen + 1 /\ k > 0
    BY <1>2, <2>2
  <2>5. s.data = Bytes(p, k - 1, (e - k) + 1)
    <3>1. Stream(p, InLen) = Bytes(p, 0, InLen)
      BY <1>2, StreamIs
    <3>2. k - 1 \in 0 .. InLen /\ e \in k - 1 .. InLen /\ (k - 1) + 1 = k /\ 0 + (k - 1) = k - 1
          /\ e - (k - 1) = (e - k) + 1 /\ 0 \in Int
      BY <1>2, <2>2
    <3>3. SubSeq(Bytes(p, 0, InLen), (k - 1) + 1, e) = Bytes(p, 0 + (k - 1), e - (k - 1))
      BY <1>2, <3>2, BytesCut
    <3> QED BY <2>3, <3>1, <3>2, <3>3
  <2>6. n \in 0 .. g + 1 /\ (n <= g \/ q.finGot) /\ n \in Nat
    <3>1. PeerNext(p) = g + IF q.finGot THEN 1 ELSE 0
      BY DEF PeerNext, g
    <3>2. CASE q.finGot
      <4>1. PeerNext(p) = g + 1
        BY <3>1, <3>2
      <4> QED BY <1>2, <3>2, <4>1
    <3>3. CASE ~q.finGot
      <4>1. PeerNext(p) = g + 0
        BY <3>1, <3>3
      <4> QED BY <1>2, <4>1
    <3> QED BY <3>2, <3>3
  <2>7. \E i \in 0 .. g + 1 : s.ack = Plus(Iss[p], 1 + i) /\ (i <= g \/ q.finGot)
    BY <2>3, <2>6
  <2>8. "FIN" \in s.flags => e = InLen
    BY <2>2, <2>3
  <2>9. \E i \in 0 .. InLen + 1, m \in 0 .. InLen + 1 :
          /\ i + m <= InLen + 1 /\ (m > 0 => i > 0)
          /\ s.seq = Plus(PeerIss[p], i) /\ s.data = Bytes(p, i - 1, m)
          /\ "FIN" \in s.flags => i + m = InLen + 1
    <3> DEFINE m == (e - k) + 1
    <3>1. /\ k + m <= InLen + 1 /\ (m > 0 => k > 0)
          /\ s.seq = Plus(PeerIss[p], k) /\ s.data = Bytes(p, k - 1, m)
          /\ "FIN" \in s.flags => k + m = InLen + 1
      BY <2>3, <2>4, <2>5, <2>8
    <3>2. k \in 0 .. InLen + 1 /\ m \in 0 .. InLen + 1
      BY <2>4
    <3> HIDE DEF m
    <3> QED BY <3>1, <3>2
  <2>10. s.seq \in SeqNums /\ s.ack \in SeqNums /\ s.wnd \in Nat
    <3>1. k \in Nat /\ v \in Nat
      BY <1>2, <2>2
    <3> QED BY <1>3, <2>3, <2>6, <3>1
  <2> QED BY <2>1, <2>3, <2>7, <2>9, <2>10 DEF Honest, g
<1>7. CASE s \in Resets(p)
  <2>1. \E k \in 0 .. InLen + 1 : s.port = p /\ s.seq = Plus(PeerIss[p], k) /\ s.ack = Plus(Iss[p], 1)
                                  /\ s.wnd = 0 /\ s.flags = {"RST", "ACK"}
    BY <1>7 DEF Resets
  <2>2. s.seq \in SeqNums
    BY <1>2, <1>3, <2>1
  <2> QED BY <1>4, <2>1, <2>2 DEF Honest
<1> QED BY <1>1, <1>5, <1>6, <1>7

LEMMA ConnectKeeps ==
  ASSUME IInv, Connect
  PROVE  IInv'
<1> DEFINE p == conn.port + 1
           c == [NoConn EXCEPT !.port = p, !.una = Iss[p], !.nxt = Iss[p]]
           syn == [Arm(c, "syn", 0) EXCEPT !.state = "SYN_SENT", !.nxt = Plus(@, 1)]
           s == Segment(c, "syn", <<>>)
           results == {<<c, {}>>, <<syn, {s}>>}
           v == Plus(Iss[p], 1)
<1>0. /\ p \in Port /\ p \in 0 .. Conns /\ conn.port < p /\ conn.port <= p /\ conn.port \in Nat
      /\ Iss[p] \in SeqNums /\ 0 \in SeqNums
  <2>1. conn.port \in 0 .. Conns /\ conn.port < Conns
    BY InvParts DEF Connect
  <2>2. p \in Port /\ p \in 0 .. Conns /\ conn.port < p /\ conn.port <= p /\ conn.port \in Nat
    BY <2>1, Counts DEF Port
  <2>3. 0 \in SeqNums
    BY Counts, ShortStreams DEF SeqNums
  <2> QED BY <2>2, <2>3, InitialSeqs
<1>1. Become(results) /\ app' = [wrote |-> 0, read |-> <<>>] /\ UNCHANGED peer
  BY DEF Connect
<1>2. peer[p] = NewPeer
  BY <1>0 DEF IInv
<1>3. v \in SeqNums /\ Plus(Iss[p], 0) = Iss[p]
  BY <1>0, PlusFacts
<1> HIDE DEF p, v
<1>4. /\ 0 \in 0 .. OutLen /\ 0 \in Nat /\ <<>> \in Seq(Byte) /\ 0 \in 0 .. MaxRetries
      /\ 0 \in 0 .. Backstop /\ 0 < Backstop /\ SendSize \in Nat /\ RecvSize \in Nat /\ InLen \in Nat
  BY Counts
<1>5. /\ Bytes(p, 0, 0) = <<>>
  <2>1. Bytes(p, 0, 0) \in Seq(Byte) /\ Len(Bytes(p, 0, 0)) = 0
    BY <1>0, BytesSeq
  <2> QED BY <2>1
<1>6. /\ c \in Connection /\ c.port = p /\ c.state = "CLOSED" /\ c.una = Iss[p] /\ c.nxt = Iss[p]
      /\ c.sendq = <<>> /\ c.recvq = <<>> /\ c.retx = "none" /\ c.len = 0 /\ ~c.finSeen
      /\ c.fails = 0
  <2>1. c = [NoConn EXCEPT !.port = p, !.una = Iss[p], !.nxt = Iss[p]]
    OBVIOUS
  <2> HIDE DEF c
  <2>2. c \in Connection
    BY <1>0, <1>4, <2>1 DEF Connection, NoConn, States
  <2> QED BY <2>1, <2>2 DEF Connection, NoConn
<1>7. s = [port |-> p, kind |-> "syn", seq |-> Iss[p], data |-> <<>>]
  BY <1>6 DEF Segment
<1> HIDE DEF c
<1>8. /\ syn \in Connection /\ syn.port = p /\ syn.state = "SYN_SENT" /\ syn.una = Iss[p]
      /\ syn.nxt = v /\ syn.sendq = <<>> /\ syn.recvq = <<>> /\ syn.retx = "syn" /\ syn.len = 0
      /\ ~syn.finSeen /\ syn.fails = 0
  <2>1. Arm(c, "syn", 0) \in Connection /\ Arm(c, "syn", 0).nxt = Iss[p]
    BY <1>4, <1>6 DEF Connection, Arm
  <2>2. syn = [Arm(c, "syn", 0) EXCEPT !.state = "SYN_SENT", !.nxt = v]
    BY <2>1 DEF v
  <2> HIDE DEF syn
  <2>3. syn \in Connection
    BY <1>3, <2>1, <2>2 DEF Connection, States
  <2> QED BY <1>6, <2>1, <2>2, <2>3 DEF Connection, Arm
<1> HIDE DEF syn, s
<1>9. ASSUME NEW z \in sent PROVE z.port # p
  <2>1. z.port <= conn.port /\ z.port \in Port /\ Port \subseteq Nat
    BY <1>9 DEF IInv, Typed, OnWire, Port
  <2> QED BY <1>0, <2>1
<1>10. s \in OnWire /\ s.port = p /\ s.kind = "syn"
  BY <1>0, <1>4, <1>7 DEF OnWire
<1>11. ASSUME NEW d \in {c, syn}
       PROVE  QueueOK(d, 0) /\ ReceiptOK(d, <<>>) /\ PeerOK(d, 0, NewPeer) /\ FlightOK(d, 0)
  <2>1. /\ d \in Connection /\ d.port = p /\ d.sendq = <<>> /\ d.recvq = <<>> /\ d.len = 0
        /\ d.state \in {"CLOSED", "SYN_SENT"} /\ ~d.finSeen /\ d.fails = 0
    BY <1>6, <1>8
  <2>2. Acked(d, 0) = 0 /\ Got(d, <<>>) = 0 /\ Len(d.sendq) = 0 /\ Len(d.recvq) = 0
    <3>1. Len(<<>>) = 0
      OBVIOUS
    <3>2. Acked(d, 0) = 0 - 0 /\ Got(d, <<>>) = 0 + 0
      BY <2>1, <3>1 DEF Acked, Got
    <3> QED BY <2>1, <3>1, <3>2
  <2>3. QueueOK(d, 0)
    BY <1>4, <1>5, <2>1, <2>2 DEF QueueOK
  <2>4. ReceiptOK(d, <<>>)
    BY <1>4, <1>5, <2>1, <2>2 DEF ReceiptOK
  <2>5. PeerOK(d, 0, NewPeer)
    BY <1>5, <2>1, <2>2 DEF PeerOK, NewPeer
  <2>6. FlightOK(d, 0)
    BY <1>3, <1>4, <1>6, <1>8, <2>1 DEF FlightOK, v
  <2> QED BY <2>3, <2>4, <2>5, <2>6
<1>12. WireOK(c, 0, sent)
  BY <1>6, <1>9 DEF WireOK
<1>13. WireOK(syn, 0, sent \cup {s})
  <2>1. SubSeq(<<>>, 1, 0) = <<>>
    OBVIOUS
  <2>2. Resent(syn) = [port |-> syn.port, kind |-> syn.retx, seq |-> syn.una,
                       data |-> SubSeq(syn.sendq, 1, syn.len)]
    BY ResentIs
  <2>3. Resent(syn) = s
    BY <1>7, <1>8, <2>1, <2>2
  <2>4. Says(syn, 0, s)
    BY <1>10 DEF Says
  <2> QED BY <1>8, <1>9, <2>3, <2>4 DEF WireOK
<1>14. Outcome(<<c, {}>>, p, 0, <<>>, NewPeer, sent)
  <2>1. sent \cup {} = sent
    OBVIOUS
  <2>2. Whole(c, 0, <<>>, NewPeer, sent)
    BY <1>6, <1>11, <1>12 DEF Whole
  <2> QED BY <1>6, <2>1, <2>2 DEF Outcome
<1>15. Outcome(<<syn, {s}>>, p, 0, <<>>, NewPeer, sent)
  <2>1. Whole(syn, 0, <<>>, NewPeer, sent \cup {s})
    BY <1>8, <1>11, <1>13 DEF Whole
  <2> QED BY <1>8, <1>10, <2>1 DEF Outcome
<1>16. \A x \in results : Outcome(x, p, 0, <<>>, peer[p], sent)
  BY <1>2, <1>14, <1>15
<1> HIDE DEF results
<1> QED BY <1>0, <1>1, <1>4, <1>16, BecomeKeeps

(* tcp_send_data() puts the bytes at the end of the queue. *)
Appended(c, w, n) == [c EXCEPT !.sendq = @ \o [k \in 1 .. n |-> <<c.port, w + k>>]]

LEMMA Written ==
  ASSUME NEW c, NEW w \in Nat, NEW r, NEW q \in PeerEnd, NEW snt, snt \subseteq OnWire,
         Whole(c, w, r, q, snt), c.state = "ESTABLISHED", c.port \in Port, NEW n \in Nat,
         n <= SendSize - Len(c.sendq)
  PROVE  /\ Whole(Appended(c, w, n), w + n, r, q, snt)
         /\ Appended(c, w, n).port = c.port /\ Appended(c, w, n).state = "ESTABLISHED"
<1> DEFINE p == c.port
           a == Acked(c, w)
           l == Len(c.sendq)
           b == Bytes(p, w, n)
           y == c.sendq \o b
           d == [c EXCEPT !.sendq = @ \o [k \in 1 .. n |-> <<p, w + k>>]]
<1>0. /\ c \in Connection /\ p \in 0 .. Conns /\ c.sendq \in Seq(Byte) /\ l \in Nat /\ l <= w
      /\ c.len \in Nat /\ c.len <= l /\ SendSize \in Nat
  BY Counts DEF Whole, Connection, QueueOK
<1>1. a \in Nat /\ a + l = w /\ c.sendq = Bytes(p, a, l)
  BY <1>0 DEF Whole, QueueOK, Acked
<1>2. b \in Seq(Byte) /\ Len(b) = n
  <2>1. w \in Int
    OBVIOUS
  <2> QED BY <1>0, <2>1, BytesSeq
<1>3. d = [c EXCEPT !.sendq = y]
  BY <1>0 DEF Connection, Bytes
<1> HIDE DEF a, l, b, p
<1>4. y \in Seq(Byte) /\ Len(y) = l + n
  <2>1. c.sendq \in Seq(Byte) /\ b \in Seq(Byte)
    BY <1>0, <1>2
  <2>2. c.sendq \o b \in Seq(Byte) /\ Len(c.sendq \o b) = Len(c.sendq) + Len(b)
    BY <2>1, Joined
  <2> QED BY <1>2, <2>2 DEF l
<1>5. y = Bytes(p, a, l + n)
  <2>1. Bytes(p, a, l) \o Bytes(p, a + l, n) = Bytes(p, a, l + n)
    <3>1. a \in Int
      BY <1>1
    <3> QED BY <1>0, <3>1, BytesJoin
  <2> QED BY <1>1, <2>1 DEF b
<1> HIDE DEF y, d
<1>6. /\ d \in Connection /\ d.state = c.state /\ d.port = p /\ d.una = c.una /\ d.nxt = c.nxt
      /\ d.rcv = c.rcv /\ d.sendq = y /\ d.retx = c.retx /\ d.len = c.len
      /\ d.recvq = c.recvq /\ d.finSeen = c.finSeen /\ d.fails = c.fails
  <2>1. d \in Connection
    BY <1>0, <1>3, <1>4 DEF Connection
  <2> QED BY <1>0, <1>3, <2>1 DEF Connection, p
<1>7. Acked(d, w + n) = a
  <2>1. Acked(d, w + n) = (w + n) - (l + n)
    BY <1>4, <1>6 DEF Acked
  <2> QED BY <1>0, <1>1, <2>1
<1>8. QueueOK(d, w + n)
  <2>1. l + n <= SendSize /\ l + n <= w + n /\ c.len <= l + n
    BY <1>0 DEF l
  <2> QED BY <1>4, <1>5, <1>6, <1>7, <2>1 DEF QueueOK
<1>9. FlightOK(d, w + n)
  BY <1>6, <1>7 DEF Whole, FlightOK, p, a
<1>10. ReceiptOK(d, r)
  BY <1>6 DEF Whole, ReceiptOK, Got, p
<1>11. PeerOK(d, w + n, q)
  <2>1. q.got = Bytes(p, 0, Len(q.got)) /\ a <= Len(q.got) /\ Len(q.got) <= w /\ ~q.finGot
    BY DEF Whole, PeerOK, p, a
  <2>2. Len(q.got) \in Int
    BY DEF PeerEnd
  <2>3. Len(q.got) <= w + n
    BY <2>1, <2>2
  <2> QED BY <1>6, <1>7, <2>1, <2>3 DEF PeerOK
<1>12. Resent(d) = Resent(c)
  <2>1. SubSeq(y, 1, c.len) = SubSeq(c.sendq, 1, c.len)
    <3>1. /\ 0 \in 0 .. l /\ c.len \in 0 .. l /\ 0 \in 0 .. l + n /\ c.len \in 0 .. l + n
          /\ l + n \in Nat /\ a \in Int /\ 0 + 1 = 1
      BY <1>0, <1>1
    <3>2. SubSeq(Bytes(p, a, l), 0 + 1, c.len) = Bytes(p, a + 0, c.len - 0)
      BY <1>0, <3>1, BytesCut
    <3>3. SubSeq(Bytes(p, a, l + n), 0 + 1, c.len) = Bytes(p, a + 0, c.len - 0)
      BY <1>0, <3>1, BytesCut
    <3> QED BY <1>1, <1>5, <3>1, <3>2, <3>3
  <2>2. Resent(c) = [port |-> c.port, kind |-> c.retx, seq |-> c.una, data |-> SubSeq(c.sendq, 1, c.len)]
    BY ResentIs
  <2>3. Resent(d) = [port |-> d.port, kind |-> d.retx, seq |-> d.una, data |-> SubSeq(d.sendq, 1, d.len)]
    BY ResentIs
  <2> QED BY <1>6, <2>1, <2>2, <2>3 DEF p
<1>13. WireOK(d, w + n, snt)
  <2>1. ASSUME NEW s \in snt, s.port = p PROVE Says(d, w + n, s)
    <3>1. Says(c, w, s)
      BY <2>1 DEF Whole, WireOK, p
    <3>2. s.kind # "fin"
      BY <3>1 DEF Says, Ending
    <3>3. ASSUME s.kind = "data"
          PROVE  \E k \in 0 .. w + n : /\ k + Len(s.data) <= w + n
                                       /\ s.seq = Plus(Iss[s.port], 1 + k)
                                       /\ s.data = Bytes(s.port, k, Len(s.data))
      <4>1. PICK k \in 0 .. w : /\ k + Len(s.data) <= w
                                /\ s.seq = Plus(Iss[s.port], 1 + k)
                                /\ s.data = Bytes(s.port, k, Len(s.data))
        BY <3>1, <3>3 DEF Says
      <4>2. k \in 0 .. w + n
        OBVIOUS
      <4>3. k + Len(s.data) <= w + n
        <5>1. Len(s.data) \in Nat
          BY DEF OnWire
        <5> QED BY <4>1, <5>1
      <4> QED BY <4>1, <4>2, <4>3
    <3> QED BY <1>6, <3>2, <3>3 DEF Says
  <2> QED BY <1>6, <1>12, <2>1 DEF Whole, WireOK
<1>14. Whole(d, w + n, r, q, snt)
  BY <1>6, <1>8, <1>9, <1>10, <1>11, <1>13 DEF Whole
<1>15. Appended(c, w, n) = d
  BY DEF Appended, d, p
<1> QED BY <1>6, <1>14, <1>15 DEF p

(* A step that leaves the connection, the application and the wire alone. *)
LEMMA Unmoved ==
  ASSUME IInv, UNCHANGED <<conn, app, peer, sent>>, replied' \in BOOLEAN
  PROVE  IInv'
BY DEF IInv, Typed

LEMMA SendDataKeeps ==
  ASSUME IInv, NEW n \in 1 .. OutLen, SendData(n)
  PROVE  IInv'
<1> DEFINE p == conn.port
           w == app.wrote
           r == app.read
           q == peer[p]
           d == Appended(conn, w, n)
<1>1. /\ p \in Port /\ conn.state = "ESTABLISHED" /\ w \in Nat /\ r \in Seq(Byte) /\ n \in Nat
      /\ Whole(conn, w, r, q, sent) /\ q \in PeerEnd /\ sent \subseteq OnWire /\ w + n \in 0 .. OutLen
      /\ w + n \in Nat /\ p <= p
  <2>1. conn.state = "ESTABLISHED" /\ w + n <= OutLen
    BY DEF SendData
  <2>2. p \in Port
    BY <2>1, InvParts DEF NoConn
  <2>3. w \in Nat /\ r \in Seq(Byte) /\ Whole(conn, w, r, q, sent) /\ q \in PeerEnd
    BY <2>2, InvParts
  <2>4. n \in Nat /\ w + n \in 0 .. OutLen /\ w + n \in Nat /\ p <= p
    BY <2>1, <2>2, <2>3, Counts DEF Port
  <2> QED BY <2>1, <2>2, <2>3, <2>4 DEF IInv, Typed
<1>2. n <= SendSize - Len(conn.sendq) /\ UNCHANGED peer /\ Become(Pump(d))
  BY DEF SendData, Appended
<1>3. app' = [wrote |-> w + n, read |-> r]
  <2>1. app = [wrote |-> w, read |-> r]
    BY InvParts
  <2>2. app' = [app EXCEPT !.wrote = @ + n]
    BY DEF SendData
  <2> QED BY <2>1, <2>2
<1>4. Whole(d, w + n, r, q, sent) /\ d.port = p
  <2>1. /\ w \in Nat /\ q \in PeerEnd /\ sent \subseteq OnWire /\ Whole(conn, w, r, q, sent)
        /\ conn.state = "ESTABLISHED" /\ conn.port \in Port /\ n \in Nat /\ n <= SendSize - Len(conn.sendq)
    BY <1>1, <1>2
  <2> HIDE DEF w, r, q
  <2> QED BY <2>1, Written, Zenon
<1> HIDE DEF d, w, r, q, p
<1>5. \A x \in Pump(d) : Outcome(x, p, w + n, r, q, sent)
  <2>1. ASSUME NEW x \in Pump(d) PROVE Outcome(x, d.port, w + n, r, q, sent)
    <3> DEFINE u == w + n
    <3>1. u \in Nat /\ Whole(d, u, r, q, sent) /\ d.port \in Port
      BY <1>1, <1>4
    <3> HIDE DEF u
    <3>2. Outcome(x, d.port, u, r, q, sent)
      BY <1>1, <3>1, PumpWhole
    <3> QED BY <3>2 DEF u
  <2> QED BY <1>4, <2>1
<1>6. \A x \in Pump(d) : Outcome(x, p, w + n, r, peer[p], sent)
  BY <1>5 DEF q
<1>7. conn.port <= p
  BY <1>1 DEF p
<1> QED BY <1>1, <1>2, <1>3, <1>6, <1>7, BecomeKeeps

LEMMA CloseKeeps ==
  ASSUME IInv, Close
  PROVE  IInv'
<1> DEFINE p == conn.port
           w == app.wrote
           r == app.read
           q == peer[p]
           d == [conn EXCEPT !.fin = TRUE]
<1>1. /\ p \in Port /\ conn.state = "ESTABLISHED" /\ w \in 0 .. OutLen /\ w \in Nat
      /\ r \in Seq(Byte) /\ Whole(conn, w, r, q, sent) /\ p <= p /\ conn \in Connection
  <2>1. conn.state = "ESTABLISHED"
    BY DEF Close
  <2>2. p \in Port
    BY <2>1, InvParts DEF NoConn
  <2>3. p <= p
    BY <2>2, Counts DEF Port
  <2> QED BY <2>1, <2>2, <2>3, InvParts
<1>2. UNCHANGED <<app, peer>> /\ Become(Pump(d))
  BY DEF Close
<1>3. app' = [wrote |-> w, read |-> r]
  BY <1>2, InvParts
<1>4. Whole(d, w, r, q, sent) /\ d.port = p
  <2>1. /\ d \in Connection /\ d.state = conn.state /\ d.port = p /\ d.una = conn.una
        /\ d.nxt = conn.nxt /\ d.rcv = conn.rcv /\ d.sendq = conn.sendq /\ d.retx = conn.retx
        /\ d.len = conn.len /\ d.recvq = conn.recvq /\ d.finSeen = conn.finSeen
        /\ d.fails = conn.fails
    <3>1. d \in Connection
      BY <1>1 DEF Connection
    <3> QED BY <1>1, <3>1 DEF Connection
  <2>2. conn.fails < Backstop
    BY <1>1 DEF Whole, FlightOK
  <2> HIDE DEF d
  <2> QED BY <1>1, <2>1, <2>2, SameButTimers
<1> HIDE DEF d, w, r, q
<1>5. \A x \in Pump(d) : Outcome(x, p, w, r, q, sent)
  BY <1>1, <1>4, PumpWhole
<1>6. \A x \in Pump(d) : Outcome(x, p, w, r, peer[p], sent)
  BY <1>5 DEF q
<1> QED BY <1>1, <1>2, <1>3, <1>6, BecomeKeeps

LEMMA PollPumpKeeps ==
  ASSUME IInv, PollPump
  PROVE  IInv' /\ (conn.port = 0 => UNCHANGED <<conn, sent>>)
<1> DEFINE p == conn.port
           w == app.wrote
           r == app.read
           q == peer[p]
<1>0. UNCHANGED <<app, peer>> /\ Become(Pump(conn))
  BY DEF PollPump
<1>1. CASE p \in Port
  <2>1. /\ w \in 0 .. OutLen /\ w \in Nat /\ r \in Seq(Byte) /\ Whole(conn, w, r, q, sent) /\ p <= p
    <3>1. p <= p
      BY <1>1, Counts DEF Port
    <3> QED BY <1>1, <3>1, InvParts
  <2>2. app' = [wrote |-> w, read |-> r]
    BY <1>0, InvParts
  <2> HIDE DEF w, r, q
  <2>3. \A x \in Pump(conn) : Outcome(x, p, w, r, q, sent)
    BY <1>1, <2>1, PumpWhole
  <2>4. \A x \in Pump(conn) : Outcome(x, p, w, r, peer[p], sent)
    BY <2>3 DEF q
  <2>5. IInv'
    BY <1>0, <1>1, <2>1, <2>2, <2>4, BecomeKeeps
  <2>6. p # 0
    BY <1>1, Counts DEF Port
  <2> QED BY <2>5, <2>6
<1>2. CASE p = 0
  <2>1. Pump(conn) = {<<conn, {}>>}
    BY <1>2, InvParts DEF Pump, NoConn
  <2>2. conn' = conn /\ sent' = sent /\ replied' = FALSE
    <3>1. PICK x \in Pump(conn) : conn' = x[1] /\ sent' = sent \cup x[2] /\ replied' = (x[2] # {})
      BY <1>0 DEF Become
    <3>2. x[1] = conn /\ x[2] = {}
      BY <2>1
    <3> QED BY <3>1, <3>2
  <2> QED BY <1>0, <2>2, Unmoved
<1> QED BY <1>1, <1>2, InvParts

LEMMA RetransmitKeeps ==
  ASSUME IInv, Retransmit
  PROVE  IInv' /\ sent' = sent
<1> DEFINE p == conn.port
           w == app.wrote
           r == app.read
           q == peer[p]
           d == [conn EXCEPT !.count = @ + 1]
           s == Resent(conn)
           results == IF conn.count >= MaxRetries THEN {<<Drop(conn), {}>>} ELSE {<<d, {s}>>}
<1>0. UNCHANGED <<app, peer>> /\ Become(results) /\ conn.retx # "none"
  BY DEF Retransmit
<1>1. /\ p \in Port /\ w \in 0 .. OutLen /\ w \in Nat /\ r \in Seq(Byte)
      /\ Whole(conn, w, r, q, sent) /\ p <= p /\ conn \in Connection
  <2>1. p \in Port
    BY <1>0, InvParts DEF NoConn
  <2>2. p <= p
    BY <2>1, Counts DEF Port
  <2> QED BY <2>1, <2>2, InvParts
<1>2. app' = [wrote |-> w, read |-> r]
  BY <1>0, InvParts
<1>3. s \in sent /\ s.port = p
  <2>1. s \in sent
    BY <1>0, <1>1 DEF Whole, WireOK
  <2>2. s.port = conn.port
    BY ResentIs
  <2> QED BY <2>1, <2>2
<1>4. sent \subseteq OnWire
  BY DEF IInv, Typed
<1> HIDE DEF w, r, q, s
<1>5. CASE conn.count >= MaxRetries
  <2>1. Outcome(<<Drop(conn), {}>>, p, w, r, q, sent)
    <3>1. sent \cup {} = sent
      OBVIOUS
    <3>2. Whole(Drop(conn), w, r, q, sent) /\ Drop(conn).port = p
      BY <1>1, DropWhole
    <3> QED BY <3>1, <3>2 DEF Outcome
  <2>2. \A x \in results : Outcome(x, p, w, r, peer[p], sent)
    BY <1>5, <2>1 DEF q
  <2>3. sent' = sent
    BY <1>0, <1>5 DEF Become
  <2> HIDE DEF results
  <2> QED BY <1>0, <1>1, <1>2, <2>2, <2>3, BecomeKeeps
<1>6. CASE ~ (conn.count >= MaxRetries)
  <2>1. /\ d \in Connection /\ d.state = conn.state /\ d.port = p /\ d.una = conn.una
        /\ d.nxt = conn.nxt /\ d.rcv = conn.rcv /\ d.sendq = conn.sendq /\ d.retx = conn.retx
        /\ d.len = conn.len /\ d.recvq = conn.recvq /\ d.finSeen = conn.finSeen
        /\ d.fails = conn.fails
    <3>1. conn.count + 1 \in 0 .. MaxRetries
      BY <1>1, <1>6, Counts DEF Connection
    <3>2. d \in Connection
      BY <1>1, <3>1 DEF Connection
    <3> QED BY <1>1, <3>2 DEF Connection
  <2>2. conn.state # "CLOSED" => conn.fails < Backstop
    BY <1>1 DEF Whole, FlightOK
  <2>3. \A x \in results : x = <<d, {s}>>
    BY <1>6
  <2> HIDE DEF d
  <2>4. Whole(d, w, r, q, sent)
    BY <1>1, <2>1, <2>2, SameButTimers
  <2>5. sent \cup {s} = sent
    BY <1>3
  <2>6. Outcome(<<d, {s}>>, p, w, r, q, sent)
    BY <1>3, <1>4, <2>1, <2>4, <2>5 DEF Outcome
  <2>7. \A x \in results : Outcome(x, p, w, r, peer[p], sent)
    BY <2>3, <2>6 DEF q
  <2>8. sent' = sent
    BY <1>0, <2>3, <2>5 DEF Become
  <2> HIDE DEF results
  <2> QED BY <1>0, <1>1, <1>2, <2>7, <2>8, BecomeKeeps
<1> QED BY <1>5, <1>6

LEMMA PollRecvKeeps ==
  ASSUME IInv, NEW n \in 1 .. RecvSize, PollRecv(n)
  PROVE  IInv' /\ (conn.state = "CLOSED" => replied' = FALSE)
<1> DEFINE p == conn.port
           w == app.wrote
           r == app.read
           q == peer[p]
           m == Len(conn.recvq)
           y == SubSeq(conn.recvq, n + 1, m)
           e == r \o SubSeq(conn.recvq, 1, n)
           d == [conn EXCEPT !.recvq = y]
           fullIsh == RecvSize - Len(conn.recvq) < FullIsh
           yes == fullIsh /\ conn.state = "ESTABLISHED"
           results == {<<d, Answer(conn, yes)>>}
<1>1. n \in 1 .. m /\ UNCHANGED peer /\ Become(results) /\ app' = [app EXCEPT !.read = e]
  BY DEF PollRecv, Answer
<1>2. /\ p \in Port /\ p \in 0 .. Conns /\ w \in 0 .. OutLen /\ r \in Seq(Byte)
      /\ Whole(conn, w, r, q, sent) /\ p <= p /\ conn \in Connection
      /\ app = [wrote |-> w, read |-> r]
  <2>1. p \in Port
    <3>1. Len(<<>>) = 0
      OBVIOUS
    <3>2. p # 0
      BY <1>1, <3>1, InvParts DEF NoConn
    <3> QED BY <3>2, InvParts
  <2>2. p <= p
    BY <2>1, Counts DEF Port
  <2> QED BY <2>1, <2>2, InvParts
<1>3. app' = [wrote |-> w, read |-> e]
  BY <1>1, <1>2
<1>4. /\ conn.recvq \in Seq(Byte) /\ m \in Nat /\ m <= RecvSize /\ Len(r) \in Nat /\ n \in Nat
      /\ n <= m /\ r = Bytes(p, 0, Len(r)) /\ conn.recvq = Bytes(p, Len(r), m)
  BY <1>1, <1>2 DEF Whole, ReceiptOK, Connection
<1> HIDE DEF p, w, q, d, y, e, yes, m
<1>5. SubSeq(conn.recvq, 1, n) = Bytes(p, Len(r), n)
  <2>1. 0 \in 0 .. m /\ n \in 0 .. m /\ Len(r) \in Int /\ 0 + 1 = 1 /\ Len(r) + 0 = Len(r) /\ n - 0 = n
    BY <1>4
  <2>2. SubSeq(Bytes(p, Len(r), m), 0 + 1, n) = Bytes(p, Len(r) + 0, n - 0)
    BY <1>2, <1>4, <2>1, BytesCut
  <2> QED BY <1>4, <2>1, <2>2
<1>6. y = Bytes(p, Len(r) + n, m - n)
  <2>1. n \in 0 .. m /\ m \in n .. m /\ Len(r) \in Int
    BY <1>4
  <2>2. SubSeq(Bytes(p, Len(r), m), n + 1, m) = Bytes(p, Len(r) + n, m - n)
    BY <1>2, <1>4, <2>1, BytesCut
  <2> QED BY <1>4, <2>2 DEF y
<1>7. e = Bytes(p, 0, Len(r) + n)
  <2>1. Bytes(p, 0, Len(r)) \o Bytes(p, 0 + Len(r), n) = Bytes(p, 0, Len(r) + n)
    <3>1. 0 \in Int /\ Len(r) \in Nat /\ n \in Nat
      BY <1>4
    <3> HIDE DEF r
    <3> QED BY <1>2, <3>1, BytesJoin
  <2>2. 0 + Len(r) = Len(r)
    BY <1>4
  <2> QED BY <1>4, <1>5, <2>1, <2>2 DEF e
<1>8. /\ y \in Seq(Byte) /\ Len(y) = m - n /\ e \in Seq(Byte) /\ Len(e) = Len(r) + n
  <2>1. Len(r) + n \in Nat /\ m - n \in Nat /\ Len(r) + n \in Int /\ 0 \in Int
    BY <1>4
  <2>2. y \in Seq(Byte) /\ Len(y) = m - n
    BY <1>2, <1>6, <2>1, BytesSeq
  <2>3. e \in Seq(Byte) /\ Len(e) = Len(r) + n
    BY <1>2, <1>7, <2>1, BytesSeq
  <2> QED BY <2>2, <2>3
<1>9. /\ d \in Connection /\ d.state = conn.state /\ d.port = p /\ d.una = conn.una
      /\ d.nxt = conn.nxt /\ d.rcv = conn.rcv /\ d.sendq = conn.sendq /\ d.retx = conn.retx
      /\ d.len = conn.len /\ d.recvq = y /\ d.finSeen = conn.finSeen /\ d.fails = conn.fails
  <2>1. d = [conn EXCEPT !.recvq = y]
    BY DEF d
  <2>2. d \in Connection
    BY <1>2, <1>8, <2>1 DEF Connection
  <2> QED BY <1>2, <2>1, <2>2 DEF Connection, p
<1>10. Got(d, e) = Got(conn, r) /\ Len(d.recvq) = m - n
  <2>1. Len(d.recvq) = m - n
    BY <1>8, <1>9
  <2>2. Got(d, e) = (Len(r) + n) + (m - n)
    BY <1>8, <2>1 DEF Got
  <2>3. Got(conn, r) = Len(r) + m
    BY DEF Got, m
  <2> QED BY <1>4, <2>1, <2>2, <2>3
<1>11. QueueOK(d, w) /\ FlightOK(d, w) /\ PeerOK(d, w, q)
  BY <1>2, <1>9 DEF Whole, QueueOK, FlightOK, PeerOK, Acked, p
<1>12. ReceiptOK(d, e)
  <2>1. Len(d.recvq) <= RecvSize /\ Got(d, e) <= InLen
    <3>1. RecvSize \in Nat /\ m - n <= RecvSize
      BY <1>4, Counts
    <3> QED BY <1>2, <1>10, <3>1 DEF Whole, ReceiptOK
  <2>2. e = Bytes(d.port, 0, Len(e)) /\ d.recvq = Bytes(d.port, Len(e), Len(d.recvq))
    BY <1>6, <1>7, <1>8, <1>9
  <2> QED BY <1>2, <1>9, <1>10, <2>1, <2>2 DEF Whole, ReceiptOK, p
<1>13. WireOK(d, w, sent)
  <2>1. Resent(d) = Resent(conn)
    BY <1>9, ResentIs DEF p
  <2> QED BY <1>2, <1>9, <2>1, WireCarried DEF Whole, p
<1>14. Whole(d, w, e, q, sent)
  BY <1>9, <1>11, <1>12, <1>13 DEF Whole
<1>15. yes \in BOOLEAN /\ (yes => d.state # "SYN_SENT")
  BY <1>9 DEF yes
<1>16. Outcome(<<d, {}>>, p, w, e, q, sent)
  <2>1. sent \cup {} = sent
    OBVIOUS
  <2> QED BY <1>9, <1>14, <2>1 DEF Outcome
<1>17. Outcome(<<d, {} \cup Answer(conn, yes)>>, conn.port, w, e, q, sent)
  BY <1>2, <1>15, <1>16, Answered DEF p
<1>18. {} \cup Answer(conn, yes) = Answer(conn, yes)
  OBVIOUS
<1>19. \A x \in results : Outcome(x, p, w, e, peer[p], sent)
  BY <1>17, <1>18 DEF q, p
<1>20. ASSUME conn.state = "CLOSED" PROVE replied' = FALSE
  <2>1. Answer(conn, yes) = {}
    BY <1>20 DEF Answer, yes
  <2>2. PICK x \in results : replied' = (x[2] # {})
    BY <1>1 DEF Become
  <2>3. x[2] = {}
    BY <2>1
  <2> QED BY <2>2, <2>3
<1> HIDE DEF results
<1> QED BY <1>1, <1>2, <1>3, <1>8, <1>19, <1>20, BecomeKeeps DEF p

LEMMA HandlePacketKeeps ==
  ASSUME IInv, NEW s \in Arriving, HandlePacket(s)
  PROVE  IInv'
<1> DEFINE p == conn.port
           w == app.wrote
           r == app.read
           q == peer[p]
           c == TakeAck(conn, s)
           results == CASE "RST" \in s.flags -> TakeReset(conn, s)
                        [] OTHER ->
                           CASE c.state = "SYN_SENT" -> InSynSent(c, s)
                             [] c.state = "ESTABLISHED" -> InEstablished(c, s)
                             [] c.state = "FIN_WAIT_1" -> InFinWait1(c, s)
                             [] OTHER -> InFinWait2(c, s)
<1>1. conn.state # "CLOSED" /\ s.port = p /\ Become(results) /\ UNCHANGED <<app, peer>>
  BY DEF HandlePacket
<1>2. /\ p \in Port /\ w \in 0 .. OutLen /\ w \in Nat /\ r \in Seq(Byte) /\ q \in PeerEnd
      /\ Whole(conn, w, r, q, sent) /\ p <= p /\ conn \in Connection
      /\ app' = [wrote |-> w, read |-> r]
  <2>1. p \in Port
    BY <1>1, InvParts DEF NoConn
  <2>2. p <= p
    BY <2>1, Counts DEF Port
  <2>3. app' = [wrote |-> w, read |-> r]
    BY <1>1, InvParts
  <2> QED BY <2>1, <2>2, <2>3, InvParts
<1>3. Honest(s, p, q)
  BY <1>1, ArrivingHonest
<1> HIDE DEF w, r, q
<1>4. ASSUME NEW x \in results PROVE Outcome(x, p, w, r, q, sent)
  <2>1. CASE "RST" \in s.flags
    <3>1. x \in TakeReset(conn, s)
      BY <2>1, <1>4
    <3> HIDE DEF results
    <3> QED BY <1>2, <3>1, ResetWhole
  <2>2. CASE "RST" \notin s.flags /\ conn.state = "SYN_SENT"
    <3>1. c.state = "SYN_SENT"
      BY <1>2, <2>2 DEF TakeAck, Clear, Connection
    <3>2. x \in InSynSent(c, s)
      BY <1>4, <2>2, <3>1
    <3> HIDE DEF results
    <3> QED BY <1>2, <1>3, <2>2, <3>2, SynSentWhole
  <2>3. CASE "RST" \notin s.flags /\ conn.state # "SYN_SENT"
    <3>1. conn.state \in Up
      BY <1>1, <1>2, <2>3 DEF Connection, States, Up
    <3>2. /\ Whole(c, w, r, q, sent) /\ c.port = p /\ c.state = conn.state /\ c.nxt = conn.nxt
          /\ "ACK" \in s.flags /\ s.ack = conn.nxt => c.retx = "none"
      BY <1>2, <1>3, <2>3, <3>1, TakeAckWhole
    <3>3. Hearing(c, w, r, q, sent, s)
      BY <1>2, <1>3, <2>3, <3>1, <3>2 DEF Hearing
    <3>4. CASE conn.state = "ESTABLISHED"
      <4>1. x \in InEstablished(c, s)
        BY <1>4, <2>3, <3>2, <3>4
      <4> HIDE DEF results, c
      <4>2. Honest(s, c.port, q) /\ c.state = "ESTABLISHED" /\ c.port \in Port
        BY <1>2, <1>3, <3>2, <3>4
      <4> HIDE DEF p
      <4>3. Outcome(x, c.port, w, r, q, sent)
        BY <1>2, <2>3, <3>2, <4>1, <4>2, EstablishedWhole
      <4> QED BY <3>2, <4>3
    <3>5. CASE conn.state = "FIN_WAIT_1"
      <4>1. x \in InFinWait1(c, s)
        BY <1>4, <2>3, <3>2, <3>5
      <4> HIDE DEF results, c, p
      <4>2. c.state = "FIN_WAIT_1" /\ ("ACK" \in s.flags /\ s.ack = c.nxt => c.retx = "none")
        BY <3>2, <3>5
      <4>3. Outcome(x, c.port, w, r, q, sent)
        BY <3>3, <4>1, <4>2, FinWait1Whole
      <4> QED BY <3>2, <4>3
    <3>6. CASE conn.state = "FIN_WAIT_2"
      <4>1. x \in InFinWait2(c, s)
        BY <1>4, <2>3, <3>2, <3>6
      <4> HIDE DEF results, c, p
      <4>2. c.state = "FIN_WAIT_2"
        BY <3>2, <3>6
      <4>3. Outcome(x, c.port, w, r, q, sent)
        BY <3>3, <4>1, <4>2, FinWait2Whole
      <4> QED BY <3>2, <4>3
    <3> QED BY <3>1, <3>4, <3>5, <3>6 DEF Up
  <2> QED BY <2>1, <2>2, <2>3
<1> HIDE DEF results
<1>5. \A x \in results : Outcome(x, p, w, r, peer[p], sent)
  BY <1>4 DEF q
<1> QED BY <1>1, <1>2, <1>5, BecomeKeeps

(* The other end of one connection moves: what it got is what was written. *)
LEMMA PeerMoves ==
  ASSUME IInv, NEW p \in Port, p <= conn.port, NEW e \in PeerEnd,
         peer' = [peer EXCEPT ![p] = e], UNCHANGED <<conn, app, sent>>, replied' = FALSE,
         p = conn.port => PeerOK(conn, app.wrote, e)
  PROVE  IInv'
<1>1. conn.port \in 0 .. Conns /\ peer \in [Port -> PeerEnd] /\ conn.port \in Port
  <2>1. conn.port \in 0 .. Conns /\ peer \in [Port -> PeerEnd]
    BY InvParts DEF IInv, Typed
  <2> QED BY <2>1, Counts DEF Port
<1>2. Typed'
  BY <1>1 DEF IInv, Typed
<1>3. peer'[conn.port] = IF conn.port = p THEN e ELSE peer[conn.port]
  BY <1>1
<1>4. Whole(conn, app.wrote, app.read, peer'[conn.port], sent)
  BY <1>1, <1>3 DEF IInv, Whole
<1>5. ASSUME NEW i \in Port, i > conn.port PROVE peer'[i] = NewPeer
  <2>1. i # p
    BY <1>1, <1>5 DEF Port
  <2> QED BY <1>1, <1>5, <2>1 DEF IInv
<1>6. conn.port # 0
  BY <1>1 DEF Port
<1> QED BY <1>2, <1>4, <1>5, <1>6 DEF IInv

LEMMA PeerReceiveKeeps ==
  ASSUME IInv, PeerReceive
  PROVE  IInv'
<1>1. PICK s \in sent : PeerTakes(s.port, s) /\ UNCHANGED <<conn, app, sent>> /\ replied' = FALSE
  BY DEF PeerReceive
<1> DEFINE p == s.port
           q == peer[p]
           w == app.wrote
           g == Len(q.got)
           already == Signed(Minus(Plus(Iss[p], 1 + g), s.seq))
<1>2. /\ p \in Port /\ p <= conn.port /\ s \in OnWire /\ q \in PeerEnd /\ g \in Nat
      /\ Iss[p] \in SeqNums /\ p \in 0 .. Conns /\ w \in Nat /\ w <= OutLen /\ OutLen \in Nat
  <2>1. s \in OnWire /\ p \in Port /\ p <= conn.port
    BY DEF IInv, Typed, OnWire
  <2>2. q \in PeerEnd /\ g \in Nat
    BY <2>1 DEF IInv, Typed, PeerEnd
  <2>3. p \in 0 .. Conns /\ w \in Nat /\ w <= OutLen /\ OutLen \in Nat
    BY <2>1, InvParts, Counts DEF Port
  <2> QED BY <2>1, <2>2, <2>3, InitialSeqs
<1>3. p = conn.port => Whole(conn, w, app.read, q, sent) /\ PeerOK(conn, w, q) /\ Says(conn, w, s)
  BY <1>2 DEF IInv, Whole, WireOK
<1>4. CASE s.kind = "syn"
  <2> DEFINE e == [q EXCEPT !.state = "synrcvd"]
  <2>1. peer' = [peer EXCEPT ![p] = e]
    BY <1>1, <1>4 DEF PeerTakes
  <2>2. e \in PeerEnd /\ e.got = q.got /\ e.finGot = q.finGot /\ e.state = "synrcvd"
    BY <1>2 DEF PeerEnd
  <2> HIDE DEF e
  <2>3. p = conn.port => PeerOK(conn, w, e)
    BY <1>3, <2>2 DEF PeerOK
  <2> QED BY <1>1, <1>2, <2>1, <2>2, <2>3, PeerMoves
<1>5. CASE s.kind = "ack"
  <2> DEFINE e == [q EXCEPT !.state = "up"]
  <2>1. peer' = [peer EXCEPT ![p] = e]
    BY <1>1, <1>5 DEF PeerTakes
  <2>2. e \in PeerEnd /\ e.got = q.got /\ e.finGot = q.finGot
    BY <1>2 DEF PeerEnd
  <2> HIDE DEF e
  <2>3. p = conn.port => PeerOK(conn, w, e)
    BY <1>3, <1>5, <2>2 DEF PeerOK, Says
  <2> QED BY <1>1, <1>2, <2>1, <2>2, <2>3, PeerMoves
<1>6. CASE s.kind = "data"
  <2>1. PICK n \in already + 1 .. Len(s.data) :
          /\ already >= 0 /\ ~q.finGot
          /\ peer' = [peer EXCEPT ![p] = [q EXCEPT !.got = @ \o SubSeq(s.data, already + 1, n),
                                                   !.state = "up"]]
    BY <1>1, <1>6 DEF PeerTakes
  <2> DEFINE y == SubSeq(s.data, already + 1, n)
             e == [q EXCEPT !.got = @ \o y, !.state = "up"]
             l == Len(s.data)
  <2>2. s.data \in Seq(Byte) /\ l \in Nat /\ s.seq \in SeqNums
    BY <1>2 DEF OnWire
  <2>3. already \in Nat /\ n \in 1 .. l /\ already + 1 <= n
    <3>1. Plus(Iss[p], 1 + g) \in SeqNums
      <4>1. 1 + g \in Nat
        BY <1>2
      <4> QED BY <1>2, <4>1, PlusFacts
    <3>2. already \in Int
      <4> DEFINE u == Plus(Iss[p], 1 + g)
      <4> HIDE DEF u
      <4>1. Signed(Minus(u, s.seq)) \in Int
        <5>1. u \in Int /\ s.seq \in Int /\ SeqSpace \in Nat \ {0}
          BY <2>2, <3>1, Counts, ShortStreams DEF u, SeqNums
        <5>2. Minus(u, s.seq) \in Int
          BY <5>1 DEF Minus
        <5> QED BY <5>1, <5>2 DEF Signed
      <4> QED BY <4>1 DEF u
    <3> HIDE DEF already
    <3> QED BY <2>1, <2>2, <3>2
  <2> HIDE DEF already
  <2>4. y \in Seq(Byte)
    BY <2>2, <2>3
  <2>5. q.got \o y \in Seq(Byte)
    <3> HIDE DEF y, q
    <3> QED BY <1>2, <2>4, Joined DEF PeerEnd
  <2>6. e = [q EXCEPT !.got = q.got \o y, !.state = "up"]
    OBVIOUS
  <2>7. peer' = [peer EXCEPT ![p] = e]
    BY <2>1
  <2>8. p = conn.port => q.got \o y = Bytes(p, 0, Len(q.got \o y)) /\ Len(q.got \o y) <= w
                         /\ g <= Len(q.got \o y) /\ conn.state # "SYN_SENT"
    <3>0. SUFFICES ASSUME p = conn.port
                   PROVE  /\ q.got \o y = Bytes(p, 0, Len(q.got \o y)) /\ Len(q.got \o y) <= w
                          /\ g <= Len(q.got \o y) /\ conn.state # "SYN_SENT"
      OBVIOUS
    <3>1. conn.state # "SYN_SENT" /\ q.got = Bytes(p, 0, g) /\ g <= w
      BY <1>3, <1>6, <3>0 DEF Says, PeerOK
    <3>2. PICK k \in 0 .. w : k + l <= w /\ s.seq = Plus(Iss[p], 1 + k) /\ s.data = Bytes(p, k, l)
      BY <1>3, <1>6, <3>0 DEF Says
    <3>3. already = g - k
      <4>1. 1 + g \in Nat /\ 1 + k \in Nat /\ (1 + g) - (1 + k) = g - k
        BY <1>2
      <4>2. 2 * ((1 + g) - (1 + k)) < SeqSpace /\ 2 * ((1 + k) - (1 + g)) < SeqSpace
        <5>1. g <= OutLen /\ k <= OutLen /\ k \in Nat /\ SeqSpace \in Nat
          <6> HIDE DEF g, w
          <6>1. SeqSpace \in Nat
            BY Counts
          <6> QED BY <1>2, <3>1, <6>1
        <5> QED BY <1>2, <5>1, ShortStreams
      <4> DEFINE i == Iss[p]
      <4> HIDE DEF i, g
      <4>3. Signed(Minus(Plus(i, 1 + g), Plus(i, 1 + k))) = (1 + g) - (1 + k)
        BY <1>2, <4>1, <4>2, Distance DEF i
      <4> QED BY <3>2, <4>1, <4>3 DEF already, i
    <3> HIDE DEF g, l
    <3>4. y = Bytes(p, g, n - already)
      <4>1. already \in 0 .. l /\ n \in already .. l /\ k + already = g /\ k \in Int
        BY <1>2, <2>2, <2>3, <3>3
      <4>2. SubSeq(Bytes(p, k, l), already + 1, n) = Bytes(p, k + already, n - already)
        BY <1>2, <2>2, <4>1, BytesCut
      <4> QED BY <3>2, <4>1, <4>2
    <3> DEFINE m == n - already
    <3>5. m \in Nat /\ g + m = k + n /\ g + m <= w /\ g + m \in Nat /\ g <= g + m
      BY <1>2, <2>2, <2>3, <3>2, <3>3
    <3> HIDE DEF m, y, q
    <3>6. q.got \o y = Bytes(p, 0, g + m)
      <4>1. Bytes(p, 0, g) \o Bytes(p, 0 + g, m) = Bytes(p, 0, g + m)
        <5>1. 0 \in Int
          OBVIOUS
        <5> QED BY <1>2, <3>5, <5>1, BytesJoin
      <4>2. 0 + g = g
        BY <1>2
      <4> QED BY <3>1, <3>4, <4>1, <4>2 DEF m
    <3>7. Len(q.got \o y) = g + m
      <4>1. 0 \in Int
        OBVIOUS
      <4>2. Len(Bytes(p, 0, g + m)) = g + m
        BY <1>2, <3>5, <4>1, BytesSeq
      <4> QED BY <3>6, <4>2
    <3> QED BY <3>1, <3>5, <3>6, <3>7
  <2> DEFINE t == q.got \o y
  <2> HIDE DEF t, g
  <2>9. e \in PeerEnd /\ e.got = t /\ e.finGot = q.finGot /\ e.state = "up" /\ t \in Seq(Byte)
    <3>1. t \in Seq(Byte) /\ e = [q EXCEPT !.got = t, !.state = "up"]
      BY <2>5, <2>6 DEF t
    <3> HIDE DEF e
    <3> QED BY <1>2, <3>1 DEF PeerEnd
  <2> HIDE DEF e
  <2>10. p = conn.port => PeerOK(conn, w, e)
    <3>0. SUFFICES ASSUME p = conn.port PROVE PeerOK(conn, w, e)
      OBVIOUS
    <3>1. t = Bytes(p, 0, Len(t)) /\ Len(t) <= w /\ g <= Len(t) /\ conn.state # "SYN_SENT"
      BY <2>8, <3>0 DEF t
    <3>2. Acked(conn, w) <= g
      BY <1>3, <3>0 DEF PeerOK, g
    <3>3. Acked(conn, w) <= Len(t)
      <4>1. Len(t) \in Nat /\ Acked(conn, w) \in Int
        BY <1>2, <2>9, InvParts DEF Acked, Connection
      <4> QED BY <1>2, <3>1, <3>2, <4>1
    <3> QED BY <2>1, <2>9, <3>0, <3>1, <3>3 DEF PeerOK
  <2> QED BY <1>1, <1>2, <2>7, <2>9, <2>10, PeerMoves
<1>7. CASE s.kind = "fin"
  <2> DEFINE e == [q EXCEPT !.finGot = TRUE, !.state = "up"]
  <2>1. peer' = [peer EXCEPT ![p] = e] /\ s.seq = Plus(Iss[p], 1 + g)
    BY <1>1, <1>7 DEF PeerTakes
  <2>2. e \in PeerEnd /\ e.got = q.got /\ e.finGot = TRUE
    BY <1>2 DEF PeerEnd
  <2> HIDE DEF e
  <2>3. p = conn.port => PeerOK(conn, w, e)
    <3>0. SUFFICES ASSUME p = conn.port PROVE PeerOK(conn, w, e)
      OBVIOUS
    <3>1. s.seq = Plus(Iss[p], 1 + w) /\ conn.state \in {"FIN_WAIT_1", "FIN_WAIT_2", "CLOSED"} /\ g <= w
      BY <1>3, <1>7, <3>0 DEF Says, PeerOK
    <3>2. g = w
      <4>1. 1 + g \in Nat /\ 1 + w \in Nat
        BY <1>2
      <4>2. (1 + g) - (1 + w) < SeqSpace /\ (1 + w) - (1 + g) < SeqSpace
        <5>1. SeqSpace \in Nat /\ OutLen < SeqSpace
          BY Counts, ShortStreams
        <5>2. g \in Nat /\ w \in Nat /\ w <= OutLen /\ g <= w /\ OutLen \in Nat
          BY <1>2, <3>1, Counts
        <5> HIDE DEF g, w
        <5> QED BY <5>1, <5>2
      <4> DEFINE a == 1 + g
                 b == 1 + w
      <4> HIDE DEF a, b
      <4>3. Plus(Iss[p], a) = Plus(Iss[p], b)
        BY <2>1, <3>1 DEF a, b
      <4>4. a = b
        BY <1>2, <4>1, <4>2, <4>3, PlusDiffers DEF a, b
      <4> QED BY <1>2, <4>4 DEF a, b
    <3> QED BY <1>3, <2>2, <3>0, <3>1, <3>2 DEF PeerOK
  <2> QED BY <1>1, <1>2, <2>1, <2>2, <2>3, PeerMoves
<1> QED BY <1>2, <1>4, <1>5, <1>6, <1>7 DEF OnWire

LEMMA PeerResetsKeeps ==
  ASSUME IInv, PeerResets
  PROVE  IInv'
<1>1. PICK p \in Port : /\ \E s \in sent : s.port = p
                        /\ peer' = [peer EXCEPT ![p] = [peer[p] EXCEPT !.state = "reset"]]
                        /\ UNCHANGED <<conn, app, sent>> /\ replied' = FALSE
  BY DEF PeerResets
<1> DEFINE e == [peer[p] EXCEPT !.state = "reset"]
<1>2. p <= conn.port /\ peer[p] \in PeerEnd
  BY <1>1 DEF IInv, Typed
<1>3. e \in PeerEnd /\ e.got = peer[p].got /\ e.finGot = peer[p].finGot /\ e.state = "reset"
  BY <1>2 DEF PeerEnd
<1>4. peer' = [peer EXCEPT ![p] = e]
  BY <1>1
<1> HIDE DEF e
<1>5. p = conn.port => PeerOK(conn, app.wrote, e)
  BY <1>3 DEF IInv, Whole, PeerOK
<1> QED BY <1>1, <1>2, <1>3, <1>4, <1>5, PeerMoves

-----------------------------------------------------------------------------
LEMMA InitHolds == Init => IInv
<1> SUFFICES ASSUME Init PROVE IInv
  OBVIOUS
<1>1. conn = NoConn /\ app = [wrote |-> 0, read |-> <<>>] /\ peer = [p \in Port |-> NewPeer]
      /\ sent = {} /\ replied = FALSE
  BY DEF Init
<1>2. /\ 0 \in 0 .. OutLen /\ 0 \in Nat /\ <<>> \in Seq(Byte) /\ 0 \in 0 .. MaxRetries
      /\ 0 \in 0 .. Backstop /\ 0 \in SeqNums /\ 0 \in 0 .. Conns
  BY Counts, ShortStreams DEF SeqNums
<1>3. NoConn \in Connection
  BY <1>2 DEF NoConn, Connection, States
<1>4. NewPeer \in PeerEnd
  BY <1>2 DEF NewPeer, PeerEnd
<1>5. Typed
  BY <1>1, <1>2, <1>3, <1>4 DEF Typed
<1>6. conn.port = 0 /\ 0 \notin Port
  BY <1>1 DEF NoConn, Port
<1> QED BY <1>1, <1>5, <1>6 DEF IInv

LEMMA StepHolds == IInv /\ [Next]_vars => IInv'
<1> SUFFICES ASSUME IInv, [Next]_vars PROVE IInv'
  OBVIOUS
<1>1. CASE Connect
  BY <1>1, ConnectKeeps
<1>2. CASE Close
  BY <1>2, CloseKeeps
<1>3. CASE Retransmit
  BY <1>3, RetransmitKeeps
<1>4. CASE PollPump
  BY <1>4, PollPumpKeeps
<1>5. ASSUME NEW n \in 1 .. OutLen, SendData(n) PROVE IInv'
  BY <1>5, SendDataKeeps
<1>6. ASSUME NEW n \in 1 .. RecvSize, PollRecv(n) PROVE IInv'
  BY <1>6, PollRecvKeeps
<1>7. ASSUME NEW s \in Arriving, HandlePacket(s) PROVE IInv'
  BY <1>7, HandlePacketKeeps
<1>8. ASSUME NEW s \in Arriving, IgnorePacket(s) PROVE IInv'
  BY <1>8, Unmoved DEF IgnorePacket
<1>9. CASE PeerReceive
  BY <1>9, PeerReceiveKeeps
<1>10. CASE PeerResets
  BY <1>10, PeerResetsKeeps
<1>11. CASE UNCHANGED vars
  <2>1. UNCHANGED <<conn, app, peer, sent>> /\ replied' \in BOOLEAN
    BY <1>11 DEF vars, IInv, Typed
  <2> QED BY <2>1, Unmoved
<1> QED BY <1>1, <1>2, <1>3, <1>4, <1>5, <1>6, <1>7, <1>8, <1>9, <1>10, <1>11 DEF Next, Kernel

LEMMA InvHolds == Spec => []IInv
BY InitHolds, StepHolds, PTL DEF Spec

(* The numbers of the connection stay inside their ranges, whatever is written, sent, lost,
   repeated or reset (tcp_handle_packet, tcp_pump_send, tcp_poll_retransmit). *)
THEOREM ConnectionTyped == Spec => []TypeOK
<1>1. IInv => TypeOK
  <2> SUFFICES ASSUME IInv PROVE TypeOK
    OBVIOUS
  <2>1. conn \in Connection /\ app \in [wrote : 0 .. OutLen, read : Seq(Byte)] /\ peer \in [Port -> PeerEnd]
    BY DEF IInv, Typed
  <2>2. Len(conn.sendq) <= SendSize /\ Len(conn.recvq) <= RecvSize /\ conn.len <= Len(conn.sendq)
    <3>1. CASE conn.port = 0
      <4>1. Len(<<>>) = 0
        OBVIOUS
      <4>2. conn.sendq = <<>> /\ conn.recvq = <<>> /\ conn.len = 0
        BY <3>1 DEF IInv, NoConn
      <4> QED BY <4>1, <4>2, Counts
    <3>2. CASE conn.port \in Port
      BY <3>2 DEF IInv, Whole, QueueOK, ReceiptOK
    <3> QED BY <3>1, <3>2, InvParts
  <2>3. conn.count <= MaxRetries /\ conn.fails < Backstop + 1
    <3>1. conn.count \in 0 .. MaxRetries
      BY <2>1 DEF Connection
    <3>2. conn.fails \in 0 .. Backstop
      BY <2>1 DEF Connection
    <3>3. Backstop \in Nat /\ MaxRetries \in Nat
      BY Counts
    <3> QED BY <3>1, <3>2, <3>3
  <2>4. \A p \in Port : peer[p].state \in {"listen", "synrcvd", "up", "reset"}
    BY <2>1 DEF PeerEnd
  <2> QED BY <2>1, <2>2, <2>3, <2>4 DEF TypeOK, Connection
<1> QED BY <1>1, InvHolds, PTL

LEMMA PrefixOfBytes ==
  ASSUME NEW p \in 0 .. Conns, NEW n \in Nat, NEW m \in Nat, n <= m
  PROVE  IsPrefix(Bytes(p, 0, n), Stream(p, m))
<1>1. /\ 0 \in Int /\ 0 \in 0 .. n /\ 0 \in 0 .. m /\ n \in 0 .. n /\ n \in 0 .. m /\ 0 + 1 = 1
      /\ 0 + 0 = 0 /\ n - 0 = n
  OBVIOUS
<1>2. Stream(p, m) = Bytes(p, 0, m)
  BY StreamIs
<1>3. Len(Bytes(p, 0, n)) = n /\ Len(Bytes(p, 0, m)) = m
  BY <1>1, BytesSeq
<1>4. SubSeq(Bytes(p, 0, n), 0 + 1, n) = Bytes(p, 0 + 0, n - 0)
  BY <1>1, BytesCut
<1>5. SubSeq(Bytes(p, 0, m), 0 + 1, n) = Bytes(p, 0 + 0, n - 0)
  BY <1>1, BytesCut
<1>6. Len(Bytes(p, 0, n)) <= Len(Bytes(p, 0, m))
  BY <1>3
<1>7. SubSeq(Bytes(p, 0, n), 1, Len(Bytes(p, 0, n))) = SubSeq(Bytes(p, 0, m), 1, Len(Bytes(p, 0, n)))
  BY <1>1, <1>3, <1>4, <1>5
<1> QED BY <1>2, <1>6, <1>7 DEF IsPrefix

(* Whatever the network loses, repeats, delays or reorders, and wherever the sequence numbers
   wrap, the application reads the peer's stream in order and the peer gets the application's:
   no byte out of place, lost or made up, and a FIN is believed only after all of it (tcp.h). *)
THEOREM StreamsStayTrue == Spec => []StreamsTrue
<1>1. IInv => StreamsTrue
  <2> SUFFICES ASSUME IInv PROVE StreamsTrue
    OBVIOUS
  <2> DEFINE p == conn.port
             r == app.read
             w == app.wrote
             g == Got(conn, r)
             f == IF conn.finSeen THEN 1 ELSE 0
  <2>0. p \in 0 .. Conns /\ InLen \in Nat /\ w \in Nat /\ r \in Seq(Byte) /\ conn \in Connection
    BY InvParts, Counts
  <2>1. CASE p = 0
    <3>1. conn = NoConn /\ r = <<>>
      BY <2>1 DEF IInv
    <3>2. Received = <<>>
      BY <3>1 DEF Received, NoConn
    <3>3. Bytes(p, 0, 0) = <<>>
      <4>0. p \in 0 .. Conns /\ 0 \in Int /\ 0 \in Nat
        BY <2>0
      <4>1. Bytes(p, 0, 0) \in Seq(Byte) /\ Len(Bytes(p, 0, 0)) = 0
        <5> HIDE DEF p
        <5> QED BY <4>0, BytesSeq
      <4> QED BY <4>1
    <3>4. IsPrefix(Received, Stream(p, InLen))
      <4>1. 0 \in Nat /\ 0 <= InLen
        BY <2>0
      <4> QED BY <2>0, <3>2, <3>3, <4>1, PrefixOfBytes
    <3> QED BY <2>1, <3>1, <3>4 DEF StreamsTrue, InOrder, NothingLost, FinAfterAll, NoConn
  <2>2. CASE p \in Port
    <3> DEFINE q == peer[p]
               a == Acked(conn, w)
               l == Len(conn.sendq)
    <3>1. Whole(conn, w, r, q, sent) /\ q \in PeerEnd
      BY <2>2, InvParts
    <3>2. /\ Len(r) \in Nat /\ Len(conn.recvq) \in Nat /\ g = Len(r) + Len(conn.recvq) /\ g <= InLen
          /\ r = Bytes(p, 0, Len(r)) /\ conn.recvq = Bytes(p, Len(r), Len(conn.recvq))
      BY <2>0, <3>1 DEF Whole, ReceiptOK, Got, Connection
    <3>3. Received = Bytes(p, 0, g) /\ Len(Received) = g /\ g \in Nat
      <4> DEFINE i == Len(r)
                 j == Len(conn.recvq)
      <4>0. i \in Nat /\ j \in Nat /\ g = i + j
        BY <3>2
      <4> HIDE DEF i, j, g
      <4>1. i \in Nat /\ j \in Nat /\ 0 + i = i /\ g = i + j /\ g \in Nat /\ 0 \in Int
        BY <4>0
      <4>2. Bytes(p, 0, i) \o Bytes(p, 0 + i, j) = Bytes(p, 0, i + j)
        BY <2>0, <4>1, BytesJoin
      <4>3. r \o conn.recvq = Bytes(p, 0, g)
        BY <3>2, <4>1, <4>2 DEF i, j
      <4>4. Len(Bytes(p, 0, g)) = g
        BY <2>0, <4>1, BytesSeq
      <4> QED BY <4>1, <4>3, <4>4 DEF Received
    <3>4. InOrder
      <4>1. IsPrefix(Received, Stream(p, InLen))
        <5> HIDE DEF g, p
        <5> QED BY <2>0, <3>2, <3>3, PrefixOfBytes
      <4>2. ASSUME conn.state \notin {"CLOSED", "SYN_SENT"}
            PROVE  conn.rcv = Plus(PeerIss[p], 1 + Len(Received) + f)
        <5>1. conn.state \in {"ESTABLISHED", "FIN_WAIT_1", "FIN_WAIT_2"}
          BY <2>0, <4>2 DEF Connection, States
        <5> QED BY <3>1, <3>3, <5>1 DEF Whole, ReceiptOK
      <4> QED BY <4>1, <4>2 DEF InOrder
    <3>5. /\ q.got = Bytes(p, 0, Len(q.got)) /\ a <= Len(q.got) /\ Len(q.got) <= w
          /\ conn.sendq = Bytes(p, a, l) /\ a \in Nat /\ a + l = w /\ Len(q.got) \in Nat /\ l \in Nat
      BY <2>0, <3>1 DEF Whole, PeerOK, QueueOK, Acked, Connection, PeerEnd
    <3>6. NothingLost
      <4> HIDE DEF l
      <4>1. IsPrefix(q.got, Stream(p, w))
        <5> DEFINE n == Len(q.got)
        <5>1. n \in Nat /\ n <= w /\ q.got = Bytes(p, 0, n)
          BY <3>5
        <5> HIDE DEF n, w, p, q
        <5> QED BY <2>0, <5>1, PrefixOfBytes
      <4>2. a \in 0 .. Len(q.got)
        BY <3>5
      <4>3. conn.sendq = SubSeq(Stream(p, w), a + 1, w)
        <5> HIDE DEF a
        <5>1. Stream(p, w) = Bytes(p, 0, w)
          BY <2>0, StreamIs
        <5>2. a \in 0 .. w /\ w \in a .. w /\ 0 \in Int /\ 0 + a = a /\ w - a = l
          BY <2>0, <3>5
        <5>3. SubSeq(Bytes(p, 0, w), a + 1, w) = Bytes(p, 0 + a, w - a)
          BY <2>0, <5>2, BytesCut
        <5> QED BY <3>5, <5>1, <5>2, <5>3
      <4> QED BY <4>1, <4>2, <4>3 DEF NothingLost, Acked
    <3>7. FinAfterAll
      BY <3>1, <3>3 DEF Whole, ReceiptOK, PeerOK, FinAfterAll
    <3> QED BY <3>4, <3>6, <3>7 DEF StreamsTrue
  <2> QED BY <2>1, <2>2, InvParts
<1> QED BY <1>1, InvHolds, PTL

(* A connection that is closed or given up never transmits again, and what is sent again is
   what was sent, at the same number (tcp_clear_retransmit, tcp_poll_retransmit). *)
THEOREM WireStaysTrue == Spec => WireTrue
<1>1. IInv /\ [Next]_vars => [Retransmit => sent' = sent]_vars
  BY RetransmitKeeps
<1>2. IInv /\ [Next]_vars => [conn.state = "CLOSED" /\ conn'.port = conn.port => ~replied']_vars
  <2> SUFFICES ASSUME IInv, Next, conn.state = "CLOSED", conn'.port = conn.port PROVE replied' = FALSE
    OBVIOUS
  <2>1. CASE Connect
    <3> DEFINE p == conn.port + 1
               c == [NoConn EXCEPT !.port = p, !.una = Iss[p], !.nxt = Iss[p]]
               syn == [Arm(c, "syn", 0) EXCEPT !.state = "SYN_SENT", !.nxt = Plus(@, 1)]
    <3>1. c.port = p /\ syn.port = p
      BY DEF NoConn, Arm
    <3>2. conn' = c \/ conn' = syn
      BY <2>1 DEF Connect, Become
    <3> HIDE DEF c, syn
    <3>3. conn'.port = conn.port + 1 /\ conn.port \in Nat
      BY <3>1, <3>2, InvParts, Counts
    <3> QED BY <3>3
  <2>2. CASE Close \/ \E n \in 1 .. OutLen : SendData(n)
    BY <2>2 DEF Close, SendData
  <2>3. CASE Retransmit
    <3>1. conn.retx = "none"
      BY InvParts DEF Whole, FlightOK, NoConn
    <3> QED BY <2>3, <3>1 DEF Retransmit
  <2>4. CASE PollPump
    <3>1. Pump(conn) = {<<conn, {}>>}
      BY DEF Pump
    <3>2. PICK x \in Pump(conn) : replied' = (x[2] # {})
      BY <2>4 DEF PollPump, Become
    <3>3. x[2] = {}
      BY <3>1
    <3> QED BY <3>2, <3>3
  <2>5. ASSUME NEW n \in 1 .. RecvSize, PollRecv(n) PROVE replied' = FALSE
    BY <2>5, PollRecvKeeps
  <2>6. ASSUME NEW s \in Arriving, HandlePacket(s) \/ IgnorePacket(s) PROVE replied' = FALSE
    BY <2>6 DEF HandlePacket, IgnorePacket
  <2>7. CASE PeerReceive \/ PeerResets
    BY <2>7 DEF PeerReceive, PeerResets
  <2> QED BY <2>1, <2>2, <2>3, <2>4, <2>5, <2>6, <2>7 DEF Next, Kernel
<1> QED BY <1>1, <1>2, InvHolds, PTL DEF Spec, WireTrue, ClosedIsSilent, RetransmitsTheSame
=============================================================================
