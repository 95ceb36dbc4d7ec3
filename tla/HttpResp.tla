------------------------------ MODULE HttpResp ------------------------------
(* src/kernel/httpresp.h and the reading half of http.h and https.h: one response,
   fed to the shared buffer in the pieces the transport happens to have.  A byte is
   a hex digit, CR, LF, Semi or Data; the status line and the fields are one byte
   Fields that stands for the record `resp`.  Offsets count from 0
   as in the code. *)
EXTENDS Naturals, Sequences, SequencesExt

CONSTANTS Bodies,     (* what servers have to say: sequences of bytes *)
          Codings,    (* lists of transfer codings servers apply *)
          Statuses,   (* of 200, 204, 302 *)
          Framings,   (* of "length", "chunks", "close" *)
          BufSize,    (* HR_BUF_SIZE in bytes *)
          Piece,      (* bytes one tcp_poll_recv() of the client takes *)
          Rounds      (* receives in one http_poll() *)

VARIABLES resp,       (* the server's response: what it means *)
          wire,       (* ... and the bytes it sends *)
          link,       (* [arrived, closed]: bytes that have come, and whether the server has closed *)
          hr,         (* hr, without the buffer *)
          buf,        (* HR_BUF up to hr.len *)
          got         (* [fed, state]: bytes fed to the parser, the client's state *)
httpVars == <<resp, wire, link, hr, buf, got>>

CR == 16
LF == 17
Semi == 18
Data == 19
Fields == 20
Crlf == <<CR, LF>>

ConstantsOK == BufSize \in Nat /\ Piece \in Nat \ {0} /\ Rounds \in Nat \ {0}

(* HR_TOK_HAS, HR_TOK_LAST and HR_TOK_OTHER of a list of codings. *)
Has(list, word) == word \in Range(list)
LastIs(list, word) == list # <<>> /\ Last(list) = word
Others(list, words) == Range(list) \ words # {}

(* A chunk: its size, an extension or none, its bytes. *)
ChunkOf(data, ext) == <<Len(data)>> \o ext \o Crlf \o data \o Crlf
Head5 == <<Fields>> \o Crlf \o Crlf
(* The ways to send `body` as a chunk, or as two. *)
InChunks(body) ==
  LET Closing(ext) == <<0>> \o ext \o Crlf \o Crlf
  IN IF body = <<>> THEN {Closing(<<>>)}
     ELSE {ChunkOf(body, ext) \o Closing(ext) : ext \in {<<>>, <<Semi>>}}
          \cup {ChunkOf(SubSeq(body, 1, k), <<>>) \o ChunkOf(SubSeq(body, k + 1, Len(body)), <<Semi>>) \o Closing(<<>>)
                : k \in 1 .. Len(body) - 1}

(* The responses of conforming servers, with the bytes they are sent in. *)
Bodiless(r) == r.status \in {204}
Sent(r) ==
  CASE Bodiless(r) -> {Head5}
    [] LastIs(r.te, "chunked") -> {Head5 \o c : c \in InChunks(r.body)}
    [] OTHER -> {Head5 \o r.body}
Responses ==
  {r \in [status : Statuses, te : Codings, body : Bodies, framing : Framings] :
     /\ r.framing = "chunks" <=> LastIs(r.te, "chunked")
     /\ r.framing = "length" => r.te \in {<<>>, <<"identity">>}}

(* hr_reset *)
NoResponse ==
  [truncated |-> FALSE, too_big |-> FALSE, hdr_done |-> FALSE, body_start |-> 0, chunked |-> FALSE,
   have_clen |-> FALSE, clen |-> 0, encoded |-> FALSE, complete |-> FALSE, chunk_pos |-> 0,
   redirect |-> FALSE, finished |-> FALSE, body |-> <<>>]

Init ==
  /\ resp \in Responses
  /\ wire \in Sent(resp)
  /\ link = [arrived |-> 0, closed |-> FALSE]
  /\ hr = NoResponse
  /\ buf = <<>>
  /\ got = [fed |-> 0, state |-> "awaiting"]

(* hr_parse_headers: what the fields say of the body. *)
ParseHeaders(h, at) ==
  LET te == resp.te
      clen == resp.framing = "length"
  IN [h EXCEPT !.hdr_done = TRUE, !.body_start = at, !.chunk_pos = at,
        !.redirect = resp.status = 302,
        !.have_clen = clen, !.clen = IF clen THEN Len(resp.body) ELSE 0,
        !.chunked = LastIs(te, "chunked"),
        !.encoded = \/ Others(te, {"chunked", "identity"})
                    \/ Has(te, "chunked") /\ ~LastIs(te, "chunked")]
(* The end of the line that starts at p: the offset of its CR, or the end of the
   buffer while its LF is not there. *)
LineEnd(b, p) ==
  LET ends == {i \in p .. Len(b) - 2 : b[i + 1] = CR /\ b[i + 2] = LF}
  IN IF ends = {} THEN Len(b) ELSE CHOOSE i \in ends : \A j \in ends : i <= j
Arrived(b, p) == LineEnd(b, p) + 1 < Len(b)

(* The size on the chunk line from p, which stops at the first byte that is no
   digit; -1 is a line without one. *)
Size(b, p) ==
  LET digits == SelectInSeq(SubSeq(b, p + 1, LineEnd(b, p)), LAMBDA c : c \notin 0 .. 15)
      n == IF digits = 0 THEN LineEnd(b, p) - p ELSE digits - 1
      N[k \in 0 .. n] == IF k = 0 THEN 0 ELSE (16 * N[k - 1] + b[p + k]) % 2 ^ 16
  IN IF n = 0 THEN -1 ELSE N[n]

(* A chunk counts when its bytes and the line end after them are there. *)
AllThereUnclosed(b, next) == next - 2 <= Len(b)
AllThere(b, next) == next <= Len(b)

(* hr_walk_chunks: as far as the bytes received allow, [pos, complete]. *)
RECURSIVE WalkChunks(_, _)
WalkChunks(b, p) ==
  IF ~Arrived(b, p) THEN [pos |-> p, complete |-> FALSE]
  ELSE IF Size(b, p) <= 0 THEN [pos |-> p, complete |-> TRUE]
  ELSE LET next == LineEnd(b, p) + 2 + Size(b, p) + 2
       IN IF AllThere(b, next) THEN WalkChunks(b, next) ELSE [pos |-> p, complete |-> FALSE]

(* The search for the blank line starts three bytes back: it may have been cut. *)
SearchFromNew(old) == old
SearchFrom(old) == IF old >= 3 THEN old - 3 ELSE 0

(* hr_feed, after the bytes are in the buffer: the headers end at the first blank line; a
   declared length that will not fit is too big; and what has come may be all of it. *)
Parsed(h, blank) ==
  IF h.hdr_done \/ blank = {} THEN h
  ELSE ParseHeaders(h, 4 + CHOOSE i \in blank : \A j \in blank : i <= j)
Bounded(h, before) ==
  IF before \/ ~h.hdr_done THEN h
  ELSE [h EXCEPT !.too_big = h.have_clen /\ ~h.chunked /\ h.clen > BufSize - h.body_start]
Walked(h, walk, ended) == [h EXCEPT !.chunk_pos = walk.pos, !.complete = walk.complete \/ ended]
Completed(h, b) ==
  LET ended == \/ h.have_clen /\ ~h.chunked /\ Len(b) - h.body_start >= h.clen
               \/ Bodiless(resp)
  IN IF ~h.hdr_done \/ h.complete THEN h
     ELSE IF h.chunked THEN Walked(h, WalkChunks(b, h.chunk_pos), ended)
     ELSE [h EXCEPT !.complete = ended]

(* hr_feed: [hr, buf] after the bytes `data`, of which as many are kept as have room. *)
FedInto(h, nb, from) ==
  LET blank == {i \in from .. Len(nb) - 4 : SubSeq(nb, i + 1, i + 4) = Crlf \o Crlf}
  IN [hr |-> Completed(Bounded(Parsed(h, blank), h.hdr_done), nb), buf |-> nb]
Feed(h, b, data) ==
  LET room == BufSize - Len(b)
      take == IF Len(data) < room THEN Len(data) ELSE room
  IN FedInto([h EXCEPT !.truncated = @ \/ take < Len(data)], b \o SubSeq(data, 1, take), SearchFrom(Len(b)))

(* hr_finish on a chunked body: the data of the chunk at r moved down to w, in place. *)
RECURSIVE Unwrap(_, _, _)
Unwrap(b, r, w) ==
  IF r >= Len(b) \/ ~Arrived(b, r) \/ Size(b, r) <= 0 THEN [buf |-> b, end |-> w]
  ELSE LET data == LineEnd(b, r) + 2
           avail == Len(b) - data
           take == IF Size(b, r) < avail THEN Size(b, r) ELSE avail
           Copied[k \in 0 .. take] ==        (* byte by byte, each written before the next is read *)
             IF k = 0 THEN b ELSE [Copied[k - 1] EXCEPT ![w + k] = Copied[k - 1][data + k]]
       IN Unwrap(Copied[take], data + Size(b, r) + 2, w + take)

FinishRaw(h, b) ==
  IF h.finished THEN h
  ELSE [h EXCEPT !.finished = TRUE,
          !.body = IF h.chunked /\ h.complete
                   THEN SubSeq(Unwrap(b, h.body_start, h.body_start).buf, h.body_start + 1, Unwrap(b, h.body_start, h.body_start).end)
                   ELSE SubSeq(b, h.body_start + 1, Len(b))]
(* hr_finish *)
Finish(h, b) ==
  IF h.finished THEN h
  ELSE LET u == Unwrap(b, h.body_start, h.body_start)
           n == Len(b) - h.body_start
           m == IF h.have_clen /\ h.clen < n THEN h.clen ELSE n
       IN [h EXCEPT !.finished = TRUE,
             !.body = IF ~h.hdr_done THEN b
                      ELSE IF h.chunked THEN SubSeq(u.buf, h.body_start + 1, u.end)
                      ELSE SubSeq(b, h.body_start + 1, h.body_start + m)]

(* hr_size_fatal: a redirect's body is never shown. *)
SizeFatalLate(h) == h.truncated /\ ~h.hdr_done
SizeFatal(h) == (h.truncated \/ h.too_big) /\ ~h.redirect

(* The receives of one poll: pieces of at most Piece bytes, until there are no more,
   the response is complete or the rounds are used up: [hr, buf, fed]. *)
RECURSIVE Drain(_, _, _, _)
Drain(h, b, fed, k) ==
  IF k = 0 \/ h.complete \/ fed = link.arrived THEN [hr |-> h, buf |-> b, fed |-> fed]
  ELSE LET n == IF link.arrived - fed < Piece THEN link.arrived - fed ELSE Piece
           f == Feed(h, b, SubSeq(wire, fed + 1, fed + n))
       IN Drain(f.hr, f.buf, fed + n, k - 1)

(* http_poll and https_poll in AWAITING_RESPONSE, after the receives d. *)
PollAfter(d) ==
  LET peer_done == link.closed /\ d.fed = link.arrived
  IN /\ d.fed > got.fed \/ peer_done
     /\ buf' = d.buf
     /\ got' = [fed |-> d.fed,
                state |-> IF SizeFatal(d.hr) THEN "failed"
                          ELSE IF d.hr.complete \/ peer_done
                               THEN IF d.buf = <<>> THEN "failed" ELSE "done"
                          ELSE "awaiting"]
     /\ hr' = IF ~SizeFatal(d.hr) /\ (d.hr.complete \/ peer_done) THEN Finish(d.hr, d.buf) ELSE d.hr
Poll ==
  /\ got.state = "awaiting"
  /\ \E d \in {Drain(hr, buf, got.fed, Rounds)} : PollAfter(d)
  /\ UNCHANGED <<resp, wire, link>>

(* The transport: some more bytes, or the end, which may come before the last. *)
Deliver ==
  /\ got.state = "awaiting" /\ ~link.closed /\ link.arrived < Len(wire)
  /\ \E n \in 1 .. Len(wire) - link.arrived : link' = [link EXCEPT !.arrived = @ + n]
  /\ UNCHANGED <<resp, wire, hr, buf, got>>
ServerCloses ==
  /\ got.state = "awaiting" /\ ~link.closed
  /\ link' = [link EXCEPT !.closed = TRUE]
  /\ UNCHANGED <<resp, wire, hr, buf, got>>

Next == Poll \/ Deliver \/ ServerCloses

TypeOK ==
  /\ got.fed \in 0 .. Len(wire) /\ got.state \in {"awaiting", "done", "failed"}
  /\ Len(buf) <= BufSize
  /\ hr.body_start <= Len(buf) /\ hr.chunk_pos <= Len(buf)

(* What the server meant, and what a browser that cannot decode it must not show. *)
Opaque == Others(resp.te, {"chunked", "identity"}) \/ (Has(resp.te, "chunked") /\ ~LastIs(resp.te, "chunked"))
Meant == IF Bodiless(resp) THEN <<>> ELSE resp.body
Whole == got.fed = Len(wire)

(* httpresp.h:193 and :170, whatever the cuts: the response is complete when, and only
   when, its last byte that counts has been fed: the declared length, the size line of
   the last chunk, or the headers of a response that has no body.  A search or a walk
   that loses its place between two pieces waits for ever, or stops too early. *)
LastByte ==
  CASE Bodiless(resp) -> Len(Head5)
    [] resp.framing = "chunks" -> Len(wire) - 2
    [] OTHER -> Len(Head5) + Len(resp.body)
EndSeen ==
  (resp.framing # "close" \/ Bodiless(resp)) /\ ~hr.truncated
    => (hr.complete <=> got.fed >= LastByte)

(* httpresp.h:228: the page is what the server said and never the framing around it:
   all of it when all of it came, else its beginning. *)
BodyTrue ==
  got.state = "done" /\ hr.hdr_done /\ ~hr.encoded /\ ~hr.redirect
    => /\ IsPrefix(hr.body, Meant)
       /\ Whole => hr.body = Meant

(* httpresp.h:266: a page that does not fit is a failure and not its first part; and
   coded bytes are not taken for the page (httpresp.h:144). *)
NeverCutOff ==
  got.state = "done" /\ hr.hdr_done /\ ~hr.redirect =>
    /\ ~hr.truncated
    /\ Opaque /\ ~Bodiless(resp) => hr.encoded
=============================================================================
