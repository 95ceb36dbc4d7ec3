------------------------------- MODULE Lines -------------------------------
(* The line builder of MiniWeb's layout (kernel/layout.h): words, boxes and breaks become
   fragments of the line being built, which own a stretch of the display list; a full line is
   finished - aligned, moved into place, neighbouring words merged - and what did not fit moves
   to the next one.  An inline block holds lines of its own.

   A cell is one unit wide.  A byte of the pool says which word it belongs to (0: white space,
   negative: a hidden word).  An item says in which inline block it stands.  Items are numbered from 1; a fragment owns those after
   i0 up to i1. *)
EXTENDS Integers, Sequences, FiniteSets

CONSTANTS
  Words,              (* words: whether white space precedes, their width, whether a line may break before them, their looks *)
  Boxes,              (* things placed whole: their width, height, ascent, alignment *)
  Styles,             (* the block's text-align and text-indent *)
  Marked,             (* whether the block is a list item with a marker *)
  Width, InnerWidth, Length, ItemMax, FragMax, TailMax

VARIABLES style, n, L

ConstantsOK == {Width, InnerWidth, Length, ItemMax, FragMax, TailMax} \subseteq Nat \ {0}

Top == Len(L.lbs)
Highest(S) == CHOOSE x \in S : \A y \in S : y <= x
Largest(f, least) == Highest({least} \cup {f[i] : i \in DOMAIN f})
StrutH == 2
StrutAsc == 1
Level(s) == Len(s.lbs)
B(s) == s.lbs[Len(s.lbs)]
SetB(s, b) == [s EXCEPT !.lbs[Len(s.lbs)] = b]

----------------------------------------------------------------------------
(* dl_new *)
New(s, item) == IF Len(s.items) >= ItemMax THEN [s EXCEPT !.full = TRUE] ELSE [s EXCEPT !.items = Append(@, item)]

Builder(x, y, w, pend, indent, align, at, i0) ==
  [x0 |-> x, w |-> w, y |-> y, pend |-> pend, line |-> 0, pen |-> 0, frags |-> <<>>, space |-> FALSE,
   first |-> TRUE, active |-> FALSE, indent |-> indent, align |-> align, at |-> at, i0 |-> i0]

Begun(b) ==
  IF b.frags = <<>> /\ ~b.active
  THEN [b EXCEPT !.y = @ + b.pend, !.pend = 0, !.line = b.y + b.pend, !.active = TRUE,
                 !.pen = IF b.first THEN b.indent ELSE 0]
  ELSE b

(* Two neighbouring words of one run, a cell apart, with nothing but white space between them. *)
Joins(pool, p, q) ==
  /\ p.kind = "text" /\ q.kind = "text" /\ p.y = q.y /\ p.h = q.h /\ p.run = q.run
  /\ q.x = p.x + p.w + 1 /\ q.off >= p.off + p.len
  /\ \A i \in p.off + p.len + 1 .. q.off : pool[i] = 0
With(pool, done, it) ==
  IF it.kind = "none" THEN done
  ELSE IF done # <<>> /\ Joins(pool, done[Len(done)], it)
  THEN [done EXCEPT ![Len(done)].len = it.off + it.len - done[Len(done)].off, ![Len(done)].w = @ + 1 + it.w]
  ELSE Append(done, it)
Compacted(items, pool, from, to) ==
  LET c[r \in from .. to] == IF r = from THEN <<>> ELSE With(pool, c[r-1], items[r])
  IN c[to]

(* lb_finish of the first k fragments: the line's height, its alignment, its items moved into
   place and merged; what is left of the builder's fragments keeps its items. *)
Aligned(b, minx, maxx) ==
  LET shift == CASE b.align = "center" -> ((b.w - (maxx - minx)) \div 2) - minx
                 [] b.align = "right"  -> b.w - maxx
                 [] OTHER -> 0
  IN IF shift < 0 THEN 0 ELSE shift
OnBaseline(f) == f.valign = "baseline"
KeepsOld(f, gone) == f
Follows(f, gone) == [f EXCEPT !.i0 = @ - gone, !.i1 = @ - gone]
(* How high a line of the fragments F is, and how far below its top they stand. *)
Extent(F) ==
  LET base == {i \in DOMAIN F : OnBaseline(F[i])}
      asc == Largest([i \in base |-> F[i].asc], StrutAsc)
      desc == Largest([i \in base |-> F[i].h - F[i].asc], StrutH - StrutAsc)
  IN [asc |-> asc, h |-> Largest([i \in DOMAIN F \ base |-> F[i].h], asc + desc)]
Down(f, box) ==
  CASE f.valign = "top"    -> 0
    [] f.valign = "bottom" -> box.h - f.h
    [] f.valign = "middle" -> (box.h - f.h) \div 2
    [] OTHER -> box.asc - f.asc
Owner(F, i) == {j \in DOMAIN F : F[j].i0 < i /\ i <= F[j].i1}
Moved(it, own, b, F, shift, box) ==
  IF own = {} THEN it
  ELSE LET f == F[CHOOSE j \in own : TRUE]
       IN [it EXCEPT !.x = @ + b.x0 + f.x + shift, !.y = @ + b.line + Down(f, box)]
Merged(items, pool, F) ==
  IF F = <<>> THEN items
  ELSE SubSeq(items, 1, F[1].i0) \o Compacted(items, pool, F[1].i0, F[Len(F)].i1)
       \o SubSeq(items, F[Len(F)].i1 + 1, Len(items))
Settled(s, b, F, box, items) ==
  LET marked == s.mark # 0 /\ s.mark <= Len(items)
  IN [s EXCEPT !.items = IF marked THEN [items EXCEPT ![s.mark].y = b.line + box.asc] ELSE items,
               !.mark = IF marked THEN 0 ELSE @,
               !.lines = Append(@, [w |-> b.w, y |-> b.line, h |-> box.h, outer |-> Level(s) = 1, frags |-> F]),
               !.lbs[Level(s)] =
                 [b EXCEPT !.y = b.line + box.h, !.first = FALSE, !.active = FALSE, !.space = FALSE, !.pen = 0,
                           !.frags = [i \in 1 .. Len(@) - Len(F) |-> Follows(@[Len(F) + i], Len(s.items) - Len(items))]]]
LineOf(s, b, F, shift, box) ==
  Settled(s, b, F, box,
          Merged([i \in DOMAIN s.items |-> Moved(s.items[i], Owner(F, i), b, F, shift, box)], s.pool, F))
LineWith(s, b, F) ==
  LineOf(s, b, F, IF F = <<>> THEN 0 ELSE Aligned(b, F[1].x, F[Len(F)].x + F[Len(F)].w), Extent(F))
Finished(s, k) == LineWith(s, Begun(B(s)), SubSeq(B(s).frags, 1, k))
lb_flush(s) == IF B(s).frags = <<>> THEN s ELSE Finished(s, Len(B(s).frags))
Started(s) == SetB(s, Begun(B(s)))
lb_br(s) == Finished(s, Len(B(s).frags))

(* lb_wrap: the tail since the last place to break moves down with what did not fit. *)
Staying(F, gap) ==                                \* how many fragments do not belong to the tail
  LET k == IF gap THEN 0 ELSE Highest({0} \cup {i \in 2 .. Len(F) : F[i].brk})
  IN IF k = 0 \/ Len(F) - k + 1 > TailMax THEN Len(F) ELSE k - 1
WithTail(t, b, T) ==
  SetB(t, [b EXCEPT !.frags = T, !.pen = T[Len(T)].x + T[Len(T)].w])
TailDown(t, b, T) ==
  WithTail(t, b, [i \in DOMAIN T |-> [T[i] EXCEPT !.x = @ - (T[1].x - b.pen), !.brk = @ /\ i # 1]])
Carried(t) ==
  IF B(t).frags = <<>> THEN t ELSE TailDown(t, Begun([B(t) EXCEPT !.frags = <<>>]), B(t).frags)
lb_wrap(s, gap) == Carried(Finished(s, Staying(B(s).frags, gap)))

(* lb_add of the items after i0, as the fragment f. *)
Placed(t, b, i0, f, space) ==
  SetB(t, [b EXCEPT !.frags = Append(@, [i0 |-> i0, i1 |-> Len(t.items), x |-> b.pen + space, w |-> f.w, h |-> f.h,
                                         asc |-> f.asc, valign |-> f.valign, brk |-> space > 0 /\ f.may, may |-> f.may]),
                    !.pen = @ + space + f.w, !.space = FALSE])
OnNext(a, t, i0, f, space) ==                     \* a: before the line was wrapped, t: after it
  Placed(t, Begun(B(t)), i0 - (Len(a.items) - Len(t.items)), f, IF B(t).frags # <<>> THEN space ELSE 0)
OnThis(a, i0, f, space) ==
  IF B(a).frags # <<>> /\ f.may /\ B(a).pen + space + f.w > B(a).w
  THEN OnNext(a, lb_wrap(a, space > 0), i0, f, space)
  ELSE Placed(a, B(a), i0, f, space)
Held(s) == LET held[i \in 0 .. Level(s)] == IF i = 0 THEN 0 ELSE held[i-1] + Len(s.lbs[i].frags) IN held[Level(s)]
Placing(a, i0, f, gap) == OnThis(a, i0, f, IF B(a).frags # <<>> THEN gap ELSE 0)
lb_add(s, i0, f, gap) ==
  Placing(Started(IF Held(s) >= FragMax - 1 THEN lb_flush(s) ELSE s), i0, f, gap)

(* lay_put_text and lay_word: a word wider than a line is cut where lines end. *)
PutText(s, word, off, len, gap, may) ==
  lb_add(New(s, [kind |-> IF word.shown THEN "text" ELSE "none", off |-> off, len |-> len, x |-> 0, y |-> 0,
                 w |-> len, h |-> word.h, run |-> word.run, tok |-> n + 1, at |-> B(s).at]),
         Len(s.items), [w |-> len, h |-> word.h, asc |-> word.asc, valign |-> "baseline", may |-> may], gap)
Cut(word, b) == word.w > b.w /\ word.may /\ b.w >= 1
Flushed(s, last) == IF last THEN s ELSE lb_flush(s)
Piece(p, word, off, gap, room) ==                 \* room: what is left of the line
  LET left == word.w - p.pos
      take == IF room < 1 THEN 1 ELSE IF left < room THEN left ELSE room
  IN IF left = 0 \/ p.s.full THEN p
     ELSE IF room < 1 /\ B(p.s).frags # <<>> THEN [p EXCEPT !.s = lb_flush(@)]
     ELSE [s |-> Flushed(PutText(p.s, word, off + p.pos, take, gap, p.pos = 0 /\ word.may), take = left), pos |-> p.pos + take]
Room(b, gap) == b.w - (IF b.frags # <<>> THEN b.pen + gap ELSE IF b.first THEN b.indent ELSE 0)
NextPiece(p, word, off, gap) == Piece(p, word, off, gap, Room(B(p.s), gap))
lay_word(s, word, off, gap) ==
  IF ~Cut(word, B(s)) THEN PutText(s, word, off, word.w, gap, word.may)
  ELSE LET c[i \in 0 .. 2 * word.w + 2] ==
             IF i = 0 THEN [s |-> s, pos |-> 0] ELSE NextPiece(c[i-1], word, off, IF c[i-1].pos = 0 THEN gap ELSE 0)
       IN c[2 * word.w + 2].s

----------------------------------------------------------------------------
Ready == n < Length /\ ~L.done /\ ~L.full
Step(s) == L' = s /\ n' = n + 1 /\ UNCHANGED style
Bytes(k, word) == [i \in 1..k |-> word]

(* lay_text: white space is remembered, a word is placed. *)
Spaced(s, space) ==
  IF space THEN [SetB(s, [B(s) EXCEPT !.space = TRUE]) EXCEPT !.pool = Append(@, 0)] ELSE s
Typed(s, word) == [s EXCEPT !.pool = @ \o Bytes(word.w, IF word.shown THEN n + 1 ELSE -(n + 1))]
WordAfter(s, word) ==
  lay_word(Typed(s, word), word, Len(s.pool), IF B(s).space /\ B(s).frags # <<>> THEN 1 ELSE 0)
Word == Ready /\ \E word \in Words : Step(WordAfter(Spaced(L, word.space), word))
Break == Ready /\ Step(lb_br(L))
(* lay_atomic of something that has no lines of its own. *)
BoxItem(w, h) == [kind |-> "box", off |-> 0, len |-> 0, x |-> 0, y |-> 0, w |-> w, h |-> h, run |-> 0, tok |-> n + 1, at |-> B(L).at]
BoxAfter(s, b) ==
  lb_add(New(s, BoxItem(b.w, b.h)), Len(L.items), [w |-> b.w, h |-> b.h, asc |-> b.asc, valign |-> b.valign, may |-> TRUE],
         IF B(s).space THEN 1 ELSE 0)
Box == Ready /\ \E b \in Boxes : Step(BoxAfter(Spaced(L, b.space), b))
(* lay_atomic of an inline block: its lines are built at the origin, then it is placed. *)
Open ==
  /\ Ready /\ Top = 1
  /\ Step([New(L, BoxItem(0, 0)) EXCEPT
             !.lbs = Append(@, Builder(0, 0, InnerWidth, 0, 0, style.align, n + 1, Len(L.items)))])
Sized(it, at, h) == IF it.kind = "box" /\ it.tok = at THEN [it EXCEPT !.w = InnerWidth, !.h = h] ELSE it
ClosedAt(t, b, h) ==
  lb_add([t EXCEPT !.items = [i \in DOMAIN @ |-> Sized(@[i], b.at, h)], !.lbs = SubSeq(@, 1, 1)],
         b.i0, [w |-> InnerWidth, h |-> h, asc |-> h, valign |-> "baseline", may |-> TRUE],
         IF t.lbs[1].space THEN 1 ELSE 0)
ClosedOver(t, b) == ClosedAt(t, b, t.lbs[2].y + t.lbs[2].pend)
Closed(s) == ClosedOver(lb_flush(s), s.lbs[2])
Close == Ready /\ Top = 2 /\ Step(Closed(L))
(* lay_children at the end of its children. *)
End ==
  /\ ~L.done
  /\ L' = [lb_flush(IF Top = 2 THEN Closed(L) ELSE L) EXCEPT !.done = TRUE]
  /\ UNCHANGED <<style, n>>

Marker == [kind |-> "mark", off |-> 0, len |-> 0, x |-> 0, y |-> 0, w |-> 1, h |-> 1, run |-> 0, tok |-> 0, at |-> 0]
Init ==
  /\ style \in Styles /\ n = 0
  /\ L = [items |-> IF Marked THEN <<Marker>> ELSE <<>>, mark |-> IF Marked THEN 1 ELSE 0, full |-> FALSE,
          lbs |-> <<Builder(2, 5, Width, 1, style.indent, style.align, 0, 0)>>, pool |-> <<>>, lines |-> <<>>,
          done |-> FALSE]
Next == Word \/ Break \/ Box \/ Open \/ Close \/ End
vars == <<style, n, L>>
Spec == Init /\ [][Next]_vars

----------------------------------------------------------------------------
TypeOK == Len(L.items) <= ItemMax /\ Top \in {1, 2} /\ \A i \in 1..Top : Len(L.lbs[i].frags) < FragMax

(* The fragments that wait for their line own the items at the end of the list, all of them and
   each its own, whatever was merged before them (lb_wrap: "the caller's not-yet-placed fragment
   must shift by that much"). *)
Owned(F, last) ==
  F # <<>> => /\ F[Len(F)].i1 = last
              /\ \A i \in DOMAIN F : F[i].i0 <= F[i].i1 /\ (i > 1 => F[i].i0 = F[i-1].i1)
OwnItems == Owned(B(L).frags, Len(L.items))

(* When the block is finished every word that is shown stands in exactly one item, in the order
   of the text, and an item is as wide as its words with a cell between them. *)
Covers(it, p) == it.off < p /\ p <= it.off + it.len
WideAsWords(it, P) ==
  it.w = Cardinality({p \in P : L.pool[p] # 0}) + Cardinality({p \in P : L.pool[p] = 0 /\ L.pool[p-1] # 0})
AllStand(items, texts) ==
  /\ \A p \in DOMAIN L.pool : L.pool[p] > 0 => Cardinality({i \in texts : Covers(items[i], p)}) = 1
  /\ \A i, j \in texts : i < j => items[i].off + items[i].len <= items[j].off
  /\ \A i \in texts : WideAsWords(items[i], {p \in DOMAIN L.pool : Covers(items[i], p)})
NothingLost ==
  L.done /\ ~L.full => AllStand(L.items, {i \in DOMAIN L.items : L.items[i].kind = "text"})

(* Nothing is drawn over something else, and what stands in an inline block stands inside it. *)
Apart(a, b) == a.x + a.w <= b.x \/ b.x + b.w <= a.x \/ a.y + a.h <= b.y \/ b.y + b.h <= a.y
Inside(a, b) == b.x <= a.x /\ b.y <= a.y /\ a.y + a.h <= b.y + b.h
InPlace(a, b) == /\ b.at > 0 /\ b.at = a.tok => Inside(b, a)
                 /\ b.at = a.at => Apart(a, b)
NothingCovered ==
  L.done /\ ~L.full =>
    \A i, j \in DOMAIN L.items : i < j /\ L.items[i].kind # "mark" => InPlace(L.items[i], L.items[j])

(* No line is too wide that could have been broken: where it leaves the box there is no place to
   break before (lb_add, lb_wrap), unless too much hung together to be moved. *)
Broken ==
  \A l \in DOMAIN L.lines :
    LET F == L.lines[l].frags
    IN \A j \in DOMAIN F : F[j].may /\ F[j].x + F[j].w > L.lines[l].w => \A i \in 2..j : ~F[i].brk
(* The marker of a list item stands at the item's first line (lb_finish: "a list marker was
   waiting for its first line"). *)
MarkerAtFirstLine ==
  L.done /\ Marked /\ (\E l \in DOMAIN L.lines : L.lines[l].outer) =>
    LET l == L.lines[CHOOSE i \in DOMAIN L.lines : L.lines[i].outer /\ \A j \in 1 .. i-1 : ~L.lines[j].outer]
    IN l.y <= L.items[1].y /\ L.items[1].y <= l.y + l.h
=============================================================================
