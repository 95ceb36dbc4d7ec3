--------------------------------- MODULE Mm ---------------------------------
(* The memory manager (src/kernel/mm.h): whole pages handed out from a bitmap by
   a rolling first fit, and a heap of chunks, each a run of pages cut into blocks
   that lie back to back.  The heap is single threaded and so is its model; what
   can go wrong is a sequence of legal calls, and of calls with a pointer that is
   no longer valid, that a program may well make.

   Sizes and heap addresses are counted in units of 16 bytes, so a header is one
   unit and page p begins at unit p * Units.  A header is a record [size, prev,
   magic]; memory is the partial function "hdr" from the units where a header
   stands, a header whose magic was cleared being no header.  What the holders of
   memory own is kept in "held" and "runs", which no code reads. *)
EXTENDS Integers, FiniteSets, FiniteSetsExt, TLAPS, WellFoundedInduction, FiniteSetTheorems

CONSTANTS
  NPages,        (* mm_npages *)
  BitmapPages,   (* mm_bitmap_pages *)
  MinPages,      (* MM_CHUNK_MIN_PG *)
  Units,         (* units of a page *)
  Chunks,        (* MM_CHUNK_MAX *)
  Sizes,         (* sizes asked of kmalloc, in units *)
  Runs           (* numbers of pages asked of mm_pages_alloc *)

ConstantsOK ==
  /\ {NPages, BitmapPages, MinPages, Units, Chunks} \subseteq Nat \ {0}
  /\ BitmapPages < NPages /\ Sizes \cup Runs \subseteq Nat \ {0}

VARIABLES
  mm,     (* [bits, hint, free]: pages in use, mm_hint, mm_free_pg; [chunk, hdr]: the heap *)
  held,   (* blocks the callers of kmalloc hold: [at, size], at the payload *)
  runs    (* runs of pages the callers of mm_pages_alloc hold: [first, n] *)

vars == <<mm, held, runs>>

Page == 0 .. NPages - 1
Addr == 0 .. NPages * Units - 1
NoChunk == [base |-> 0, bytes |-> 0]
Null == -1

Init ==
  /\ mm = [bits |-> 0 .. BitmapPages - 1, hint |-> BitmapPages, free |-> NPages - BitmapPages,
           chunk |-> [i \in 1 .. Chunks |-> NoChunk], hdr |-> [a \in {} |-> 0]]
  /\ held = {} /\ runs = {}

-----------------------------------------------------------------------------
(* Pages. *)

Span(first, n) == first .. first + n - 1
FreeStarts(m, n, lo, hi) == {p \in lo .. hi - n : Span(p, n) \cap m.bits = {}}

(* A second pass that ends at the hint. *)
FirstFitShort(m, n) ==
  LET fst == FreeStarts(m, n, m.hint, NPages)
      snd == FreeStarts(m, n, BitmapPages, m.hint)
  IN IF n > m.free THEN Null ELSE IF fst # {} THEN Min(fst) ELSE IF snd # {} THEN Min(snd) ELSE Null

(* The first pass runs from the hint to the end, the second from the start to n
   pages beyond the hint, so that a run across the hint is found. *)
FirstFit(m, n) ==
  LET fst == FreeStarts(m, n, m.hint, NPages)
      snd == FreeStarts(m, n, BitmapPages, Min({m.hint + n, NPages}))
  IN IF n > m.free THEN Null ELSE IF fst # {} THEN Min(fst) ELSE IF snd # {} THEN Min(snd) ELSE Null

(* A hint that is left behind the last page. *)
PagesAllocUnwrapped(m, first, n) == [m EXCEPT !.bits = @ \cup Span(first, n), !.free = @ - n, !.hint = first + n]

PagesAlloc(m, first, n) ==
  [m EXCEPT !.bits = @ \cup Span(first, n), !.free = @ - n,
            !.hint = IF first + n < NPages THEN first + n ELSE BitmapPages]

(* Without that check the counter grows beyond what the bitmap says. *)
PagesFreeAny(m, first, n) ==
  IF first < BitmapPages THEN m
  ELSE [m EXCEPT !.bits = @ \ Span(first, n), !.free = @ + n, !.hint = Min({@, first})]

(* All or nothing: a run that is not allocated to its last page is refused. *)
PagesFree(m, first, n) ==
  IF first < BitmapPages \/ ~ Span(first, n) \subseteq m.bits THEN m
  ELSE [m EXCEPT !.bits = @ \ Span(first, n), !.free = @ + n, !.hint = Min({@, first})]

-----------------------------------------------------------------------------
(* Headers. *)

End(c) == c.base + c.bytes
NextOf(m, c, a) == LET b == a + m.hdr[a].size IN IF b >= End(c) THEN Null ELSE b
PrevOf(m, c, a) == IF a = c.base THEN Null ELSE a - m.hdr[a].prev
IsFree(m, a) == a \in DOMAIN m.hdr /\ m.hdr[a].magic = "free"
Cleared(h, a) == [b \in DOMAIN h \ {a} |-> h[b]]
Set(h, a, size, prev, magic) ==
  [b \in DOMAIN h \cup {a} |-> IF b = a THEN [size |-> size, prev |-> prev, magic |-> magic] ELSE h[b]]
TellNext(m, c, a) ==
  LET n == NextOf(m, c, a) IN IF n = Null THEN m ELSE [m EXCEPT !.hdr[n].prev = m.hdr[a].size]

ChunkAt(m, p) == {i \in 1 .. Chunks : m.chunk[i].bytes > 0 /\ p \in m.chunk[i].base + 1 .. End(m.chunk[i]) - 1}
BlocksIn(m, c) == {a \in DOMAIN m.hdr : a \in c.base .. End(c) - 1}

(* A new chunk goes to the first free place of the table. *)
ChunkAdd(m, need) ==
  LET room == {i \in 1 .. Chunks : m.chunk[i].bytes = 0}
      n == Max({MinPages, (need + Units - 1) \div Units})
      first == FirstFit(m, n)
  IN IF room = {} \/ first = Null THEN m
     ELSE [PagesAlloc(m, first, n) EXCEPT
             !.chunk[Min(room)] = [base |-> first * Units, bytes |-> n * Units],
             !.hdr = Set(@, first * Units, n * Units, 0, "free")]

(* A split that does not tell the block behind the rest. *)
CarveQuietly(m, c, a, need) ==
  LET h == m.hdr[a]
      rest == a + need
  IN IF h.size >= need + 2
     THEN [m EXCEPT !.hdr = Set(Set(@, rest, h.size - need, need, "free"), a, need, h.prev, "used")]
     ELSE [m EXCEPT !.hdr[a].magic = "used"]

(* The rest of a block stays a free block if a header and a unit fit into it. *)
Carve(m, c, a, need) ==
  LET h == m.hdr[a]
      rest == a + need
      cut == [m EXCEPT !.hdr = Set(Set(@, rest, h.size - need, need, "free"), a, need, h.prev, "used")]
  IN IF h.size >= need + 2 THEN TellNext(cut, c, rest) ELSE [m EXCEPT !.hdr[a].magic = "used"]

(* First fit over the chunks in the order of the table. *)
Fits(m, need) ==
  {f \in (1 .. Chunks) \X DOMAIN m.hdr :
     /\ m.chunk[f[1]].bytes > 0 /\ f[2] \in BlocksIn(m, m.chunk[f[1]])
     /\ IsFree(m, f[2]) /\ m.hdr[f[2]].size >= need}
Best(m, need) ==
  CHOOSE f \in Fits(m, need) : \A g \in Fits(m, need) : f[1] < g[1] \/ (f[1] = g[1] /\ f[2] <= g[2])

(* kmalloc() returns the memory after it and the payload's address or Null. *)
Kmalloc(m, size) ==
  LET need == size + 1
      grown == IF Fits(m, need) = {} THEN ChunkAdd(m, need) ELSE m
      f == Best(grown, need)
  IN IF Fits(grown, need) = {} THEN [m |-> grown, p |-> Null]
     ELSE [m |-> Carve(grown, grown.chunk[f[1]], f[2], need), p |-> f[2] + 1]

Usable(m, p) ==
  IF ChunkAt(m, p) # {} /\ p - 1 \in DOMAIN m.hdr /\ m.hdr[p - 1].magic = "used" THEN m.hdr[p - 1].size - 1 ELSE 0

Accepts(m, p) == Usable(m, p) > 0

(* A swallowed header that keeps its magic is a block to kfree(). *)
MergeForwardKeeping(m, c, a) ==
  LET n == NextOf(m, c, a)
  IN IF n # Null /\ IsFree(m, n)
     THEN TellNext([m EXCEPT !.hdr = [m.hdr EXCEPT ![a].size = @ + m.hdr[n].size, ![n].magic = "used"]], c, a)
     ELSE m

MergeForward(m, c, a) ==
  LET n == NextOf(m, c, a)
  IN IF n # Null /\ IsFree(m, n)
     THEN TellNext([m EXCEPT !.hdr = Cleared([m.hdr EXCEPT ![a].size = @ + m.hdr[n].size], n)], c, a)
     ELSE m
MergeBackward(m, c, a) ==
  LET b == PrevOf(m, c, a)
  IN IF b # Null /\ IsFree(m, b)
     THEN TellNext([m EXCEPT !.hdr = Cleared([m.hdr EXCEPT ![b].size = @ + m.hdr[a].size], a)], c, b)
     ELSE m

(* The pages of a chunk stay with the heap. *)
GiveBackNever(m, i) == m

(* A chunk that has become one free block goes back to the pages, but for the
   first of the table. *)
GiveBack(m, i) ==
  LET c == m.chunk[i]
  IN IF i = 1 \/ ~ IsFree(m, c.base) \/ m.hdr[c.base].size # c.bytes THEN m
     ELSE PagesFree([m EXCEPT !.chunk[i] = NoChunk, !.hdr = Cleared(@, c.base)], c.base \div Units, c.bytes \div Units)

Kfree(m, p) ==
  LET i == CHOOSE k \in ChunkAt(m, p) : TRUE
      c == m.chunk[i]
      marked == [m EXCEPT !.hdr[p - 1].magic = "free"]
  IN IF ~ Accepts(m, p) THEN m ELSE GiveBack(MergeBackward(MergeForward(marked, c, p - 1), c, p - 1), i)

(* krealloc(): a block that is big enough stays, else a new one is taken, filled
   and the old one freed; a failed one leaves the old block alone. *)
Krealloc(m, p, size) ==
  LET r == Kmalloc(m, size)
  IN IF Usable(m, p) = 0 THEN [m |-> m, p |-> Null]
     ELSE IF size <= Usable(m, p) THEN [m |-> m, p |-> p]
     ELSE IF r.p = Null THEN r
     ELSE [m |-> Kfree(r.m, p), p |-> r.p]

-----------------------------------------------------------------------------
Alloc(size) ==
  LET r == Kmalloc(mm, size)
  IN /\ mm' = r.m
     /\ held' = IF r.p = Null THEN held ELSE held \cup {[at |-> r.p, size |-> size]}
     /\ UNCHANGED runs

(* Any address, one held or one that never was or is no longer. *)
Free(p) ==
  /\ mm' = Kfree(mm, p)
  /\ held' = {h \in held : h.at # p}
  /\ UNCHANGED runs

Realloc(h, size) ==
  LET r == Krealloc(mm, h.at, size)
  IN /\ mm' = r.m
     /\ held' = IF r.p = Null THEN held ELSE (held \ {h}) \cup {[at |-> r.p, size |-> size]}
     /\ UNCHANGED runs

TakePages(n) ==
  LET first == FirstFit(mm, n)
  IN /\ mm' = IF first = Null THEN mm ELSE PagesAlloc(mm, first, n)
     /\ runs' = IF first = Null THEN runs ELSE runs \cup {[first |-> first, n |-> n]}
     /\ UNCHANGED held

(* A holder gives its run back, or somebody gives back pages that are not all in
   use: a run freed before, the bitmap's. *)
GivePages(first, n) ==
  LET r == [first |-> first, n |-> n]
  IN /\ r \in runs \/ ~ Span(first, n) \subseteq mm.bits \/ first < BitmapPages
     /\ mm' = PagesFree(mm, first, n)
     /\ runs' = runs \ {r}
     /\ UNCHANGED held

Next ==
  \/ \E s \in Sizes : Alloc(s)
  \/ \E p \in Addr : Free(p)
  \/ \E h \in held, s \in Sizes : Realloc(h, s)
  \/ \E n \in Runs : TakePages(n)
  \/ \E first \in Page, n \in Runs : first + n <= NPages /\ GivePages(first, n)

Spec == Init /\ [][Next]_vars

-----------------------------------------------------------------------------
(* Types: the bitmap, the counter and the heads of the heap have the shape the
   code declares (mm_hdr_t, mm_chunk_t). *)
TypeOK ==
  /\ mm.bits \subseteq Page /\ mm.hint \in Page /\ mm.free \in 0 .. NPages
  /\ \A i \in 1 .. Chunks : mm.chunk[i].base \in 0 .. NPages * Units /\ mm.chunk[i].bytes \in 0 .. NPages * Units
  /\ DOMAIN mm.hdr \subseteq Addr
  /\ \A a \in DOMAIN mm.hdr : mm.hdr[a].magic \in {"used", "free"} /\ mm.hdr[a].size > 1

(* mm_check() finds nothing wrong: from every chunk's base the sizes lead from
   header to header to its end, each block knows the size of the one before it,
   no two free blocks are neighbours, and the counter is what the bitmap says. *)
Healthy ==
  /\ mm.free = Cardinality((BitmapPages .. NPages - 1) \ mm.bits)
  /\ \A i \in 1 .. Chunks :
       LET c == mm.chunk[i]
           blocks == BlocksIn(mm, c)
       IN c.bytes > 0 =>
            /\ c.base \in blocks
            /\ {NextOf(mm, c, a) : a \in blocks} = (blocks \ {c.base}) \cup {Null}
            /\ \A a \in blocks :
                 LET n == NextOf(mm, c, a)
                 IN n # Null => /\ mm.hdr[n].prev = mm.hdr[a].size
                                /\ ~ (IsFree(mm, a) /\ IsFree(mm, n))

(* What callers hold never overlaps: no two blocks, no block and a run of pages,
   no run and another, and nobody holds a page of the bitmap. *)
PagesOfHeld(h) == (h.at \div Units) .. ((h.at + h.size - 1) \div Units)
NobodysTwice ==
  /\ \A g, h \in held : g = h \/ g.at + g.size <= h.at - 1 \/ h.at + h.size <= g.at - 1
  /\ \A r, s \in runs : r = s \/ Span(r.first, r.n) \cap Span(s.first, s.n) = {}
  /\ \A h \in held, r \in runs : PagesOfHeld(h) \cap Span(r.first, r.n) = {}
  /\ \A r \in runs : r.first >= BitmapPages /\ Span(r.first, r.n) \subseteq mm.bits

(* kfree() accepts the blocks that are held and no other address: a block freed
   twice, swallowed by a merge or gone with its chunk is refused (mm.h:183). *)
FreesWhatIsHeld == \A p \in Addr : Accepts(mm, p) <=> \E h \in held : h.at = p

(* Nothing leaks: when nobody holds a block, only the first chunk of the table
   is left, and the pages beyond it and the held runs are free. *)
HeapShrinks == held = {} => \A i \in 2 .. Chunks : mm.chunk[i] = NoChunk

(* mm_pages_alloc() says no only when no run of free pages is long enough,
   wherever the hint stands (mm.h:83). *)
FindsRoom == \A n \in Runs : FirstFit(mm, n) = Null <=> FreeStarts(mm, n, BitmapPages, NPages) = {}

-----------------------------------------------------------------------------
(* Numbers and pages. *)

LEMMA Least ==
  ASSUME NEW S \in SUBSET Nat, S # {}
  PROVE  \E k \in S : \A y \in S : k <= y
<1>1. \E k \in S : \A y \in S : ~ (<<y, k>> \in OpToRel(<, Nat))
  BY NatLessThanWellFounded, WFMin, Zenon
<1>2. \A y, m \in Nat : y < m => <<y, m>> \in OpToRel(<, Nat)
  BY DEF OpToRel
<1>3. PICK k \in S : \A y \in S : ~ (<<y, k>> \in OpToRel(<, Nat))
  BY <1>1
<1>4. ASSUME NEW y \in S PROVE k <= y
  <2>1. k \in Nat /\ y \in Nat /\ ~ (y < k)
    BY <1>2, <1>3
  <2> QED
    BY <2>1
<1> QED
  BY <1>4

LEMMA MinIsLeast ==
  ASSUME NEW S \in SUBSET Nat, S # {}
  PROVE  Min(S) \in S /\ \A y \in S : Min(S) <= y
BY Least DEF Min

LEMMA MinOfTwo ==
  ASSUME NEW a \in Nat, NEW b \in Nat
  PROVE  Min({a, b}) = IF a <= b THEN a ELSE b
<1> DEFINE k == Min({a, b})
<1>1. {a, b} \in SUBSET Nat /\ {a, b} # {}
  OBVIOUS
<1>2. k \in {a, b} /\ \A y \in {a, b} : k <= y
  BY <1>1, MinIsLeast
<1> HIDE DEF k
<1> QED
  BY <1>2 DEF k

LEMMA MaxOfTwo ==
  ASSUME NEW a \in Nat, NEW b \in Nat
  PROVE  Max({a, b}) = IF a >= b THEN a ELSE b
<1> DEFINE k == Max({a, b})
<1>1. \E m \in {a, b} : \A y \in {a, b} : m >= y
  OBVIOUS
<1>2. k \in {a, b} /\ \A y \in {a, b} : k >= y
  BY <1>1, Zenon DEF Max
<1> HIDE DEF k
<1> QED
  BY <1>2 DEF k

(* Pages and their units. *)
LEMMA Ordered ==
  ASSUME NEW u \in Nat, NEW a \in Nat, NEW b \in Nat, a <= b
  PROVE  a * u <= b * u
<1>1. PICK d \in Nat : b = a + d
  <2>1. b - a \in Nat /\ b = a + (b - a)
    OBVIOUS
  <2> QED
    BY <2>1
<1>2. b * u = a * u + d * u /\ d * u \in Nat /\ a * u \in Nat
  BY <1>1
<1> QED
  BY <1>2

LEMMA PageOf ==
  ASSUME NEW u \in Nat \ {0}, NEW a \in Nat, NEW b \in Nat, NEW x \in Nat, a * u <= x, x < b * u
  PROVE  a <= x \div u /\ x \div u < b
<1> DEFINE q == x \div u
           r == x % u
<1>1. q \in Nat /\ r \in Nat /\ r < u /\ x = q * u + r
  <2>1. q \in Nat /\ r \in 0 .. u - 1 /\ x = u * q + r
    OBVIOUS
  <2> QED
    BY <2>1
<1> HIDE DEF q, r
<1>2. a <= q
  <2> SUFFICES ASSUME q < a PROVE FALSE
    BY <1>1
  <2>1. (q + 1) * u <= a * u
    BY <1>1, Ordered
  <2>2. (q + 1) * u = q * u + u /\ q * u \in Nat /\ a * u \in Nat
    BY <1>1
  <2> QED
    BY <1>1, <2>1, <2>2
<1>3. q < b
  <2> SUFFICES ASSUME b <= q PROVE FALSE
    BY <1>1
  <2>1. b * u <= q * u
    BY <1>1, Ordered
  <2>2. q * u \in Nat /\ b * u \in Nat
    BY <1>1
  <2> QED
    BY <1>1, <2>1, <2>2
<1> QED
  BY <1>2, <1>3 DEF q

LEMMA Whole ==
  ASSUME NEW u \in Nat \ {0}, NEW n \in Nat
  PROVE  (n * u) \div u = n
<1>1. n * u \in Nat /\ (n + 1) * u = n * u + u /\ n + 1 \in Nat
  OBVIOUS
<1> DEFINE x == n * u
<1>2. x \in Nat /\ n * u <= x /\ x < (n + 1) * u
  BY <1>1
<1> HIDE DEF x
<1>3. n <= x \div u /\ x \div u < n + 1
  BY <1>1, <1>2, PageOf
<1>4. x \div u \in Nat
  BY <1>2
<1> QED
  BY <1>3, <1>4 DEF x

LEMMA Enough ==
  ASSUME NEW u \in Nat \ {0}, NEW need \in Nat
  PROVE  (need + u - 1) \div u \in Nat /\ need <= ((need + u - 1) \div u) * u
<1> DEFINE x == need + u - 1
           q == x \div u
           r == x % u
<1>1. x \in Nat
  OBVIOUS
<1> HIDE DEF x
<1>2. q \in Nat /\ r \in 0 .. u - 1 /\ x = u * q + r
  BY <1>1
<1> HIDE DEF q, r
<1>3. q * u = u * q /\ q * u \in Nat
  BY <1>2
<1>4. need <= q * u
  BY <1>2, <1>3 DEF x
<1> QED
  BY <1>2, <1>4 DEF q, x

(* The memory. *)
Header == [size : Nat, prev : Nat, magic : {"used", "free"}]
Headers == UNION {[D -> Header] : D \in SUBSET Addr}
ChunkRecord == [base : Nat, bytes : Nat]
FreePages(m) == (BitmapPages .. NPages - 1) \ m.bits
Mems ==
  {m \in [bits : SUBSET Page, hint : BitmapPages .. NPages - 1, free : Nat,
          chunk : [1 .. Chunks -> ChunkRecord], hdr : Headers] :
     m.free = Cardinality(FreePages(m))}

LEMMA HeadersAre ==
  ASSUME NEW h
  PROVE  h \in Headers <=> DOMAIN h \subseteq Addr /\ h \in [DOMAIN h -> Header]
BY DEF Headers

LEMMA SpanIs ==
  ASSUME NEW first \in Nat, NEW n \in Nat
  PROVE  IsFiniteSet(Span(first, n)) /\ Cardinality(Span(first, n)) = n
<1>1. IsFiniteSet(first .. first + n - 1)
      /\ Cardinality(first .. first + n - 1) = IF first > first + n - 1 THEN 0 ELSE (first + n - 1) - first + 1
  BY FS_Interval
<1> QED
  BY <1>1 DEF Span

LEMMA FreeIsFinite ==
  ASSUME ConstantsOK, NEW m \in Mems
  PROVE  IsFiniteSet(FreePages(m)) /\ m.free = Cardinality(FreePages(m)) /\ m.free \in Nat
<1>1. IsFiniteSet(BitmapPages .. NPages - 1)
  BY FS_Interval DEF ConstantsOK
<1>2. FreePages(m) \subseteq BitmapPages .. NPages - 1
  BY DEF FreePages
<1> QED
  BY <1>1, <1>2, FS_Subset, FS_CardinalityType DEF Mems

(* The rolling first fit finds a run of free pages wherever there is one. *)
LEMMA FitIs ==
  ASSUME ConstantsOK, NEW m \in Mems, NEW n \in Nat \ {0}
  PROVE  /\ FirstFit(m, n) # Null => FirstFit(m, n) \in FreeStarts(m, n, BitmapPages, NPages)
         /\ FirstFit(m, n) = Null <=> FreeStarts(m, n, BitmapPages, NPages) = {}
<1> DEFINE top == Min({m.hint + n, NPages})
           fst == FreeStarts(m, n, m.hint, NPages)
           snd == FreeStarts(m, n, BitmapPages, top)
           any == FreeStarts(m, n, BitmapPages, NPages)
<1>1. /\ BitmapPages \in Nat \ {0} /\ NPages \in Nat /\ BitmapPages < NPages
      /\ m.hint \in Nat /\ BitmapPages <= m.hint /\ m.hint < NPages
  BY DEF ConstantsOK, Mems
<1>2. top = IF m.hint + n <= NPages THEN m.hint + n ELSE NPages
  BY <1>1, MinOfTwo
<1> HIDE DEF top
<1>3. fst \cup snd = any
  <2>1. \A p : p \in fst => p \in any
    BY <1>1 DEF FreeStarts
  <2>2. \A p : p \in snd => p \in any
    BY <1>1, <1>2 DEF FreeStarts
  <2>3. \A p : p \in any => p \in fst \/ p \in snd
    BY <1>1, <1>2 DEF FreeStarts
  <2> QED
    BY <2>1, <2>2, <2>3
<1>4. any \in SUBSET Nat
  BY <1>1 DEF FreeStarts
<1>5. n > m.free => any = {}
  <2> SUFFICES ASSUME NEW p \in any PROVE n <= m.free
    BY FreeIsFinite
  <2>1. p \in Nat /\ BitmapPages <= p /\ p + n <= NPages /\ Span(p, n) \cap m.bits = {}
    BY <1>1 DEF FreeStarts
  <2>2. Span(p, n) \subseteq BitmapPages .. NPages - 1
    BY <1>1, <2>1 DEF Span
  <2>3. Span(p, n) \subseteq FreePages(m)
    BY <2>1, <2>2 DEF FreePages
  <2>4. Cardinality(Span(p, n)) <= Cardinality(FreePages(m))
    BY <2>3, FreeIsFinite, FS_Subset
  <2> QED
    BY <2>1, <2>4, FreeIsFinite, SpanIs
<1>6. FirstFit(m, n) = IF n > m.free THEN Null ELSE IF fst # {} THEN Min(fst) ELSE IF snd # {} THEN Min(snd) ELSE Null
  BY DEF FirstFit, top
<1> HIDE DEF fst, snd, any
<1>7. fst # {} => Min(fst) \in any
  BY <1>3, <1>4, MinIsLeast
<1>8. snd # {} => Min(snd) \in any
  BY <1>3, <1>4, MinIsLeast
<1>9. \A p \in any : p # Null
  BY <1>4 DEF Null
<1> QED
  BY <1>3, <1>5, <1>6, <1>7, <1>8, <1>9 DEF any

(* A run of pages taken, and one given back. *)
LEMMA PagesTaken ==
  ASSUME ConstantsOK, NEW m \in Mems, NEW n \in Nat \ {0}, NEW first \in FreeStarts(m, n, BitmapPages, NPages)
  PROVE  /\ PagesAlloc(m, first, n) \in Mems
         /\ PagesAlloc(m, first, n).bits = m.bits \cup Span(first, n)
         /\ PagesAlloc(m, first, n).chunk = m.chunk /\ PagesAlloc(m, first, n).hdr = m.hdr
<1> DEFINE w == PagesAlloc(m, first, n)
           hint == IF first + n < NPages THEN first + n ELSE BitmapPages
<1>1. /\ BitmapPages \in Nat \ {0} /\ NPages \in Nat /\ BitmapPages < NPages
      /\ first \in Nat /\ BitmapPages <= first /\ first + n <= NPages /\ Span(first, n) \cap m.bits = {}
  BY DEF ConstantsOK, FreeStarts
<1>2. w = [m EXCEPT !.bits = m.bits \cup Span(first, n), !.free = m.free - n, !.hint = hint]
  BY DEF PagesAlloc
<1>3. hint \in BitmapPages .. NPages - 1
  BY <1>1
<1> HIDE DEF w, hint
<1>4. /\ w.bits = m.bits \cup Span(first, n) /\ w.free = m.free - n /\ w.hint = hint
      /\ w.chunk = m.chunk /\ w.hdr = m.hdr
  BY <1>2 DEF Mems
<1>5. Span(first, n) \subseteq Page /\ Span(first, n) \subseteq FreePages(m)
  BY <1>1 DEF Span, Page, FreePages
<1>6. FreePages(w) = FreePages(m) \ Span(first, n)
  BY <1>4 DEF FreePages
<1>7. Cardinality(FreePages(w)) = m.free - n /\ m.free - n \in Nat
  <2>1. FreePages(m) \cap Span(first, n) = Span(first, n)
    BY <1>5
  <2>2. IsFiniteSet(FreePages(m)) /\ IsFiniteSet(Span(first, n)) /\ Cardinality(Span(first, n)) = n
        /\ m.free = Cardinality(FreePages(m))
    BY <1>1, FreeIsFinite, SpanIs
  <2>3. /\ IsFiniteSet(FreePages(m) \ Span(first, n))
        /\ Cardinality(FreePages(m) \ Span(first, n)) =
             Cardinality(FreePages(m)) - Cardinality(FreePages(m) \cap Span(first, n))
    BY <2>2, FS_Difference
  <2>4. Cardinality(FreePages(m) \ Span(first, n)) \in Nat
    BY <2>3, FS_CardinalityType
  <2> QED
    BY <1>6, <2>1, <2>2, <2>3, <2>4
<1>8. w \in [bits : SUBSET Page, hint : BitmapPages .. NPages - 1, free : Nat,
             chunk : [1 .. Chunks -> ChunkRecord], hdr : Headers]
  BY <1>2, <1>3, <1>5, <1>7 DEF Mems
<1> QED
  BY <1>4, <1>7, <1>8 DEF Mems, w

LEMMA PagesGiven ==
  ASSUME ConstantsOK, NEW m \in Mems, NEW n \in Nat \ {0}, NEW first \in Nat,
         BitmapPages <= first, Span(first, n) \subseteq m.bits
  PROVE  /\ PagesFree(m, first, n) \in Mems
         /\ PagesFree(m, first, n).bits = m.bits \ Span(first, n)
         /\ PagesFree(m, first, n).chunk = m.chunk /\ PagesFree(m, first, n).hdr = m.hdr
<1> DEFINE w == PagesFree(m, first, n)
           hint == Min({m.hint, first})
<1>1. /\ BitmapPages \in Nat \ {0} /\ NPages \in Nat /\ BitmapPages < NPages
      /\ m.hint \in Nat /\ BitmapPages <= m.hint /\ m.hint < NPages /\ m.bits \subseteq Page
  BY DEF ConstantsOK, Mems
<1>2. w = [m EXCEPT !.bits = m.bits \ Span(first, n), !.free = m.free + n, !.hint = hint]
  BY <1>1 DEF PagesFree
<1>3. hint \in BitmapPages .. NPages - 1
  BY <1>1, MinOfTwo
<1> HIDE DEF w, hint
<1>4. /\ w.bits = m.bits \ Span(first, n) /\ w.free = m.free + n /\ w.hint = hint
      /\ w.chunk = m.chunk /\ w.hdr = m.hdr
  BY <1>2 DEF Mems
<1>5. Span(first, n) \subseteq BitmapPages .. NPages - 1
  BY <1>1 DEF Span, Page
<1>6. FreePages(w) = FreePages(m) \cup Span(first, n) /\ FreePages(m) \cap Span(first, n) = {}
  BY <1>4, <1>5 DEF FreePages
<1>7. Cardinality(FreePages(w)) = m.free + n /\ m.free + n \in Nat
  <2>1. IsFiniteSet(FreePages(m)) /\ IsFiniteSet(Span(first, n)) /\ Cardinality(Span(first, n)) = n
        /\ m.free = Cardinality(FreePages(m)) /\ m.free \in Nat
    BY FreeIsFinite, SpanIs
  <2>2. Cardinality(FreePages(m) \cup Span(first, n)) =
          Cardinality(FreePages(m)) + Cardinality(Span(first, n)) - Cardinality(FreePages(m) \cap Span(first, n))
    BY <2>1, FS_Union
  <2>3. Cardinality(FreePages(m) \cap Span(first, n)) = 0
    BY <1>6, FS_EmptySet
  <2> QED
    BY <1>6, <2>1, <2>2, <2>3
<1>8. w \in [bits : SUBSET Page, hint : BitmapPages .. NPages - 1, free : Nat,
             chunk : [1 .. Chunks -> ChunkRecord], hdr : Headers]
  BY <1>2, <1>3, <1>7 DEF Mems
<1> QED
  BY <1>4, <1>7, <1>8 DEF Mems, w

-----------------------------------------------------------------------------
(* The blocks of a chunk, as each of them sees its neighbours: this is what the
   walks over a chunk rely on, and what a split or a merge has to restore. *)

In(h, c) == {a \in DOMAIN h : a \in c.base .. End(c) - 1}
After(h, a) == a + h[a].size
Linked(h, c, a) ==
  /\ h[a].size > 1 /\ After(h, a) <= End(c)
  /\ After(h, a) < End(c) => After(h, a) \in In(h, c) /\ h[After(h, a)].prev = h[a].size
  /\ a # c.base => \E b \in In(h, c) : After(h, b) = a
Chain(h, c) ==
  /\ c.base \in In(h, c)
  /\ \A a \in In(h, c) : Linked(h, c, a)
  /\ \A a, b \in In(h, c) : a < b => After(h, a) <= b
  /\ \E a \in In(h, c) : After(h, a) = End(c)
UsedAfter(h, c, a) == After(h, a) < End(c) => h[After(h, a)].magic = "used"
Tidy(h, c) == \A a \in In(h, c) : h[a].magic = "free" => UsedAfter(h, c, a)

(* Two neighbours a and n become one block. *)
Joins(h, g, c, a) ==
  LET n == After(h, a)
      b == a + h[a].size + h[n].size
  IN /\ DOMAIN g = DOMAIN h \ {n}
     /\ g[a].size = h[a].size + h[n].size /\ g[a].magic = h[a].magic
     /\ \A x \in DOMAIN g : x # a => g[x].size = h[x].size /\ g[x].magic = h[x].magic
     /\ \A x \in DOMAIN g : x # b => g[x].prev = h[x].prev
     /\ b \in In(h, c) => g[b].prev = g[a].size

(* A block a becomes a used one and a free rest. *)
Splits(h, g, c, a, need) ==
  LET rest == a + need
      b == After(h, a)
  IN /\ DOMAIN g = DOMAIN h \cup {rest}
     /\ g[a].size = need /\ g[a].magic = "used"
     /\ g[rest].size = h[a].size - need /\ g[rest].prev = need /\ g[rest].magic = "free"
     /\ \A x \in DOMAIN h : x # a => g[x].size = h[x].size /\ g[x].magic = h[x].magic
     /\ \A x \in DOMAIN h : x # b => g[x].prev = h[x].prev
     /\ b \in In(h, c) => g[b].prev = g[rest].size

LEMMA JoinKeepsChain ==
  ASSUME NEW h \in Headers, NEW g \in Headers, NEW c \in ChunkRecord, Chain(h, c),
         NEW a \in In(h, c), After(h, a) \in In(h, c), Joins(h, g, c, a)
  PROVE  Chain(g, c) /\ In(g, c) = In(h, c) \ {After(h, a)}
<1> DEFINE n == After(h, a)
           s == h[a].size + h[n].size
           b == a + h[a].size + h[n].size
<1>1. /\ \A x \in In(h, c) : x \in Nat /\ x \in DOMAIN h /\ h[x].size \in Nat /\ h[x].prev \in Nat
      /\ c.base \in Nat /\ End(c) \in Nat
  BY HeadersAre DEF In, Header, Addr, ChunkRecord, End
<1>2. /\ DOMAIN g = DOMAIN h \ {n}
      /\ g[a].size = s
      /\ \A x \in DOMAIN g : x # a => g[x].size = h[x].size
      /\ \A x \in DOMAIN g : x # b => g[x].prev = h[x].prev
      /\ b \in In(h, c) => g[b].prev = s
  BY DEF Joins
<1>3. In(g, c) = In(h, c) \ {n}
  BY <1>2 DEF In
<1>4. /\ c.base \in In(h, c)
      /\ \A x \in In(h, c) : /\ h[x].size > 1 /\ After(h, x) <= End(c)
                             /\ After(h, x) < End(c) => After(h, x) \in In(h, c) /\ h[After(h, x)].prev = h[x].size
                             /\ x # c.base => \E y \in In(h, c) : After(h, y) = x
      /\ \A x, y \in In(h, c) : x < y => After(h, x) <= y
      /\ \E x \in In(h, c) : After(h, x) = End(c)
  BY DEF Chain, Linked
<1>5. n \in In(h, c) /\ n = a + h[a].size /\ a < n /\ b = After(h, n) /\ a \in In(g, c) /\ n # c.base
      /\ a \in Nat /\ n \in Nat /\ s \in Nat /\ s > 1 /\ b \in Nat /\ b > n /\ c.base <= a /\ b = a + s
  <2>1. n \in In(h, c) /\ n = a + h[a].size
    BY DEF After
  <2>2. h[a].size \in Nat /\ h[n].size \in Nat /\ h[a].size > 1 /\ h[n].size > 1 /\ a \in Nat
    BY <1>1, <1>4, <2>1
  <2>3. c.base <= a
    BY <1>1 DEF In
  <2>4. b = After(h, n) /\ b = a + s
    BY <2>1, <2>2 DEF After
  <2> HIDE DEF n
  <2> QED
    BY <1>1, <1>3, <2>1, <2>2, <2>3, <2>4
<1>6. \A x \in In(g, c) : x # a => After(g, x) = After(h, x)
  BY <1>2, <1>3 DEF After, In
<1>7. After(g, a) = b
  BY <1>2, <1>5 DEF After
<1> HIDE DEF n, s, b
(* Who ends where a begins, or where the joined block ends, is as it was. *)
<1>8. \A x \in In(g, c) : x # a => After(h, x) # n
  <2> SUFFICES ASSUME NEW x \in In(h, c), x # a, After(h, x) = n PROVE FALSE
    BY <1>3
  <2>1. x \in Nat /\ h[x].size \in Nat /\ h[x].size > 1 /\ After(h, x) = x + h[x].size
    BY <1>1, <1>4 DEF After
  <2>2. CASE x < a
    BY <1>4, <1>5, <2>1, <2>2
  <2>3. CASE a < x
    <3>1. After(h, a) <= x
      BY <1>4, <1>5, <2>3
    <3>2. After(h, a) = n
      BY <1>5 DEF After
    <3> QED
      BY <1>5, <2>1, <3>1, <3>2
  <2> QED
    BY <1>5, <2>1, <2>2, <2>3
<1>9. ASSUME NEW x \in In(g, c) PROVE Linked(g, c, x)
  <2>1. CASE x = a
    <3>1. b <= End(c) /\ (b < End(c) => b \in In(h, c) /\ b # n)
      BY <1>4, <1>5
    <3>2. a # c.base => \E y \in In(g, c) : After(g, y) = a
      <4> SUFFICES ASSUME a # c.base PROVE \E y \in In(g, c) : After(g, y) = a
        OBVIOUS
      <4>1. PICK y \in In(h, c) : After(h, y) = a
        BY <1>4
      <4>2. y # n /\ y # a
        BY <1>1, <1>4, <1>5, <4>1 DEF After
      <4> QED
        BY <1>3, <1>6, <4>1, <4>2
    <3> QED
      BY <1>2, <1>3, <1>5, <1>7, <2>1, <3>1, <3>2 DEF Linked
  <2>2. CASE x # a
    <3>1. x \in In(h, c) /\ x # n /\ After(g, x) = After(h, x) /\ g[x].size = h[x].size
      BY <1>2, <1>3, <1>6, <2>2 DEF In
    <3>2. After(g, x) < End(c) => After(g, x) \in In(g, c) /\ g[After(g, x)].prev = g[x].size
      <4> SUFFICES ASSUME After(h, x) < End(c)
                   PROVE  After(h, x) \in In(g, c) /\ g[After(h, x)].prev = h[x].size
        BY <3>1
      <4>1. After(h, x) \in In(h, c) /\ h[After(h, x)].prev = h[x].size /\ After(h, x) # n
        BY <1>4, <1>8, <2>2, <3>1
      <4>2. After(h, x) # b
        <5> SUFFICES ASSUME After(h, x) = b PROVE FALSE
          OBVIOUS
        <5>1. x < n \/ n < x
          BY <1>1, <1>5, <3>1
        <5> QED
          BY <1>1, <1>4, <1>5, <3>1, <5>1 DEF After
      <4> QED
        BY <1>2, <1>3, <4>1, <4>2 DEF In
    <3>3. x # c.base => \E y \in In(g, c) : After(g, y) = x
      <4> SUFFICES ASSUME x # c.base PROVE \E y \in In(g, c) : After(g, y) = x
        OBVIOUS
      <4>1. PICK y \in In(h, c) : After(h, y) = x
        BY <1>4, <3>1
      <4>2. y # a
        BY <1>5, <3>1, <4>1 DEF After
      <4>3. CASE y = n
        BY <1>5, <1>7, <4>1, <4>3
      <4>4. CASE y # n
        BY <1>3, <1>6, <4>1, <4>2, <4>4
      <4> QED
        BY <4>3, <4>4
    <3> QED
      BY <1>4, <3>1, <3>2, <3>3 DEF Linked
  <2> QED
    BY <2>1, <2>2
<1>10. ASSUME NEW x \in In(g, c), NEW y \in In(g, c), x < y PROVE After(g, x) <= y
  <2>1. x \in In(h, c) /\ y \in In(h, c) /\ x # n /\ y # n /\ x \in Nat /\ y \in Nat
    BY <1>1, <1>3
  <2>2. CASE x = a
    <3>1. n <= y
      BY <1>4, <1>5, <1>10, <2>1, <2>2 DEF After
    <3>2. After(h, n) <= y
      BY <1>4, <1>5, <2>1, <3>1, SMTT(30)
    <3> QED
      BY <1>5, <1>7, <2>2, <3>2
  <2>3. CASE x # a
    BY <1>4, <1>6, <1>10, <2>1, <2>3
  <2> QED
    BY <2>2, <2>3
<1>11. \E x \in In(g, c) : After(g, x) = End(c)
  <2>1. PICK x \in In(h, c) : After(h, x) = End(c)
    BY <1>4
  <2>2. CASE x = n
    BY <1>5, <1>7, <2>1, <2>2
  <2>3. CASE x # n
    <3>1. x # a
      BY <1>1, <1>5, <2>1 DEF In, After
    <3> QED
      BY <1>3, <1>6, <2>1, <2>3, <3>1
  <2> QED
    BY <2>2, <2>3
<1>12. c.base \in In(g, c)
  BY <1>3, <1>4, <1>5
<1> QED
  BY <1>3, <1>9, <1>10, <1>11, <1>12 DEF Chain, n

LEMMA SplitKeepsChain ==
  ASSUME NEW h \in Headers, NEW g \in Headers, NEW c \in ChunkRecord, Chain(h, c),
         NEW a \in In(h, c), NEW need \in Nat, need > 1, h[a].size >= need + 2, Splits(h, g, c, a, need)
  PROVE  /\ Chain(g, c) /\ In(g, c) = In(h, c) \cup {a + need} /\ a + need \notin DOMAIN h
         /\ h[a].magic = "free" /\ Tidy(h, c) => Tidy(g, c)
<1> DEFINE rest == a + need
           s == h[a].size
           b == After(h, a)
<1>1. /\ \A x \in In(h, c) : x \in Nat /\ x \in DOMAIN h /\ h[x].size \in Nat /\ h[x].prev \in Nat
      /\ c.base \in Nat /\ End(c) \in Nat
  BY HeadersAre DEF In, Header, Addr, ChunkRecord, End
<1>2. /\ DOMAIN g = DOMAIN h \cup {rest}
      /\ g[a].size = need /\ g[a].magic = "used"
      /\ g[rest].size = s - need /\ g[rest].prev = need /\ g[rest].magic = "free"
      /\ \A x \in DOMAIN h : x # a => g[x].size = h[x].size /\ g[x].magic = h[x].magic
      /\ \A x \in DOMAIN h : x # b => g[x].prev = h[x].prev
      /\ b \in In(h, c) => g[b].prev = s - need
  BY DEF Splits
<1>3. /\ c.base \in In(h, c)
      /\ \A x \in In(h, c) : /\ h[x].size > 1 /\ After(h, x) <= End(c)
                             /\ After(h, x) < End(c) => After(h, x) \in In(h, c) /\ h[After(h, x)].prev = h[x].size
                             /\ x # c.base => \E y \in In(h, c) : After(h, y) = x
      /\ \A x, y \in In(h, c) : x < y => After(h, x) <= y
      /\ \E x \in In(h, c) : After(h, x) = End(c)
  BY DEF Chain, Linked
<1>4. /\ a \in Nat /\ s \in Nat /\ b \in Nat /\ rest \in Nat /\ b = a + s /\ a < rest /\ rest < b /\ b <= End(c)
      /\ c.base <= a /\ rest + (s - need) = b /\ s - need \in Nat /\ s - need > 1
  <2>1. a \in Nat /\ s \in Nat /\ b <= End(c)
    BY <1>1, <1>3
  <2>2. c.base <= a /\ b = a + s
    BY <1>1 DEF In, After
  <2> QED
    BY <2>1, <2>2
<1> HIDE DEF rest, s, b
<1>5. rest \in c.base .. End(c) - 1 /\ rest \notin DOMAIN h
  <2>1. rest \in c.base .. End(c) - 1
    BY <1>1, <1>4
  <2>2. rest \in DOMAIN h => b <= rest
    BY <1>3, <1>4, <2>1 DEF In, b
  <2> QED
    BY <1>4, <2>1, <2>2
<1>6. In(g, c) = In(h, c) \cup {rest} /\ rest \notin In(h, c)
  BY <1>2, <1>5 DEF In
<1>7. \A x \in In(h, c) : x # a => After(g, x) = After(h, x) /\ x # rest
  BY <1>1, <1>2, <1>6 DEF After
<1>8. After(g, a) = rest /\ After(g, rest) = b
  BY <1>2, <1>4 DEF After, rest
<1>9. \A x \in In(h, c) : x # a => After(h, x) # b
  <2> SUFFICES ASSUME NEW x \in In(h, c), x # a, After(h, x) = b PROVE FALSE
    OBVIOUS
  <2>1. x \in Nat /\ h[x].size \in Nat /\ h[x].size > 1 /\ b = x + h[x].size
    BY <1>1, <1>3 DEF After
  <2>2. CASE x < a
    BY <1>3, <1>4, <2>1, <2>2
  <2>3. CASE a < x
    <3>1. b <= x
      BY <1>3, <1>4, <2>3 DEF b
    <3> QED
      BY <1>4, <2>1, <3>1
  <2> QED
    BY <1>4, <2>1, <2>2, <2>3
<1>10. ASSUME NEW x \in In(g, c) PROVE Linked(g, c, x)
  <2>1. CASE x = rest
    <3>1. b < End(c) => b \in In(g, c) /\ g[b].prev = s - need
      BY <1>2, <1>3, <1>4, <1>6 DEF b
    <3>2. \E y \in In(g, c) : After(g, y) = rest
      BY <1>6, <1>8
    <3> QED
      BY <1>2, <1>4, <1>8, <2>1, <3>1, <3>2 DEF Linked
  <2>2. CASE x = a
    <3>1. a # c.base => \E y \in In(g, c) : After(g, y) = a
      <4> SUFFICES ASSUME a # c.base PROVE \E y \in In(g, c) : After(g, y) = a
        OBVIOUS
      <4>1. PICK y \in In(h, c) : After(h, y) = a
        BY <1>3
      <4>2. y # a
        BY <1>4, <4>1 DEF b
      <4> QED
        BY <1>6, <1>7, <4>1, <4>2
    <3>2. rest <= End(c) /\ rest \in In(g, c) /\ g[rest].prev = need
      BY <1>1, <1>2, <1>4, <1>6
    <3> QED
      BY <1>2, <1>8, <2>2, <3>1, <3>2 DEF Linked
  <2>3. CASE x # a /\ x # rest
    <3>1. x \in In(h, c) /\ After(g, x) = After(h, x) /\ g[x].size = h[x].size
      BY <1>1, <1>2, <1>6, <1>7, <2>3
    <3>2. After(h, x) < End(c) => After(h, x) \in In(g, c) /\ g[After(h, x)].prev = h[x].size
      <4> SUFFICES ASSUME After(h, x) < End(c)
                   PROVE  After(h, x) \in In(g, c) /\ g[After(h, x)].prev = h[x].size
        OBVIOUS
      <4>1. After(h, x) \in In(h, c) /\ h[After(h, x)].prev = h[x].size
        BY <1>3, <3>1
      <4> QED
        BY <1>1, <1>2, <1>6, <1>9, <2>3, <3>1, <4>1
    <3>3. x # c.base => \E y \in In(g, c) : After(g, y) = x
      <4> SUFFICES ASSUME x # c.base PROVE \E y \in In(g, c) : After(g, y) = x
        OBVIOUS
      <4>1. PICK y \in In(h, c) : After(h, y) = x
        BY <1>3, <3>1
      <4>2. CASE y = a
        BY <1>6, <1>8, <4>1, <4>2 DEF b
      <4>3. CASE y # a
        BY <1>6, <1>7, <4>1, <4>3
      <4> QED
        BY <4>2, <4>3
    <3> QED
      BY <1>3, <3>1, <3>2, <3>3 DEF Linked
  <2> QED
    BY <2>1, <2>2, <2>3
<1>11. ASSUME NEW x \in In(g, c), NEW y \in In(g, c), x < y PROVE After(g, x) <= y
  <2>1. \A z \in In(h, c) : z \in Nat /\ (a < z => b <= z) /\ (z < a => After(h, z) <= a)
    BY <1>1, <1>3 DEF b
  <2>2. CASE x = rest
    BY <1>4, <1>6, <1>8, <1>11, <2>1, <2>2
  <2>3. CASE x = a
    BY <1>4, <1>6, <1>8, <1>11, <2>1, <2>3
  <2>4. CASE x # a /\ x # rest /\ y = rest
    <3>1. x \in In(h, c) /\ After(g, x) = After(h, x) /\ After(h, x) = x + h[x].size /\ h[x].size \in Nat
      BY <1>1, <1>6, <1>7, <2>4 DEF After
    <3>2. x < a
      BY <1>4, <1>11, <2>1, <2>4, <3>1
    <3> QED
      BY <1>1, <1>4, <2>1, <2>4, <3>1, <3>2
  <2>5. CASE x # a /\ x # rest /\ y # rest
    BY <1>3, <1>6, <1>7, <1>11, <2>5
  <2> QED
    BY <2>2, <2>3, <2>4, <2>5
<1>12. \E x \in In(g, c) : After(g, x) = End(c)
  <2>1. PICK x \in In(h, c) : After(h, x) = End(c)
    BY <1>3
  <2>2. CASE x = a
    BY <1>6, <1>8, <2>1, <2>2 DEF b
  <2>3. CASE x # a
    BY <1>6, <1>7, <2>1, <2>3
  <2> QED
    BY <2>2, <2>3
<1>13. c.base \in In(g, c)
  BY <1>3, <1>6
<1>14. ASSUME h[a].magic = "free", Tidy(h, c) PROVE Tidy(g, c)
  <2> SUFFICES ASSUME NEW x \in In(g, c), g[x].magic = "free", After(g, x) < End(c)
               PROVE  g[After(g, x)].magic = "used"
    BY DEF Tidy, UsedAfter
  <2>1. x # a
    BY <1>2
  <2>2. CASE x = rest
    <3>1. b \in In(h, c) /\ h[b].magic = "used"
      BY <1>3, <1>8, <1>14, <2>2 DEF Tidy, UsedAfter, b
    <3> QED
      BY <1>1, <1>2, <1>4, <1>8, <2>2, <3>1
  <2>3. CASE x # rest
    <3>1. x \in In(h, c) /\ h[x].magic = "free" /\ After(g, x) = After(h, x)
      BY <1>1, <1>2, <1>6, <1>7, <2>1, <2>3
    <3>2. After(h, x) \in In(h, c) /\ h[After(h, x)].magic = "used"
      BY <1>3, <1>14, <3>1 DEF Tidy, UsedAfter
    <3> QED
      BY <1>1, <1>2, <3>1, <3>2
  <2> QED
    BY <2>2, <2>3
<1> QED
  BY <1>5, <1>6, <1>10, <1>11, <1>12, <1>13, <1>14 DEF Chain, rest

(* What other chunks have is as it was. *)
LEMMA SameChain ==
  ASSUME NEW h, NEW g, NEW c, Chain(h, c), In(g, c) = In(h, c),
         \A x \in In(h, c) : g[x] = h[x]
  PROVE  Chain(g, c) /\ (Tidy(h, c) <=> Tidy(g, c))
<1>1. \A x \in In(h, c) : After(g, x) = After(h, x)
  BY DEF After
<1>2. \A x \in In(h, c) : Linked(g, c, x)
  <2> SUFFICES ASSUME NEW x \in In(h, c) PROVE Linked(g, c, x)
    OBVIOUS
  <2>1. Linked(h, c, x)
    BY DEF Chain
  <2> QED
    BY <1>1, <2>1 DEF Linked
<1>3. \A x \in In(h, c) : After(h, x) < End(c) => After(h, x) \in In(h, c)
  BY DEF Chain, Linked
<1> QED
  BY <1>1, <1>2, <1>3 DEF Chain, Tidy, UsedAfter

-----------------------------------------------------------------------------
(* The heap: its chunks lie on pages of their own, all headers are in chunks, and
   each chunk is a chain of blocks.  A good one is tidy too, and has no chunk but
   the first without a block in use. *)

First(c) == c.base \div Units
Num(c) == c.bytes \div Units
PagesOf(c) == Span(First(c), Num(c))
Placed(m, c) ==
  c.base = First(c) * Units /\ c.bytes = Num(c) * Units /\ BitmapPages <= First(c) /\ PagesOf(c) \subseteq m.bits
Distinct(c, d) == First(c) + Num(c) <= First(d) \/ First(d) + Num(d) <= First(c)
Live(m) == {i \in 1 .. Chunks : m.chunk[i].bytes > 0}
Built(m) ==
  /\ m \in Mems
  /\ \A i \in Live(m) : Placed(m, m.chunk[i]) /\ Chain(m.hdr, m.chunk[i])
  /\ \A i, j \in Live(m) : i # j => Distinct(m.chunk[i], m.chunk[j])
  /\ \A a \in DOMAIN m.hdr : \E i \in Live(m) : a \in In(m.hdr, m.chunk[i])
  /\ \A i \in 1 .. Chunks : i \notin Live(m) => m.chunk[i] = NoChunk
UsedIn(h, c) == {a \in In(h, c) : h[a].magic = "used"}
Good(m) ==
  /\ Built(m)
  /\ \A i \in Live(m) : Tidy(m.hdr, m.chunk[i])
  /\ \A i \in Live(m) : i # 1 => UsedIn(m.hdr, m.chunk[i]) # {}
UsedSet(m) == {a \in DOMAIN m.hdr : m.hdr[a].magic = "used"}
HeapPages(m) == UNION {PagesOf(m.chunk[i]) : i \in Live(m)}

(* Two functions of headers that differ within a chunk only. *)
SameOutside(h, g, c) ==
  \A x : x \notin c.base .. End(c) - 1 => (x \in DOMAIN g <=> x \in DOMAIN h) /\ (x \in DOMAIN h => g[x] = h[x])

LEMMA Apart ==
  ASSUME ConstantsOK, NEW m, Built(m), NEW i \in Live(m), NEW j \in Live(m), i # j
  PROVE  \A x : ~ (x \in m.chunk[i].base .. End(m.chunk[i]) - 1 /\ x \in m.chunk[j].base .. End(m.chunk[j]) - 1)
<1> DEFINE c == m.chunk[i]
           d == m.chunk[j]
<1>1. c \in ChunkRecord /\ d \in ChunkRecord /\ Units \in Nat \ {0}
  BY DEF Built, Mems, Live, ConstantsOK
<1>2. Placed(m, c) /\ Placed(m, d) /\ Distinct(c, d)
  BY DEF Built
<1> HIDE DEF c, d
<1>3. First(c) \in Nat /\ Num(c) \in Nat /\ First(d) \in Nat /\ Num(d) \in Nat
  BY <1>1 DEF First, Num, ChunkRecord
<1>4. End(c) = (First(c) + Num(c)) * Units /\ End(d) = (First(d) + Num(d)) * Units
  BY <1>1, <1>2, <1>3 DEF End, Placed
<1>5. End(c) <= d.base \/ End(d) <= c.base
  BY <1>1, <1>2, <1>3, <1>4, Ordered DEF Distinct, Placed
<1>6. c.base \in Nat /\ d.base \in Nat /\ End(c) \in Nat /\ End(d) \in Nat
  BY <1>1 DEF ChunkRecord, End
<1> QED
  BY <1>5, <1>6 DEF c, d

(* A change of the headers of one chunk. *)
LEMMA HeaderStep ==
  ASSUME ConstantsOK, NEW m, Built(m), NEW i \in Live(m), NEW g \in Headers,
         SameOutside(m.hdr, g, m.chunk[i]), Chain(g, m.chunk[i]), NEW w, w = [m EXCEPT !.hdr = g]
  PROVE  /\ Built(w) /\ w.hdr = g /\ w.chunk = m.chunk /\ w.bits = m.bits /\ Live(w) = Live(m)
         /\ HeapPages(w) = HeapPages(m)
         /\ \A j \in Live(m) : j # i =>
              /\ In(g, m.chunk[j]) = In(m.hdr, m.chunk[j])
              /\ \A x \in In(g, m.chunk[j]) : g[x] = m.hdr[x]
              /\ Tidy(m.hdr, m.chunk[j]) <=> Tidy(g, m.chunk[j])
<1> DEFINE h == m.hdr
           c == m.chunk[i]
<1>1. m \in Mems /\ w \in Mems /\ w.hdr = g /\ w.chunk = m.chunk /\ w.bits = m.bits /\ w.free = m.free
  BY DEF Built, Mems, FreePages
<1>2. Live(w) = Live(m) /\ HeapPages(w) = HeapPages(m)
  BY <1>1 DEF Live, HeapPages
<1>3. ASSUME NEW j \in Live(m), j # i
      PROVE  /\ In(g, m.chunk[j]) = In(h, m.chunk[j])
             /\ \A x \in In(g, m.chunk[j]) : g[x] = h[x]
             /\ Chain(g, m.chunk[j])
             /\ Tidy(h, m.chunk[j]) <=> Tidy(g, m.chunk[j])
  <2> DEFINE d == m.chunk[j]
  <2>1. \A x \in d.base .. End(d) - 1 : x \notin c.base .. End(c) - 1
    BY <1>3, Apart
  <2>2. \A x \in d.base .. End(d) - 1 : (x \in DOMAIN g <=> x \in DOMAIN h) /\ (x \in DOMAIN h => g[x] = h[x])
    BY <2>1 DEF SameOutside
  <2>3. Chain(h, d)
    BY DEF Built
  <2> HIDE DEF d, h
  <2>4. In(g, d) = In(h, d) /\ \A x \in In(h, d) : g[x] = h[x]
    BY <2>2 DEF In
  <2> QED
    BY <2>3, <2>4, SameChain DEF d
<1>4. \A j \in Live(w) : Placed(w, w.chunk[j]) /\ Chain(w.hdr, w.chunk[j])
  BY <1>1, <1>2, <1>3 DEF Built, Placed
<1>5. \A j, k \in Live(w) : j # k => Distinct(w.chunk[j], w.chunk[k])
  BY <1>1, <1>2 DEF Built
<1>6. ASSUME NEW a \in DOMAIN g PROVE \E k \in Live(w) : a \in In(w.hdr, w.chunk[k])
  <2>1. CASE a \in c.base .. End(c) - 1
    BY <1>1, <1>2, <2>1 DEF In
  <2>2. CASE a \notin c.base .. End(c) - 1
    <3>1. a \in DOMAIN h
      BY <2>2 DEF SameOutside
    <3>2. PICK k \in Live(m) : a \in In(h, m.chunk[k])
      BY <3>1 DEF Built
    <3>3. a \in In(g, m.chunk[k])
      BY <3>2 DEF In
    <3> QED
      BY <1>1, <1>2, <3>3
  <2> QED
    BY <2>1, <2>2
<1>7. \A k \in 1 .. Chunks : k \notin Live(w) => w.chunk[k] = NoChunk
  BY <1>1, <1>2 DEF Built
<1>8. Built(w)
  BY <1>1, <1>4, <1>5, <1>6, <1>7 DEF Built
<1> QED
  BY <1>1, <1>2, <1>3, <1>8

-----------------------------------------------------------------------------
(* What the code writes when it merges and splits. *)

Joined(h, c, a) ==
  LET n == After(h, a)
      b == a + h[a].size + h[n].size
  IN [x \in DOMAIN h \ {n} |->
        IF x = a THEN [h[x] EXCEPT !.size = h[a].size + h[n].size]
        ELSE IF x = b /\ b < End(c) THEN [h[x] EXCEPT !.prev = h[a].size + h[n].size] ELSE h[x]]

LEMMA JoinedIs ==
  ASSUME NEW h \in Headers, NEW c \in ChunkRecord, Chain(h, c), NEW a \in In(h, c), After(h, a) < End(c)
  PROVE  /\ Joined(h, c, a) \in Headers /\ Joins(h, Joined(h, c, a), c, a) /\ SameOutside(h, Joined(h, c, a), c)
         /\ After(h, a) \in In(h, c) /\ After(h, a) # a
<1> DEFINE n == After(h, a)
           s == h[a].size + h[n].size
           b == a + h[a].size + h[n].size
           g == Joined(h, c, a)
<1>1. n \in In(h, c) /\ h[a].size > 1 /\ h[n].size > 1
  BY DEF Chain, Linked
<1>2. DOMAIN h \subseteq Addr /\ h \in [DOMAIN h -> Header]
  BY HeadersAre
<1>3. a \in DOMAIN h /\ n \in DOMAIN h /\ h[a] \in Header /\ h[n] \in Header
  BY <1>1, <1>2 DEF In
<1>4. h[a].size \in Nat /\ h[n].size \in Nat /\ a \in Nat /\ c.base \in Nat /\ c.base <= a
  BY <1>2, <1>3 DEF Header, Addr, ChunkRecord, In
<1>5. n # a /\ s \in Nat /\ b \in Nat /\ b > a /\ b > n /\ n \in Nat
  BY <1>1, <1>3, <1>4 DEF After
<1> HIDE DEF n
<1> HIDE DEF b, s
<1>6. g = [x \in DOMAIN h \ {n} |->
             IF x = a THEN [h[x] EXCEPT !.size = s]
             ELSE IF x = b /\ b < End(c) THEN [h[x] EXCEPT !.prev = s] ELSE h[x]]
  BY DEF Joined, n, b, s
<1>7. \A r \in Header : /\ [r EXCEPT !.size = s] \in Header /\ [r EXCEPT !.size = s].size = s
                        /\ [r EXCEPT !.size = s].prev = r.prev /\ [r EXCEPT !.size = s].magic = r.magic
                        /\ [r EXCEPT !.prev = s] \in Header /\ [r EXCEPT !.prev = s].size = r.size
                        /\ [r EXCEPT !.prev = s].prev = s /\ [r EXCEPT !.prev = s].magic = r.magic
  BY <1>5 DEF Header
<1>8. /\ DOMAIN g = DOMAIN h \ {n}
      /\ \A x \in DOMAIN g : g[x] = IF x = a THEN [h[x] EXCEPT !.size = s]
                                    ELSE IF x = b /\ b < End(c) THEN [h[x] EXCEPT !.prev = s] ELSE h[x]
  BY <1>6
<1>9. g \in [DOMAIN g -> Header]
  BY <1>2, <1>6, <1>7, <1>8
<1>10. g \in Headers
  BY <1>2, <1>8, <1>9, HeadersAre
<1> HIDE DEF g
<1>11. /\ g[a].size = s /\ g[a].magic = h[a].magic /\ g[a].prev = h[a].prev
       /\ \A x \in DOMAIN g : x # a => g[x].size = h[x].size /\ g[x].magic = h[x].magic
       /\ \A x \in DOMAIN g : x # b => g[x].prev = h[x].prev
       /\ b \in In(h, c) => g[b].prev = s
  <2>1. a \in DOMAIN g /\ a # b
    BY <1>3, <1>5, <1>8
  <2>2. \A x \in DOMAIN g : h[x] \in Header
    BY <1>2, <1>8
  <2>3. g[a].size = s /\ g[a].magic = h[a].magic /\ g[a].prev = h[a].prev
    <3>1. PICK r \in Header : r = h[a]
      BY <2>1, <2>2
    <3>2. g[a] = [r EXCEPT !.size = s]
      BY <1>8, <2>1, <3>1
    <3> QED
      BY <1>7, <3>1, <3>2
  <2>4. \A x \in DOMAIN g : x # a => g[x].size = h[x].size /\ g[x].magic = h[x].magic
    BY <1>7, <1>8, <2>2
  <2>5. \A x \in DOMAIN g : x # b => g[x].prev = h[x].prev
    BY <1>7, <1>8, <2>2
  <2>6. b \in In(h, c) => g[b].prev = s
    <3>1. b \in In(h, c) => b < End(c) /\ b \in DOMAIN g /\ b # a
      <4>1. b \in In(h, c) => b \in DOMAIN h /\ b <= End(c) - 1
        BY DEF In
      <4>2. End(c) \in Nat
        BY DEF End, ChunkRecord
      <4> QED
        BY <1>5, <1>8, <4>1, <4>2
    <3> SUFFICES ASSUME b \in In(h, c) PROVE g[b].prev = s
      OBVIOUS
    <3>2. PICK r \in Header : r = h[b]
      BY <2>2, <3>1
    <3>3. g[b] = [r EXCEPT !.prev = s]
      BY <1>8, <3>1, <3>2
    <3> QED
      BY <1>7, <3>2, <3>3
  <2> QED
    BY <2>3, <2>4, <2>5, <2>6
<1>12. Joins(h, g, c, a)
  BY <1>8, <1>11 DEF Joins, n, b, s
<1>13. SameOutside(h, g, c)
  <2> SUFFICES ASSUME NEW x, x \notin c.base .. End(c) - 1
               PROVE  (x \in DOMAIN g <=> x \in DOMAIN h) /\ (x \in DOMAIN h => g[x] = h[x])
    BY DEF SameOutside
  <2>1. x # n /\ x # a
    BY <1>1 DEF In
  <2>2. ~ (x = b /\ b < End(c))
    <3>1. End(c) \in Nat
      BY DEF End, ChunkRecord
    <3> QED
      BY <1>4, <1>5, <3>1
  <2> QED
    BY <1>8, <2>1, <2>2
<1> QED
  BY <1>1, <1>5, <1>10, <1>12, <1>13 DEF g, n

(* mm.h writes the sum of the sizes, takes the header away and tells the next block. *)
LEMMA MergeWrites ==
  ASSUME NEW m \in Mems, NEW c \in ChunkRecord, Chain(m.hdr, c), NEW a \in In(m.hdr, c), After(m.hdr, a) < End(c),
         NEW n, n = After(m.hdr, a)
  PROVE  TellNext([m EXCEPT !.hdr = Cleared([m.hdr EXCEPT ![a].size = @ + m.hdr[n].size], n)], c, a)
           = [m EXCEPT !.hdr = Joined(m.hdr, c, a)]
<1> DEFINE h == m.hdr
           s == h[a].size + h[n].size
           b == a + h[a].size + h[n].size
           h0 == [h EXCEPT ![a].size = @ + h[n].size]
           h1 == Cleared(h0, n)
           m1 == [m EXCEPT !.hdr = Cleared([m.hdr EXCEPT ![a].size = @ + m.hdr[n].size], n)]
           g == Joined(h, c, a)
<1>1. h \in Headers
  BY DEF Mems
<1>2. n \in In(h, c) /\ n # a /\ h[a].size > 1 /\ h[n].size > 1
  BY <1>1, JoinedIs DEF Chain, Linked
<1>3. DOMAIN h \subseteq Addr /\ h \in [DOMAIN h -> Header]
  BY <1>1, HeadersAre
<1>4. a \in DOMAIN h /\ n \in DOMAIN h /\ h[a] \in Header /\ h[n] \in Header
  BY <1>2, <1>3 DEF In
<1>5. h[a].size \in Nat /\ h[n].size \in Nat /\ a \in Nat /\ s \in Nat /\ b = a + s /\ b \in Nat /\ b > a
      /\ End(c) \in Nat /\ b > n
  BY <1>2, <1>3, <1>4 DEF Header, Addr, ChunkRecord, End, After
<1>6. g = [x \in DOMAIN h \ {n} |->
             IF x = a THEN [h[x] EXCEPT !.size = s]
             ELSE IF x = b /\ b < End(c) THEN [h[x] EXCEPT !.prev = s] ELSE h[x]]
  BY DEF Joined
<1>7. m1 = [m EXCEPT !.hdr = h1]
  OBVIOUS
<1> HIDE DEF m1
<1> HIDE DEF h, s, b, g
<1>8. h0 = [x \in DOMAIN h |-> IF x = a THEN [h[a] EXCEPT !.size = s] ELSE h[x]]
  <2>1. h0 = [h EXCEPT ![a] = [h[a] EXCEPT !.size = s]]
    BY <1>3, <1>4 DEF s
  <2> HIDE DEF h0
  <2> QED
    BY <1>3, <1>4, <2>1
<1> HIDE DEF h0
<1>9. h1 = [x \in DOMAIN h \ {n} |-> IF x = a THEN [h[a] EXCEPT !.size = s] ELSE h[x]]
  BY <1>4, <1>8 DEF Cleared
<1> HIDE DEF h1
<1>10. h1[a].size = s /\ DOMAIN h1 = DOMAIN h \ {n}
  BY <1>2, <1>4, <1>9 DEF Header
<1>11. m1.hdr = h1
  BY <1>7 DEF Mems
<1>12. CASE b >= End(c)
  <2>1. NextOf(m1, c, a) = Null
    BY <1>5, <1>10, <1>11, <1>12 DEF NextOf
  <2>2. TellNext(m1, c, a) = m1
    BY <2>1 DEF TellNext
  <2>3. h1 = g
    BY <1>5, <1>6, <1>9, <1>12
  <2> QED
    BY <1>7, <2>2, <2>3 DEF g, h, m1
<1>13. CASE b < End(c)
  <2>1. NextOf(m1, c, a) = b /\ b # Null
    BY <1>5, <1>10, <1>11, <1>13 DEF NextOf, Null
  <2>2. TellNext(m1, c, a) = [m1 EXCEPT !.hdr[b].prev = s]
    BY <1>10, <1>11, <2>1 DEF TellNext
  <2>3. [m1 EXCEPT !.hdr[b].prev = s] = [m EXCEPT !.hdr = [h1 EXCEPT ![b].prev = s]]
    BY <1>7, <1>11 DEF Mems
  <2>4. [h1 EXCEPT ![b].prev = s] = g
    <3> DEFINE g1 == [h1 EXCEPT ![b].prev = s]
    <3>1. DOMAIN g1 = DOMAIN h \ {n} /\ \A x \in DOMAIN h \ {n} : g1[x] = IF x = b THEN [h1[x] EXCEPT !.prev = s] ELSE h1[x]
      BY <1>9
    <3>2. b # a /\ \A x \in DOMAIN h \ {n} : x = b => h1[x] = h[x]
      BY <1>5, <1>9
    <3>3. \A x \in DOMAIN h \ {n} : g1[x] = g[x]
      BY <1>6, <1>9, <1>13, <3>1, <3>2
    <3>4. g1 = [x \in DOMAIN h \ {n} |-> g1[x]] /\ g = [x \in DOMAIN h \ {n} |-> g[x]]
      BY <1>6, <1>9
    <3> HIDE DEF g1
    <3> QED
      BY <3>3, <3>4 DEF g1
  <2> QED
    BY <2>2, <2>3, <2>4 DEF g, h, m1
<1> QED
  BY <1>5, <1>12, <1>13

(* kfree() up to the chunk: the block is marked, and merged with its neighbours. *)
Marked(h, a, magic) == [h EXCEPT ![a].magic = magic]
Forward(h, c, a) ==
  IF After(h, a) < End(c) /\ h[After(h, a)].magic = "free" THEN Joined(h, c, a) ELSE h
Backward(h, c, a) ==
  IF a # c.base /\ h[a - h[a].prev].magic = "free" THEN Joined(h, c, a - h[a].prev) ELSE h

LEMMA MarkedIs ==
  ASSUME NEW h \in Headers, NEW c \in ChunkRecord, Chain(h, c), NEW a \in In(h, c), NEW magic \in {"used", "free"}
  PROVE  /\ Marked(h, a, magic) \in Headers /\ SameOutside(h, Marked(h, a, magic), c)
         /\ DOMAIN Marked(h, a, magic) = DOMAIN h
         /\ \A x \in DOMAIN h : /\ Marked(h, a, magic)[x].size = h[x].size
                                /\ Marked(h, a, magic)[x].prev = h[x].prev
                                /\ Marked(h, a, magic)[x].magic = IF x = a THEN magic ELSE h[x].magic
         /\ Chain(Marked(h, a, magic), c) /\ In(Marked(h, a, magic), c) = In(h, c)
         /\ \A x \in In(h, c) : After(Marked(h, a, magic), x) = After(h, x)
<1> DEFINE g == Marked(h, a, magic)
<1>1. DOMAIN h \subseteq Addr /\ h \in [DOMAIN h -> Header] /\ a \in DOMAIN h
  BY HeadersAre DEF In
<1>2. g = [x \in DOMAIN h |-> IF x = a THEN [h[x] EXCEPT !.magic = magic] ELSE h[x]]
  <2>1. g = [h EXCEPT ![a] = [h[a] EXCEPT !.magic = magic]]
    BY DEF Marked
  <2> HIDE DEF g
  <2> QED
    BY <1>1, <2>1
<1> HIDE DEF g
<1>3. \A r \in Header : /\ [r EXCEPT !.magic = magic] \in Header /\ [r EXCEPT !.magic = magic].size = r.size
                        /\ [r EXCEPT !.magic = magic].prev = r.prev /\ [r EXCEPT !.magic = magic].magic = magic
  BY DEF Header
<1>4. g \in [DOMAIN h -> Header] /\ DOMAIN g = DOMAIN h
  BY <1>1, <1>2, <1>3
<1>5. g \in Headers
  BY <1>1, <1>4, HeadersAre
<1>6. \A x \in DOMAIN h : x # a => g[x] = h[x]
  BY <1>2
<1>7. \A x \in DOMAIN h : g[x].size = h[x].size /\ g[x].prev = h[x].prev
                          /\ g[x].magic = IF x = a THEN magic ELSE h[x].magic
  <2>1. PICK r \in Header : r = h[a]
    BY <1>1
  <2>2. g[a] = [r EXCEPT !.magic = magic]
    BY <1>1, <1>2, <2>1
  <2>3. g[a].size = h[a].size /\ g[a].prev = h[a].prev /\ g[a].magic = magic
    BY <1>3, <2>1, <2>2
  <2> QED
    BY <1>6, <2>3
<1>8. In(g, c) = In(h, c) /\ \A x \in In(h, c) : After(g, x) = After(h, x) /\ g[x].size = h[x].size /\ g[x].prev = h[x].prev
  BY <1>4, <1>7 DEF In, After
<1>9. Chain(g, c)
  <2>1. \A x \in In(h, c) : Linked(g, c, x)
    <3> SUFFICES ASSUME NEW x \in In(h, c) PROVE Linked(g, c, x)
      OBVIOUS
    <3>1. Linked(h, c, x)
      BY DEF Chain
    <3> QED
      BY <1>8, <3>1 DEF Linked
  <2> QED
    BY <1>8, <2>1 DEF Chain
<1>10. SameOutside(h, g, c)
  BY <1>4, <1>6 DEF SameOutside, In
<1> QED
  BY <1>4, <1>5, <1>7, <1>8, <1>9, <1>10 DEF g

LEMMA PrevIs ==
  ASSUME NEW h \in Headers, NEW c \in ChunkRecord, Chain(h, c), NEW a \in In(h, c), a # c.base
  PROVE  a - h[a].prev \in In(h, c) /\ After(h, a - h[a].prev) = a /\ a < End(c)
<1>1. PICK b \in In(h, c) : After(h, b) = a
  BY DEF Chain, Linked
<1>2. a \in Nat /\ b \in Nat /\ h[b].size \in Nat /\ End(c) \in Nat /\ a < End(c)
  BY HeadersAre DEF In, Header, Addr, ChunkRecord, End
<1>3. h[a].prev = h[b].size
  BY <1>1, <1>2 DEF Chain, Linked
<1>4. a - h[a].prev = b
  BY <1>1, <1>2, <1>3 DEF After
<1> QED
  BY <1>1, <1>2, <1>4

LEMMA SameTwice ==
  ASSUME NEW h, NEW g, NEW k, NEW c, SameOutside(h, g, c), SameOutside(g, k, c)
  PROVE  SameOutside(h, k, c)
BY DEF SameOutside

LEMMA BlockFreed ==
  ASSUME NEW h \in Headers, NEW c \in ChunkRecord, Chain(h, c), Tidy(h, c), NEW a \in In(h, c), h[a].magic = "used"
  PROVE  LET h2 == Forward(Marked(h, a, "free"), c, a)
             g == Backward(h2, c, a)
         IN /\ h2 \in Headers /\ Chain(h2, c) /\ a \in In(h2, c)
            /\ g \in Headers /\ SameOutside(h, g, c) /\ Chain(g, c) /\ Tidy(g, c)
            /\ UsedIn(g, c) = UsedIn(h, c) \ {a}
            /\ \A x \in UsedIn(g, c) : g[x].size = h[x].size
<1> DEFINE h1 == Marked(h, a, "free")
           h2 == Forward(h1, c, a)
           g == Backward(h2, c, a)
           n == After(h, a)
<1>1. /\ h1 \in Headers /\ SameOutside(h, h1, c) /\ DOMAIN h1 = DOMAIN h /\ Chain(h1, c) /\ In(h1, c) = In(h, c)
      /\ \A x \in DOMAIN h : h1[x].size = h[x].size /\ h1[x].magic = IF x = a THEN "free" ELSE h[x].magic
      /\ \A x \in In(h, c) : After(h1, x) = After(h, x)
  BY MarkedIs
<1> HIDE DEF h1
<1>2. \A x \in In(h, c) : x \in DOMAIN h /\ x \in Nat /\ h[x].size \in Nat /\ h[x].size > 1
  BY HeadersAre DEF In, Header, Addr, Chain, Linked
<1>3. \A x \in In(h, c) : After(h, x) < End(c) => After(h, x) \in In(h, c)
  BY DEF Chain, Linked
(* After the forward merge: what follows a is in use, the rest is tidy but for a. *)
<1>4. /\ h2 \in Headers /\ SameOutside(h, h2, c) /\ Chain(h2, c) /\ a \in In(h2, c) /\ In(h2, c) \subseteq In(h, c)
      /\ UsedIn(h2, c) = UsedIn(h, c) \ {a} /\ h2[a].magic = "free" /\ UsedAfter(h2, c, a)
      /\ \A x \in In(h2, c) : x # a => h2[x].size = h[x].size /\ h2[x].magic = h[x].magic /\ After(h2, x) = After(h, x)
  <2>1. CASE n < End(c) /\ h1[n].magic = "free"
    <3>1. h2 = Joined(h1, c, a)
      BY <1>1, <2>1 DEF Forward
    <3>2. /\ h2 \in Headers /\ Joins(h1, h2, c, a) /\ SameOutside(h1, h2, c) /\ n \in In(h, c) /\ n # a
      BY <1>1, <2>1, <3>1, JoinedIs
    <3>3. Chain(h2, c) /\ In(h2, c) = In(h, c) \ {n}
      BY <1>1, <3>2, JoinKeepsChain
    <3> HIDE DEF h2
    <3>4. /\ h2[a].size = h1[a].size + h1[n].size /\ h2[a].magic = h1[a].magic
          /\ \A x \in DOMAIN h2 : x # a => h2[x].size = h1[x].size /\ h2[x].magic = h1[x].magic
      BY <1>1, <3>2 DEF Joins
    <3>5. \A x \in In(h2, c) : x \in DOMAIN h2 /\ x \in DOMAIN h
      BY <3>3 DEF In
    <3>6. \A x \in In(h2, c) : x # a => h2[x].size = h[x].size /\ h2[x].magic = h[x].magic /\ After(h2, x) = After(h, x)
      BY <1>1, <3>4, <3>5 DEF After
    <3>7. a \in In(h2, c) /\ h2[a].magic = "free"
      BY <1>1, <1>2, <3>2, <3>3, <3>4
    <3>8. h[n].magic = "free"
      BY <1>1, <1>2, <2>1, <3>2
    <3>9. UsedIn(h2, c) = UsedIn(h, c) \ {a}
      BY <3>3, <3>6, <3>7, <3>8 DEF UsedIn
    <3>10. After(h2, a) = After(h, n)
      <4>1. n = a + h[a].size /\ h1[a].size = h[a].size /\ h1[n].size = h[n].size
        BY <1>1, <1>2, <3>2 DEF After
      <4>2. After(h2, a) = a + (h[a].size + h[n].size)
        BY <3>4, <4>1 DEF After
      <4>3. After(h, n) = n + h[n].size
        BY DEF After
      <4>4. a \in Nat /\ h[a].size \in Nat /\ h[n].size \in Nat
        BY <1>2, <3>2
      <4> HIDE DEF n
      <4> QED
        BY <4>1, <4>2, <4>3, <4>4
    <3>11. UsedAfter(h2, c, a)
      <4> SUFFICES ASSUME After(h, n) < End(c) PROVE h2[After(h, n)].magic = "used"
        BY <3>10 DEF UsedAfter
      <4>1. After(h, n) \in In(h, c) /\ h[After(h, n)].magic = "used"
        BY <1>3, <3>2, <3>8 DEF Tidy, UsedAfter
      <4>2. After(h, n) # n /\ After(h, n) # a
        <5>1. n = a + h[a].size /\ After(h, n) = n + h[n].size
          BY DEF After
        <5> HIDE DEF n
        <5> QED
          BY <1>2, <3>2, <5>1
      <4> QED
        BY <3>3, <3>6, <4>1, <4>2
    <3> QED
      BY <1>1, <3>2, <3>3, <3>6, <3>7, <3>9, <3>11, SameTwice
  <2>2. CASE ~ (n < End(c) /\ h1[n].magic = "free")
    <3>1. h2 = h1
      BY <1>1, <2>2 DEF Forward
    <3> HIDE DEF h2
    <3>2. UsedIn(h2, c) = UsedIn(h, c) \ {a} /\ h2[a].magic = "free"
      BY <1>1, <1>2, <3>1 DEF UsedIn
    <3>3. UsedAfter(h2, c, a)
      <4> SUFFICES ASSUME n < End(c) PROVE h1[n].magic = "used"
        BY <1>1, <3>1 DEF UsedAfter
      <4>1. n \in In(h1, c) /\ h1[n].magic # "free"
        BY <1>1, <1>3, <2>2
      <4> QED
        BY <1>1, <4>1, HeadersAre DEF In, Header
    <3> QED
      BY <1>1, <1>2, <3>1, <3>2, <3>3
  <2> QED
    BY <2>1, <2>2
<1> HIDE DEF h2
(* After the backward one it is tidy. *)
<1>5. \A x \in In(h2, c) : /\ x \in DOMAIN h2 /\ x \in Nat /\ h2[x].size \in Nat /\ h2[x].size > 1
                           /\ After(h2, x) < End(c) => After(h2, x) \in In(h2, c)
                           /\ h2[x].magic \in {"used", "free"}
  BY <1>4, HeadersAre DEF In, Header, Addr, Chain, Linked
<1>6. ASSUME NEW x \in In(h2, c), x # a, h2[x].magic = "free", After(h2, x) < End(c), After(h2, x) # a
      PROVE  h2[After(h2, x)].magic = "used"
  <2>1. x \in In(h, c) /\ h[x].magic = "free" /\ After(h2, x) = After(h, x)
    BY <1>4, <1>6
  <2>2. h[After(h, x)].magic = "used"
    BY <1>6, <2>1 DEF Tidy, UsedAfter
  <2>3. After(h2, x) \in In(h2, c)
    BY <1>5, <1>6
  <2> QED
    BY <1>4, <1>6, <2>1, <2>2, <2>3
<1> DEFINE b == a - h2[a].prev
<1>7. CASE a # c.base /\ h2[b].magic = "free"
  <2>1. g = Joined(h2, c, b)
    BY <1>7 DEF Backward
  <2>2. b \in In(h2, c) /\ After(h2, b) = a /\ a < End(c)
    BY <1>4, <1>7, PrevIs
  <2> HIDE DEF b
  <2>3. g \in Headers /\ Joins(h2, g, c, b) /\ SameOutside(h2, g, c) /\ b # a
    BY <1>4, <2>1, <2>2, JoinedIs
  <2>4. Chain(g, c) /\ In(g, c) = In(h2, c) \ {a}
    BY <1>4, <2>2, <2>3, JoinKeepsChain
  <2> HIDE DEF g
  <2>5. /\ g[b].size = h2[b].size + h2[a].size /\ g[b].magic = h2[b].magic
        /\ \A x \in DOMAIN g : x # b => g[x].size = h2[x].size /\ g[x].magic = h2[x].magic
    BY <2>2, <2>3 DEF Joins
  <2>6. \A x \in In(g, c) : x \in DOMAIN g
    BY DEF In
  <2>7. \A x \in In(g, c) : x # b => g[x].size = h2[x].size /\ g[x].magic = h2[x].magic /\ After(g, x) = After(h2, x)
    BY <2>5, <2>6 DEF After
  <2>8. After(g, b) = After(h2, a)
    <3>1. a = b + h2[b].size
      BY <2>2 DEF After
    <3>2. After(g, b) = b + (h2[b].size + h2[a].size) /\ After(h2, a) = a + h2[a].size
      BY <2>5 DEF After
    <3> QED
      BY <1>4, <1>5, <2>2, <3>1, <3>2
  <2>9. Tidy(g, c)
    <3> SUFFICES ASSUME NEW x \in In(g, c), g[x].magic = "free", After(g, x) < End(c)
                 PROVE  g[After(g, x)].magic = "used"
      BY DEF Tidy, UsedAfter
    <3>1. After(g, x) \in In(g, c)
      BY <2>4 DEF Chain, Linked
    <3>2. CASE x = b
      <4>1. h2[After(h2, a)].magic = "used"
        BY <1>4, <2>8, <3>2 DEF UsedAfter
      <4>2. After(g, x) # b
        BY <1>5, <1>7, <2>8, <3>2, <4>1
      <4> QED
        BY <2>7, <2>8, <3>1, <3>2, <4>1, <4>2
    <3>3. CASE x # b
      <4>1. x \in In(h2, c) /\ x # a /\ h2[x].magic = "free" /\ After(g, x) = After(h2, x)
        BY <2>4, <2>7, <3>3
      <4>2. After(h2, x) # a
        BY <2>4, <3>1, <4>1
      <4>3. h2[After(h2, x)].magic = "used"
        BY <1>6, <4>1, <4>2
      <4>4. After(g, x) # b
        BY <1>7, <4>1, <4>3 DEF b
      <4> QED
        BY <2>7, <3>1, <4>1, <4>3, <4>4
    <3> QED
      BY <3>2, <3>3
  <2>10. UsedIn(g, c) = UsedIn(h2, c)
    <3>1. h2[b].magic = "free" /\ h2[a].magic = "free" /\ g[b].magic = "free"
      BY <1>4, <1>7, <2>5 DEF b
    <3> QED
      BY <2>4, <2>7, <3>1 DEF UsedIn
  <2>11. \A x \in UsedIn(g, c) : g[x].size = h[x].size
    <3> SUFFICES ASSUME NEW x \in UsedIn(g, c) PROVE g[x].size = h[x].size
      OBVIOUS
    <3>1. x \in In(g, c) /\ x \in In(h2, c) /\ x # a /\ h2[x].magic = "used"
      BY <1>4, <2>10 DEF UsedIn
    <3>2. x # b
      BY <1>7, <3>1 DEF b
    <3> QED
      BY <1>4, <2>7, <3>1, <3>2
  <2> QED
    BY <1>4, <2>3, <2>4, <2>9, <2>10, <2>11, SameTwice DEF h2, h1, g
<1>8. CASE ~ (a # c.base /\ h2[b].magic = "free")
  <2>1. g = h2
    BY <1>8 DEF Backward
  <2>2. Tidy(h2, c)
    <3> SUFFICES ASSUME NEW x \in In(h2, c), h2[x].magic = "free", After(h2, x) < End(c)
                 PROVE  h2[After(h2, x)].magic = "used"
      BY DEF Tidy, UsedAfter
    <3>1. CASE x = a
      BY <1>4, <3>1 DEF UsedAfter
    <3>2. CASE x # a /\ After(h2, x) # a
      BY <1>6, <3>2
    <3>3. CASE After(h2, x) = a
      <4>1. x = b /\ a # c.base
        <5>1. a = x + h2[x].size
          BY <3>3 DEF After
        <5>2. h2[a].prev = h2[x].size
          BY <1>4, <3>3 DEF Chain, Linked
        <5>3. c.base <= x
          BY DEF In, ChunkRecord
        <5>4. c.base \in Nat
          BY DEF ChunkRecord
        <5> QED
          BY <1>5, <5>1, <5>2, <5>3, <5>4
      <4> QED
        BY <1>8, <4>1
    <3> QED
      BY <3>1, <3>2, <3>3
  <2>3. \A x \in UsedIn(h2, c) : h2[x].size = h[x].size
    BY <1>4 DEF UsedIn
  <2> HIDE DEF g
  <2> QED
    BY <1>4, <2>1, <2>2, <2>3 DEF h2, h1, g
<1> QED
  BY <1>7, <1>8

LEMMA ForwardIs ==
  ASSUME NEW m \in Mems, NEW c \in ChunkRecord, Chain(m.hdr, c), NEW a \in In(m.hdr, c)
  PROVE  MergeForward(m, c, a) = [m EXCEPT !.hdr = Forward(m.hdr, c, a)]
<1> DEFINE n == NextOf(m, c, a)
           next == After(m.hdr, a)
<1>1. n = IF next >= End(c) THEN Null ELSE next
  BY DEF NextOf, After
<1>2. /\ next < End(c) => next \in In(m.hdr, c) /\ next \in DOMAIN m.hdr /\ next # Null
      /\ next \in Nat /\ End(c) \in Nat
  <2>1. m.hdr \in Headers
    BY DEF Mems
  <2> QED
    BY <2>1, HeadersAre DEF Chain, Linked, In, Addr, Null, After, Header, ChunkRecord, End
<1>3. MergeForward(m, c, a) =
        IF n # Null /\ IsFree(m, n)
        THEN TellNext([m EXCEPT !.hdr = Cleared([m.hdr EXCEPT ![a].size = @ + m.hdr[n].size], n)], c, a)
        ELSE m
  BY DEF MergeForward
<1> HIDE DEF n
<1>4. CASE next < End(c) /\ m.hdr[next].magic = "free"
  <2>1. n = next /\ n # Null /\ IsFree(m, n)
    BY <1>1, <1>2, <1>4 DEF IsFree
  <2>2. Forward(m.hdr, c, a) = Joined(m.hdr, c, a)
    BY <1>4 DEF Forward
  <2> HIDE DEF next
  <2>3. TellNext([m EXCEPT !.hdr = Cleared([m.hdr EXCEPT ![a].size = @ + m.hdr[n].size], n)], c, a)
          = [m EXCEPT !.hdr = Joined(m.hdr, c, a)]
    BY <1>4, <2>1, MergeWrites DEF next
  <2> QED
    BY <1>3, <2>1, <2>2, <2>3
<1>5. CASE ~ (next < End(c) /\ m.hdr[next].magic = "free")
  <2>1. ~ (n # Null /\ IsFree(m, n))
    BY <1>1, <1>2, <1>5 DEF IsFree
  <2>2. Forward(m.hdr, c, a) = m.hdr
    BY <1>5 DEF Forward
  <2>3. [m EXCEPT !.hdr = m.hdr] = m
    BY DEF Mems
  <2> QED
    BY <1>3, <2>1, <2>2, <2>3
<1> QED
  BY <1>4, <1>5

LEMMA BackwardIs ==
  ASSUME NEW m \in Mems, NEW c \in ChunkRecord, Chain(m.hdr, c), NEW a \in In(m.hdr, c)
  PROVE  MergeBackward(m, c, a) = [m EXCEPT !.hdr = Backward(m.hdr, c, a)]
<1> DEFINE b == PrevOf(m, c, a)
           prev == a - m.hdr[a].prev
<1>1. b = IF a = c.base THEN Null ELSE prev
  BY DEF PrevOf
<1>2. a # c.base => prev \in In(m.hdr, c) /\ After(m.hdr, prev) = a /\ a < End(c)
                    /\ prev \in DOMAIN m.hdr /\ prev # Null
  <2>1. m.hdr \in Headers
    BY DEF Mems
  <2>2. \A x \in In(m.hdr, c) : x \in DOMAIN m.hdr /\ x # Null
    BY <2>1, HeadersAre DEF In, Addr, Null
  <2> QED
    BY <2>1, <2>2, PrevIs
<1>3. MergeBackward(m, c, a) =
        IF b # Null /\ IsFree(m, b)
        THEN TellNext([m EXCEPT !.hdr = Cleared([m.hdr EXCEPT ![b].size = @ + m.hdr[a].size], a)], c, b)
        ELSE m
  BY DEF MergeBackward
<1> HIDE DEF b
<1>4. CASE a # c.base /\ m.hdr[prev].magic = "free"
  <2>1. b = prev /\ b # Null /\ IsFree(m, b) /\ b \in In(m.hdr, c) /\ After(m.hdr, b) = a /\ a < End(c)
    BY <1>1, <1>2, <1>4 DEF IsFree
  <2>2. Backward(m.hdr, c, a) = Joined(m.hdr, c, b)
    BY <1>4, <2>1 DEF Backward
  <2>3. TellNext([m EXCEPT !.hdr = Cleared([m.hdr EXCEPT ![b].size = @ + m.hdr[a].size], a)], c, b)
          = [m EXCEPT !.hdr = Joined(m.hdr, c, b)]
    <3>1. a = After(m.hdr, b) /\ After(m.hdr, b) < End(c) /\ b \in In(m.hdr, c)
      BY <2>1
    <3> QED
      BY <3>1, MergeWrites, Zenon
  <2> QED
    BY <1>3, <2>1, <2>2, <2>3
<1>5. CASE ~ (a # c.base /\ m.hdr[prev].magic = "free")
  <2>1. ~ (b # Null /\ IsFree(m, b))
    BY <1>1, <1>2, <1>5 DEF IsFree
  <2>2. Backward(m.hdr, c, a) = m.hdr
    BY <1>5 DEF Backward
  <2>3. [m EXCEPT !.hdr = m.hdr] = m
    BY DEF Mems
  <2> QED
    BY <1>3, <2>1, <2>2, <2>3
<1> QED
  BY <1>4, <1>5

-----------------------------------------------------------------------------
(* A chunk that goes back to the pages, and kfree() as a whole. *)

Rest(m) == m.bits \ HeapPages(m)

LEMMA ChunkIs ==
  ASSUME ConstantsOK, NEW m, Built(m), NEW i \in Live(m)
  PROVE  LET c == m.chunk[i]
         IN /\ i \in 1 .. Chunks /\ c \in ChunkRecord /\ m \in Mems /\ m.hdr \in Headers
            /\ First(c) \in Nat /\ Num(c) \in Nat \ {0} /\ c.base \in Nat /\ c.bytes \in Nat \ {0}
            /\ BitmapPages <= First(c) /\ PagesOf(c) \subseteq m.bits /\ c.base = First(c) * Units
            /\ End(c) = (First(c) + Num(c)) * Units /\ End(c) \in Nat /\ Placed(m, c) /\ Chain(m.hdr, c)
            /\ First(c) + Num(c) <= NPages
<1> DEFINE c == m.chunk[i]
<1>1. i \in 1 .. Chunks /\ c \in ChunkRecord /\ m \in Mems /\ m.hdr \in Headers /\ c.bytes > 0
  BY DEF Built, Mems, Live
<1>2. Placed(m, c) /\ Chain(m.hdr, c)
  BY DEF Built
<1>3. Units \in Nat \ {0} /\ NPages \in Nat
  BY DEF ConstantsOK
<1> HIDE DEF c
<1>4. First(c) \in Nat /\ Num(c) \in Nat /\ c.base \in Nat /\ c.bytes \in Nat
  BY <1>1, <1>3 DEF First, Num, ChunkRecord
<1>5. Num(c) # 0
  BY <1>1, <1>2, <1>3, <1>4 DEF Placed
<1>6. End(c) = (First(c) + Num(c)) * Units /\ End(c) \in Nat
  BY <1>2, <1>3, <1>4 DEF Placed, End
<1>7. First(c) + Num(c) <= NPages
  <2>1. First(c) + Num(c) - 1 \in PagesOf(c)
    BY <1>4, <1>5 DEF PagesOf, Span
  <2>2. First(c) + Num(c) - 1 \in Page
    BY <1>1, <1>2, <2>1 DEF Placed, Mems
  <2> QED
    BY <1>3, <1>4, <2>2 DEF Page
<1> QED
  BY <1>1, <1>2, <1>4, <1>5, <1>6, <1>7 DEF Placed, c

LEMMA PagesDistinct ==
  ASSUME ConstantsOK, NEW m, Built(m), NEW i \in Live(m), NEW j \in Live(m), i # j
  PROVE  PagesOf(m.chunk[i]) \cap PagesOf(m.chunk[j]) = {}
<1> DEFINE c == m.chunk[i]
           d == m.chunk[j]
<1>1. Distinct(c, d)
  BY DEF Built
<1>2. First(c) \in Nat /\ Num(c) \in Nat /\ First(d) \in Nat /\ Num(d) \in Nat
  BY ChunkIs
<1> HIDE DEF c, d
<1>3. PagesOf(c) \cap PagesOf(d) = {}
  BY <1>1, <1>2 DEF Distinct, PagesOf, Span
<1> QED
  BY <1>3 DEF c, d

(* All headers of the other chunks stay, but one that was not tidy or busy may be. *)
LEMMA GivenBack ==
  ASSUME ConstantsOK, NEW m, Built(m), NEW i \in Live(m),
         \A j \in Live(m) : Tidy(m.hdr, m.chunk[j]),
         \A j \in Live(m) : j # i /\ j # 1 => UsedIn(m.hdr, m.chunk[j]) # {}
  PROVE  LET w == GiveBack(m, i)
         IN /\ Good(w) /\ UsedSet(w) = UsedSet(m) /\ Rest(w) = Rest(m)
            /\ \A x \in UsedSet(w) : w.hdr[x] = m.hdr[x]
<1> DEFINE c == m.chunk[i]
           h == m.hdr
           w == GiveBack(m, i)
<1>1. /\ i \in 1 .. Chunks /\ c \in ChunkRecord /\ m \in Mems /\ h \in Headers
      /\ First(c) \in Nat /\ Num(c) \in Nat \ {0} /\ c.base \in Nat /\ c.bytes \in Nat \ {0}
      /\ BitmapPages <= First(c) /\ PagesOf(c) \subseteq m.bits /\ c.base = First(c) * Units
      /\ End(c) \in Nat /\ Placed(m, c) /\ Chain(h, c)
  BY ChunkIs
<1>2. End(c) = c.base + c.bytes
  BY DEF End
<1>3. \A x \in In(h, c) : x \in DOMAIN h /\ x \in Nat /\ c.base <= x /\ x < End(c) /\ h[x].size \in Nat
                          /\ h[x].magic \in {"used", "free"}
  <2>1. \A x \in In(h, c) : x \in DOMAIN h /\ x \in c.base .. End(c) - 1
    BY DEF In
  <2> QED
    BY <1>1, <2>1, HeadersAre DEF Addr, Header
<1>4. c.base \in In(h, c) /\ After(h, c.base) = c.base + h[c.base].size /\ After(h, c.base) <= End(c)
      /\ (After(h, c.base) < End(c) => After(h, c.base) \in In(h, c))
  BY <1>1 DEF Chain, Linked, After
<1>5. CASE i = 1 \/ ~ IsFree(m, c.base) \/ h[c.base].size # c.bytes
  <2>1. w = m
    BY <1>5 DEF GiveBack
  <2>2. i # 1 => UsedIn(h, c) # {}
    <3> SUFFICES ASSUME i # 1 PROVE UsedIn(h, c) # {}
      OBVIOUS
    <3>1. CASE ~ IsFree(m, c.base)
      <4>1. h[c.base].magic = "used"
        BY <1>3, <1>4, <3>1 DEF IsFree
      <4> QED
        BY <1>4, <4>1 DEF UsedIn
    <3>2. CASE IsFree(m, c.base) /\ h[c.base].size # c.bytes
      <4>1. After(h, c.base) < End(c) /\ h[c.base].magic = "free"
        BY <1>1, <1>2, <1>3, <1>4, <3>2 DEF IsFree
      <4>2. h[After(h, c.base)].magic = "used"
        BY <1>4, <4>1 DEF Tidy, UsedAfter
      <4> QED
        BY <1>4, <4>1, <4>2 DEF UsedIn
    <3> QED
      BY <1>5, <3>1, <3>2
  <2> HIDE DEF w, h, c
  <2>3. Good(m)
    BY <2>2 DEF Good, h, c
  <2> QED
    BY <2>1, <2>3 DEF w
<1>6. CASE ~ (i = 1 \/ ~ IsFree(m, c.base) \/ h[c.base].size # c.bytes)
  <2> DEFINE g == Cleared(h, c.base)
             v == [m EXCEPT !.chunk[i] = NoChunk, !.hdr = Cleared(@, c.base)]
  <2>1. h[c.base].magic = "free" /\ h[c.base].size = c.bytes
    BY <1>6 DEF IsFree
  <2>2. In(h, c) = {c.base}
    <3> SUFFICES ASSUME NEW x \in In(h, c), x # c.base PROVE FALSE
      BY <1>4
    <3>1. c.base < x
      BY <1>1, <1>3
    <3>2. After(h, c.base) <= x
      BY <1>1, <1>4, <3>1 DEF Chain
    <3> QED
      BY <1>1, <1>2, <1>3, <1>4, <2>1, <3>2
  <2>3. DOMAIN g = DOMAIN h \ {c.base} /\ \A x \in DOMAIN g : g[x] = h[x]
    BY DEF Cleared
  <2>4. g \in Headers
    <3>1. DOMAIN h \subseteq Addr /\ h \in [DOMAIN h -> Header]
      BY <1>1, HeadersAre
    <3>2. g = [x \in DOMAIN h \ {c.base} |-> h[x]]
      BY DEF Cleared
    <3> HIDE DEF g
    <3>3. g \in [DOMAIN g -> Header] /\ DOMAIN g \subseteq Addr
      BY <2>3, <3>1, <3>2
    <3> QED
      BY <3>3, HeadersAre
  <2>5. w = PagesFree(v, First(c), Num(c))
    BY <1>6 DEF GiveBack, First, Num
  <2>6. /\ v \in Mems /\ v.hdr = g /\ v.bits = m.bits
        /\ v.chunk = [m.chunk EXCEPT ![i] = NoChunk]
    <3>1. NoChunk \in ChunkRecord
      BY DEF NoChunk, ChunkRecord
    <3>2. v = [m EXCEPT !.chunk = [m.chunk EXCEPT ![i] = NoChunk], !.hdr = g]
      BY <1>1 DEF Mems
    <3>3. [m.chunk EXCEPT ![i] = NoChunk] \in [1 .. Chunks -> ChunkRecord]
      BY <1>1, <3>1 DEF Mems
    <3> DEFINE ch == [m.chunk EXCEPT ![i] = NoChunk]
    <3> HIDE DEF v, g, ch
    <3>4. v \in [bits : SUBSET Page, hint : BitmapPages .. NPages - 1, free : Nat,
                 chunk : [1 .. Chunks -> ChunkRecord], hdr : Headers]
          /\ v.hdr = g /\ v.bits = m.bits /\ v.chunk = ch /\ v.free = m.free
      BY <1>1, <2>4, <3>2, <3>3 DEF Mems, ch
    <3>5. FreePages(v) = FreePages(m)
      BY <3>4 DEF FreePages
    <3> QED
      BY <1>1, <3>4, <3>5 DEF Mems, ch
  <2> HIDE DEF v
  <2>7. /\ w \in Mems /\ w.bits = m.bits \ PagesOf(c) /\ w.hdr = g
        /\ w.chunk = [m.chunk EXCEPT ![i] = NoChunk]
    BY <1>1, <2>5, <2>6, PagesGiven DEF PagesOf
  <2> HIDE DEF w, g
  <2>8. /\ \A j \in 1 .. Chunks : w.chunk[j] = IF j = i THEN NoChunk ELSE m.chunk[j]
        /\ Live(w) = Live(m) \ {i}
    <3>1. m.chunk \in [1 .. Chunks -> ChunkRecord]
      BY <1>1 DEF Mems
    <3>2. \A j \in 1 .. Chunks : w.chunk[j] = IF j = i THEN NoChunk ELSE m.chunk[j]
      BY <2>7, <3>1
    <3> QED
      BY <1>1, <3>2 DEF Live, NoChunk
  <2>9. ASSUME NEW j \in Live(w)
        PROVE  /\ j \in Live(m) /\ j # i /\ w.chunk[j] = m.chunk[j]
               /\ In(g, m.chunk[j]) = In(h, m.chunk[j]) /\ \A x \in In(h, m.chunk[j]) : g[x] = h[x]
               /\ Chain(g, m.chunk[j]) /\ Tidy(g, m.chunk[j])
    <3>1. j \in Live(m) /\ j # i /\ w.chunk[j] = m.chunk[j]
      BY <2>8 DEF Live
    <3> DEFINE d == m.chunk[j]
    <3>2. c.base \notin d.base .. End(d) - 1
      <4>1. c.base \in c.base .. End(c) - 1
        BY <1>4 DEF In
      <4> QED
        BY <3>1, <4>1, Apart
    <3>3. Chain(h, d) /\ Tidy(h, d)
      BY <3>1 DEF Built
    <3> HIDE DEF d, h, c
    <3>4. In(g, d) = In(h, d) /\ \A x \in In(h, d) : g[x] = h[x]
      BY <2>3, <3>2 DEF In
    <3>5. Chain(g, d) /\ Tidy(g, d)
      BY <3>3, <3>4, SameChain
    <3> QED
      BY <3>1, <3>4, <3>5 DEF d
  <2>10. Built(w)
    <3>1. ASSUME NEW j \in Live(w) PROVE Placed(w, w.chunk[j]) /\ Chain(w.hdr, w.chunk[j])
      <4>1. j \in Live(m) /\ j # i /\ w.chunk[j] = m.chunk[j] /\ Chain(g, m.chunk[j])
        BY <2>9
      <4>2. Placed(m, m.chunk[j]) /\ PagesOf(m.chunk[j]) \cap PagesOf(c) = {}
        BY <4>1, PagesDistinct DEF Built
      <4> QED
        BY <2>7, <4>1, <4>2 DEF Placed
    <3>2. \A j, k \in Live(w) : j # k => Distinct(w.chunk[j], w.chunk[k])
      BY <2>9 DEF Built
    <3>3. ASSUME NEW a \in DOMAIN w.hdr PROVE \E k \in Live(w) : a \in In(w.hdr, w.chunk[k])
      <4>1. a \in DOMAIN h /\ a # c.base
        BY <2>3, <2>7
      <4>2. PICK k \in Live(m) : a \in In(h, m.chunk[k])
        BY <4>1 DEF Built
      <4>3. k # i
        BY <2>2, <4>1, <4>2
      <4> QED
        BY <2>7, <2>8, <2>9, <4>2, <4>3
    <3>4. \A k \in 1 .. Chunks : k \notin Live(w) => w.chunk[k] = NoChunk
      BY <2>8 DEF Built
    <3> QED
      BY <2>7, <3>1, <3>2, <3>3, <3>4 DEF Built
  <2>11. Good(w)
    <3>1. \A j \in Live(w) : Tidy(w.hdr, w.chunk[j])
      BY <2>7, <2>9
    <3>2. ASSUME NEW j \in Live(w), j # 1 PROVE UsedIn(w.hdr, w.chunk[j]) # {}
      <4>1. UsedIn(h, m.chunk[j]) # {}
        BY <2>9, <3>2
      <4> QED
        BY <2>7, <2>9, <4>1 DEF UsedIn
    <3> QED
      BY <2>10, <3>1, <3>2 DEF Good
  <2>12. UsedSet(w) = UsedSet(m) /\ \A x \in UsedSet(w) : w.hdr[x] = m.hdr[x]
    BY <2>1, <2>3, <2>7 DEF UsedSet
  <2>13. HeapPages(m) = HeapPages(w) \cup PagesOf(c)
    BY <2>8, <2>9 DEF HeapPages
  <2>14. Rest(w) = Rest(m)
    BY <2>7, <2>13 DEF Rest
  <2> QED
    BY <2>11, <2>12, <2>14 DEF w
<1> QED
  BY <1>5, <1>6

LEMMA AcceptsIs ==
  ASSUME ConstantsOK, NEW m, Built(m), NEW p \in Int
  PROVE  /\ Accepts(m, p) <=> p - 1 \in UsedSet(m)
         /\ p - 1 \in UsedSet(m) => /\ Usable(m, p) = m.hdr[p - 1].size - 1
                                    /\ m.hdr[p - 1].size \in Nat /\ m.hdr[p - 1].size > 1
                                    /\ ChunkAt(m, p) # {}
         /\ \A k \in ChunkAt(m, p) : k \in Live(m) /\ (p - 1 \in UsedSet(m) => p - 1 \in In(m.hdr, m.chunk[k]))
<1> DEFINE a == p - 1
<1>1. \A k \in Live(m) : m.chunk[k].base \in Nat /\ End(m.chunk[k]) \in Nat
  BY ChunkIs
<1>2. ASSUME NEW k \in ChunkAt(m, p)
      PROVE  k \in Live(m) /\ a \in m.chunk[k].base .. End(m.chunk[k]) - 1
  <2>1. k \in Live(m) /\ p \in m.chunk[k].base + 1 .. End(m.chunk[k]) - 1
    BY DEF ChunkAt, Live
  <2> QED
    BY <1>1, <2>1
<1>3. ASSUME a \in UsedSet(m)
      PROVE  m.hdr[a].size \in Nat /\ m.hdr[a].size > 1 /\ ChunkAt(m, p) # {}
  <2>1. a \in DOMAIN m.hdr
    BY <1>3 DEF UsedSet
  <2>2. PICK k \in Live(m) : a \in In(m.hdr, m.chunk[k])
    BY <2>1 DEF Built
  <2>3. m.hdr[a].size > 1 /\ a + m.hdr[a].size <= End(m.chunk[k])
    BY <2>2 DEF Built, Chain, Linked, After
  <2>4. m.hdr[a].size \in Nat
    <3>1. m.hdr \in Headers
      BY DEF Built, Mems
    <3> QED
      BY <2>1, <3>1, HeadersAre DEF Header
  <2>5. m.chunk[k].base <= a
    BY <1>1, <2>2 DEF In
  <2>6. p \in m.chunk[k].base + 1 .. End(m.chunk[k]) - 1
    BY <1>1, <2>3, <2>4, <2>5
  <2> QED
    BY <2>2, <2>3, <2>4, <2>6 DEF ChunkAt, Live
<1>4. a \in UsedSet(m) <=> a \in DOMAIN m.hdr /\ m.hdr[a].magic = "used"
  BY DEF UsedSet
<1>5. a \in UsedSet(m) => Usable(m, p) = m.hdr[a].size - 1
  BY <1>3, <1>4 DEF Usable
<1>6. Accepts(m, p) <=> a \in UsedSet(m)
  <2>1. a \in UsedSet(m) => Accepts(m, p)
    BY <1>3, <1>5 DEF Accepts
  <2>2. a \notin UsedSet(m) => ~ Accepts(m, p)
    BY <1>4 DEF Accepts, Usable
  <2> QED
    BY <2>1, <2>2
<1>7. \A k \in ChunkAt(m, p) : k \in Live(m) /\ (a \in UsedSet(m) => a \in In(m.hdr, m.chunk[k]))
  BY <1>2, <1>4 DEF In
<1> QED
  BY <1>3, <1>5, <1>6, <1>7

(* kfree() takes back the block it is given, and nothing else. *)
LEMMA KfreeIs ==
  ASSUME ConstantsOK, NEW m, Good(m), NEW p \in Int, p - 1 \in UsedSet(m)
  PROVE  LET w == Kfree(m, p)
         IN /\ Good(w) /\ UsedSet(w) = UsedSet(m) \ {p - 1} /\ Rest(w) = Rest(m)
            /\ \A x \in UsedSet(w) : w.hdr[x].size = m.hdr[x].size
<1> DEFINE a == p - 1
           h == m.hdr
           i == CHOOSE k \in ChunkAt(m, p) : TRUE
           c == m.chunk[i]
           marked == [m EXCEPT !.hdr[p - 1].magic = "free"]
           h1 == Marked(h, a, "free")
           h2 == Forward(h1, c, a)
           g == Backward(h2, c, a)
           v == [m EXCEPT !.hdr = g]
<1>1. Built(m) /\ m \in Mems /\ h \in Headers
  BY DEF Good, Built, Mems
<1>2. Accepts(m, p) /\ i \in ChunkAt(m, p)
  BY <1>1, AcceptsIs
<1>3. i \in Live(m) /\ a \in In(h, c)
  BY <1>1, <1>2, AcceptsIs
<1>4. c \in ChunkRecord /\ Chain(h, c) /\ Tidy(h, c) /\ h[a].magic = "used"
  BY <1>1, <1>3, ChunkIs DEF Good, UsedSet
<1>5. Kfree(m, p) = GiveBack(MergeBackward(MergeForward(marked, c, a), c, a), i)
  BY <1>2 DEF Kfree
<1> HIDE DEF i
<1>6. marked = [m EXCEPT !.hdr = h1]
  BY DEF Marked, Mems
<1>7. h1 \in Headers /\ Chain(h1, c) /\ a \in In(h1, c)
  BY <1>1, <1>3, <1>4, MarkedIs
<1>8. /\ h2 \in Headers /\ Chain(h2, c) /\ a \in In(h2, c)
      /\ g \in Headers /\ SameOutside(h, g, c) /\ Chain(g, c) /\ Tidy(g, c)
      /\ UsedIn(g, c) = UsedIn(h, c) \ {a}
      /\ \A x \in UsedIn(g, c) : g[x].size = h[x].size
  BY <1>1, <1>3, <1>4, BlockFreed
<1> HIDE DEF h1, marked, c, a
<1>9. \A k \in Headers : /\ [m EXCEPT !.hdr = k] \in Mems /\ [m EXCEPT !.hdr = k].hdr = k
                         /\ \A f \in Headers : [[m EXCEPT !.hdr = k] EXCEPT !.hdr = f] = [m EXCEPT !.hdr = f]
  BY <1>1 DEF Mems, FreePages
<1>10. MergeForward(marked, c, a) = [m EXCEPT !.hdr = h2]
  <2>1. marked \in Mems /\ marked.hdr = h1
    BY <1>6, <1>7, <1>9
  <2>2. MergeForward(marked, c, a) = [marked EXCEPT !.hdr = h2]
    BY <1>4, <1>7, <2>1, ForwardIs
  <2> HIDE DEF h2
  <2> QED
    BY <1>6, <1>7, <1>8, <1>9, <2>2
<1> HIDE DEF h2
<1>11. MergeBackward([m EXCEPT !.hdr = h2], c, a) = v
  <2> DEFINE w == [m EXCEPT !.hdr = h2]
  <2>1. w \in Mems /\ w.hdr = h2
    BY <1>8, <1>9
  <2>2. MergeBackward(w, c, a) = [w EXCEPT !.hdr = g]
    <3> HIDE DEF w
    <3> QED
      BY <1>4, <1>8, <2>1, BackwardIs
  <2>3. [w EXCEPT !.hdr = g] = v
    <3> HIDE DEF g
    <3> QED
      BY <1>8, <1>9
  <2> QED
    BY <2>2, <2>3
<1> HIDE DEF g
<1>12. /\ Built(v) /\ v.hdr = g /\ v.chunk = m.chunk /\ v.bits = m.bits /\ Live(v) = Live(m)
       /\ HeapPages(v) = HeapPages(m)
       /\ \A j \in Live(m) : j # i =>
            /\ In(g, m.chunk[j]) = In(h, m.chunk[j])
            /\ \A x \in In(g, m.chunk[j]) : g[x] = h[x]
            /\ Tidy(h, m.chunk[j]) <=> Tidy(g, m.chunk[j])
  BY <1>1, <1>3, <1>8, HeaderStep DEF c
<1> HIDE DEF v
<1>13. \A j \in Live(v) : Tidy(v.hdr, v.chunk[j])
  BY <1>8, <1>12 DEF Good, c
<1>14. \A j \in Live(v) : j # i /\ j # 1 => UsedIn(v.hdr, v.chunk[j]) # {}
  BY <1>12 DEF Good, UsedIn
<1>15. LET w == GiveBack(v, i)
       IN /\ Good(w) /\ UsedSet(w) = UsedSet(v) /\ Rest(w) = Rest(v)
          /\ \A x \in UsedSet(w) : w.hdr[x] = v.hdr[x]
  BY <1>3, <1>12, <1>13, <1>14, GivenBack
<1>16. UsedSet(v) = UsedSet(m) \ {a} /\ \A x \in UsedSet(v) : g[x].size = h[x].size
  <2>1. \A x \in DOMAIN g : x \notin c.base .. End(c) - 1 => x \in DOMAIN h /\ g[x] = h[x]
    BY <1>8 DEF SameOutside
  <2>2. \A x \in DOMAIN h : x \notin c.base .. End(c) - 1 => x \in DOMAIN g /\ g[x] = h[x]
    BY <1>8 DEF SameOutside
  <2>3. \A x : x \in UsedIn(g, c) <=> x \in DOMAIN g /\ g[x].magic = "used" /\ x \in c.base .. End(c) - 1
    BY DEF UsedIn, In
  <2>4. \A x : x \in UsedIn(h, c) <=> x \in DOMAIN h /\ h[x].magic = "used" /\ x \in c.base .. End(c) - 1
    BY DEF UsedIn, In
  <2>5. a \in c.base .. End(c) - 1
    BY <1>3 DEF In
  <2>6. \A x : x \in UsedSet(v) <=> x \in DOMAIN g /\ g[x].magic = "used"
    BY <1>12 DEF UsedSet
  <2>7. \A x : x \in UsedSet(m) <=> x \in DOMAIN h /\ h[x].magic = "used"
    BY DEF UsedSet
  <2>8. ASSUME NEW x PROVE x \in UsedSet(v) <=> x \in UsedSet(m) \ {a}
    <3>1. CASE x \in c.base .. End(c) - 1
      BY <1>8, <2>3, <2>4, <2>6, <2>7, <3>1
    <3>2. CASE x \notin c.base .. End(c) - 1
      BY <2>1, <2>2, <2>5, <2>6, <2>7, <3>2
    <3> QED
      BY <3>1, <3>2
  <2>9. ASSUME NEW x \in UsedSet(v) PROVE g[x].size = h[x].size
    <3>1. CASE x \in c.base .. End(c) - 1
      BY <1>8, <2>3, <2>6, <2>9, <3>1
    <3>2. CASE x \notin c.base .. End(c) - 1
      BY <2>1, <2>6, <2>9, <3>2
    <3> QED
      BY <3>1, <3>2
  <2> QED
    BY <2>8, <2>9
<1>17. Rest(v) = Rest(m)
  BY <1>12 DEF Rest
<1> HIDE DEF h
<1> QED
  BY <1>5, <1>10, <1>11, <1>12, <1>15, <1>16, <1>17 DEF a, h

-----------------------------------------------------------------------------
(* kmalloc(): a block is cut, out of a new chunk if no other has room. *)

SplitAt(h, c, a, need) ==
  LET rest == a + need
      b == After(h, a)
  IN [x \in DOMAIN h \cup {rest} |->
        IF x = a THEN [size |-> need, prev |-> h[a].prev, magic |-> "used"]
        ELSE IF x = rest THEN [size |-> h[a].size - need, prev |-> need, magic |-> "free"]
        ELSE IF x = b /\ b < End(c) THEN [h[x] EXCEPT !.prev = h[a].size - need] ELSE h[x]]

LEMMA SplitIs ==
  ASSUME NEW h \in Headers, NEW c \in ChunkRecord, Chain(h, c), NEW a \in In(h, c),
         NEW need \in Nat, need > 1, h[a].size >= need + 2, a + need \in Addr
  PROVE  LET g == SplitAt(h, c, a, need)
         IN g \in Headers /\ Splits(h, g, c, a, need) /\ SameOutside(h, g, c)
<1> DEFINE rest == a + need
           s == h[a].size
           b == After(h, a)
           left == s - need
           g == SplitAt(h, c, a, need)
<1>1. DOMAIN h \subseteq Addr /\ h \in [DOMAIN h -> Header] /\ a \in DOMAIN h
  BY HeadersAre DEF In
<1>2. /\ a \in Nat /\ s \in Nat /\ h[a].prev \in Nat /\ b \in Nat /\ rest \in Nat /\ b = a + s /\ a < rest /\ rest < b
      /\ b <= End(c) /\ c.base <= a /\ rest + left = b /\ left \in Nat /\ End(c) \in Nat /\ c.base \in Nat
  <2>1. a \in Nat /\ s \in Nat /\ h[a].prev \in Nat
    BY <1>1 DEF Header, Addr
  <2>2. b <= End(c) /\ c.base <= a /\ b = a + s /\ End(c) \in Nat /\ c.base \in Nat
    BY DEF Chain, Linked, In, After, ChunkRecord, End
  <2> QED
    BY <2>1, <2>2
<1>3. rest \notin DOMAIN h
  <2>1. rest \in c.base .. End(c) - 1
    BY <1>2
  <2>2. rest \in DOMAIN h => b <= rest
    BY <1>2, <2>1 DEF In, Chain
  <2> QED
    BY <1>2, <2>2
<1> HIDE DEF rest, s, b, left
<1>4. g = [x \in DOMAIN h \cup {rest} |->
             IF x = a THEN [size |-> need, prev |-> h[a].prev, magic |-> "used"]
             ELSE IF x = rest THEN [size |-> left, prev |-> need, magic |-> "free"]
             ELSE IF x = b /\ b < End(c) THEN [h[x] EXCEPT !.prev = left] ELSE h[x]]
  BY DEF SplitAt, rest, b, left, s
<1>5. \A r \in Header : /\ [r EXCEPT !.prev = left] \in Header /\ [r EXCEPT !.prev = left].size = r.size
                        /\ [r EXCEPT !.prev = left].prev = left /\ [r EXCEPT !.prev = left].magic = r.magic
  BY <1>2 DEF Header
<1>6. /\ DOMAIN g = DOMAIN h \cup {rest}
      /\ g[a] = [size |-> need, prev |-> h[a].prev, magic |-> "used"]
      /\ g[rest] = [size |-> left, prev |-> need, magic |-> "free"]
      /\ \A x \in DOMAIN h : x # a => g[x] = IF x = b /\ b < End(c) THEN [h[x] EXCEPT !.prev = left] ELSE h[x]
  BY <1>1, <1>2, <1>3, <1>4
<1> HIDE DEF g
<1>7. g[a] \in Header /\ g[rest] \in Header
  BY <1>2, <1>6 DEF Header
<1>8. \A x \in DOMAIN h : x # a => g[x] \in Header /\ g[x].size = h[x].size /\ g[x].magic = h[x].magic
  BY <1>1, <1>5, <1>6
<1>9. \A x \in DOMAIN h : x # b => g[x].prev = h[x].prev
  BY <1>1, <1>5, <1>6
<1>10. b \in In(h, c) => g[b].prev = left
  <2> SUFFICES ASSUME b \in In(h, c) PROVE g[b].prev = left
    OBVIOUS
  <2>1. b \in DOMAIN h /\ b \in c.base .. End(c) - 1
    BY DEF In
  <2>2. b < End(c) /\ b # a
    BY <1>2, <2>1
  <2>3. PICK r \in Header : r = h[b]
    BY <1>1, <2>1
  <2>4. g[b] = [r EXCEPT !.prev = left]
    BY <1>6, <2>1, <2>2, <2>3
  <2> QED
    BY <1>5, <2>3, <2>4
<1>11. Splits(h, g, c, a, need)
  BY <1>6, <1>8, <1>9, <1>10 DEF Splits, rest, b, left, s
<1>12. g \in Headers
  <2>1. g = [x \in DOMAIN g |-> g[x]]
    BY <1>4 DEF g
  <2>2. \A x \in DOMAIN g : g[x] \in Header
    BY <1>6, <1>7, <1>8
  <2>3. g \in [DOMAIN g -> Header]
    BY <2>1, <2>2
  <2>4. DOMAIN g \subseteq Addr
    BY <1>1, <1>6 DEF rest
  <2> QED
    BY <2>3, <2>4, HeadersAre
<1>13. SameOutside(h, g, c)
  <2> SUFFICES ASSUME NEW x, x \notin c.base .. End(c) - 1
               PROVE  (x \in DOMAIN g <=> x \in DOMAIN h) /\ (x \in DOMAIN h => g[x] = h[x])
    BY DEF SameOutside
  <2>1. x # rest /\ x # a /\ ~ (x = b /\ b < End(c))
    BY <1>2
  <2> QED
    BY <1>6, <2>1
<1> QED
  BY <1>11, <1>12, <1>13 DEF g

LEMMA CarveWrites ==
  ASSUME NEW m \in Mems, NEW c \in ChunkRecord, Chain(m.hdr, c), NEW a \in In(m.hdr, c),
         NEW need \in Nat, need > 1
  PROVE  /\ m.hdr[a].size >= need + 2 => Carve(m, c, a, need) = [m EXCEPT !.hdr = SplitAt(m.hdr, c, a, need)]
         /\ ~ (m.hdr[a].size >= need + 2) => Carve(m, c, a, need) = [m EXCEPT !.hdr = Marked(m.hdr, a, "used")]
<1> DEFINE h == m.hdr
           rest == a + need
           s == h[a].size
           b == After(h, a)
           left == s - need
           g == SplitAt(h, c, a, need)
           h1 == Set(Set(h, rest, h[a].size - need, need, "free"), a, need, h[a].prev, "used")
           cut == [m EXCEPT !.hdr = Set(Set(@, rest, h[a].size - need, need, "free"), a, need, h[a].prev, "used")]
<1>1. CASE ~ (s >= need + 2)
  <2>1. Carve(m, c, a, need) = [m EXCEPT !.hdr[a].magic = "used"]
    BY <1>1 DEF Carve
  <2>2. [m EXCEPT !.hdr[a].magic = "used"] = [m EXCEPT !.hdr = Marked(m.hdr, a, "used")]
    BY DEF Marked, Mems
  <2> QED
    BY <1>1, <2>1, <2>2
<1>2. CASE s >= need + 2
  <2>1. /\ Carve(m, c, a, need) = TellNext(cut, c, rest)
    BY <1>2 DEF Carve
  <2>2. cut = [m EXCEPT !.hdr = h1]
    OBVIOUS
  <2> HIDE DEF cut
  <2>3. cut.hdr = h1
    BY <2>2 DEF Mems
  <2>4. h \in Headers
    BY DEF Mems
  <2>5. DOMAIN h \subseteq Addr /\ h \in [DOMAIN h -> Header] /\ a \in DOMAIN h
    BY <2>4, HeadersAre DEF In
  <2>6. /\ a \in Nat /\ s \in Nat /\ b \in Nat /\ rest \in Nat /\ b = a + s /\ a < rest /\ rest < b
        /\ End(c) \in Nat /\ rest + left = b /\ b <= End(c) /\ c.base <= a
    <3>1. a \in Nat /\ s \in Nat
      BY <2>5 DEF Header, Addr
    <3>2. b = a + s /\ End(c) \in Nat /\ b <= End(c) /\ c.base <= a
      BY DEF After, ChunkRecord, End, Chain, Linked, In
    <3> QED
      BY <1>2, <3>1, <3>2
  <2>7. rest \notin DOMAIN h
    <3>1. rest \in c.base .. End(c) - 1
      BY <2>6 DEF ChunkRecord
    <3>2. rest \in DOMAIN h => b <= rest
      BY <2>6, <3>1 DEF In, Chain
    <3> QED
      BY <2>6, <3>2
  <2>8. g = [x \in DOMAIN h \cup {rest} |->
               IF x = a THEN [size |-> need, prev |-> h[a].prev, magic |-> "used"]
               ELSE IF x = rest THEN [size |-> left, prev |-> need, magic |-> "free"]
               ELSE IF x = b /\ b < End(c) THEN [h[x] EXCEPT !.prev = left] ELSE h[x]]
    BY DEF SplitAt
  <2> HIDE DEF h, rest, s, b, g
  <2> HIDE DEF left
  <2>9. h1 = [x \in DOMAIN h \cup {rest} |->
               IF x = a THEN [size |-> need, prev |-> h[a].prev, magic |-> "used"]
               ELSE IF x = rest THEN [size |-> left, prev |-> need, magic |-> "free"] ELSE h[x]]
    <3> DEFINE h0 == Set(h, rest, h[a].size - need, need, "free")
    <3>1. h0 = [x \in DOMAIN h \cup {rest} |-> IF x = rest THEN [size |-> left, prev |-> need, magic |-> "free"] ELSE h[x]]
      BY DEF Set, left, s
    <3>2. h1 = Set(h0, a, need, h[a].prev, "used")
      OBVIOUS
    <3> HIDE DEF h0, h1
    <3>3. DOMAIN h0 = DOMAIN h \cup {rest} /\ DOMAIN h0 \cup {a} = DOMAIN h \cup {rest}
      BY <2>5, <3>1
    <3>4. h1 = [x \in DOMAIN h0 \cup {a} |-> IF x = a THEN [size |-> need, prev |-> h[a].prev, magic |-> "used"] ELSE h0[x]]
      BY <3>2 DEF Set
    <3> QED
      BY <3>1, <3>3, <3>4
  <2> HIDE DEF h1
  <2>10. h1[rest].size = left /\ DOMAIN h1 = DOMAIN h \cup {rest}
    BY <2>6, <2>9
  <2>11. NextOf(cut, c, rest) = IF b >= End(c) THEN Null ELSE b
    BY <2>3, <2>6, <2>10 DEF NextOf
  <2>12. CASE b >= End(c)
    <3>1. TellNext(cut, c, rest) = cut
      BY <2>11, <2>12 DEF TellNext
    <3>2. h1 = g
      BY <2>6, <2>8, <2>9, <2>12
    <3> QED
      BY <1>2, <2>1, <2>2, <3>1, <3>2 DEF g, h, s
  <2>13. CASE b < End(c)
    <3>1. TellNext(cut, c, rest) = [cut EXCEPT !.hdr[b].prev = left]
      BY <2>3, <2>6, <2>10, <2>11, <2>13 DEF TellNext, Null
    <3>2. [cut EXCEPT !.hdr[b].prev = left] = [m EXCEPT !.hdr = [h1 EXCEPT ![b].prev = left]]
      BY <2>2, <2>3 DEF Mems
    <3>3. [h1 EXCEPT ![b].prev = left] = g
      <4> DEFINE g1 == [h1 EXCEPT ![b].prev = left]
                 D == DOMAIN h \cup {rest}
      <4>1. DOMAIN g1 = D /\ \A x \in D : g1[x] = IF x = b THEN [h1[x] EXCEPT !.prev = left] ELSE h1[x]
        BY <2>9
      <4>2. b # a /\ b # rest /\ \A x \in D : x = b => h1[x] = h[x]
        BY <2>6, <2>9
      <4>3. \A x \in D : g1[x] = g[x]
        BY <2>8, <2>9, <2>13, <4>1, <4>2
      <4>4. g1 = [x \in D |-> g1[x]] /\ g = [x \in D |-> g[x]]
        BY <2>8, <2>9
      <4> HIDE DEF g1
      <4> QED
        BY <4>3, <4>4 DEF g1
    <3> QED
      BY <1>2, <2>1, <3>1, <3>2, <3>3 DEF g, h, s
  <2> QED
    BY <2>6, <2>12, <2>13
<1> QED
  BY <1>1, <1>2

LEMMA InAddr ==
  ASSUME ConstantsOK, NEW m, Built(m), NEW i \in Live(m), NEW x \in m.chunk[i].base .. End(m.chunk[i]) - 1
  PROVE  x \in Addr
<1> DEFINE c == m.chunk[i]
           k == First(c) + Num(c)
<1>1. c.base \in Nat /\ End(c) = k * Units /\ End(c) \in Nat /\ k \in Nat /\ k <= NPages
  BY ChunkIs
<1>2. Units \in Nat /\ NPages \in Nat
  BY DEF ConstantsOK
<1> HIDE DEF k
<1>3. End(c) <= NPages * Units /\ NPages * Units \in Nat
  BY <1>1, <1>2, Ordered
<1> HIDE DEF c
<1>4. x \in c.base .. End(c) - 1
  BY DEF c
<1> QED
  BY <1>1, <1>3, <1>4 DEF Addr

(* A block is cut in a heap that is good, or has just got the chunk it is cut in. *)
LEMMA CarveIs ==
  ASSUME ConstantsOK, NEW m, Built(m), NEW i \in Live(m), NEW a \in In(m.hdr, m.chunk[i]), m.hdr[a].magic = "free",
         NEW need \in Nat, need > 1, m.hdr[a].size >= need,
         \A j \in Live(m) : Tidy(m.hdr, m.chunk[j]),
         \A j \in Live(m) : j # i /\ j # 1 => UsedIn(m.hdr, m.chunk[j]) # {}
  PROVE  LET w == Carve(m, m.chunk[i], a, need)
         IN /\ Good(w) /\ UsedSet(w) = UsedSet(m) \cup {a} /\ a \notin UsedSet(m) /\ w.hdr[a].size >= need
            /\ \A x \in UsedSet(m) : w.hdr[x].size = m.hdr[x].size
            /\ Rest(w) = Rest(m)
<1> DEFINE c == m.chunk[i]
           h == m.hdr
           w == Carve(m, c, a, need)
<1>1. m \in Mems /\ h \in Headers /\ c \in ChunkRecord /\ Chain(h, c) /\ Tidy(h, c)
      /\ c.base \in Nat /\ End(c) \in Nat
  BY ChunkIs
<1>2. a \in DOMAIN h /\ a \in c.base .. End(c) - 1 /\ a \in Nat /\ h[a].size \in Nat /\ After(h, a) <= End(c)
  <2>1. a \in DOMAIN h /\ a \in c.base .. End(c) - 1
    BY DEF In
  <2>2. a \in Nat /\ h[a].size \in Nat
    BY <1>1, <2>1, HeadersAre DEF Addr, Header
  <2> QED
    BY <1>1, <2>1, <2>2 DEF Chain, Linked
<1>3. a \notin UsedSet(m)
  BY DEF UsedSet
<1> HIDE DEF c, h
(* Both ways, what is in use in the chunk is what was and a. *)
<1>4. \E g \in Headers :
        /\ w = [m EXCEPT !.hdr = g] /\ SameOutside(h, g, c) /\ Chain(g, c) /\ Tidy(g, c)
        /\ \A x \in DOMAIN g : g[x].magic = "used" => x \in DOMAIN h
        /\ DOMAIN h \subseteq DOMAIN g
        /\ \A x \in DOMAIN h : g[x].magic = "used" <=> h[x].magic = "used" \/ x = a
        /\ \A x \in DOMAIN h : x # a => g[x].size = h[x].size
        /\ g[a].size >= need
  <2>1. CASE h[a].size >= need + 2
    <3> DEFINE g == SplitAt(h, c, a, need)
               rest == a + need
    <3>1. rest \in Addr
      <4>1. rest \in c.base .. End(c) - 1
        BY <1>1, <1>2, <2>1 DEF After
      <4> QED
        BY <4>1, InAddr DEF c
    <3>2. a \in In(h, c)
      BY DEF c, h
    <3>3. w = [m EXCEPT !.hdr = g]
      BY <1>1, <2>1, <3>1, <3>2, CarveWrites DEF h
    <3>4. g \in Headers /\ Splits(h, g, c, a, need) /\ SameOutside(h, g, c)
      BY <1>1, <2>1, <3>1, <3>2, SplitIs
    <3>5. h[a].magic = "free"
      BY DEF h
    <3> HIDE DEF g, w
    <3>6. Chain(g, c) /\ rest \notin DOMAIN h /\ Tidy(g, c)
      BY <1>1, <2>1, <3>2, <3>4, <3>5, SplitKeepsChain
    <3>7. /\ DOMAIN g = DOMAIN h \cup {rest}
          /\ g[a].size = need /\ g[a].magic = "used" /\ g[rest].magic = "free"
          /\ \A x \in DOMAIN h : x # a => g[x].size = h[x].size /\ g[x].magic = h[x].magic
      BY <3>4 DEF Splits
    <3> HIDE DEF rest
    <3>8. \A x \in DOMAIN g : g[x].magic = "used" => x \in DOMAIN h
      BY <3>7
    <3>9. \A x \in DOMAIN h : g[x].magic = "used" <=> h[x].magic = "used" \/ x = a
      BY <3>7
    <3>10. \A x \in DOMAIN h : x # a => g[x].size = h[x].size
      BY <3>7
    <3>11. DOMAIN h \subseteq DOMAIN g /\ g[a].size >= need
      BY <3>7
    <3>12. g \in Headers /\ SameOutside(h, g, c)
      BY <3>4
    <3> HIDE DEF rest
    <3> QED
      BY <3>3, <3>6, <3>8, <3>9, <3>10, <3>11, <3>12
  <2>2. CASE ~ (h[a].size >= need + 2)
    <3> DEFINE g == Marked(h, a, "used")
    <3>1. a \in In(h, c) /\ h[a].size >= need
      BY DEF c, h
    <3>2. w = [m EXCEPT !.hdr = g]
      BY <1>1, <2>2, <3>1, CarveWrites DEF h
    <3>3. /\ g \in Headers /\ SameOutside(h, g, c) /\ DOMAIN g = DOMAIN h
          /\ \A x \in DOMAIN h : /\ g[x].size = h[x].size
                                 /\ g[x].magic = IF x = a THEN "used" ELSE h[x].magic
          /\ Chain(g, c) /\ In(g, c) = In(h, c)
          /\ \A x \in In(h, c) : After(g, x) = After(h, x)
      BY <1>1, <3>1, MarkedIs
    <3> HIDE DEF g, w
    <3>4. Tidy(g, c)
      <4> SUFFICES ASSUME NEW x \in In(g, c), g[x].magic = "free", After(g, x) < End(c)
                   PROVE  g[After(g, x)].magic = "used"
        BY DEF Tidy, UsedAfter
      <4>1. x \in In(h, c) /\ After(g, x) = After(h, x) /\ x \in DOMAIN h
        BY <3>3 DEF In
      <4>2. h[x].magic = "free"
        BY <3>3, <4>1
      <4>3. h[After(h, x)].magic = "used" /\ After(h, x) \in DOMAIN h
        BY <1>1, <4>1, <4>2 DEF Tidy, UsedAfter, Chain, Linked, In
      <4> QED
        BY <3>3, <4>1, <4>3
    <3>5. \A x \in DOMAIN g : g[x].magic = "used" => x \in DOMAIN h
      BY <3>3
    <3>6. \A x \in DOMAIN h : g[x].magic = "used" <=> h[x].magic = "used" \/ x = a
      BY <3>3
    <3>7. \A x \in DOMAIN h : x # a => g[x].size = h[x].size
      BY <3>3
    <3>8. DOMAIN h \subseteq DOMAIN g /\ g[a].size >= need
      BY <1>2, <3>1, <3>3
    <3>9. g \in Headers /\ SameOutside(h, g, c) /\ Chain(g, c)
      BY <3>3
    <3> QED
      BY <3>2, <3>4, <3>5, <3>6, <3>7, <3>8, <3>9
  <2> QED
    BY <2>1, <2>2
<1> HIDE DEF w
<1>5. PICK g \in Headers :
        /\ w = [m EXCEPT !.hdr = g] /\ SameOutside(h, g, c) /\ Chain(g, c) /\ Tidy(g, c)
        /\ \A x \in DOMAIN g : g[x].magic = "used" => x \in DOMAIN h
        /\ DOMAIN h \subseteq DOMAIN g
        /\ \A x \in DOMAIN h : g[x].magic = "used" <=> h[x].magic = "used" \/ x = a
        /\ \A x \in DOMAIN h : x # a => g[x].size = h[x].size
        /\ g[a].size >= need
  BY <1>4
<1>6. /\ Built(w) /\ w.hdr = g /\ w.chunk = m.chunk /\ w.bits = m.bits /\ Live(w) = Live(m)
      /\ HeapPages(w) = HeapPages(m)
      /\ \A j \in Live(m) : j # i =>
           /\ In(g, m.chunk[j]) = In(m.hdr, m.chunk[j])
           /\ \A x \in In(g, m.chunk[j]) : g[x] = m.hdr[x]
           /\ Tidy(m.hdr, m.chunk[j]) <=> Tidy(g, m.chunk[j])
  BY <1>5, HeaderStep DEF c, h
<1>7. \A j \in Live(w) : Tidy(w.hdr, w.chunk[j])
  BY <1>5, <1>6 DEF c
<1>8. ASSUME NEW j \in Live(w), j # 1 PROVE UsedIn(w.hdr, w.chunk[j]) # {}
  <2>1. CASE j = i
    <3>1. a \in In(g, c)
      BY <1>2, <1>5 DEF In
    <3>2. g[a].magic = "used"
      BY <1>2, <1>5
    <3> QED
      BY <1>6, <2>1, <3>1, <3>2 DEF UsedIn, c
  <2>2. CASE j # i
    <3>1. UsedIn(m.hdr, m.chunk[j]) # {}
      BY <1>6, <1>8, <2>2
    <3>2. UsedIn(g, m.chunk[j]) = UsedIn(m.hdr, m.chunk[j])
      BY <1>6, <2>2, <1>8 DEF UsedIn
    <3> QED
      BY <1>6, <3>1, <3>2
  <2> QED
    BY <2>1, <2>2
<1>9. Good(w)
  BY <1>6, <1>7, <1>8 DEF Good
<1>10. UsedSet(w) = UsedSet(m) \cup {a}
  <2>1. \A x : x \in UsedSet(w) <=> x \in DOMAIN g /\ g[x].magic = "used"
    BY <1>6 DEF UsedSet
  <2>2. \A x : x \in UsedSet(m) <=> x \in DOMAIN h /\ h[x].magic = "used"
    BY DEF UsedSet, h
  <2>3. \A x : x \in UsedSet(w) <=> x \in UsedSet(m) \/ x = a
    BY <1>2, <1>5, <2>1, <2>2
  <2> QED
    BY <2>3
<1>11. \A x \in UsedSet(m) : w.hdr[x].size = m.hdr[x].size
  BY <1>3, <1>5, <1>6 DEF UsedSet, h
<1>12. Rest(w) = Rest(m)
  BY <1>6 DEF Rest
<1>13. w.hdr[a].size >= need
  BY <1>5, <1>6
<1> QED
  BY <1>3, <1>9, <1>10, <1>11, <1>12, <1>13 DEF w, c

LEMMA BestFits ==
  ASSUME ConstantsOK, NEW m \in Mems, NEW need \in Nat
  PROVE  /\ Fits(m, need) # {} => Best(m, need) \in Fits(m, need)
         /\ \A f \in Fits(m, need) :
              f[1] \in Live(m) /\ f[2] \in In(m.hdr, m.chunk[f[1]]) /\ m.hdr[f[2]].magic = "free" /\ m.hdr[f[2]].size >= need
         /\ \A i \in Live(m) : \A a \in In(m.hdr, m.chunk[i]) :
              m.hdr[a].magic = "free" /\ m.hdr[a].size >= need => <<i, a>> \in Fits(m, need)
<1> DEFINE F == Fits(m, need)
<1>1. Chunks \in Nat /\ m.hdr \in Headers
  BY DEF Mems, ConstantsOK
<1>2. DOMAIN m.hdr \subseteq Nat
  BY <1>1, HeadersAre DEF Addr
<1>3. \A f \in F : f \in (1 .. Chunks) \X DOMAIN m.hdr
  BY DEF Fits
<1>4. \A f \in F : f[1] \in Nat /\ f[2] \in Nat
  BY <1>1, <1>2, <1>3
<1>5. ASSUME F # {} PROVE \E f \in F : \A g \in F : f[1] < g[1] \/ (f[1] = g[1] /\ f[2] <= g[2])
  <2> HIDE DEF F
  <2> DEFINE S == {f[1] : f \in F}
  <2>1. S \in SUBSET Nat /\ S # {}
    BY <1>4, <1>5
  <2>2. PICK k \in S : \A y \in S : k <= y
    BY <2>1, Least
  <2> DEFINE T == {f[2] : f \in {g \in F : g[1] = k}}
  <2>3. T \in SUBSET Nat /\ T # {}
    BY <1>4, <2>2
  <2>4. PICK b \in T : \A y \in T : b <= y
    BY <2>3, Least
  <2>5. PICK f \in F : f[1] = k /\ f[2] = b
    BY <2>4
  <2>6. ASSUME NEW g \in F PROVE f[1] < g[1] \/ (f[1] = g[1] /\ f[2] <= g[2])
    <3>1. k <= g[1] /\ (g[1] = k => b <= g[2])
      BY <2>2, <2>4
    <3> QED
      BY <1>4, <2>5, <3>1
  <2> QED
    BY <2>6
<1>6. F # {} => Best(m, need) \in F
  BY <1>5 DEF Best
<1>7. ASSUME NEW f \in F
      PROVE  f[1] \in Live(m) /\ f[2] \in In(m.hdr, m.chunk[f[1]]) /\ m.hdr[f[2]].magic = "free" /\ m.hdr[f[2]].size >= need
  BY <1>3 DEF Fits, BlocksIn, In, Live, IsFree
<1>8. ASSUME NEW i \in Live(m), NEW a \in In(m.hdr, m.chunk[i]), m.hdr[a].magic = "free", m.hdr[a].size >= need
      PROVE  <<i, a>> \in F
  BY <1>8 DEF Fits, BlocksIn, In, Live, IsFree
<1> QED
  BY <1>6, <1>7, <1>8

(* A chunk begins as one free block. *)
LEMMA NewChunk ==
  ASSUME NEW g, NEW c, c.base \in Nat, c.bytes \in Nat, c.bytes > 1, In(g, c) = {c.base}, g[c.base].size = c.bytes
  PROVE  Chain(g, c) /\ Tidy(g, c)
<1>1. After(g, c.base) = End(c) /\ End(c) \in Nat
  BY DEF After, End
<1>2. Linked(g, c, c.base)
  BY <1>1 DEF Linked
<1>3. Chain(g, c)
  BY <1>1, <1>2 DEF Chain
<1>4. Tidy(g, c)
  BY <1>1 DEF Tidy, UsedAfter
<1> QED
  BY <1>3, <1>4

(* The heap with a chunk more: it is there, and everything else is as it was. *)
Grown(m, w, j, need) ==
  /\ j \in 1 .. Chunks /\ j \notin Live(m) /\ Live(w) = Live(m) \cup {j}
  /\ Built(w) /\ \A i \in Live(w) : Tidy(w.hdr, w.chunk[i])
  /\ \A i \in Live(m) : /\ w.chunk[i] = m.chunk[i] /\ In(w.hdr, w.chunk[i]) = In(m.hdr, m.chunk[i])
                        /\ \A x \in In(m.hdr, m.chunk[i]) : w.hdr[x] = m.hdr[x]
  /\ In(w.hdr, w.chunk[j]) = {w.chunk[j].base}
  /\ w.hdr[w.chunk[j].base].magic = "free" /\ w.hdr[w.chunk[j].base].size >= need
  /\ UsedSet(w) = UsedSet(m) /\ \A x \in UsedSet(m) : w.hdr[x] = m.hdr[x]
  /\ Rest(w) = Rest(m)

LEMMA ChunkPut ==
  ASSUME ConstantsOK, NEW m, Good(m), NEW need \in Nat, need > 1, NEW n \in Nat \ {0}, need <= n * Units,
         NEW first \in FreeStarts(m, n, BitmapPages, NPages), NEW j \in 1 .. Chunks, j \notin Live(m)
  PROVE  Grown(m, [PagesAlloc(m, first, n) EXCEPT
                     !.chunk[j] = [base |-> first * Units, bytes |-> n * Units],
                     !.hdr = Set(@, first * Units, n * Units, 0, "free")], j, need)
<1> DEFINE p == PagesAlloc(m, first, n)
           d == [base |-> first * Units, bytes |-> n * Units]
           h == m.hdr
           g == Set(h, first * Units, n * Units, 0, "free")
           w == [p EXCEPT !.chunk[j] = d, !.hdr = Set(@, first * Units, n * Units, 0, "free")]
<1>1. m \in Mems /\ Built(m) /\ h \in Headers
  BY DEF Good, Built, Mems
<1>2. Units \in Nat \ {0} /\ NPages \in Nat /\ BitmapPages \in Nat
  BY DEF ConstantsOK
<1>3. first \in Nat /\ BitmapPages <= first /\ first + n <= NPages /\ Span(first, n) \cap m.bits = {}
  BY <1>2 DEF FreeStarts
<1>4. p \in Mems /\ p.bits = m.bits \cup Span(first, n) /\ p.chunk = m.chunk /\ p.hdr = h
  BY <1>1, PagesTaken
<1> HIDE DEF p
<1>5. /\ d.base = first * Units /\ d.bytes = n * Units /\ d.base \in Nat /\ d.bytes \in Nat /\ d.bytes > 1
      /\ d.bytes >= need /\ d \in ChunkRecord /\ End(d) = (first + n) * Units
  BY <1>2, <1>3 DEF ChunkRecord, End
<1>6. First(d) = first /\ Num(d) = n
  BY <1>2, <1>3, <1>5, Whole DEF First, Num
<1>7. w = [p EXCEPT !.chunk = [m.chunk EXCEPT ![j] = d], !.hdr = g]
  BY <1>4 DEF Mems
<1> HIDE DEF w
<1>8. m.chunk \in [1 .. Chunks -> ChunkRecord]
  BY <1>1 DEF Mems
<1> HIDE DEF d
<1>9. /\ w.chunk = [m.chunk EXCEPT ![j] = d] /\ w.hdr = g /\ w.bits = m.bits \cup Span(first, n)
      /\ w.hint = p.hint /\ w.free = p.free
  BY <1>4, <1>7 DEF Mems
<1>10. w.chunk[j] = d /\ \A i \in 1 .. Chunks : i # j => w.chunk[i] = m.chunk[i]
  BY <1>8, <1>9
<1>11. Live(w) = Live(m) \cup {j}
  BY <1>5, <1>10 DEF Live
(* No live chunk has a unit of the new one. *)
<1>12. ASSUME NEW i \in Live(m)
       PROVE  /\ \A x : ~ (x \in m.chunk[i].base .. End(m.chunk[i]) - 1 /\ x \in d.base .. End(d) - 1)
              /\ Distinct(m.chunk[i], d) /\ Distinct(d, m.chunk[i])
  <2> DEFINE c == m.chunk[i]
  <2>1. /\ First(c) \in Nat /\ Num(c) \in Nat \ {0} /\ PagesOf(c) \subseteq m.bits
        /\ c.base = First(c) * Units /\ End(c) = (First(c) + Num(c)) * Units /\ c.base \in Nat /\ End(c) \in Nat
    BY <1>1, ChunkIs
  <2> HIDE DEF c
  <2>2. First(c) + Num(c) <= first \/ first + n <= First(c)
    <3>1. Span(First(c), Num(c)) \cap Span(first, n) = {}
      BY <1>3, <2>1 DEF PagesOf
    <3>2. first \in Span(first, n) /\ First(c) \in Span(First(c), Num(c))
      BY <1>3, <2>1 DEF Span
    <3>3. first \notin Span(First(c), Num(c)) /\ First(c) \notin Span(first, n)
      BY <3>1, <3>2
    <3> QED
      BY <1>3, <2>1, <3>3 DEF Span
  <2>3. Distinct(c, d) /\ Distinct(d, c)
    BY <1>6, <2>2 DEF Distinct
  <2>4. End(c) <= d.base \/ End(d) <= c.base
    <3>1. CASE First(c) + Num(c) <= first
      BY <1>2, <1>3, <1>5, <2>1, <3>1, Ordered
    <3>2. CASE first + n <= First(c)
      BY <1>2, <1>3, <1>5, <2>1, <3>2, Ordered
    <3> QED
      BY <2>2, <3>1, <3>2
  <2>5. End(d) \in Nat
    BY <1>5 DEF End
  <2>6. ASSUME NEW x, x \in c.base .. End(c) - 1, x \in d.base .. End(d) - 1 PROVE FALSE
    BY <1>5, <2>1, <2>4, <2>5, <2>6
  <2> QED
    BY <2>3, <2>6 DEF c
<1>13. d.base \in d.base .. End(d) - 1
  BY <1>5 DEF End
<1>14. d.base \in Addr
  <2>1. (first + 1) * Units <= NPages * Units
    BY <1>2, <1>3, Ordered
  <2>2. (first + 1) * Units = d.base + Units /\ NPages * Units \in Nat
    BY <1>2, <1>3, <1>5
  <2> QED
    BY <1>2, <1>5, <2>1, <2>2 DEF Addr
<1>15. \A a \in DOMAIN h : \E i \in Live(m) : a \in In(h, m.chunk[i])
  BY <1>1 DEF Built
<1>16. \A a \in DOMAIN h : a \notin d.base .. End(d) - 1
  BY <1>12, <1>15 DEF In
<1>17. /\ DOMAIN g = DOMAIN h \cup {d.base}
       /\ g[d.base] = [size |-> d.bytes, prev |-> 0, magic |-> "free"]
       /\ \A x \in DOMAIN h : g[x] = h[x]
       /\ g = [x \in DOMAIN g |-> g[x]]
  BY <1>5, <1>13, <1>16 DEF Set
<1> HIDE DEF g, h
<1>18. g \in Headers
  <2>1. DOMAIN h \subseteq Addr /\ h \in [DOMAIN h -> Header]
    BY <1>1, HeadersAre DEF h
  <2>2. g[d.base] \in Header
    BY <1>5, <1>17 DEF Header
  <2>3. \A x \in DOMAIN g : g[x] \in Header
    BY <1>17, <2>1, <2>2
  <2>4. DOMAIN g \subseteq Addr
    BY <1>14, <1>17, <2>1
  <2>5. g \in [DOMAIN g -> Header]
    BY <1>17, <2>3
  <2> QED
    BY <2>4, <2>5, HeadersAre
<1>19. w \in Mems
  <2>1. p.free = Cardinality(FreePages(p)) /\ p.bits = w.bits
    BY <1>4, <1>9 DEF Mems
  <2>2. FreePages(w) = FreePages(p)
    BY <2>1 DEF FreePages
  <2>3. [m.chunk EXCEPT ![j] = d] \in [1 .. Chunks -> ChunkRecord]
    BY <1>5, <1>8
  <2>4. p \in [bits : SUBSET Page, hint : BitmapPages .. NPages - 1, free : Nat,
               chunk : [1 .. Chunks -> ChunkRecord], hdr : Headers]
    BY <1>4 DEF Mems
  <2>5. w \in [bits : SUBSET Page, hint : BitmapPages .. NPages - 1, free : Nat,
               chunk : [1 .. Chunks -> ChunkRecord], hdr : Headers]
    BY <1>7, <1>18, <2>3, <2>4
  <2> QED
    BY <1>9, <2>1, <2>2, <2>5 DEF Mems
<1>20. In(g, d) = {d.base}
  BY <1>13, <1>16, <1>17 DEF In
<1>21. \A i \in Live(m) : In(g, m.chunk[i]) = In(h, m.chunk[i]) /\ \A x \in In(h, m.chunk[i]) : g[x] = h[x]
  <2> SUFFICES ASSUME NEW i \in Live(m)
               PROVE  In(g, m.chunk[i]) = In(h, m.chunk[i]) /\ \A x \in In(h, m.chunk[i]) : g[x] = h[x]
    OBVIOUS
  <2>1. d.base \notin m.chunk[i].base .. End(m.chunk[i]) - 1
    BY <1>12, <1>13
  <2> QED
    BY <1>17, <2>1 DEF In
<1>22. Chain(g, d) /\ Tidy(g, d)
  BY <1>5, <1>17, <1>20, NewChunk
<1>23. \A i \in Live(m) : i # j /\ i \in 1 .. Chunks /\ w.chunk[i] = m.chunk[i]
  BY <1>10 DEF Live
<1>24. \A i \in Live(m) : /\ Chain(g, m.chunk[i]) /\ Tidy(g, m.chunk[i])
  <2> SUFFICES ASSUME NEW i \in Live(m) PROVE Chain(g, m.chunk[i]) /\ Tidy(g, m.chunk[i])
    OBVIOUS
  <2>1. Chain(h, m.chunk[i]) /\ Tidy(h, m.chunk[i])
    BY <1>1 DEF Good, Built, h
  <2> QED
    BY <1>21, <2>1, SameChain
<1>25. ASSUME NEW i \in Live(w)
       PROVE  Placed(w, w.chunk[i]) /\ Chain(w.hdr, w.chunk[i]) /\ Tidy(w.hdr, w.chunk[i])
  <2>1. CASE i = j
    <3>1. PagesOf(d) \subseteq w.bits
      BY <1>6, <1>9 DEF PagesOf
    <3>2. Placed(w, d)
      BY <1>3, <1>5, <1>6, <3>1 DEF Placed
    <3> QED
      BY <1>9, <1>10, <1>22, <2>1, <3>2
  <2>2. CASE i \in Live(m)
    <3>1. Placed(m, m.chunk[i])
      BY <1>1, <2>2 DEF Built
    <3>2. Placed(w, m.chunk[i])
      BY <1>9, <3>1 DEF Placed
    <3> QED
      BY <1>9, <1>23, <1>24, <2>2, <3>2
  <2> QED
    BY <1>11, <2>1, <2>2
<1>26. ASSUME NEW i \in Live(w), NEW k \in Live(w), i # k PROVE Distinct(w.chunk[i], w.chunk[k])
  <2>1. CASE i \in Live(m) /\ k \in Live(m)
    BY <1>1, <1>23, <1>26, <2>1 DEF Built
  <2>2. CASE i = j /\ k \in Live(m)
    BY <1>10, <1>12, <1>23, <2>2
  <2>3. CASE k = j /\ i \in Live(m)
    BY <1>10, <1>12, <1>23, <2>3
  <2> QED
    BY <1>11, <1>26, <2>1, <2>2, <2>3
<1>27. ASSUME NEW a \in DOMAIN w.hdr PROVE \E i \in Live(w) : a \in In(w.hdr, w.chunk[i])
  <2>1. CASE a = d.base
    BY <1>9, <1>10, <1>11, <1>20, <2>1
  <2>2. CASE a \in DOMAIN h
    <3>1. PICK i \in Live(m) : a \in In(h, m.chunk[i])
      BY <1>15, <2>2
    <3> QED
      BY <1>9, <1>11, <1>21, <1>23, <3>1
  <2> QED
    BY <1>9, <1>17, <2>1, <2>2
<1>28. \A i \in 1 .. Chunks : i \notin Live(w) => w.chunk[i] = NoChunk
  BY <1>1, <1>10, <1>11 DEF Built
<1>29. Built(w)
  BY <1>19, <1>25, <1>26, <1>27, <1>28 DEF Built
<1>30. UsedSet(w) = UsedSet(m) /\ \A x \in UsedSet(m) : w.hdr[x] = m.hdr[x]
  <2>1. \A x : x \in UsedSet(m) <=> x \in DOMAIN h /\ h[x].magic = "used"
    BY DEF UsedSet, h
  <2>2. \A x : x \in UsedSet(w) <=> x \in DOMAIN g /\ g[x].magic = "used"
    BY <1>9 DEF UsedSet
  <2>3. g[d.base].magic = "free"
    BY <1>17
  <2>4. \A x : x \in UsedSet(w) <=> x \in UsedSet(m)
    BY <1>17, <2>1, <2>2, <2>3
  <2>5. UsedSet(w) = UsedSet(m)
    BY <2>4
  <2>6. \A x \in UsedSet(m) : w.hdr[x] = m.hdr[x]
    BY <1>9, <1>17, <2>1 DEF h
  <2> QED
    BY <2>5, <2>6
<1>31. Rest(w) = Rest(m)
  <2>1. HeapPages(w) = HeapPages(m) \cup Span(first, n)
    <3>1. \A i \in Live(m) : PagesOf(w.chunk[i]) = PagesOf(m.chunk[i])
      BY <1>23
    <3>2. PagesOf(w.chunk[j]) = Span(first, n)
      BY <1>6, <1>10 DEF PagesOf
    <3> QED
      BY <1>11, <3>1, <3>2 DEF HeapPages
  <2> QED
    BY <1>3, <1>9, <2>1 DEF Rest
<1>32. \A i \in Live(m) : /\ w.chunk[i] = m.chunk[i] /\ In(w.hdr, w.chunk[i]) = In(m.hdr, m.chunk[i])
                         /\ \A x \in In(m.hdr, m.chunk[i]) : w.hdr[x] = m.hdr[x]
  BY <1>9, <1>21, <1>23 DEF h
<1>33. /\ In(w.hdr, w.chunk[j]) = {w.chunk[j].base}
       /\ w.hdr[w.chunk[j].base].magic = "free" /\ w.hdr[w.chunk[j].base].size >= need
  BY <1>5, <1>9, <1>10, <1>17, <1>20
<1>34. \A i \in Live(w) : Tidy(w.hdr, w.chunk[i])
  BY <1>25
<1>35. Grown(m, w, j, need)
  BY <1>11, <1>29, <1>30, <1>31, <1>32, <1>33, <1>34 DEF Grown
<1> QED
  BY <1>35 DEF w, d, p, g, h

LEMMA ChunkAdded ==
  ASSUME ConstantsOK, NEW m, Good(m), NEW need \in Nat, need > 1
  PROVE  ChunkAdd(m, need) = m \/ \E j \in 1 .. Chunks : Grown(m, ChunkAdd(m, need), j, need)
<1> DEFINE room == {i \in 1 .. Chunks : m.chunk[i].bytes = 0}
           n == Max({MinPages, (need + Units - 1) \div Units})
           first == FirstFit(m, n)
<1>1. CASE room = {} \/ first = Null
  BY <1>1 DEF ChunkAdd
<1>2. CASE ~ (room = {} \/ first = Null)
  <2>1. m \in Mems /\ Chunks \in Nat /\ Units \in Nat \ {0} /\ MinPages \in Nat \ {0}
    BY DEF Good, Built, ConstantsOK
  <2>2. Min(room) \in room
    BY <1>2, <2>1, MinIsLeast
  <2>3. Min(room) \in 1 .. Chunks /\ Min(room) \notin Live(m)
    BY <2>2 DEF Live
  <2>4. n \in Nat \ {0} /\ need <= n * Units
    <3> DEFINE k == (need + Units - 1) \div Units
    <3>1. k \in Nat /\ need <= k * Units
      BY <2>1, Enough
    <3> HIDE DEF k
    <3>2. Max({MinPages, k}) = IF MinPages >= k THEN MinPages ELSE k
      BY <2>1, <3>1, MaxOfTwo
    <3>3. k <= Max({MinPages, k}) /\ Max({MinPages, k}) \in Nat \ {0}
      BY <2>1, <3>1, <3>2
    <3>4. k * Units <= Max({MinPages, k}) * Units
      BY <2>1, <3>1, <3>3, Ordered
    <3>5. Max({MinPages, k}) * Units \in Nat /\ k * Units \in Nat
      BY <2>1, <3>1, <3>3
    <3>6. need <= Max({MinPages, k}) * Units
      BY <3>1, <3>4, <3>5
    <3> QED
      BY <3>3, <3>6 DEF k
  <2> HIDE DEF n
  <2>5. first \in FreeStarts(m, n, BitmapPages, NPages)
    BY <1>2, <2>1, <2>4, FitIs
  <2> HIDE DEF first
  <2> DEFINE j == Min(room)
  <2>6. ChunkAdd(m, need) = [PagesAlloc(m, first, n) EXCEPT
                               !.chunk[j] = [base |-> first * Units, bytes |-> n * Units],
                               !.hdr = Set(@, first * Units, n * Units, 0, "free")]
    BY <1>2 DEF ChunkAdd, first, n
  <2>7. j \in 1 .. Chunks /\ j \notin Live(m)
    BY <2>3
  <2> HIDE DEF j
  <2>8. Grown(m, [PagesAlloc(m, first, n) EXCEPT
                    !.chunk[j] = [base |-> first * Units, bytes |-> n * Units],
                    !.hdr = Set(@, first * Units, n * Units, 0, "free")], j, need)
    BY <2>4, <2>5, <2>7, ChunkPut
  <2>9. Grown(m, ChunkAdd(m, need), j, need)
    BY <2>6, <2>8, Zenon
  <2> QED
    BY <2>7, <2>9
<1> QED
  BY <1>1, <1>2

(* kmalloc() gives a block that nobody holds and that is big enough, or nothing,
   and then nothing has changed. *)
LEMMA KmallocIs ==
  ASSUME ConstantsOK, NEW m, Good(m), NEW size \in Nat \ {0}
  PROVE  LET r == Kmalloc(m, size)
             a == r.p - 1
         IN \/ r.p = Null /\ r.m = m
            \/ /\ r.p \in Nat /\ r.p # Null /\ Good(r.m)
               /\ a \notin UsedSet(m) /\ UsedSet(r.m) = UsedSet(m) \cup {a} /\ r.m.hdr[a].size > size
               /\ \A x \in UsedSet(m) : r.m.hdr[x].size = m.hdr[x].size
               /\ Rest(r.m) = Rest(m)
<1> DEFINE need == size + 1
           grown == IF Fits(m, need) = {} THEN ChunkAdd(m, need) ELSE m
           f == Best(grown, need)
           w == Carve(grown, grown.chunk[f[1]], f[2], need)
           r == Kmalloc(m, size)
<1>1. need \in Nat /\ need > 1 /\ size \in Nat
  OBVIOUS
<1>2. r = IF Fits(grown, need) = {} THEN [m |-> grown, p |-> Null] ELSE [m |-> w, p |-> f[2] + 1]
  BY DEF Kmalloc
<1> HIDE DEF r, w, f
(* Either no chunk was added, or every fit is in the new one. *)
<1>3. /\ Built(grown) /\ \A i \in Live(grown) : Tidy(grown.hdr, grown.chunk[i])
      /\ UsedSet(grown) = UsedSet(m) /\ (\A x \in UsedSet(m) : grown.hdr[x] = m.hdr[x]) /\ Rest(grown) = Rest(m)
      /\ Fits(grown, need) = {} => grown = m
      /\ \A g \in Fits(grown, need) : \A i \in Live(grown) : i # g[1] /\ i # 1 => UsedIn(grown.hdr, grown.chunk[i]) # {}
  <2>1. CASE grown = m
    BY <2>1 DEF Good
  <2>2. CASE grown # m
    <3>1. Fits(m, need) = {} /\ grown = ChunkAdd(m, need)
      BY <2>2
    <3>2. PICK j \in 1 .. Chunks : Grown(m, grown, j, need)
      BY <1>1, <2>2, <3>1, ChunkAdded
    <3> HIDE DEF grown, need
    <3>3. /\ Live(grown) = Live(m) \cup {j} /\ j \notin Live(m)
          /\ Built(grown) /\ \A i \in Live(grown) : Tidy(grown.hdr, grown.chunk[i])
          /\ \A i \in Live(m) : /\ grown.chunk[i] = m.chunk[i] /\ In(grown.hdr, grown.chunk[i]) = In(m.hdr, m.chunk[i])
                                /\ \A x \in In(m.hdr, m.chunk[i]) : grown.hdr[x] = m.hdr[x]
          /\ In(grown.hdr, grown.chunk[j]) = {grown.chunk[j].base}
          /\ grown.hdr[grown.chunk[j].base].magic = "free" /\ grown.hdr[grown.chunk[j].base].size >= need
          /\ UsedSet(grown) = UsedSet(m) /\ \A x \in UsedSet(m) : grown.hdr[x] = m.hdr[x]
          /\ Rest(grown) = Rest(m)
      BY <3>2 DEF Grown
    <3>4. grown \in Mems /\ m \in Mems
      BY <3>3 DEF Built, Good
    <3>5. <<j, grown.chunk[j].base>> \in Fits(grown, need)
      BY <1>1, <3>3, <3>4, BestFits
    <3>6. ASSUME NEW g \in Fits(grown, need) PROVE g[1] = j
      <4>1. /\ g[1] \in Live(grown) /\ g[2] \in In(grown.hdr, grown.chunk[g[1]])
            /\ grown.hdr[g[2]].magic = "free" /\ grown.hdr[g[2]].size >= need
        BY <1>1, <3>4, BestFits
      <4>2. CASE g[1] \in Live(m)
        <5>1. g[2] \in In(m.hdr, m.chunk[g[1]]) /\ m.hdr[g[2]].magic = "free" /\ m.hdr[g[2]].size >= need
          BY <3>3, <4>1, <4>2
        <5>2. <<g[1], g[2]>> \in Fits(m, need)
          BY <1>1, <3>4, <4>2, <5>1, BestFits
        <5> QED
          BY <3>1, <5>2
      <4> QED
        BY <3>3, <4>1, <4>2
    <3>7. ASSUME NEW i \in Live(m), i # 1 PROVE UsedIn(grown.hdr, grown.chunk[i]) # {}
      <4>1. UsedIn(m.hdr, m.chunk[i]) # {}
        BY <3>7 DEF Good
      <4>2. UsedIn(grown.hdr, grown.chunk[i]) = UsedIn(m.hdr, m.chunk[i])
        BY <3>3 DEF UsedIn
      <4> QED
        BY <4>1, <4>2
    <3> QED
      BY <3>3, <3>5, <3>6, <3>7
  <2> QED
    BY <2>1, <2>2
<1> HIDE DEF grown
<1>4. CASE Fits(grown, need) = {}
  BY <1>2, <1>3, <1>4 DEF r
<1>5. CASE Fits(grown, need) # {}
  <2>1. grown \in Mems
    BY <1>3 DEF Built
  <2>2. /\ f \in Fits(grown, need) /\ f[1] \in Live(grown) /\ f[2] \in In(grown.hdr, grown.chunk[f[1]])
        /\ grown.hdr[f[2]].magic = "free" /\ grown.hdr[f[2]].size >= need
    BY <1>1, <1>5, <2>1, BestFits DEF f
  <2> HIDE DEF need
  <2>3. \A i \in Live(grown) : i # f[1] /\ i # 1 => UsedIn(grown.hdr, grown.chunk[i]) # {}
    BY <1>3, <2>2
  <2>4. /\ Good(w) /\ UsedSet(w) = UsedSet(grown) \cup {f[2]} /\ f[2] \notin UsedSet(grown) /\ w.hdr[f[2]].size >= need
        /\ \A x \in UsedSet(grown) : w.hdr[x].size = grown.hdr[x].size
        /\ Rest(w) = Rest(grown)
    BY <1>1, <1>3, <2>2, <2>3, CarveIs, SMTT(30) DEF w
  <2>5. f[2] \in Nat
    <3>1. f[2] \in DOMAIN grown.hdr
      BY <2>2 DEF In
    <3> QED
      BY <2>1, <3>1, HeadersAre DEF Mems, Addr
  <2>6. r.m = w /\ r.p = f[2] + 1 /\ r.p - 1 = f[2] /\ r.p \in Nat /\ r.p # Null
    BY <1>2, <1>5, <2>5 DEF Null
  <2>7. w.hdr[f[2]].size \in Nat
    <3>1. f[2] \in UsedSet(w) /\ w \in Mems
      BY <2>4 DEF Good, Built
    <3> QED
      BY <3>1, HeadersAre DEF UsedSet, Mems, Header
  <2>8. w.hdr[f[2]].size > size
    BY <1>1, <2>4, <2>7 DEF need
  <2>9. UsedSet(w) = UsedSet(m) \cup {f[2]} /\ f[2] \notin UsedSet(m) /\ Rest(w) = Rest(m)
        /\ \A x \in UsedSet(m) : w.hdr[x].size = m.hdr[x].size
    BY <1>3, <2>4
  <2> QED
    BY <2>4, <2>6, <2>8, <2>9 DEF r
<1> QED
  BY <1>4, <1>5

-----------------------------------------------------------------------------
(* What the holders hold is what the heap says is in use, and the runs of pages
   are among the pages in use that no chunk has. *)
HeldOK(m, H) ==
  /\ H \in SUBSET [at : Nat, size : Nat \ {0}]
  /\ \A h \in H : h.at - 1 \in UsedSet(m) /\ m.hdr[h.at - 1].size > h.size
  /\ \A g, h \in H : g.at = h.at => g = h
  /\ \A a \in UsedSet(m) : \E h \in H : h.at - 1 = a
RunsOK(m, R) ==
  /\ R \in SUBSET [first : Nat, n : Nat \ {0}]
  /\ \A r \in R : BitmapPages <= r.first /\ Span(r.first, r.n) \subseteq Rest(m)
  /\ \A r, s \in R : r # s => Span(r.first, r.n) \cap Span(s.first, s.n) = {}
Inv == Good(mm) /\ HeldOK(mm, held) /\ RunsOK(mm, runs)

LEMMA InitOK == ConstantsOK /\ Init => Inv
<1> SUFFICES ASSUME ConstantsOK, Init PROVE Inv
  OBVIOUS
<1>1. /\ NPages \in Nat \ {0} /\ BitmapPages \in Nat \ {0} /\ Chunks \in Nat \ {0} /\ BitmapPages < NPages
  BY DEF ConstantsOK
<1> DEFINE none == [a \in {} |-> 0]
           table == [i \in 1 .. Chunks |-> NoChunk]
<1>2. /\ mm.bits = 0 .. BitmapPages - 1 /\ mm.hint = BitmapPages /\ mm.free = NPages - BitmapPages
      /\ mm.chunk = table /\ mm.hdr = none
      /\ mm = [bits |-> 0 .. BitmapPages - 1, hint |-> BitmapPages, free |-> NPages - BitmapPages,
               chunk |-> table, hdr |-> none]
  BY DEF Init
<1>3. none \in Headers /\ DOMAIN none = {}
  <2>1. none \in [{} -> Header] /\ {} \in SUBSET Addr
    OBVIOUS
  <2> QED
    BY <2>1 DEF Headers
<1>4. table \in [1 .. Chunks -> ChunkRecord] /\ \A i \in 1 .. Chunks : table[i] = NoChunk
  BY DEF NoChunk, ChunkRecord
<1>5. mm.free = Cardinality(FreePages(mm))
  <2>1. FreePages(mm) = Span(BitmapPages, NPages - BitmapPages)
    BY <1>1, <1>2 DEF FreePages, Span
  <2>2. NPages - BitmapPages \in Nat
    BY <1>1
  <2> QED
    BY <1>1, <1>2, <2>1, <2>2, SpanIs
<1>6. mm \in Mems
  <2>1. 0 .. BitmapPages - 1 \in SUBSET Page /\ BitmapPages \in BitmapPages .. NPages - 1 /\ NPages - BitmapPages \in Nat
    BY <1>1 DEF Page
  <2> HIDE DEF none, table
  <2>2. mm \in [bits : SUBSET Page, hint : BitmapPages .. NPages - 1, free : Nat,
                chunk : [1 .. Chunks -> ChunkRecord], hdr : Headers]
    BY <1>2, <1>3, <1>4, <2>1
  <2> QED
    BY <1>5, <2>2 DEF Mems
<1> HIDE DEF none, table
<1>7. Live(mm) = {}
  BY <1>2, <1>4 DEF Live, NoChunk
<1>8. Good(mm)
  BY <1>2, <1>3, <1>4, <1>6, <1>7 DEF Good, Built
<1>9. UsedSet(mm) = {}
  BY <1>2, <1>3 DEF UsedSet
<1>10. held = {} /\ runs = {}
  BY DEF Init
<1> QED
  BY <1>8, <1>9, <1>10 DEF Inv, HeldOK, RunsOK

(* Pages change hands, the heap stays. *)
LEMMA HeapStays ==
  ASSUME NEW m, Good(m), NEW w \in Mems, w.chunk = m.chunk, w.hdr = m.hdr, HeapPages(m) \subseteq w.bits
  PROVE  Good(w) /\ UsedSet(w) = UsedSet(m) /\ HeapPages(w) = HeapPages(m)
<1>1. Live(w) = Live(m)
  BY DEF Live
<1>2. \A i \in Live(m) : Placed(w, m.chunk[i])
  BY DEF Good, Built, Placed, HeapPages
<1>3. Built(w)
  BY <1>1, <1>2 DEF Good, Built
<1>4. Good(w)
  BY <1>1, <1>3 DEF Good
<1>5. UsedSet(w) = UsedSet(m)
  BY DEF UsedSet
<1>6. HeapPages(w) = HeapPages(m)
  BY <1>1 DEF HeapPages
<1> QED
  BY <1>4, <1>5, <1>6

LEMMA HeapIn ==
  ASSUME NEW m, Good(m) PROVE HeapPages(m) \subseteq m.bits
BY DEF Good, Built, Placed, HeapPages

(* A holder more, with the block it was given. *)
LEMMA HolderMore ==
  ASSUME NEW m, NEW w, NEW H, HeldOK(m, H), NEW p \in Nat, NEW size \in Nat \ {0}, p - 1 \notin UsedSet(m),
         UsedSet(w) = UsedSet(m) \cup {p - 1}, w.hdr[p - 1].size > size,
         \A x \in UsedSet(m) : w.hdr[x].size = m.hdr[x].size
  PROVE  HeldOK(w, H \cup {[at |-> p, size |-> size]})
<1> DEFINE new == [at |-> p, size |-> size]
           G == H \cup {new}
<1>1. new \in [at : Nat, size : Nat \ {0}] /\ new.at = p /\ new.size = size
  OBVIOUS
<1> HIDE DEF new
<1>2. \A h \in H : h.at - 1 \in UsedSet(m) /\ m.hdr[h.at - 1].size > h.size /\ h \in [at : Nat, size : Nat \ {0}]
  BY DEF HeldOK
<1>3. G \in SUBSET [at : Nat, size : Nat \ {0}]
  BY <1>1, <1>2
<1>4. \A h \in G : h.at - 1 \in UsedSet(w) /\ w.hdr[h.at - 1].size > h.size
  BY <1>1, <1>2
<1>5. \A h \in H : h.at # p
  BY <1>2
<1>6. \A g, h \in G : g.at = h.at => g = h
  BY <1>1, <1>5 DEF HeldOK
<1>7. \A a \in UsedSet(w) : \E h \in G : h.at - 1 = a
  BY <1>1 DEF HeldOK
<1> QED
  BY <1>3, <1>4, <1>6, <1>7 DEF HeldOK, new

(* A holder less, and its block. *)
LEMMA HolderLess ==
  ASSUME NEW m, NEW w, NEW H, HeldOK(m, H), NEW p \in Nat,
         UsedSet(w) = UsedSet(m) \ {p - 1}, \A x \in UsedSet(w) : w.hdr[x].size = m.hdr[x].size
  PROVE  HeldOK(w, {h \in H : h.at # p})
<1> DEFINE G == {h \in H : h.at # p}
<1>1. \A h \in H : h.at - 1 \in UsedSet(m) /\ m.hdr[h.at - 1].size > h.size /\ h \in [at : Nat, size : Nat \ {0}]
  BY DEF HeldOK
<1>2. \A h \in G : h.at - 1 \in UsedSet(w) /\ w.hdr[h.at - 1].size > h.size
  <2>1. \A h \in G : h.at - 1 # p - 1
    BY <1>1
  <2> QED
    BY <1>1, <2>1
<1>3. \A a \in UsedSet(w) : \E h \in G : h.at - 1 = a
  BY <1>1 DEF HeldOK
<1> QED
  BY <1>2, <1>3 DEF HeldOK

LEMMA RunsSame ==
  ASSUME NEW m, NEW w, NEW R, RunsOK(m, R), Rest(w) = Rest(m) PROVE RunsOK(w, R)
BY DEF RunsOK

-----------------------------------------------------------------------------
(* One lemma for each operation. *)
LEMMA AllocKeeps ==
  ASSUME ConstantsOK, Inv, NEW size \in Sizes, Alloc(size) PROVE Inv'
<1> DEFINE r == Kmalloc(mm, size)
<1>1. size \in Nat \ {0}
  BY DEF ConstantsOK
<1>2. /\ mm' = r.m /\ runs' = runs
      /\ held' = IF r.p = Null THEN held ELSE held \cup {[at |-> r.p, size |-> size]}
  BY DEF Alloc
<1>3. \/ r.p = Null /\ r.m = mm
      \/ /\ r.p \in Nat /\ r.p # Null /\ Good(r.m)
         /\ r.p - 1 \notin UsedSet(mm) /\ UsedSet(r.m) = UsedSet(mm) \cup {r.p - 1} /\ r.m.hdr[r.p - 1].size > size
         /\ \A x \in UsedSet(mm) : r.m.hdr[x].size = mm.hdr[x].size
         /\ Rest(r.m) = Rest(mm)
  BY <1>1, KmallocIs DEF Inv
<1> HIDE DEF r
<1>4. CASE r.p = Null /\ r.m = mm
  BY <1>2, <1>4 DEF Inv
<1>5. CASE ~ (r.p = Null /\ r.m = mm)
  <2>1. HeldOK(r.m, held \cup {[at |-> r.p, size |-> size]})
    BY <1>1, <1>3, <1>5, HolderMore DEF Inv
  <2>2. RunsOK(r.m, runs)
    BY <1>3, <1>5, RunsSame DEF Inv
  <2>3. Good(r.m) /\ r.p # Null
    BY <1>3, <1>5
  <2> QED
    BY <1>2, <2>1, <2>2, <2>3 DEF Inv
<1> QED
  BY <1>4, <1>5

LEMMA FreeKeeps ==
  ASSUME ConstantsOK, Inv, NEW p \in Addr, Free(p) PROVE Inv'
<1>1. p \in Nat /\ Good(mm) /\ Built(mm) /\ HeldOK(mm, held) /\ RunsOK(mm, runs)
  BY DEF Inv, Good, Addr
<1>2. mm' = Kfree(mm, p) /\ held' = {h \in held : h.at # p} /\ runs' = runs
  BY DEF Free
<1>3. CASE p - 1 \in UsedSet(mm)
  <2> DEFINE w == Kfree(mm, p)
  <2>1. p \in Int
    BY <1>1
  <2>2. Good(w) /\ UsedSet(w) = UsedSet(mm) \ {p - 1} /\ Rest(w) = Rest(mm)
        /\ \A x \in UsedSet(w) : w.hdr[x].size = mm.hdr[x].size
    BY <1>1, <1>3, <2>1, KfreeIs
  <2> HIDE DEF w
  <2>3. HeldOK(w, {h \in held : h.at # p})
    BY <1>1, <2>2, HolderLess
  <2>4. RunsOK(w, runs)
    BY <1>1, <2>2, RunsSame
  <2>5. mm' = w
    BY <1>2 DEF w
  <2> QED
    BY <1>2, <2>2, <2>3, <2>4, <2>5 DEF Inv
<1>4. CASE p - 1 \notin UsedSet(mm)
  <2>1. ~ Accepts(mm, p)
    BY <1>1, <1>4, AcceptsIs
  <2>2. mm' = mm
    BY <1>2, <2>1 DEF Kfree
  <2>3. held' = held
    BY <1>1, <1>2, <1>4 DEF HeldOK
  <2> QED
    BY <1>1, <1>2, <2>2, <2>3 DEF Inv
<1> QED
  BY <1>3, <1>4

LEMMA ReallocKeeps ==
  ASSUME ConstantsOK, Inv, NEW h \in held, NEW size \in Sizes, Realloc(h, size) PROVE Inv'
<1> DEFINE r == Krealloc(mm, h.at, size)
           k == Kmalloc(mm, size)
           new == [at |-> r.p, size |-> size]
<1>1. size \in Nat \ {0}
  BY DEF ConstantsOK
<1>2. Good(mm) /\ Built(mm) /\ HeldOK(mm, held) /\ RunsOK(mm, runs)
  BY DEF Inv, Good
<1>3. /\ h.at \in Nat /\ h.at - 1 \in UsedSet(mm) /\ h \in [at : Nat, size : Nat \ {0}]
      /\ \A g \in held : g.at = h.at => g = h
  BY <1>2 DEF HeldOK
<1>4. mm' = r.m /\ runs' = runs /\ held' = IF r.p = Null THEN held ELSE (held \ {h}) \cup {new}
  BY DEF Realloc
<1>5. Usable(mm, h.at) = mm.hdr[h.at - 1].size - 1 /\ mm.hdr[h.at - 1].size \in Nat /\ mm.hdr[h.at - 1].size > 1
  BY <1>2, <1>3, AcceptsIs
<1>6. held \ {h} = {g \in held : g.at # h.at}
  BY <1>3
(* A block that is big enough stays. *)
<1>7. CASE size <= Usable(mm, h.at)
  <2>1. r.m = mm /\ r.p = h.at /\ r.p # Null
    BY <1>3, <1>5, <1>7 DEF Krealloc, Null
  <2>2. mm' = mm /\ held' = (held \ {h}) \cup {new} /\ new.at = h.at /\ new.size = size
        /\ new \in [at : Nat, size : Nat \ {0}]
    BY <1>1, <1>3, <1>4, <2>1
  <2> HIDE DEF new, r
  <2>3. held' \in SUBSET [at : Nat, size : Nat \ {0}]
    BY <1>2, <2>2 DEF HeldOK
  <2>4. \A g \in held' : g.at - 1 \in UsedSet(mm) /\ mm.hdr[g.at - 1].size > g.size
    <3>1. mm.hdr[new.at - 1].size > new.size /\ new.at - 1 \in UsedSet(mm)
      BY <1>1, <1>3, <1>5, <1>7, <2>2
    <3> QED
      BY <1>2, <2>2, <3>1 DEF HeldOK
  <2>5. \A f, g \in held' : f.at = g.at => f = g
    BY <1>2, <1>3, <2>2 DEF HeldOK
  <2>6. \A a \in UsedSet(mm) : \E g \in held' : g.at - 1 = a
    <3> SUFFICES ASSUME NEW a \in UsedSet(mm) PROVE \E g \in held' : g.at - 1 = a
      OBVIOUS
    <3>1. PICK g \in held : g.at - 1 = a
      BY <1>2 DEF HeldOK
    <3>2. CASE g = h
      BY <2>2, <3>1, <3>2
    <3>3. CASE g # h
      BY <2>2, <3>1, <3>3
    <3> QED
      BY <3>2, <3>3
  <2>7. HeldOK(mm, held')
    BY <2>3, <2>4, <2>5, <2>6 DEF HeldOK
  <2> QED
    BY <1>2, <1>4, <2>2, <2>7 DEF Inv
<1>8. CASE ~ (size <= Usable(mm, h.at))
  <2>1. r = IF k.p = Null THEN k ELSE [m |-> Kfree(k.m, h.at), p |-> k.p]
    BY <1>5, <1>8 DEF Krealloc
  <2>2. \/ k.p = Null /\ k.m = mm
        \/ /\ k.p \in Nat /\ k.p # Null /\ Good(k.m)
           /\ k.p - 1 \notin UsedSet(mm) /\ UsedSet(k.m) = UsedSet(mm) \cup {k.p - 1} /\ k.m.hdr[k.p - 1].size > size
           /\ \A x \in UsedSet(mm) : k.m.hdr[x].size = mm.hdr[x].size
           /\ Rest(k.m) = Rest(mm)
    BY <1>1, <1>2, KmallocIs
  <2> HIDE DEF k, r, new
  <2>3. CASE k.p = Null /\ k.m = mm
    BY <1>2, <1>4, <2>1, <2>3 DEF Inv
  <2>4. CASE ~ (k.p = Null /\ k.m = mm)
    <3>1. /\ k.p \in Nat /\ k.p # Null /\ Good(k.m)
          /\ k.p - 1 \notin UsedSet(mm) /\ UsedSet(k.m) = UsedSet(mm) \cup {k.p - 1} /\ k.m.hdr[k.p - 1].size > size
          /\ \A x \in UsedSet(mm) : k.m.hdr[x].size = mm.hdr[x].size
          /\ Rest(k.m) = Rest(mm)
      BY <2>2, <2>4
    <3>2. HeldOK(k.m, held \cup {[at |-> k.p, size |-> size]})
      BY <1>1, <1>2, <3>1, HolderMore
    <3>3. r.m = Kfree(k.m, h.at) /\ r.p = k.p /\ r.p # Null
      BY <2>1, <3>1
    <3>4. h.at - 1 \in UsedSet(k.m) /\ k.p # h.at
      BY <1>3, <3>1
    <3>5. Good(r.m) /\ UsedSet(r.m) = UsedSet(k.m) \ {h.at - 1} /\ Rest(r.m) = Rest(k.m)
          /\ \A x \in UsedSet(r.m) : r.m.hdr[x].size = k.m.hdr[x].size
      BY <1>3, <3>1, <3>3, <3>4, KfreeIs
    <3> DEFINE H == held \cup {[at |-> k.p, size |-> size]}
    <3>6. HeldOK(r.m, {g \in H : g.at # h.at})
      BY <1>3, <3>2, <3>5, HolderLess
    <3>7. {g \in H : g.at # h.at} = held'
      BY <1>4, <1>6, <3>3, <3>4 DEF new
    <3> HIDE DEF H
    <3>8. RunsOK(r.m, runs)
      BY <1>2, <3>1, <3>5, RunsSame
    <3> QED
      BY <1>4, <3>5, <3>6, <3>7, <3>8 DEF Inv
  <2> QED
    BY <2>3, <2>4
<1> QED
  BY <1>7, <1>8

LEMMA TakeKeeps ==
  ASSUME ConstantsOK, Inv, NEW n \in Runs, TakePages(n) PROVE Inv'
<1> DEFINE first == FirstFit(mm, n)
           w == PagesAlloc(mm, first, n)
           new == [first |-> first, n |-> n]
<1>1. n \in Nat \ {0} /\ BitmapPages \in Nat /\ NPages \in Nat
  BY DEF ConstantsOK
<1>2. Good(mm) /\ mm \in Mems /\ HeldOK(mm, held) /\ RunsOK(mm, runs)
  BY DEF Inv, Good, Built
<1>3. /\ mm' = IF first = Null THEN mm ELSE w
      /\ runs' = IF first = Null THEN runs ELSE runs \cup {new}
      /\ held' = held
  BY DEF TakePages
<1>4. first # Null => first \in FreeStarts(mm, n, BitmapPages, NPages)
  BY <1>1, <1>2, FitIs
<1> HIDE DEF first
<1>5. CASE first = Null
  BY <1>2, <1>3, <1>5 DEF Inv
<1>6. CASE first # Null
  <2>1. w \in Mems /\ w.bits = mm.bits \cup Span(first, n) /\ w.chunk = mm.chunk /\ w.hdr = mm.hdr
    BY <1>1, <1>2, <1>4, <1>6, PagesTaken
  <2>2. first \in Nat /\ BitmapPages <= first /\ Span(first, n) \cap mm.bits = {}
    BY <1>1, <1>4, <1>6 DEF FreeStarts
  <2>3. new \in [first : Nat, n : Nat \ {0}] /\ new.first = first /\ new.n = n
    BY <1>1, <2>2
  <2> HIDE DEF w, new
  <2>4. HeapPages(mm) \subseteq mm.bits
    BY <1>2, HeapIn
  <2>5. Good(w) /\ UsedSet(w) = UsedSet(mm) /\ HeapPages(w) = HeapPages(mm)
    BY <1>2, <2>1, <2>4, HeapStays
  <2>6. Rest(w) = Rest(mm) \cup Span(first, n) /\ Rest(mm) \cap Span(first, n) = {}
    BY <2>1, <2>2, <2>4, <2>5 DEF Rest
  <2>7. HeldOK(w, held)
    BY <1>2, <2>1, <2>5 DEF HeldOK
  <2>8. RunsOK(w, runs \cup {new})
    <3>1. runs \cup {new} \in SUBSET [first : Nat, n : Nat \ {0}]
      BY <1>2, <2>3 DEF RunsOK
    <3>2. \A r \in runs : BitmapPages <= r.first /\ Span(r.first, r.n) \subseteq Rest(mm)
      BY <1>2 DEF RunsOK
    <3>3. \A r \in runs \cup {new} : BitmapPages <= r.first /\ Span(r.first, r.n) \subseteq Rest(w)
      BY <2>2, <2>3, <2>6, <3>2
    <3>4. \A r \in runs : Span(r.first, r.n) \cap Span(new.first, new.n) = {}
      BY <2>3, <2>6, <3>2
    <3>5. \A r, s \in runs \cup {new} : r # s => Span(r.first, r.n) \cap Span(s.first, s.n) = {}
      BY <1>2, <3>4 DEF RunsOK
    <3> QED
      BY <3>1, <3>3, <3>5 DEF RunsOK
  <2> QED
    BY <1>3, <1>6, <2>5, <2>7, <2>8 DEF Inv
<1> QED
  BY <1>5, <1>6

LEMMA GiveKeeps ==
  ASSUME ConstantsOK, Inv, NEW first \in Page, NEW n \in Runs, GivePages(first, n) PROVE Inv'
<1> DEFINE r == [first |-> first, n |-> n]
           w == PagesFree(mm, first, n)
<1>1. n \in Nat \ {0} /\ BitmapPages \in Nat /\ NPages \in Nat /\ first \in Nat
  BY DEF ConstantsOK, Page
<1>2. Good(mm) /\ mm \in Mems /\ HeldOK(mm, held) /\ RunsOK(mm, runs)
  BY DEF Inv, Good, Built
<1>3. /\ r \in runs \/ ~ Span(first, n) \subseteq mm.bits \/ first < BitmapPages
      /\ mm' = w /\ runs' = runs \ {r} /\ held' = held
  BY DEF GivePages
<1>4. CASE r \in runs
  <2>1. BitmapPages <= first /\ Span(first, n) \subseteq Rest(mm)
    BY <1>2, <1>4 DEF RunsOK
  <2>2. HeapPages(mm) \subseteq mm.bits
    BY <1>2, HeapIn
  <2>3. w \in Mems /\ w.bits = mm.bits \ Span(first, n) /\ w.chunk = mm.chunk /\ w.hdr = mm.hdr
    BY <1>1, <1>2, <2>1, PagesGiven DEF Rest
  <2>4. r.first = first /\ r.n = n
    OBVIOUS
  <2> HIDE DEF w, r
  <2>5. HeapPages(mm) \subseteq w.bits
    BY <2>1, <2>2, <2>3 DEF Rest
  <2>6. Good(w) /\ UsedSet(w) = UsedSet(mm) /\ HeapPages(w) = HeapPages(mm)
    BY <1>2, <2>3, <2>5, HeapStays
  <2>7. Rest(w) = Rest(mm) \ Span(first, n)
    BY <2>3, <2>6 DEF Rest
  <2>8. HeldOK(w, held)
    BY <1>2, <2>3, <2>6 DEF HeldOK
  <2>9. \A s \in runs \ {r} : Span(s.first, s.n) \subseteq Rest(w)
    BY <1>2, <1>4, <2>4, <2>7 DEF RunsOK
  <2>10. RunsOK(w, runs \ {r})
    BY <1>2, <2>9 DEF RunsOK
  <2> QED
    BY <1>3, <2>6, <2>8, <2>10 DEF Inv
<1>5. CASE r \notin runs
  <2>1. w = mm
    BY <1>3, <1>5 DEF PagesFree
  <2>2. runs \ {r} = runs
    BY <1>5
  <2> QED
    BY <1>2, <1>3, <2>1, <2>2 DEF Inv
<1> QED
  BY <1>4, <1>5

LEMMA NextKeeps ==
  ASSUME ConstantsOK, Inv, [Next]_vars PROVE Inv'
<1>1. CASE UNCHANGED vars
  BY <1>1 DEF Inv, vars
<1>2. CASE \E s \in Sizes : Alloc(s)
  BY <1>2, AllocKeeps
<1>3. CASE \E p \in Addr : Free(p)
  BY <1>3, FreeKeeps
<1>4. CASE \E h \in held, s \in Sizes : Realloc(h, s)
  BY <1>4, ReallocKeeps
<1>5. CASE \E n \in Runs : TakePages(n)
  BY <1>5, TakeKeeps
<1>6. CASE \E first \in Page, n \in Runs : first + n <= NPages /\ GivePages(first, n)
  BY <1>6, GiveKeeps
<1> QED
  BY <1>1, <1>2, <1>3, <1>4, <1>5, <1>6 DEF Next

-----------------------------------------------------------------------------
(* What the invariant means for the properties of the module. *)
LEMMA Typed == ConstantsOK /\ Inv => TypeOK
<1> SUFFICES ASSUME ConstantsOK, Inv PROVE TypeOK
  OBVIOUS
<1>1. Good(mm) /\ Built(mm) /\ mm \in Mems
  BY DEF Inv, Good, Built
<1>2. NPages \in Nat /\ BitmapPages \in Nat /\ Units \in Nat
  BY DEF ConstantsOK
<1>3. mm.bits \subseteq Page /\ mm.hint \in Page
  BY <1>1, <1>2 DEF Mems, Page
<1>4. mm.free \in 0 .. NPages
  <2>1. IsFiniteSet(FreePages(mm)) /\ mm.free = Cardinality(FreePages(mm)) /\ mm.free \in Nat
    BY <1>1, FreeIsFinite
  <2>2. FreePages(mm) \subseteq Span(0, NPages)
    BY <1>2 DEF FreePages, Span
  <2>3. IsFiniteSet(Span(0, NPages)) /\ Cardinality(Span(0, NPages)) = NPages
    BY <1>2, SpanIs
  <2>4. Cardinality(FreePages(mm)) <= Cardinality(Span(0, NPages))
    BY <2>2, <2>3, FS_Subset
  <2> QED
    BY <1>2, <2>1, <2>3, <2>4
<1>5. ASSUME NEW i \in 1 .. Chunks
      PROVE  mm.chunk[i].base \in 0 .. NPages * Units /\ mm.chunk[i].bytes \in 0 .. NPages * Units
  <2>1. NPages * Units \in Nat
    BY <1>2
  <2>2. CASE i \notin Live(mm)
    BY <1>1, <1>5, <2>1, <2>2 DEF Built, NoChunk
  <2>3. CASE i \in Live(mm)
    <3> DEFINE c == mm.chunk[i]
    <3>1. /\ First(c) \in Nat /\ Num(c) \in Nat \ {0} /\ c.base \in Nat /\ c.bytes \in Nat
          /\ End(c) = (First(c) + Num(c)) * Units /\ First(c) + Num(c) <= NPages
      BY <1>1, <2>3, ChunkIs
    <3> HIDE DEF c
    <3>2. (First(c) + Num(c)) * Units <= NPages * Units
      BY <1>2, <3>1, Ordered
    <3>3. c.base + c.bytes <= NPages * Units
      BY <3>1, <3>2 DEF End
    <3>4. c.base \in 0 .. NPages * Units /\ c.bytes \in 0 .. NPages * Units
      BY <2>1, <3>1, <3>3
    <3> QED
      BY <3>4 DEF c
  <2> QED
    BY <2>2, <2>3
<1>6. DOMAIN mm.hdr \subseteq Addr
  BY <1>1, HeadersAre DEF Mems
<1>7. ASSUME NEW a \in DOMAIN mm.hdr PROVE mm.hdr[a].magic \in {"used", "free"} /\ mm.hdr[a].size > 1
  <2>1. mm.hdr[a] \in Header
    BY <1>1, HeadersAre DEF Mems
  <2>2. PICK i \in Live(mm) : a \in In(mm.hdr, mm.chunk[i])
    BY <1>1 DEF Built
  <2>3. mm.hdr[a].size > 1
    BY <1>1, <2>2 DEF Built, Chain, Linked
  <2> QED
    BY <2>1, <2>3 DEF Header
<1> QED
  BY <1>3, <1>4, <1>5, <1>6, <1>7 DEF TypeOK

LEMMA IsHealthy == ConstantsOK /\ Inv => Healthy
<1> SUFFICES ASSUME ConstantsOK, Inv PROVE Healthy
  OBVIOUS
<1>1. Good(mm) /\ Built(mm) /\ mm \in Mems
  BY DEF Inv, Good, Built
<1>2. mm.free = Cardinality((BitmapPages .. NPages - 1) \ mm.bits)
  BY <1>1 DEF Mems, FreePages
<1>3. ASSUME NEW i \in 1 .. Chunks, mm.chunk[i].bytes > 0
      PROVE  LET c == mm.chunk[i]
                 blocks == BlocksIn(mm, c)
             IN /\ c.base \in blocks
                /\ {NextOf(mm, c, a) : a \in blocks} = (blocks \ {c.base}) \cup {Null}
                /\ \A a \in blocks :
                     LET n == NextOf(mm, c, a)
                     IN n # Null => /\ mm.hdr[n].prev = mm.hdr[a].size
                                    /\ ~ (IsFree(mm, a) /\ IsFree(mm, n))
  <2> DEFINE c == mm.chunk[i]
             h == mm.hdr
             blocks == BlocksIn(mm, c)
  <2>1. i \in Live(mm)
    BY <1>3 DEF Live
  <2>2. /\ c \in ChunkRecord /\ c.base \in Nat /\ End(c) \in Nat /\ Chain(h, c) /\ Tidy(h, c) /\ h \in Headers
    BY <1>1, <2>1, ChunkIs DEF Good
  <2>3. blocks = In(h, c)
    BY DEF BlocksIn, In
  <2>4. \A a : NextOf(mm, c, a) = IF After(h, a) >= End(c) THEN Null ELSE After(h, a)
    BY DEF NextOf, After
  <2> HIDE DEF h, c, blocks
  <2>5. \A a \in In(h, c) : /\ a \in Nat /\ a \in DOMAIN h /\ After(h, a) \in Nat /\ After(h, a) > a /\ After(h, a) <= End(c)
                            /\ c.base <= a
    <3> SUFFICES ASSUME NEW a \in In(h, c)
                 PROVE  /\ a \in Nat /\ a \in DOMAIN h /\ After(h, a) \in Nat /\ After(h, a) > a /\ After(h, a) <= End(c)
                        /\ c.base <= a
      OBVIOUS
    <3>1. a \in Nat /\ a \in DOMAIN h /\ c.base <= a
      BY <2>2 DEF In
    <3>2. h[a] \in Header
      BY <2>2, <3>1, HeadersAre
    <3>3. h[a].size \in Nat
      BY <3>2 DEF Header
    <3>4. h[a].size > 1 /\ After(h, a) <= End(c)
      BY <2>2 DEF Chain, Linked
    <3> QED
      BY <3>1, <3>3, <3>4 DEF After
  <2>6. c.base \in blocks
    BY <2>2, <2>3 DEF Chain
  <2>7. \A a \in In(h, c) : NextOf(mm, c, a) \in (blocks \ {c.base}) \cup {Null}
    <3> SUFFICES ASSUME NEW a \in In(h, c) PROVE NextOf(mm, c, a) \in (blocks \ {c.base}) \cup {Null}
      OBVIOUS
    <3>1. CASE After(h, a) >= End(c)
      BY <2>4, <3>1
    <3>2. CASE After(h, a) < End(c)
      <4>1. After(h, a) \in In(h, c) /\ After(h, a) # c.base
        BY <2>2, <2>5, <3>2 DEF Chain, Linked
      <4> QED
        BY <2>2, <2>3, <2>4, <2>5, <3>2, <4>1
    <3> QED
      BY <2>2, <2>5, <3>1, <3>2
  <2>8. \A n \in (blocks \ {c.base}) \cup {Null} : \E a \in blocks : NextOf(mm, c, a) = n
    <3>1. \E a \in blocks : NextOf(mm, c, a) = Null
      <4>1. PICK a \in In(h, c) : After(h, a) = End(c)
        BY <2>2 DEF Chain
      <4> QED
        BY <2>2, <2>3, <2>4, <4>1
    <3>2. ASSUME NEW n \in blocks, n # c.base PROVE \E a \in blocks : NextOf(mm, c, a) = n
      <4>1. PICK a \in In(h, c) : After(h, a) = n
        BY <2>2, <2>3, <3>2 DEF Chain, Linked
      <4>2. n < End(c)
        BY <2>2, <2>3, <2>5, <3>2
      <4>3. n \in Nat
        BY <2>3, <2>5
      <4> QED
        BY <2>2, <2>3, <2>4, <4>1, <4>2, <4>3
    <3> QED
      BY <3>1, <3>2
  <2>9. {NextOf(mm, c, a) : a \in blocks} = (blocks \ {c.base}) \cup {Null}
    BY <2>3, <2>7, <2>8
  <2>10. ASSUME NEW a \in blocks, NextOf(mm, c, a) # Null
         PROVE  /\ h[NextOf(mm, c, a)].prev = h[a].size
                /\ ~ (IsFree(mm, a) /\ IsFree(mm, NextOf(mm, c, a)))
    <3>1. NextOf(mm, c, a) = After(h, a) /\ After(h, a) < End(c) /\ a \in In(h, c)
      BY <2>2, <2>3, <2>4, <2>5, <2>10
    <3>2. h[After(h, a)].prev = h[a].size
      BY <2>2, <3>1 DEF Chain, Linked
    <3>3. h[a].magic = "free" => h[After(h, a)].magic = "used"
      BY <2>2, <3>1 DEF Tidy, UsedAfter
    <3> QED
      BY <3>1, <3>2, <3>3 DEF IsFree, h
  <2> QED
    BY <2>6, <2>9, <2>10 DEF c, h, blocks
<1> QED
  BY <1>2, <1>3 DEF Healthy

(* Where what is held lies. *)
LEMMA HeldIn ==
  ASSUME ConstantsOK, Inv, NEW h \in held
  PROVE  /\ h.at \in Nat /\ h.size \in Nat \ {0} /\ h.at - 1 \in UsedSet(mm)
         /\ \E i \in Live(mm) : h.at - 1 \in In(mm.hdr, mm.chunk[i])
         /\ \A i \in Live(mm) : h.at - 1 \in In(mm.hdr, mm.chunk[i]) =>
              /\ mm.chunk[i].base <= h.at - 1 /\ h.at + h.size <= After(mm.hdr, h.at - 1)
              /\ After(mm.hdr, h.at - 1) \in Nat /\ After(mm.hdr, h.at - 1) <= End(mm.chunk[i])
<1>1. Good(mm) /\ Built(mm) /\ mm \in Mems /\ HeldOK(mm, held)
  BY DEF Inv, Good, Built
<1>2. /\ h.at \in Nat /\ h.size \in Nat \ {0} /\ h.at - 1 \in UsedSet(mm) /\ mm.hdr[h.at - 1].size > h.size
  <2>1. h \in [at : Nat, size : Nat \ {0}]
    BY <1>1 DEF HeldOK
  <2> QED
    BY <1>1, <2>1 DEF HeldOK
<1>3. h.at - 1 \in DOMAIN mm.hdr
  BY <1>2 DEF UsedSet
<1>4. mm.hdr[h.at - 1].size \in Nat /\ h.at - 1 \in Nat
  <2>1. mm.hdr[h.at - 1] \in Header /\ h.at - 1 \in Addr
    BY <1>1, <1>3, HeadersAre DEF Mems
  <2> QED
    BY <2>1 DEF Header, Addr
<1>5. \E i \in Live(mm) : h.at - 1 \in In(mm.hdr, mm.chunk[i])
  BY <1>1, <1>3 DEF Built
<1>6. ASSUME NEW i \in Live(mm), h.at - 1 \in In(mm.hdr, mm.chunk[i])
      PROVE  /\ mm.chunk[i].base <= h.at - 1 /\ h.at + h.size <= After(mm.hdr, h.at - 1)
             /\ After(mm.hdr, h.at - 1) \in Nat /\ After(mm.hdr, h.at - 1) <= End(mm.chunk[i])
  <2>1. Chain(mm.hdr, mm.chunk[i]) /\ mm.chunk[i].base \in Nat /\ End(mm.chunk[i]) \in Nat
    BY <1>1, ChunkIs
  <2>2. After(mm.hdr, h.at - 1) <= End(mm.chunk[i])
    BY <1>6, <2>1 DEF Chain, Linked
  <2>3. mm.chunk[i].base <= h.at - 1
    BY <1>6, <2>1 DEF In
  <2>4. After(mm.hdr, h.at - 1) = h.at - 1 + mm.hdr[h.at - 1].size
    BY DEF After
  <2>5. After(mm.hdr, h.at - 1) \in Nat /\ h.at + h.size <= After(mm.hdr, h.at - 1)
    BY <1>2, <1>4, <2>4
  <2> QED
    BY <2>2, <2>3, <2>5
<1> QED
  BY <1>2, <1>5, <1>6

LEMMA IsNobodysTwice == ConstantsOK /\ Inv => NobodysTwice
<1> SUFFICES ASSUME ConstantsOK, Inv PROVE NobodysTwice
  OBVIOUS
<1>1. Good(mm) /\ Built(mm) /\ mm \in Mems /\ HeldOK(mm, held) /\ RunsOK(mm, runs)
  BY DEF Inv, Good, Built
<1>2. ASSUME NEW g \in held, NEW h \in held, g.at < h.at
      PROVE  g.at + g.size <= h.at - 1 \/ h.at + h.size <= g.at - 1
  <2> DEFINE A == g.at - 1
             B == h.at - 1
  <2>1. PICK i \in Live(mm) : A \in In(mm.hdr, mm.chunk[i])
    BY HeldIn
  <2>2. PICK j \in Live(mm) : B \in In(mm.hdr, mm.chunk[j])
    BY HeldIn
  <2>3. /\ g.at \in Nat /\ g.size \in Nat /\ mm.chunk[i].base <= A /\ g.at + g.size <= After(mm.hdr, A)
        /\ After(mm.hdr, A) \in Nat /\ After(mm.hdr, A) <= End(mm.chunk[i])
    BY <2>1, HeldIn
  <2>4. /\ h.at \in Nat /\ h.size \in Nat /\ mm.chunk[j].base <= B /\ h.at + h.size <= After(mm.hdr, B)
        /\ After(mm.hdr, B) \in Nat /\ After(mm.hdr, B) <= End(mm.chunk[j])
    BY <2>2, HeldIn
  <2>5. A < B /\ A \in Int /\ B \in Int
    BY <1>2, <2>3, <2>4
  <2>6. CASE i = j
    <3>1. Chain(mm.hdr, mm.chunk[i])
      BY <1>1 DEF Built
    <3>2. After(mm.hdr, A) <= B
      BY <2>1, <2>2, <2>5, <2>6, <3>1 DEF Chain
    <3> QED
      BY <2>3, <2>4, <3>2
  <2>7. CASE i # j
    <3> DEFINE c == mm.chunk[i]
               d == mm.chunk[j]
    <3>1. /\ First(c) \in Nat /\ Num(c) \in Nat \ {0} /\ c.base = First(c) * Units /\ c.base \in Nat
          /\ End(c) = (First(c) + Num(c)) * Units /\ End(c) \in Nat
      BY <1>1, ChunkIs
    <3>2. /\ First(d) \in Nat /\ Num(d) \in Nat \ {0} /\ d.base = First(d) * Units /\ d.base \in Nat
          /\ End(d) = (First(d) + Num(d)) * Units /\ End(d) \in Nat
      BY <1>1, ChunkIs
    <3>3. Distinct(c, d)
      BY <1>1, <2>7 DEF Built
    <3>4. Units \in Nat
      BY DEF ConstantsOK
    <3> HIDE DEF c, d, A, B
    <3>5. End(c) <= d.base \/ End(d) <= c.base
      <4>1. CASE First(c) + Num(c) <= First(d)
        BY <3>1, <3>2, <3>4, <4>1, Ordered
      <4>2. CASE First(d) + Num(d) <= First(c)
        BY <3>1, <3>2, <3>4, <4>2, Ordered
      <4> QED
        BY <3>3, <4>1, <4>2 DEF Distinct
    <3>6. c.base <= A /\ After(mm.hdr, A) <= End(c) /\ d.base <= B /\ After(mm.hdr, B) <= End(d)
      BY <2>3, <2>4 DEF c, d
    <3>7. A = g.at - 1 /\ B = h.at - 1
      BY DEF A, B
    <3> QED
      BY <2>3, <2>4, <3>1, <3>2, <3>5, <3>6, <3>7
  <2> QED
    BY <2>6, <2>7
<1>3. ASSUME NEW g \in held, NEW h \in held
      PROVE  g = h \/ g.at + g.size <= h.at - 1 \/ h.at + h.size <= g.at - 1
  <2>1. g.at \in Nat /\ h.at \in Nat
    BY HeldIn
  <2>2. g.at = h.at => g = h
    BY <1>1 DEF HeldOK
  <2>3. g.at < h.at \/ h.at < g.at \/ g.at = h.at
    BY <2>1
  <2> QED
    BY <1>2, <2>2, <2>3
<1>4. ASSUME NEW h \in held PROVE PagesOfHeld(h) \subseteq HeapPages(mm)
  <2>1. PICK i \in Live(mm) : h.at - 1 \in In(mm.hdr, mm.chunk[i])
    BY HeldIn
  <2> DEFINE c == mm.chunk[i]
             last == h.at + h.size - 1
  <2>2. /\ h.at \in Nat /\ h.size \in Nat \ {0} /\ c.base <= h.at - 1 /\ h.at + h.size <= After(mm.hdr, h.at - 1)
        /\ After(mm.hdr, h.at - 1) \in Nat /\ After(mm.hdr, h.at - 1) <= End(c)
    BY <2>1, HeldIn
  <2>3. /\ First(c) \in Nat /\ Num(c) \in Nat \ {0} /\ c.base = First(c) * Units /\ c.base \in Nat
        /\ End(c) = (First(c) + Num(c)) * Units /\ End(c) \in Nat
    BY <1>1, ChunkIs
  <2>4. Units \in Nat \ {0}
    BY DEF ConstantsOK
  <2> HIDE DEF c
  <2> DEFINE k == First(c) + Num(c)
  <2>5. k \in Nat /\ First(c) * Units <= h.at /\ h.at < k * Units /\ First(c) * Units <= last /\ last < k * Units
        /\ last \in Nat
    BY <2>2, <2>3
  <2> HIDE DEF k, last
  <2>6. First(c) <= h.at \div Units /\ h.at \div Units < k
    BY <2>2, <2>3, <2>4, <2>5, PageOf
  <2>7. First(c) <= last \div Units /\ last \div Units < k
    BY <2>3, <2>4, <2>5, PageOf
  <2>8. h.at \div Units \in Int /\ last \div Units \in Int
    BY <2>2, <2>4, <2>5
  <2>9. (h.at \div Units) .. (last \div Units) \subseteq PagesOf(c)
    BY <2>3, <2>5, <2>6, <2>7, <2>8 DEF PagesOf, Span, k
  <2>10. PagesOfHeld(h) = (h.at \div Units) .. (last \div Units)
    BY DEF PagesOfHeld, last
  <2> QED
    BY <2>9, <2>10 DEF HeapPages, c
<1>5. \A r \in runs : r.first >= BitmapPages /\ Span(r.first, r.n) \subseteq Rest(mm)
  <2> SUFFICES ASSUME NEW r \in runs PROVE r.first >= BitmapPages /\ Span(r.first, r.n) \subseteq Rest(mm)
    OBVIOUS
  <2>1. BitmapPages <= r.first /\ Span(r.first, r.n) \subseteq Rest(mm) /\ r \in [first : Nat, n : Nat \ {0}]
    BY <1>1 DEF RunsOK
  <2>2. BitmapPages \in Nat
    BY DEF ConstantsOK
  <2> QED
    BY <2>1, <2>2
<1>6. \A h \in held, r \in runs : PagesOfHeld(h) \cap Span(r.first, r.n) = {}
  BY <1>4, <1>5 DEF Rest
<1>7. \A r, s \in runs : r = s \/ Span(r.first, r.n) \cap Span(s.first, s.n) = {}
  BY <1>1 DEF RunsOK
<1>8. \A r \in runs : r.first >= BitmapPages /\ Span(r.first, r.n) \subseteq mm.bits
  BY <1>5 DEF Rest
<1> QED
  BY <1>3, <1>6, <1>7, <1>8 DEF NobodysTwice

LEMMA IsFreed == ConstantsOK /\ Inv => FreesWhatIsHeld /\ HeapShrinks /\ FindsRoom
<1> SUFFICES ASSUME ConstantsOK, Inv PROVE FreesWhatIsHeld /\ HeapShrinks /\ FindsRoom
  OBVIOUS
<1>1. Good(mm) /\ Built(mm) /\ mm \in Mems /\ HeldOK(mm, held)
  BY DEF Inv, Good, Built
<1>2. FreesWhatIsHeld
  <2> SUFFICES ASSUME NEW p \in Addr PROVE Accepts(mm, p) <=> \E h \in held : h.at = p
    BY DEF FreesWhatIsHeld
  <2>1. p \in Int
    BY DEF Addr
  <2>2. Accepts(mm, p) <=> p - 1 \in UsedSet(mm)
    BY <1>1, <2>1, AcceptsIs
  <2>3. ASSUME p - 1 \in UsedSet(mm) PROVE \E h \in held : h.at = p
    <3>1. PICK h \in held : h.at - 1 = p - 1
      BY <1>1, <2>3 DEF HeldOK
    <3>2. h.at \in Nat
      BY HeldIn
    <3> QED
      BY <2>1, <3>1, <3>2
  <2>4. \A h \in held : h.at - 1 \in UsedSet(mm)
    BY HeldIn
  <2> QED
    BY <2>2, <2>3, <2>4
<1>3. HeapShrinks
  <2> SUFFICES ASSUME held = {}, NEW i \in 2 .. Chunks PROVE mm.chunk[i] = NoChunk
    BY DEF HeapShrinks
  <2>1. UsedSet(mm) = {}
    BY <1>1 DEF HeldOK
  <2>2. Chunks \in Nat
    BY DEF ConstantsOK
  <2>3. i \in 1 .. Chunks /\ i # 1
    BY <2>2
  <2>4. ASSUME i \in Live(mm) PROVE FALSE
    <3>1. UsedIn(mm.hdr, mm.chunk[i]) # {}
      BY <1>1, <2>3, <2>4 DEF Good
    <3> QED
      BY <2>1, <3>1 DEF UsedIn, In, UsedSet
  <2> QED
    BY <1>1, <2>3, <2>4 DEF Built
<1>4. FindsRoom
  <2> SUFFICES ASSUME NEW n \in Runs PROVE FirstFit(mm, n) = Null <=> FreeStarts(mm, n, BitmapPages, NPages) = {}
    BY DEF FindsRoom
  <2>1. n \in Nat \ {0}
    BY DEF ConstantsOK
  <2> QED
    BY <1>1, <2>1, FitIs
<1> QED
  BY <1>2, <1>3, <1>4

-----------------------------------------------------------------------------
(* Every address that kfree() and mm_check() meet is a header or is not one: the
   types of the bitmap, the counter and the heads hold whatever is asked for. *)
THEOREM MemoryTyped == ASSUME ConstantsOK PROVE Spec => []TypeOK
<1>1. Init => Inv
  BY InitOK
<1>2. Inv /\ [Next]_vars => Inv'
  BY NextKeeps
<1>3. Inv => TypeOK
  BY Typed
<1> QED
  BY <1>1, <1>2, <1>3, PTL DEF Spec

(* mm_check() finds nothing wrong, whatever sequence of kmalloc(), kfree(),
   krealloc(), mm_pages_alloc() and mm_pages_free() was called, with whatever
   pointers: the chain of each chunk is repaired by every split and merge. *)
THEOREM HeapHealthy == ASSUME ConstantsOK PROVE Spec => []Healthy
<1>1. Init => Inv
  BY InitOK
<1>2. Inv /\ [Next]_vars => Inv'
  BY NextKeeps
<1>3. Inv => Healthy
  BY IsHealthy
<1> QED
  BY <1>1, <1>2, <1>3, PTL DEF Spec

(* Nobody is given memory that somebody holds, kfree() accepts exactly the blocks
   that are held, the heap keeps no chunk without a use, and the rolling first fit
   of the pages says no only when there is no room. *)
THEOREM MemoryIsOnes ==
  ASSUME ConstantsOK PROVE Spec => [](NobodysTwice /\ FreesWhatIsHeld /\ HeapShrinks /\ FindsRoom)
<1>1. Init => Inv
  BY InitOK
<1>2. Inv /\ [Next]_vars => Inv'
  BY NextKeeps
<1>3. Inv => NobodysTwice /\ FreesWhatIsHeld /\ HeapShrinks /\ FindsRoom
  BY IsNobodysTwice, IsFreed
<1> QED
  BY <1>1, <1>2, <1>3, PTL DEF Spec
=============================================================================
