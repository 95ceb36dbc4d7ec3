------------------------------- MODULE Table -------------------------------
(* Tables in MiniWeb's layout (lay_table in kernel/layout.h): cells with spans are put on a
   grid, columns share the width there is, rows grow with what they hold.

   A table is built row by row and cell by cell, so every table of at most Length steps is a
   state; what it looks like follows from it.  A cell comes with its spans, the least and the
   greatest width of its content, the width declared for it, and its height. *)
EXTENDS Integers, Sequences, FiniteSets

CONSTANTS
  Settings,            (* of the table: room, declared width, spacing, border and padding *)
  Contents,            (* of a cell: min, max, fixed, pct, h *)
  Spans, Length,
  ColMax, RowMax, CellMax

VARIABLES set, n, tb

ConstantsOK == {Length, ColMax, RowMax, CellMax} \subseteq Nat \ {0} /\ Spans \subseteq Nat \ {0}

Cols == 0 .. ColMax - 1
Largest(S) == CHOOSE x \in S : \A y \in S : y <= x
Max2(a, b) == IF a > b THEN a ELSE b
Min2(a, b) == IF a < b THEN a ELSE b
SumOf(f, k) == LET s[i \in 0..k] == IF i = 0 THEN 0 ELSE s[i-1] + f[i-1] IN s[k]

----------------------------------------------------------------------------
Row(t) == t.nr - 1
(* The first column of the row that no cell from above holds any more. *)
FreeNever(busy, col, row) == col
Free(busy, col, row) ==
  LET S == {c \in Cols : c >= col /\ busy[c] <= row} IN IF S = {} THEN ColMax ELSE CHOOSE c \in S : \A d \in S : c <= d
AddCell(c, cs, rs) ==
  LET row == Row(tb)
      col == Free(tb.busy, tb.col, row)
      span == Min2(cs, ColMax - col)
  IN IF tb.over \/ col >= ColMax THEN [tb EXCEPT !.over = TRUE]       \* the rest of the row is left out
     ELSE [tb EXCEPT !.cells = Append(@, [row |-> row, col |-> col, cs |-> span, rs |-> rs, min |-> c.min, max |-> c.max,
                                          fixed |-> c.fixed, pct |-> c.pct, h |-> c.h]),
                     !.crossed = @ \/ \E k \in col + 1 .. col + span - 1 : tb.busy[k] > row,
                     !.busy = [k \in Cols |-> IF k \in col .. col + span - 1 THEN row + rs ELSE @[k]],
                     !.col = col + span, !.ncols = Max2(@, col + span)]

NewRow ==
  /\ n < Length /\ tb.nr < RowMax
  /\ tb' = [tb EXCEPT !.nr = @ + 1, !.col = 0, !.over = FALSE]
  /\ n' = n + 1 /\ UNCHANGED set
NewCell ==
  /\ n < Length /\ tb.nr > 0
  /\ \E c \in Contents, cs \in Spans, rs \in Spans :
       tb' = IF Len(tb.cells) >= CellMax THEN tb ELSE AddCell(c, cs, rs)
  /\ n' = n + 1 /\ UNCHANGED set

----------------------------------------------------------------------------
(* 2. column widths *)
Single(f(_)) ==
  [c \in Cols |-> Largest({0} \cup {f(tb.cells[i]) : i \in {j \in DOMAIN tb.cells : tb.cells[j].cs = 1 /\ tb.cells[j].col = c}})]
(* What a spanning cell needs more than its columns have is spread over them, the rest to the
   last. *)
Spread(w, c, need) ==
  [k \in Cols |-> IF k \notin c.col .. c.col + c.cs - 1 THEN w[k]
                  ELSE w[k] + (need \div c.cs) + (IF k = c.col + c.cs - 1 THEN need % c.cs ELSE 0)]
Under(w, c) == LET s[k \in 0 .. c.cs] == IF k = 0 THEN 0 ELSE s[k-1] + w[c.col + k - 1] IN s[c.cs] + set.space * (c.cs - 1)
Spanned(w0, f(_)) ==
  LET s[i \in 0 .. Len(tb.cells)] ==
        IF i = 0 THEN w0
        ELSE LET w == s[i-1]
                 c == tb.cells[i]
             IN IF c.cs > 1 /\ f(c) > Under(w, c) THEN Spread(w, c, f(c) - Under(w, c)) ELSE w
  IN s[Len(tb.cells)]
ColMin == Spanned(Single(LAMBDA c : c.min), LAMBDA c : c.min)
ColPct == Single(LAMBDA c : c.pct)
(* The greatest widths before percentages. *)
WantOf(min, max, fix) == [c \in Cols |-> IF fix[c] > 0 THEN Max2(min[c], fix[c]) ELSE Max2(max[c], min[c])]
ColWant ==
  WantOf(ColMin, Spanned(Single(LAMBDA c : c.max), LAMBDA c : c.max), Single(LAMBDA c : c.fixed))
AnyPct == \E c \in 0 .. tb.ncols - 1 : ColPct[c] > 0
Declared == set.width > 0 \/ AnyPct
Around == set.space * (tb.ncols + 1) + set.edge
Least == SumOf(ColMin, tb.ncols) + Around
Target ==
  LET want == IF set.width > 0 THEN set.width ELSE IF AnyPct THEN set.room ELSE SumOf(ColWant, tb.ncols) + Around
  IN Max2(0, Max2(Min2(want, set.room), Least) - Around)
LastTakes(w, min, target, last) == [w EXCEPT ![last] = Max2(min[last], @ + target - SumOf(w, last + 1))]
(* Columns of the widths want, at least min, made to take target. *)
Shared(want, min, target, summin, summax) ==
  CASE target >= summax ->
         [c \in Cols |-> want[c] + IF ~Declared THEN 0
                                   ELSE IF summax > 0 THEN ((target - summax) * want[c]) \div summax
                                   ELSE (target - summax) \div Max2(1, tb.ncols)]
    [] target < summax /\ target > summin ->
         [c \in Cols |-> min[c] + ((want[c] - min[c]) * (target - summin)) \div (summax - summin)]
    [] OTHER -> min
Fitted(want, min, target, summin, summax) ==
  IF tb.ncols > 0 /\ target >= summin /\ (Declared \/ target < summax)
  THEN LastTakes(Shared(want, min, target, summin, summax), min, target, tb.ncols - 1)
  ELSE Shared(want, min, target, summin, summax)
WidthsOf(want, min, target) == Fitted(want, min, target, SumOf(min, tb.ncols), SumOf(want, tb.ncols))
Wanted(wanted, min, pct, target) ==
  IF \E c \in 0 .. tb.ncols - 1 : pct[c] > 0
  THEN [c \in Cols |-> IF pct[c] > 0 THEN Max2(min[c], (target * pct[c]) \div 10) ELSE wanted[c]]
  ELSE wanted
WidthsFor(min, target) == WidthsOf(Wanted(ColWant, min, ColPct, target), min, target)
Widths == WidthsFor(ColMin, Target)

(* 3. rows: as high as the cells of one row in it, then as the cells that end there need. *)
EndRow(c) == Min2(c.row + c.rs, tb.nr) - 1
RowsByOwn(r, top) ==
  Largest({0} \cup {tb.cells[i].h : i \in {j \in DOMAIN tb.cells : tb.cells[j].row = r /\ tb.cells[j].rs = 1}})
RowHeight(r, top) ==          \* top: where the rows up to r begin
  Largest({0} \cup {tb.cells[i].h : i \in {j \in DOMAIN tb.cells : tb.cells[j].row = r /\ tb.cells[j].rs = 1}}
              \cup {tb.cells[i].h - (top[r] - top[tb.cells[i].row]) :
                      i \in {j \in DOMAIN tb.cells : EndRow(tb.cells[j]) = r /\ tb.cells[j].row <= r}})
Tops ==
  LET t[r \in 0 .. tb.nr] ==
        IF r = 0 THEN <<0>>
        ELSE LET s == t[r-1] IN Append(s, s[r] + RowHeight(r - 1, [q \in 0 .. r-1 |-> s[q + 1]]) + set.space)
  IN [r \in 0 .. tb.nr |-> t[tb.nr][r + 1]]
Lefts(w) == [c \in 0 .. tb.ncols |-> SumOf(w, c) + set.space * (c + 1)]

Init ==
  /\ set \in Settings /\ n = 0
  /\ tb = [cells |-> <<>>, nr |-> 0, col |-> 0, ncols |-> 0, busy |-> [c \in Cols |-> 0], over |-> FALSE, crossed |-> FALSE]
Next == NewRow \/ NewCell
vars == <<set, n, tb>>
Spec == Init /\ [][Next]_vars

----------------------------------------------------------------------------
TypeOK == Len(tb.cells) <= CellMax /\ tb.nr <= RowMax /\ tb.ncols <= ColMax

(* No two cells share a place of the grid, unless one that spans columns was laid across a cell
   from above (colbusy in lay_table). *)
Places(c) == (c.row .. EndRow(c)) \X (c.col .. c.col + c.cs - 1)
CellsApart ==
  ~tb.crossed => \A i, j \in DOMAIN tb.cells : i < j => Places(tb.cells[i]) \cap Places(tb.cells[j]) = {}

(* Every cell is at least as wide as its content must be, spanning or not; the table is no wider
   than its room unless its content is; and it takes all of a width that is declared. *)
Hold(w, total) ==
  /\ \A i \in DOMAIN tb.cells : Under(w, tb.cells[i]) >= tb.cells[i].min
  /\ total <= Max2(set.room, Least)
  /\ tb.ncols > 0 /\ set.width > 0 => total >= Min2(set.width, set.room)
HoldAll(w) == Hold(w, SumOf(w, tb.ncols) + Around)
WidthsHold == HoldAll(Widths)

(* Every cell is at least as high as its content and ends before the next row begins, and cells
   that share no place of the grid do not overlap on the page. *)
Area(c, top, left, w) ==
  [x |-> left[c.col], w |-> Under(w, c), y |-> top[c.row], h |-> top[EndRow(c) + 1] - set.space - top[c.row]]
Apart(a, b) == a.x + a.w <= b.x \/ b.x + b.w <= a.x \/ a.y + a.h <= b.y \/ b.y + b.h <= a.y
AreasHold(area) ==
  /\ \A i \in DOMAIN tb.cells : area[i].h >= tb.cells[i].h
  /\ \A i, j \in DOMAIN tb.cells :
       i < j /\ Places(tb.cells[i]) \cap Places(tb.cells[j]) = {} => Apart(area[i], area[j])
Areas(top, left, w) == [i \in DOMAIN tb.cells |-> Area(tb.cells[i], top, left, w)]
HoldWith(w) == AreasHold(Areas(Tops, Lefts(w), w))
HeightsHold == HoldWith(Widths)
=============================================================================
