-------------------------------- MODULE Dom --------------------------------
(* The tree that MiniWeb builds of a page (kernel/dom.h): start tags, end tags, text and the
   elements whose text is no markup arrive one after the other, are matched against the stack
   of open elements and go into three arenas, any of which may be full.

   A page is any sequence of at most Length tokens of one theme: tags that belong together, one
   or two of each class that the code tells apart.  The byte that a token writes is its
   number, so that what stands in the pool can be told.  Node 1 is the document, 0 is no node,
   and a node's children stand for the links first, last and next. *)
EXTENDS Integers, Sequences

CONSTANTS
  Themes, Length,                        (* sets of tags; tokens of a page *)
  NodeMax, AttrMax, PoolMax, StackMax    (* the arenas and the stack *)

VARIABLES theme, n, doc

ConstantsOK == {Length, NodeMax, AttrMax, PoolMax, StackMax} \subseteq Nat /\ NodeMax >= 4 /\ StackMax >= 3

Raw == {"title", "script", "textarea"}
Decoded == {"title", "textarea"}
Void == {"br"}
Special == {"body", "br", "button", "div", "h1", "h2", "head", "html", "li", "p", "pre", "script", "table",
            "tbody", "td", "template", "textarea", "title", "tr", "ul"}
Headings == {"h1", "h2"}
ClosesP == {"div", "h1", "h2", "li", "p", "pre", "table", "ul"}
Headish == {"title", "script", "template"}
Formatting == {"a", "b"}
Foreign == {"svg"}
Bodies == {"tbody"}

HtmlNode == 2
HeadNode == 3
BodyNode == 4

----------------------------------------------------------------------------
Top(d) == d.stk[Len(d.stk)]
TagAt(d, i) == d.nodes[d.stk[i]].tag
TopTag(d) == TagAt(d, Len(d.stk))
Pop(d, k) == [d EXCEPT !.stk = SubSeq(@, 1, Len(@) - k)]
PopTo(d, i) == IF i = 0 THEN d ELSE [d EXCEPT !.stk = SubSeq(@, 1, i - 1)]
EnterBody(d) == IF d.head THEN [d EXCEPT !.head = FALSE, !.stk = <<HtmlNode, BodyNode>>] ELSE d

Node(kind, tag, parent, a, b) ==
  [kind |-> kind, tag |-> tag, parent |-> parent, kids |-> <<>>, a |-> a, b |-> b, by |-> n + 1]
(* dom_new_node and dom_append. *)
Added(d, node) ==
  [d EXCEPT !.nodes = Append([@ EXCEPT ![node.parent].kids = Append(@, Len(d.nodes) + 1)], node)]
Full(d) == Len(d.nodes) >= NodeMax
Insert(d, tag, a, b, push) ==
  IF Full(d) THEN [d EXCEPT !.cut = TRUE]
  ELSE LET e == Added(d, Node("elem", tag, Top(d), a, b))
       IN IF push /\ Len(d.stk) < StackMax THEN [e EXCEPT !.stk = Append(@, Len(e.nodes))] ELSE e

(* The nearest open element of a tag, not beyond the end of its scope; 0 if there is none. *)
StopNotAtCells(tag, scope) ==
  \/ tag \in {"html", "template"}
  \/ scope = "button" /\ tag = "button"
  \/ scope = "li" /\ tag = "ul"
Stop(tag, scope) ==
  \/ tag \in {"html", "table", "template"}
  \/ scope # "table" /\ tag = "td"
  \/ scope = "button" /\ tag = "button"
  \/ scope = "li" /\ tag = "ul"
Highest(S) == IF S = {} THEN 0 ELSE CHOOSE i \in S : \A j \in S : j <= i
Nearest(d, Hit(_), Ends(_)) ==
  LET i == Highest({j \in DOMAIN d.stk : Hit(TagAt(d, j)) \/ Ends(TagAt(d, j))})
  IN IF i > 0 /\ Hit(TagAt(d, i)) THEN i ELSE 0
Find(d, tags, scope) == Nearest(d, LAMBDA t : t \in tags, LAMBDA t : Stop(t, scope))
(* What an end tag or a list item does not reach across. *)
FindUpToSpecial(d, tags, but) == Nearest(d, LAMBDA t : t \in tags, LAMBDA t : t \in Special \ but)
(* Down to one of tags, but not below the body. *)
DownTo(d, tags) ==
  LET i == Highest({j \in DOMAIN d.stk : j <= 2 \/ TagAt(d, j) \in tags}) IN [d EXCEPT !.stk = SubSeq(@, 1, i)]

(* Text goes to the text node that ends the pool, or to a new one. *)
LastKid(d) == LET k == d.nodes[Top(d)].kids IN IF k = <<>> THEN 0 ELSE k[Len(k)]
ExtendsAlways(d, l) == d.nodes[l].kind = "text"
Extends(d, l) == d.nodes[l].kind = "text" /\ d.nodes[l].a + d.nodes[l].b = Len(d.pool)
TextByte(d, c) ==
  LET last == LastKid(d)
      e == IF d.txt # 0 THEN d
           ELSE IF last # 0 /\ Extends(d, last) THEN [d EXCEPT !.txt = last]
           ELSE IF Full(d) THEN [d EXCEPT !.cut = TRUE]
           ELSE [Added(d, Node("text", "none", Top(d), Len(d.pool), 0)) EXCEPT !.txt = Len(d.nodes) + 1]
  IN IF Len(d.pool) >= PoolMax THEN [d EXCEPT !.cut = TRUE]
     ELSE IF e.txt = 0 THEN e
     ELSE [e EXCEPT !.pool = Append(@, c), !.nodes[e.txt].b = @ + 1]
Bytes(d, text) ==
  LET t[i \in 0 .. Len(text)] ==
        IF i = 0 THEN d ELSE LET e == t[i-1] IN IF e.cut THEN e ELSE TextByte(e, text[i])
  IN t[Len(text)]
Newline(c) == c < 0
AddText(d, text) ==
  LET inHead == d.head /\ TopTag(d) = "head"
      e == IF inHead THEN EnterBody(d) ELSE d
      skips == e.skip /\ text # <<>> /\ Newline(text[1])
  IN IF inHead /\ \A i \in DOMAIN text : Newline(text[i]) THEN d
     ELSE Bytes([e EXCEPT !.skip = FALSE], IF skips THEN Tail(text) ELSE text)

----------------------------------------------------------------------------
(* The values of a tag's attributes are in the pool before its element is made. *)
Attributes(d, k) ==
  LET a[i \in 0..k] ==
        IF i = 0 THEN d
        ELSE LET e == a[i-1]
                 room == Len(e.pool) < PoolMax
             IN IF Len(e.attrs) >= AttrMax THEN e
                ELSE [e EXCEPT !.attrs = Append(@, Len(e.pool)), !.cut = @ \/ ~room,
                               !.pool = IF room THEN Append(@, Length + n + 1) ELSE @]
  IN a[k]
(* A tag without an element of its own gives back what its attributes took. *)
GivesBack(e, d) == [e EXCEPT !.attrs = SubSeq(@, 1, Len(d.attrs)), !.pool = SubSeq(@, 1, Len(d.pool))]
Takes(e, d, node) ==
  LET k == Len(e.attrs) - Len(d.attrs)
  IN IF e.nodes[node].b = 0 /\ k > 0 THEN [e EXCEPT !.nodes[node].a = Len(d.attrs), !.nodes[node].b = k]
     ELSE GivesBack(e, d)

CloseP(d) == PopTo(d, Find(d, {"p"}, "button"))
Rows == {"table", "template"} \cup Bodies
(* What the start of an element closes, and the row that a cell is given. *)
Implied(d, tag) ==
  LET e == IF tag \in ClosesP THEN CloseP(d) ELSE d
      h == IF tag \in Headings /\ TopTag(e) \in Headings THEN Pop(e, 1) ELSE e
  IN CASE tag = "li" -> PopTo(h, FindUpToSpecial(h, {"li"}, {"div", "p"}))
       [] tag \in {"a", "button"} -> PopTo(h, Find(h, {tag}, "generic"))
       [] tag \in Bodies -> DownTo(h, {"table", "template"})
       [] tag = "tr" -> DownTo(h, Rows)
       [] tag = "td" -> LET c == DownTo(h, Rows \cup {"tr"})
                        IN IF TopTag(c) \in {"table"} \cup Bodies THEN Insert(c, "tr", 0, 0, TRUE) ELSE c
       [] OTHER -> h

(* dom_start; e is the document d with the attributes. *)
Opened(d, tag, selfclose, a, b) ==
  Insert(d, tag, a, b, ~(tag \in Void \/ (selfclose /\ d.foreign > 0)))
Entered(b, tag) == IF b.head THEN b ELSE Implied(b, tag)
NewElement(d, e, tag, selfclose) ==
  Opened(Entered(IF e.head /\ tag \notin Headish THEN EnterBody(e) ELSE e, tag),
         tag, selfclose, Len(d.attrs), Len(e.attrs) - Len(d.attrs))
StartOf(d, s, tag, selfclose) ==
  CASE tag = "html" -> Takes(s, d, HtmlNode)
    [] tag = "head" -> GivesBack(s, d)
    [] tag = "body" -> Takes(EnterBody(s), d, BodyNode)
    [] tag \in Foreign /\ ~selfclose -> [NewElement(d, s, tag, selfclose) EXCEPT !.foreign = @ + 1]
    [] OTHER -> NewElement(d, s, tag, selfclose)
Start(d, e, tag, selfclose) == StartOf(d, [e EXCEPT !.txt = 0], tag, selfclose)

(* dom_end *)
EndAnywhere(d, tag) == PopTo(d, Nearest(d, LAMBDA t : t = tag, LAMBDA t : FALSE))
EndOther(d, tag) ==
  LET i == Find(d, {tag}, "generic")
  IN IF i # 0 THEN PopTo(d, i) ELSE IF tag \in Formatting THEN d ELSE PopTo(d, FindUpToSpecial(d, {tag}, {tag}))
EndOf(e, tag) ==
  CASE tag \in {"html", "body"} -> e
    [] tag = "head" -> EnterBody(e)
    [] tag = "br" -> Start(e, e, "br", FALSE)
    [] tag = "p" -> LET i == Find(e, {"p"}, "button")
                    IN IF i # 0 THEN PopTo(e, i) ELSE IF e.head THEN e ELSE Insert(e, "p", 0, 0, FALSE)
    [] tag = "li" -> PopTo(e, Find(e, {"li"}, "li"))
    [] tag \in Headings -> PopTo(e, Find(e, Headings, "generic"))
    [] tag \in {"table", "td", "tr"} \cup Bodies -> PopTo(e, Find(e, {tag}, "table"))
    [] tag \in Foreign -> EndOther([e EXCEPT !.foreign = IF @ > 0 THEN @ - 1 ELSE 0], tag)
    [] OTHER -> EndOther(e, tag)
End(d, tag) == EndOf([d EXCEPT !.txt = 0], tag)

----------------------------------------------------------------------------
Ready == n < Length /\ ~doc.cut
Step(d) == doc' = d /\ n' = n + 1 /\ UNCHANGED theme
Texts == {<<n + 1>>, <<-(n + 1)>>, <<-(n + 1), n + 1>>}

Tagged(d, k, tag, selfclose) == Start(d, Attributes(d, k), tag, selfclose)
Skipping(d, k, tag, selfclose) == [Tagged(d, k, tag, selfclose) EXCEPT !.skip = TRUE]
StartTag ==
  /\ Ready
  /\ \E tag \in theme \ Raw, k \in {0, 1}, selfclose \in BOOLEAN :
       /\ k = 1 => tag \in {"html", "head", "body", "div"}
       /\ selfclose => theme \cap Foreign # {}
       /\ Step(IF tag = "pre" THEN Skipping([doc EXCEPT !.skip = FALSE], k, tag, selfclose)
               ELSE Tagged(doc, k, tag, selfclose))
EndTag == Ready /\ \E tag \in theme : Step(End(doc, tag))
Text == Ready /\ \E t \in Texts : Step(AddText(doc, t))
(* A raw element is read up to its end tag at once. *)
RawText(s, tag, t) ==
  IF t = <<>> THEN s
  ELSE IF tag \in Decoded THEN AddText([s EXCEPT !.skip = tag = "textarea"], t)
  ELSE Bytes([s EXCEPT !.skip = tag = "textarea"], t)
RawRead(s, tag, t) ==
  IF Full(doc) THEN s ELSE End([RawText(s, tag, t) EXCEPT !.skip = FALSE], tag)
RawElement ==
  /\ Ready
  /\ \E tag \in theme \cap Raw, t \in Texts \cup {<<>>} : Step(RawRead(Start(doc, doc, tag, FALSE), tag, t))

Empty ==
  [nodes |-> << [kind |-> "doc", tag |-> "none", parent |-> 0, kids |-> <<HtmlNode>>, a |-> 0, b |-> 0, by |-> 0],
                [kind |-> "elem", tag |-> "html", parent |-> 1, kids |-> <<HeadNode, BodyNode>>, a |-> 0, b |-> 0, by |-> 0],
                [kind |-> "elem", tag |-> "head", parent |-> HtmlNode, kids |-> <<>>, a |-> 0, b |-> 0, by |-> 0],
                [kind |-> "elem", tag |-> "body", parent |-> HtmlNode, kids |-> <<>>, a |-> 0, b |-> 0, by |-> 0] >>,
   attrs |-> <<>>, pool |-> <<>>, stk |-> <<HtmlNode, HeadNode>>, head |-> TRUE, txt |-> 0, skip |-> FALSE,
   foreign |-> 0, cut |-> FALSE]
Init == theme \in Themes /\ n = 0 /\ doc = Empty
Next == StartTag \/ EndTag \/ Text \/ RawElement
vars == <<theme, n, doc>>
Spec == Init /\ [][Next]_vars

----------------------------------------------------------------------------
(* The arenas and the stack stay within their sizes. *)
TypeOK ==
  /\ Len(doc.nodes) <= NodeMax /\ Len(doc.attrs) <= AttrMax /\ Len(doc.pool) <= PoolMax
  /\ Len(doc.stk) \in 2 .. StackMax /\ doc.txt \in 0 .. Len(doc.nodes) /\ doc.foreign \in 0 .. Length

(* Whatever the tags, what there is is one tree, and walking it meets the nodes in the order of
   the page, if an arena was full, too (dom_append; dom.h: "the half-built tree is still a
   valid tree"). *)
OneTree ==
  LET N == doc.nodes
  IN /\ \A x \in 2 .. Len(N) : N[x].parent < x /\ \E i \in DOMAIN N[N[x].parent].kids : N[N[x].parent].kids[i] = x
     /\ \A x \in 1 .. Len(N) : \A i, j \in DOMAIN N[x].kids :
          N[N[x].kids[i]].parent = x /\ (i < j => N[x].kids[i] < N[x].kids[j])
     /\ \A x, y \in 5 .. Len(N) : x < y => N[x].by <= N[y].by

(* The open elements are a path from the root, of which html and head or body are never
   closed (dom_pop_to, dom_enter_body). *)
OpenIsPath ==
  /\ doc.stk[1] = HtmlNode /\ doc.stk[2] = (IF doc.head THEN HeadNode ELSE BodyNode)
  /\ \A i \in 2 .. Len(doc.stk) : doc.nodes[doc.stk[i]].parent = doc.stk[i-1]

(* The children that are written last are those of the open elements: no node is put in front
   of one that came before it. *)
LastIsOpen ==
  LET N == doc.nodes
      above[x \in 1 .. Len(N)] == IF x = 1 THEN {1} ELSE {x} \cup above[N[x].parent]
  IN ~doc.head => \A i \in DOMAIN doc.stk : doc.stk[i] \in above[Len(N)] \cup {HtmlNode, BodyNode}

(* A text node's bytes are those of its own tokens, in order, and an element's attribute is
   its own, although both share a pool that tags give back to (dom_text_byte, dom_start). *)
Whole ==
  \A x \in DOMAIN doc.nodes :
    LET e == doc.nodes[x]
    IN /\ e.kind = "text" =>
            /\ e.b > 0 /\ e.a + e.b <= Len(doc.pool)
            /\ \A i \in e.a + 1 .. e.a + e.b : doc.pool[i] \in (e.by .. Length) \cup (-Length .. -e.by)
       /\ e.kind = "elem" /\ e.b > 0 /\ x > 4 /\ doc.attrs[e.a + 1] < Len(doc.pool) =>
            doc.pool[doc.attrs[e.a + 1] + 1] = Length + e.by
       /\ \A y \in DOMAIN doc.nodes :
            e.kind = "text" /\ doc.nodes[y].kind = "text" /\ x < y => e.a + e.b <= doc.nodes[y].a

(* A paragraph holds no block, a link no link, a cell is in a row: what is implied is closed
   and supplied wherever it is left out (dom_close_p, dom_start), unless the stack is full. *)
Above(x) ==
  LET N == doc.nodes
      a[y \in 1 .. Len(N)] == IF N[y].parent = 0 THEN <<>> ELSE <<N[y].parent>> \o a[N[y].parent] IN a[x]
Within(x, tag, scope) ==
  LET up == Above(x)
  IN \E i \in DOMAIN up : /\ doc.nodes[up[i]].tag = tag
                          /\ \A j \in 1 .. i-1 : ~Stop(doc.nodes[up[j]].tag, scope)
Flat ==
  \A x \in 5 .. Len(doc.nodes) :
    LET e == doc.nodes[x]
    IN /\ e.tag \in ClosesP => ~Within(x, "p", "button")
       /\ e.tag \in {"a", "button"} => ~Within(x, e.tag, "generic")
       /\ e.tag = "td" /\ Len(Above(x)) < StackMax => doc.nodes[e.parent].tag \in {"tr", "template", "body"}

(* An end tag that is none of a table's closes no cell and no table (dom_end; dom.h: "a stray
   </div> can't tear down a table it doesn't own"). *)
Cells(d) == {d.stk[i] : i \in {j \in DOMAIN d.stk : TagAt(d, j) \in {"td", "table"}}}
TablesStandStep ==
  \A tag \in theme \ ({"table", "tr", "td", "head"} \cup Bodies) :
    n' = n + 1 /\ doc' = End(doc, tag) /\ ~doc.head => Cells(doc) \subseteq Cells(doc')
TablesStand == [][TablesStandStep]_vars

(* "/>" closes an element only inside a drawing (dom.h: "inside <svg>/<math>"). *)
ForeignIsInside == doc.foreign > 0 => \E i \in DOMAIN doc.stk : TagAt(doc, i) \in Foreign
=============================================================================
