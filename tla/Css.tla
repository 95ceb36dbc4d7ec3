-------------------------------- MODULE Css --------------------------------
(* Style sheets in MiniWeb (kernel/css.h): rules are parsed into arenas and hung into buckets
   by their last compound, and the style of an element is what the rules found for it declare,
   lowest priority first.

   A tree is a sequence of elements, html first, in the order of the page.  A selector is a
   sequence of compounds; what it is written as and what the arena holds of it are told apart.
   A declaration's value is its place in the sheet, so that one can say which one won. *)
EXTENDS Integers, Sequences, FiniteSets, TLC

CONSTANTS
  Trees, Selectors, UaSelectors, Blocks,   (* pages; selectors, those of the browser; declarations *)
  Steps,                                   (* rule sets of a sheet *)
  RuleMax, CompMax, DeclMax, MatchMax, BucketN

VARIABLES tree, sheet, css

ConstantsOK == {Steps, RuleMax, CompMax, DeclMax, MatchMax, BucketN} \subseteq Nat \ {0}

Ua == 0
Author == 1
Initial == [color |-> <<0, 0>>, width |-> <<0, 0>>]
HintValue == <<0, 1>>
Least(a, b) == IF a < b THEN a ELSE b
Most(S) == IF S = {} THEN 0 ELSE CHOOSE x \in S : \A y \in S : y <= x

----------------------------------------------------------------------------
Siblings(x) == {y \in DOMAIN tree : tree[y].parent = tree[x].parent}
Prev(x) == Most({y \in Siblings(x) : y < x})
Place(x) == Cardinality({y \in Siblings(x) : y <= x})

(* :nth-child(an+b) by a remainder and a sign. *)
NthOk(pos, a, b) ==
  LET d == pos - b IN IF a = 0 THEN d = 0 ELSE d % (IF a < 0 THEN -a ELSE a) = 0 /\ d * a >= 0
Hits(x, neg) == CASE neg[1] = "tag" -> tree[x].tag = neg[2]
                  [] neg[1] = "cls" -> \E i \in DOMAIN tree[x].cls : tree[x].cls[i] = neg[2]
                  [] OTHER -> tree[x].id = neg[2]
css_has_class(x, c) == \E i \in DOMAIN tree[x].cls : tree[x].cls[i] = c
css_comp_ok(x, c) ==
  /\ c.tag \in {"any", tree[x].tag} /\ c.id \in {0, tree[x].id}
  /\ \A i \in DOMAIN c.cls : css_has_class(x, c.cls[i])
  /\ "root" \in c.ps => x = 1
  /\ "first" \in c.ps => Place(x) = 1
  /\ "last" \in c.ps => Place(x) = Cardinality(Siblings(x))
  /\ "only" \in c.ps => Cardinality(Siblings(x)) = 1
  /\ \A i \in DOMAIN c.nth : NthOk(Place(x), c.nth[i][1], c.nth[i][2])
  /\ \A i \in DOMAIN c.neg : ~Hits(x, c.neg[i])

(* The elements that a combinator leads to. *)
Above(y) == LET a[z \in DOMAIN tree] == IF tree[z].parent = 0 THEN {} ELSE {tree[z].parent} \cup a[tree[z].parent] IN a[y]
Allowed(y, comb) == CASE comb = "child" -> {tree[y].parent} \ {0}
                      [] comb = "desc"  -> Above(y)
                      [] comb = "next"  -> {Prev(y)} \ {0}
                      [] comb = "later" -> {z \in Siblings(y) : z < y}
(* The compounds from the last one to the left, each tried on every element that its combinator
   leads to. *)
MatchNearest(x, comps) ==
  LET m[y \in DOMAIN tree, k \in DOMAIN comps] ==
        LET z == Most({w \in Allowed(y, comps[k].comb) : k > 1 /\ css_comp_ok(w, comps[k-1])})
        IN css_comp_ok(y, comps[k]) /\ (k = 1 \/ (z # 0 /\ m[z, k-1]))
  IN m[x, Len(comps)]
css_match_from(x, comps) ==
  LET m[y \in DOMAIN tree, k \in DOMAIN comps] ==
        css_comp_ok(y, comps[k]) /\ (k = 1 \/ \E z \in Allowed(y, comps[k].comb) : m[z, k-1])
  IN m[x, Len(comps)]

----------------------------------------------------------------------------
(* css_parse_selector: a compound has room for two classes, one :not and one :nth-child; a tag
   nobody knows makes the selector unsupported. *)
LastOnly(s) == IF s = <<>> THEN s ELSE <<s[Len(s)]>>
Parsed(sel) ==
  [i \in DOMAIN sel |->
     [sel[i] EXCEPT !.cls = SubSeq(@, 1, Least(2, Len(@))), !.neg = LastOnly(@), !.nth = LastOnly(@)]]
Supported(sel) == \A i \in DOMAIN sel : sel[i].tag # "unknown"
Specificity(sel) ==
  LET Sum(F(_)) == LET s[i \in 0 .. Len(sel)] == IF i = 0 THEN 0 ELSE s[i-1] + F(sel[i]) IN s[Len(sel)]
  IN 100 * Sum(LAMBDA c : IF c.id # 0 THEN 1 ELSE 0)
     + 10 * Sum(LAMBDA c : Len(c.cls) + Cardinality(c.ps) + Len(c.nth) + Len(c.neg))
     + Sum(LAMBDA c : IF c.tag # "any" THEN 1 ELSE 0)

(* The bucket that a rule goes into: by the id, else by the first class, else by the tag of its
   last compound. *)
KeyOfFirst(comps) ==
  LET c == comps[1]
  IN IF c.id # 0 THEN <<"id", c.id % BucketN>>
     ELSE IF c.cls # <<>> THEN <<"cls", c.cls[1] % BucketN>>
     ELSE IF c.tag # "any" THEN <<"tag", c.tag>> ELSE <<"any">>
Key(comps) ==
  LET c == comps[Len(comps)]
  IN IF c.id # 0 THEN <<"id", c.id % BucketN>>
     ELSE IF c.cls # <<>> THEN <<"cls", c.cls[1] % BucketN>>
     ELSE IF c.tag # "any" THEN <<"tag", c.tag>> ELSE <<"any">>

(* css_add_rule: the selectors of a list one after the other, then the declarations they share,
   then the buckets, the newest rule first. *)
Selected(d, sel, origin, at) ==
  IF ~Supported(sel) THEN d
  ELSE IF d.comps + Len(sel) > CompMax THEN [d EXCEPT !.lost = TRUE]
  ELSE IF Len(d.rules) >= RuleMax THEN [d EXCEPT !.over = TRUE, !.lost = TRUE]
  ELSE [d EXCEPT !.comps = @ + Len(sel),
                 !.rules = Append(@, [comps |-> Parsed(sel), spec |-> 1000 * origin + Specificity(sel),
                                      order |-> Len(@), decls |-> <<>>, next |-> 0, at |-> at])]
css_add_rule(sels, decls, origin) ==
  LET n == Len(sheet) + 1
      p[i \in 0 .. Len(sels)] == IF i = 0 THEN css ELSE Selected(p[i-1], sels[i], origin, <<n, i>>)
      d == p[Len(sels)]
      new == Len(css.rules) + 1 .. Len(d.rules)
      room == Least(Len(decls), DeclMax - d.decls)
      mine == [i \in 1 .. room |-> [prop |-> decls[i].prop, imp |-> decls[i].imp, inherits |-> decls[i].inherits, val |-> <<n, i>>]]
      hung[r \in Len(css.rules) .. Len(d.rules)] ==
        IF r = Len(css.rules) THEN d
        ELSE LET k == Key(d.rules[r].comps)
                 e == hung[r-1]
             IN [e EXCEPT !.rules[r].decls = mine,
                          !.rules[r].next = IF k \in DOMAIN e.heads THEN e.heads[k] ELSE 0,
                          !.heads = (k :> r) @@ @]
  IN IF new = {} THEN d
     ELSE [hung[Len(d.rules)] EXCEPT !.decls = @ + room, !.lost = @ \/ room < Len(decls)]

----------------------------------------------------------------------------
(* css_collect along one bucket's chain, at most MatchMax rules in all. *)
Collect(k, x, found) ==
  LET after[i \in 0 .. Len(css.rules)] ==       (* the chain, as far as i + 1 rules *)
        IF i = 0 THEN <<IF k \in DOMAIN css.heads THEN css.heads[k] ELSE 0>>
        ELSE LET s == after[i-1]
             IN IF s[Len(s)] = 0 THEN s ELSE Append(s, css.rules[s[Len(s)]].next)
      hits == SelectSeq(after[Len(css.rules)], LAMBDA r : r # 0 /\ css_match_from(x, css.rules[r].comps))
  IN SubSeq(found \o hits, 1, Least(MatchMax, Len(found) + Len(hits)))
Found(x) ==
  LET e == tree[x]
      u == Collect(<<"tag", e.tag>>, x, Collect(<<"any">>, x, <<>>))
      c[i \in 0 .. Len(e.cls)] == IF i = 0 THEN u ELSE Collect(<<"cls", e.cls[i] % BucketN>>, x, c[i-1])
      m == c[Len(e.cls)]
  IN IF e.id # 0 THEN Collect(<<"id", e.id % BucketN>>, x, m) ELSE m

(* The priority of a rule: its origin and specificity, then its place. *)
BeforeBySpec(r, s) == css.rules[r].spec < css.rules[s].spec
Before(r, s) ==
  LET a == css.rules[r]
      b == css.rules[s]
  IN a.spec < b.spec \/ (a.spec = b.spec /\ a.order < b.order)
Sorted(m) == SortSeq(m, Before)

(* css_apply, of which only the winner matters; inherit is known for what is inherited anyway. *)
Applied(s, d, par) == IF ~d.inherits THEN [s EXCEPT ![d.prop] = d.val]
                      ELSE IF d.prop = "color" THEN [s EXCEPT !.color = par.color] ELSE s
AppliedAll(s, decls, imp, par) ==
  LET a[i \in 0 .. Len(decls)] ==
        IF i = 0 THEN s ELSE IF decls[i].imp = imp THEN Applied(a[i-1], decls[i], par) ELSE a[i-1]
  IN a[Len(decls)]
Hinted(s, x) == IF tree[x].hint THEN [s EXCEPT !.width = HintValue] ELSE s
IsAuthor(r) == css.rules[r].spec >= 1000

(* css_compute: what is not important first; the presentational attributes before the first
   rule of the page; the element's own declarations last of each pass. *)
Pass(s, x, m, imp, par) ==
  LET first == Most({i \in 0 .. Len(m) : \A j \in 1..i : ~IsAuthor(m[j])})    (* rules before the hints *)
      p[i \in 0 .. Len(m)] ==
        IF i = 0 THEN IF ~imp /\ first = 0 THEN Hinted(s, x) ELSE s
        ELSE LET t == AppliedAll(p[i-1], css.rules[m[i]].decls, imp, par)
             IN IF ~imp /\ i = first THEN Hinted(t, x) ELSE t
  IN AppliedAll(p[Len(m)], tree[x].style, imp, par)
Passes(s, x, m, par) == Pass(Pass(s, x, m, FALSE, par), x, m, TRUE, par)
Computed(x, par) ==
  Passes([Initial EXCEPT !.color = par.color], x, Sorted(Found(x)), par)            (* css_style_inherit *)

----------------------------------------------------------------------------
(* The browser's own sheet comes first, then the page's; the order of their rules is theirs. *)
AddRule(origin) ==
  /\ Len(sheet) < Steps /\ (origin = Ua => \A i \in DOMAIN sheet : sheet[i].origin = Ua)
  /\ \E sels \in (IF origin = Ua THEN UaSelectors ELSE Selectors), decls \in Blocks :
       /\ origin = Ua => \A i \in DOMAIN decls : ~decls[i].imp /\ ~decls[i].inherits
       /\ sheet' = Append(sheet, [origin |-> origin, sels |-> sels, decls |-> decls])
       /\ css' = css_add_rule(sels, decls, origin)
  /\ UNCHANGED tree

Empty == [rules |-> <<>>, comps |-> 0, decls |-> 0, over |-> FALSE, lost |-> FALSE,
          heads |-> <<"any">> :> 0]
Init == tree \in Trees /\ sheet = <<>> /\ css = Empty
Next == AddRule(Ua) \/ AddRule(Author)
vars == <<tree, sheet, css>>
Spec == Init /\ [][Next]_vars

----------------------------------------------------------------------------
(* The arenas stay within their sizes, and a bucket's chain goes from newer to older rules. *)
TypeOK ==
  /\ Len(css.rules) <= RuleMax /\ css.comps <= CompMax /\ css.decls <= DeclMax
  /\ \A r \in DOMAIN css.rules : css.rules[r].next < r /\ Len(css.rules[r].decls) <= DeclMax

(* What a selector selects: the elements that end a path on which every element is one of its
   compound and stands to the next as the combinator says. *)
Is(x, c) ==
  /\ css_comp_ok(x, [c EXCEPT !.nth = <<>>])
  /\ \A i \in DOMAIN c.nth : \E k \in 0 .. Len(tree) + 4 : Place(x) = c.nth[i][1] * k + c.nth[i][2]
Stands(y, x, comb) ==
  CASE comb = "child" -> tree[x].parent = y
    [] comb = "desc"  -> LET up[z \in 0 .. Len(tree)] == IF z = 0 THEN FALSE ELSE tree[z].parent = y \/ up[tree[z].parent]
                         IN up[x]
    [] comb = "next"  -> y \in Siblings(x) /\ Place(y) + 1 = Place(x)
    [] comb = "later" -> y \in Siblings(x) /\ Place(y) < Place(x)
Selects(x, sel) ==
  \E path \in [DOMAIN sel -> DOMAIN tree] :
    /\ path[Len(sel)] = x
    /\ \A i \in DOMAIN sel : Is(path[i], sel[i])
    /\ \A i \in DOMAIN sel : i > 1 => Stands(path[i-1], path[i], sel[i].comb)

(* Trying the elements to the left and above one after the other finds a path if there is one,
   and only then (css_match_from). *)
MatchIsPath ==
  \A r \in DOMAIN css.rules, x \in DOMAIN tree :
    css_match_from(x, css.rules[r].comps) <=> Selects(x, css.rules[r].comps)

(* The buckets of an element's tag, classes and id hold every rule that matches it (css_bucket_add
   by the last compound, css_collect by what the element has). *)
FoundAll ==
  \A x \in DOMAIN tree :
    LET m == Found(x)
    IN Len(m) < MatchMax =>
         {m[i] : i \in DOMAIN m} = {r \in DOMAIN css.rules : css_match_from(x, css.rules[r].comps)}

(* The style is that of the cascade: for each property, the declaration that wins over all the
   sheet's - by importance, then browser, attribute, page, element, then specificity, then the
   later one - unless something did not fit (css_compute; css.h: "UA < hints < author"). *)
Declared(x, prop) ==
  LET Of(i) == sheet[i].decls
  IN UNION { {[rank |-> (IF Of(q[1])[k].imp THEN 1000000 ELSE 0) + 200000 * sheet[q[1]].origin
                          + 100 * Specificity(sheet[q[1]].sels[q[2]]) + 10 * q[1] + k,
               inherits |-> Of(q[1])[k].inherits, val |-> <<q[1], k>>] :
                k \in {l \in DOMAIN Of(q[1]) : Of(q[1])[l].prop = prop}} :
             q \in {p \in (DOMAIN sheet) \X (1..3) :
                            /\ p[2] \in DOMAIN sheet[p[1]].sels /\ Supported(sheet[p[1]].sels[p[2]])
                            /\ Selects(x, Parsed(sheet[p[1]].sels[p[2]]))} }
     \cup {[rank |-> (IF tree[x].style[k].imp THEN 1000000 ELSE 0) + 300000 + k,
            inherits |-> FALSE, val |-> tree[x].style[k].val] :
             k \in {l \in DOMAIN tree[x].style : tree[x].style[l].prop = prop}}
     \cup (IF prop = "width" /\ tree[x].hint THEN {[rank |-> 100000, inherits |-> FALSE, val |-> HintValue]} ELSE {})
Wins(x, prop, par) ==
  LET D == {d \in Declared(x, prop) : d.inherits => prop = "color"}
  IN IF D = {} THEN IF prop = "color" THEN par.color ELSE Initial[prop]
     ELSE LET w == CHOOSE d \in D : \A e \in D : e.rank <= d.rank IN IF w.inherits THEN par.color ELSE w.val
Cascade ==
  ~css.lost =>
    LET style[x \in 0 .. Len(tree)] == IF x = 0 THEN Initial ELSE Computed(x, style[tree[x].parent])
    IN \A x \in DOMAIN tree :
         LET par == style[tree[x].parent]
         IN Len(Found(x)) < MatchMax =>
              style[x] = [color |-> Wins(x, "color", par), width |-> Wins(x, "width", par)]

(* A rule never matches more than was written (css.h: "0 if it uses something unsupported (the
   whole rule is then dropped)"). *)
NoWider ==
  \A r \in DOMAIN css.rules, x \in DOMAIN tree :
    css_match_from(x, css.rules[r].comps) => Selects(x, sheet[css.rules[r].at[1]].sels[css.rules[r].at[2]])
(* What did not fit is told (css.h of css_overflowed: "some rules / matches were dropped for lack
   of room"). *)
Told == css.lost => css.over
=============================================================================
