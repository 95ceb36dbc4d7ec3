------------------------------- MODULE MCNet -------------------------------
(* From the wire to the page: ARP with IP output, DHCP, DNS, two TCP connections, the
   parser of responses, TLS and the check of certificate chains, the arithmetic and the
   ciphers under them, the load of a page, its tree, its style sheets, its lines and its
   tables.  They share no state beyond what each assumes of the others, so a behaviour
   runs one of them, chosen at the start, and the run explores the sum of their states and
   not the product.  The variables of a part are v1, v2, ... in the order in which its
   module declares them, and the rest stay 0. *)
EXTENDS Integers, Sequences

CONSTANTS
  Parts,                (* the parts a run explores *)
  l1, l2, near, far, g1, g2, sv1, sv2, a1, a2, ha, hb, hc, ns, gw, pub1, pub2, www, none

VARIABLES part, v1, v2, v3, v4, v5, v6, v7, v8, v9, v10
all == <<v1, v2, v3, v4, v5, v6, v7, v8, v9, v10>>

-----------------------------------------------------------------------------
(* The stack.  Two leases; near is a neighbour on both networks, far is behind the gateway
   g1 of the one and g2 of the other. *)
Out == INSTANCE IpOut WITH
  Lease <- {l1, l2}, NoLease <- none, Dst <- {near, far}, Hop <- {near, g1, g2}, NoHop <- none,
  NextHop <- [l \in {l1, l2} |-> [d \in {near, far} |-> IF d = near THEN near ELSE IF l = l1 THEN g1 ELSE g2]],
  Slots <- 2, PendingTimeout <- 2, TickMod <- 4, Tracked <- 2,
  lease <- v1, cache <- v2, park <- v3, tick <- v4, asked <- v5, verdict <- v6, frames <- v7

(* Two servers share the addresses; sv2 is heard again and again, sv1 may never grant what
   it offers. *)
Leases == INSTANCE Dhcp WITH
  Server <- {sv1, sv2}, NoServer <- none, Addr <- {a1, a2}, NoAddr <- none,
  LeaseSecs <- 8, Heard <- {sv2}, Prompt <- TRUE, Others <- TRUE,
  state <- v1, cfg <- v2, offered <- v3, server <- v4, tries <- v5, age <- v6, asked <- v7,
  acks <- v8, left <- v9, other <- v10

(* A host with an address, one without an A record and one that does not exist; DHCP
   names a server and a gateway, only a gateway, or neither. *)
Names == INSTANCE Dns WITH
  Ip <- {ns, gw, pub1, pub2, www}, NoIp <- none, Host <- {ha, hb, hc}, Id <- {1, 2}, MaxLookups <- 2,
  AddressOf <- [h \in {ha, hb, hc} |-> IF h = ha THEN www ELSE none], Silent <- {hb},
  Configured <- {<<ns, gw>>, <<none, gw>>, <<none, none>>}, Public <- <<pub1, pub2>>, MaxAttempts <- 4,
  dns <- v1, expired <- v2, wire <- v3, lookups <- v4

(* A second connection clobbers the first while segments of the first are still on the
   wire; initial sequence numbers at the edge of the sequence space. *)
Two == INSTANCE Tcp WITH
  Conns <- 2, SeqSpace <- 16, Iss <- <<14, 2>>, PeerIss <- <<15, 15>>, OutLen <- 1, InLen <- 1,
  SendSize <- 2, RecvSize <- 1, FullIsh <- 1, Mss <- 2, MaxRetries <- 1, MinFails <- 1,
  Backstop <- 2, Windows <- {0, 2},
  conn <- v1, app <- v2, peer <- v3, sent <- v4, replied <- v5

-----------------------------------------------------------------------------
(* Bytes of bodies: a hex digit, CR and LF, and any other; a body may look like the
   framing around it. *)
CR == 16
LF == 17
Data == 19
Resp == INSTANCE HttpResp WITH
  Bodies <- {<<>>, <<Data>>, <<Data, CR, LF, 1>>, <<CR, LF, Data, CR, LF, Data, Data>>},
  Codings <- {<<>>, <<"identity">>, <<"chunked">>, <<"gzip", "chunked">>, <<"chunked", "gzip">>},
  Statuses <- {200, 204, 302}, Framings <- {"length", "chunks", "close"},
  BufSize <- 16, Piece <- 3, Rounds <- 2,
  resp <- v1, wire <- v2, link <- v3, hr <- v4, buf <- v5, got <- v6

(* The server's flight as one record, cut inside a message, and one record for each; a
   record as large as the reader's buffer and one that does not fit behind another. *)
Sec == INSTANCE Tls WITH
  Cuts <- {{4, 8}, {1, 5, 6, 9}, {3, 6, 7}}, Replies <- {<<>>, <<3, 3, 2>>, <<1, 3>>},
  RawSize <- 5, AppSize <- 4, Take <- 2, Space <- 3, Losses <- TRUE,
  host <- v1, pipe <- v2, box <- v3, tls <- v4, web <- v5

(* Certificates of a site, of two levels of authorities and what is wrong with them now
   and then; dates on both sides of 2050, the year in which the form of dates changes. *)
Pub(who, k) == [name |-> who, kind |-> k]
U(y, r) == [form |-> "utc", year |-> y, rest |-> r]
G(y, r) == [form |-> "general", year |-> y, rest |-> r]
Ext(k, c, v) == [kind |-> k, critical |-> c, value |-> v]
San(names) == Ext("subjectAltName", FALSE, names)
Ku(v) == Ext("keyUsage", TRUE, v)
Ca == Ext("basicConstraints", TRUE, TRUE)
Www == <<"www", "a", "org">>
Leaf == [subject |-> "leaf", issuer |-> "mid", key |-> Pub("l", "rsa"), signer |-> Pub("m", "rsa"),
         from |-> U(24, 1), until |-> U(48, 1), exts |-> <<San({Www})>>, cn |-> <<>>]
Leafs ==
  {Leaf, [Leaf EXCEPT !.until = U(26, 3)], [Leaf EXCEPT !.signer = Pub("m", "p256")],
   [Leaf EXCEPT !.exts = <<>>, !.cn = Www],
   [Leaf EXCEPT !.exts = <<Ext("nameConstraints", TRUE, 0), San({Www})>>],
   [Leaf EXCEPT !.exts = <<Ku({"digitalSignature"}), San({<<"*", "a", "org">>, <<"b", "org">>})>>, !.cn = <<"a", "org">>],
   [Leaf EXCEPT !.exts = <<San({Www}), Ku({"keyCertSign"})>>]}
Mid == [subject |-> "mid", issuer |-> "root", key |-> Pub("m", "rsa"), signer |-> Pub("r", "p384"),
        from |-> U(24, 1), until |-> U(49, 1), exts |-> <<Ca>>, cn |-> <<>>]
Mids ==
  {Mid, [Mid EXCEPT !.key = Pub("m", "p256")], [Mid EXCEPT !.signer = Pub("q", "p384")],
   [Mid EXCEPT !.exts = <<Ku({"keyCertSign"}), Ca>>], [Mid EXCEPT !.exts = <<Ca, Ku({"digitalSignature"})>>],
   [Mid EXCEPT !.exts = <<Ext("keyIdentifier", FALSE, 0)>>]}
Root == [subject |-> "root", issuer |-> "root", key |-> Pub("r", "p384"), signer |-> Pub("r", "p384"),
         from |-> U(99, 1), until |-> G(2050, 1), exts |-> <<Ca>>, cn |-> <<>>]
Cert == INSTANCE CertChain WITH
  Chains <- {<<l>> : l \in Leafs}
            \cup UNION {{<<l, m>>, <<m, l>>, <<l, m, Root>>, <<l, m, m, Root>>} : l \in Leafs, m \in Mids},
  Anchors <- {Root}, Hosts <- {Www, <<"b", "org">>, <<"a", "org">>, <<"x", "www", "a", "org">>},
  Now <- {202502, 203001, 205001}, ChainMax <- 3, sent <- v1, conn <- v2

(* A host with a name and one given as an address, and a port of its own. *)
Page == INSTANCE WebLoad WITH
  Hosts <- {"a", "ip"}, Literals <- {"ip"}, Ports <- {8080}, Paths <- {"x"}, Redirects <- 2, Acts <- 2,
  load <- v1, client <- v2, net <- v3, asked <- v4

-----------------------------------------------------------------------------
(* Limbs of four bits, moduli with and without a spare bit, one that is not prime. *)
Num == INSTANCE Numbers WITH
  W <- 4, Bytes <- 2, L <- 3, K <- 2, Newton <- 1,
  Moduli <- {2, 15, 17, 128, 200, 255}, Field <- {3, 17, 127, 197, 241, 255}, Primes <- {3, 17, 127, 197, 241},
  Values <- {0, 1, 2, 14, 16, 126, 128, 196, 240, 254, 255, 4095}, Exponents <- {0, 1, 3, 17},
  call <- v1, loop <- v2

(* Curves of prime order with a = -3 and of the form of x25519, over small fields. *)
Crv == INSTANCE Curves WITH
  p <- 31, b <- 25, order <- 23, gx <- 0, gy <- 5, Bits <- 5,
  Rands <- 0 .. 31, Privs <- {1, 2, 11, 22}, Hashes <- {0, 9, 29}, Scalars <- {0, 1, 5, 12, 22, 23}, Keys <- {1, 7},
  q <- 29, A <- 6, Low <- 2, XBits <- 5, XScalars <- {0, 3, 6, 17, 29, 31, 33, 62}, XPoints <- 0 .. 63,
  call <- v1, run <- v2

(* Blocks of three digits, a permutation for the cipher; texts that end in a block and
   before its end, digests that need a second block for their length. *)
Cipher(block) == (block * 37 + 11) % 64
Box == INSTANCE Sealing WITH
  Digit <- 2, Digits <- 3, R <- 48, E <- Cipher, Ivs <- {0, 7},
  Texts <- {<<>>, <<1>>, <<2, 3, 0>>, <<0, 1, 2, 3, 0>>}, Headers <- {<<>>, <<3, 1>>, <<0, 0, 2, 1>>},
  HashBlock <- 5, LenBytes <- 2, Pieces <- {<<7>>, <<7, 8>>, <<9, 9, 8, 7, 7, 8>>}, Longest <- 12, MinPad <- 2,
  Blocks <- {a \o m : a \in {<<0, 1>>, <<0, 2>>, <<1, 1>>, <<0, 0>>}, m \in [1 .. 6 -> {0, 255, 257, 258}]}
            \cup {<<0, 1, 255, 0>>},
  Secrets <- {<<>>, <<0>>, <<5, 0>>}, call <- v1, box <- v2

-----------------------------------------------------------------------------
(* Documents of five tokens out of one theme, with room for fewer nodes, attributes and
   open elements than they ask for. *)
Tre == INSTANCE Dom WITH
  Themes <- {{"table", "tr", "td", "div"}, {"ul", "li", "p", "b"}, {"a", "button", "p", "h1"},
             {"html", "head", "body", "title", "div"}, {"svg", "div", "br"}, {"table", "td", "p"},
             {"pre", "textarea", "script"}, {"td", "tbody", "table"}, {"template", "div", "title"}},
  Length <- 5, NodeMax <- 8, AttrMax <- 2, PoolMax <- 5, StackMax <- 5, theme <- v1, n <- v2, doc <- v3

(* Two trees, and sheets of selectors with each combinator and pseudo-class. *)
Elem(parent, tag, id, cls) == [parent |-> parent, tag |-> tag, id |-> id, cls |-> cls, hint |-> FALSE, style |-> <<>>]
Hinted(e) == [e EXCEPT !.hint = TRUE]
Own(e, prop, imp) == [e EXCEPT !.style = <<[prop |-> prop, imp |-> imp, inherits |-> FALSE, val |-> <<0, 9>>]>>]
Simple(comb, tag, id, cls) == [comb |-> comb, tag |-> tag, id |-> id, cls |-> cls, ps |-> {}, nth |-> <<>>, neg |-> <<>>]
Decl(prop, imp, inh) == [prop |-> prop, imp |-> imp, inherits |-> inh]
CssTrees ==
  {<<Elem(0, "html", 0, <<>>), Hinted(Elem(1, "div", 1, <<1>>)), Elem(2, "p", 0, <<1, 3>>),
     Own(Hinted(Elem(2, "p", 2, <<2>>)), "width", FALSE), Elem(4, "b", 0, <<2, 1>>)>>,
   <<Elem(0, "html", 0, <<1>>), Elem(1, "div", 0, <<2>>), Elem(2, "div", 0, <<1>>), Elem(3, "p", 0, <<1, 2, 2>>),
     Own(Elem(3, "p", 3, <<>>), "color", TRUE)>>}
P == Simple("desc", "p", 0, <<>>)
Div == Simple("desc", "div", 0, <<>>)
Any(id, cls) == Simple("desc", "any", id, cls)
CssSelectors ==
  {<< <<P>>, <<Any(0, <<3>>)>> >>,
   << <<Any(0, <<2, 1>>)>> >>,
   << <<Simple("desc", "html", 0, <<>>), Simple("child", "div", 0, <<>>), P>> >>,
   << <<Any(0, <<1>>), Simple("later", "p", 0, <<>>), Simple("child", "any", 0, <<2>>)>> >>,
   << <<[P EXCEPT !.nth = << <<2, 1>> >>]>>, <<Any(1, <<>>)>> >>,
   << <<[Any(0, <<>>) EXCEPT !.neg = << <<"cls", 1>> >>, !.ps = {"first"}]>>, <<Simple("desc", "unknown", 0, <<>>)>> >>,
   << <<[P EXCEPT !.nth = << <<-1, 1>> >>]>>, <<Any(0, <<1>>), Simple("next", "p", 2, <<>>)>>, <<Any(3, <<>>)>> >>,
   << <<Any(0, <<1, 3, 2>>)>> >>}
Sheets == INSTANCE Css WITH
  Trees <- CssTrees, Selectors <- CssSelectors, UaSelectors <- {<< <<P>>, <<Div>> >>, << <<Div, P>> >>},
  Blocks <- {<<Decl("color", FALSE, FALSE)>>, <<Decl("width", FALSE, FALSE), Decl("color", TRUE, FALSE)>>,
             <<Decl("width", TRUE, FALSE), Decl("color", FALSE, TRUE)>>, <<Decl("width", FALSE, TRUE), Decl("width", FALSE, FALSE)>>},
  Steps <- 3, RuleMax <- 5, CompMax <- 9, DeclMax <- 5, MatchMax <- 8, BucketN <- 2,
  tree <- v1, sheet <- v2, css <- v3

(* Words and boxes around the width of a line, and one wider than it. *)
Word(sp, w, may, run, shown, h) == [space |-> sp, w |-> w, may |-> may, run |-> run, shown |-> shown, h |-> h, asc |-> h - 1]
Inline(sp, w, h, va) == [space |-> sp, w |-> w, h |-> h, asc |-> h, valign |-> va]
Style(a, i) == [align |-> a, indent |-> i]
Lay == INSTANCE Lines WITH
  Words <- {Word(TRUE, 1, TRUE, 1, TRUE, 2), Word(FALSE, 1, TRUE, 1, TRUE, 2), Word(TRUE, 3, TRUE, 1, TRUE, 2),
            Word(FALSE, 3, TRUE, 1, TRUE, 2), Word(TRUE, 2, FALSE, 1, TRUE, 2), Word(TRUE, 7, TRUE, 2, TRUE, 3),
            Word(FALSE, 1, TRUE, 1, FALSE, 2)},
  Boxes <- {Inline(FALSE, 2, 3, "baseline"), Inline(TRUE, 1, 5, "middle")},
  Styles <- {Style("left", 0), Style("center", 1), Style("right", 0)}, Marked <- TRUE,
  Width <- 6, InnerWidth <- 2, Length <- 4, ItemMax <- 6, FragMax <- 20, TailMax <- 3,
  style <- v1, n <- v2, L <- v3

(* Cells of a fixed width, of a share and of their contents', up to two rows and columns
   wide, in tables with a width and without. *)
Content(min, max, fixed, pct, h) == [min |-> min, max |-> max, fixed |-> fixed, pct |-> pct, h |-> h]
Setting(room, width, space, edge) == [room |-> room, width |-> width, space |-> space, edge |-> edge]
Tab == INSTANCE Table WITH
  Contents <- {Content(2, 5, 0, 0, 1), Content(5, 5, 0, 0, 3), Content(1, 9, 4, 0, 2), Content(1, 3, 0, 6, 1)},
  Settings <- {Setting(12, 0, 1, 2), Setting(20, 15, 0, 0), Setting(9, 0, 0, 1)}, Spans <- 1 .. 2,
  Length <- 5, ColMax <- 3, RowMax <- 3, CellMax <- 4, set <- v1, n <- v2, tb <- v3

-----------------------------------------------------------------------------
ASSUME Out!ConstantsOK /\ Leases!ConstantsOK /\ Names!ConstantsOK /\ Resp!ConstantsOK /\ Sec!ConstantsOK /\ Cert!ConstantsOK /\ Page!ConstantsOK
ASSUME Num!ConstantsOK /\ Crv!ConstantsOK /\ Box!ConstantsOK /\ Tre!ConstantsOK /\ Sheets!ConstantsOK /\ Lay!ConstantsOK /\ Tab!ConstantsOK

(* The variables a part of k variables has no use for. *)
Idle2 == v3 = 0 /\ v4 = 0 /\ v5 = 0 /\ v6 = 0 /\ v7 = 0 /\ v8 = 0 /\ v9 = 0 /\ v10 = 0
Keep2 == UNCHANGED <<part, v3, v4, v5, v6, v7, v8, v9, v10>>
Idle3 == v4 = 0 /\ v5 = 0 /\ v6 = 0 /\ v7 = 0 /\ v8 = 0 /\ v9 = 0 /\ v10 = 0
Keep3 == UNCHANGED <<part, v4, v5, v6, v7, v8, v9, v10>>
Idle4 == v5 = 0 /\ v6 = 0 /\ v7 = 0 /\ v8 = 0 /\ v9 = 0 /\ v10 = 0
Keep4 == UNCHANGED <<part, v5, v6, v7, v8, v9, v10>>
Idle5 == v6 = 0 /\ v7 = 0 /\ v8 = 0 /\ v9 = 0 /\ v10 = 0
Keep5 == UNCHANGED <<part, v6, v7, v8, v9, v10>>
Idle6 == v7 = 0 /\ v8 = 0 /\ v9 = 0 /\ v10 = 0
Keep6 == UNCHANGED <<part, v7, v8, v9, v10>>
Idle7 == v8 = 0 /\ v9 = 0 /\ v10 = 0
Keep7 == UNCHANGED <<part, v8, v9, v10>>
Idle10 == TRUE
Keep10 == UNCHANGED part

Init ==
  /\ part \in Parts
  /\ \/ part = "ip" /\ Out!Init /\ Idle7
     \/ part = "dhcp" /\ Leases!Init /\ Idle10
     \/ part = "dns" /\ Names!Init /\ Idle4
     \/ part = "tcp" /\ Two!Init /\ Idle5
     \/ part = "response" /\ Resp!Init /\ Idle6
     \/ part = "tls" /\ Sec!Init /\ Idle5
     \/ part = "chain" /\ Cert!Init /\ Idle2
     \/ part = "page" /\ Page!Init /\ Idle4
     \/ part = "numbers" /\ Num!Init /\ Idle2
     \/ part = "curves" /\ Crv!Init /\ Idle2
     \/ part = "sealing" /\ Box!Init /\ Idle2
     \/ part = "tree" /\ Tre!Init /\ Idle3
     \/ part = "sheets" /\ Sheets!Init /\ Idle3
     \/ part = "lines" /\ Lay!Init /\ Idle3
     \/ part = "tables" /\ Tab!Init /\ Idle3

Next ==
  \/ part = "ip" /\ Out!Next /\ Keep7
  \/ part = "dhcp" /\ Leases!Next /\ Keep10
  \/ part = "dns" /\ Names!Next /\ Keep4
  \/ part = "tcp" /\ Two!Next /\ Keep5
  \/ part = "response" /\ Resp!Next /\ Keep6
  \/ part = "tls" /\ Sec!Next /\ Keep5
  \/ part = "chain" /\ Cert!Next /\ Keep2
  \/ part = "page" /\ Page!Next /\ Keep4
  \/ part = "numbers" /\ Num!Next /\ Keep2
  \/ part = "curves" /\ Crv!Next /\ Keep2
  \/ part = "sealing" /\ Box!Next /\ Keep2
  \/ part = "tree" /\ Tre!Next /\ Keep3
  \/ part = "sheets" /\ Sheets!Next /\ Keep3
  \/ part = "lines" /\ Lay!Next /\ Keep3
  \/ part = "tables" /\ Tab!Next /\ Keep3

Spec == Init /\ [][Next]_<<part, all>>

-----------------------------------------------------------------------------
(* The properties; each named part of them is stated, with the code it is about, in the
   module it comes from.  The types of the state of every part. *)
TypeOK ==
  /\ part = "ip" => Out!TypeOK
  /\ part = "dhcp" => Leases!TypeOK
  /\ part = "dns" => Names!TypeOK
  /\ part = "tcp" => Two!TypeOK
  /\ part = "response" => Resp!TypeOK
  /\ part = "tls" => Sec!TypeOK
  /\ part = "chain" => Cert!TypeOK
  /\ part = "page" => Page!TypeOK
  /\ part = "numbers" => Num!TypeOK
  /\ part = "curves" => Crv!TypeOK
  /\ part = "sealing" => Box!TypeOK
  /\ part = "tree" => Tre!TypeOK
  /\ part = "sheets" => Sheets!TypeOK
  /\ part = "lines" => Lay!TypeOK
  /\ part = "tables" => Tab!TypeOK

(* What is handed to the network reaches whom it is for, once and in order: neighbours,
   leases, lookups and byte streams do not mix up whose answer is whose. *)
PacketsGoRight ==
  /\ part = "ip" => Out!OneEntryEach /\ Out!SentOnce /\ Out!FailedNeverLeaves
  /\ part = "dhcp" => Leases!NoSharedAddress
  /\ part = "dns" => Names!Truthful /\ Names!EveryServerAsked
  /\ part = "tcp" => Two!InOrder /\ Two!NothingLost

(* A response that comes in any pieces, plain or over TLS, is shown as it was sent, and no
   byte is stuck between the layers. *)
ResponsesWhole ==
  /\ part = "response" => Resp!EndSeen /\ Resp!BodyTrue /\ Resp!NeverCutOff
  /\ part = "tls" => Sec!NoQuarrel /\ Sec!DataWhole /\ Sec!NotStuck

(* A page is trusted for a good reason only: the chain, the arithmetic on numbers and
   points that signatures and secrets rest on, and what is sealed and opened with them. *)
TrustIsEarned ==
  /\ part = "chain" => Cert!JustTrust
  /\ part = "numbers" => Num!Correct /\ Num!Partial
  /\ part = "curves" => Crv!Between /\ Crv!SameSecret /\ Crv!ValidIsSigned /\ Crv!LadderTrue
  /\ part = "sealing" => Box!OpenedIsSealed /\ Box!KeystreamOnce /\ Box!OneBlock

(* The page shown is the one asked for last, fetched where it was to be fetched. *)
ShowsWhatWasAsked ==
  part = "page" => Page!ShownIsAsked /\ Page!RightDoor /\ Page!FormToItsAction /\ Page!RedirectsEnd

(* Whatever markup comes, the nodes are one tree that the stack of open elements is a path
   of, and of the rules that match an element the one that counts is the cascade's. *)
TreeAndStyle ==
  /\ part = "tree" => Tre!OneTree /\ Tre!OpenIsPath /\ Tre!LastIsOpen /\ Tre!Whole /\ Tre!Flat
  /\ part = "sheets" => Sheets!MatchIsPath /\ Sheets!FoundAll /\ Sheets!Cascade

(* Lines and tables hold their contents: nothing is lost, covered by another line, outside
   its cell or in the cell of another. *)
LaidOut ==
  /\ part = "lines" => Lay!OwnItems /\ Lay!NothingLost /\ Lay!NothingCovered /\ Lay!Broken
  /\ part = "tables" => Tab!CellsApart /\ Tab!WidthsHold /\ Tab!HeightsHold

(* Steps: a packet leaves by the route of the lease in force, a digest is that of all that
   was fed in, and no end tag of the inside of a cell closes what is outside of it. *)
StepsRight ==
  [][/\ part = "ip" => Out!RoutedNowStep
     /\ part = "sealing" => Box!DigestTrueStep
     /\ part = "tree" => Tre!TablesStandStep]_<<part, all>>

(* What css.h:546 says of a selector and layout.h:276 of a list marker; the code does
   otherwise. *)
NoWider == part = "sheets" => Sheets!NoWider
MarkerAtFirstLine == part = "lines" => Lay!MarkerAtFirstLine
=============================================================================
