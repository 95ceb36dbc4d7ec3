----------------------------- MODULE CertChain -----------------------------
(* The Certificate message: tls_parse_certificate_message() and
   tls_verify_certificate_chain() of src/kernel/tls.h over x509.h.  A server sends a
   chain as servers do: with or without the root, in order or not, with a certificate
   that has run out or is not for this host.  A name is a list of labels, a signature
   is the key that made it, an extension a kind and a value. *)
EXTENDS Naturals, Sequences, SequencesExt

CONSTANTS Chains,     (* the chains that servers send *)
          Anchors,    (* trusted_roots[] *)
          Hosts,      (* host names of connections *)
          Now,        (* the times of the clock, packed *)
          ChainMax    (* TLS_CHAIN_MAX *)

VARIABLES sent,       (* the chain as encoded *)
          conn        (* [host, now, chain, verdict] of tls_conn *)
certVars == <<sent, conn>>

ConstantsOK == ChainMax \in Nat \ {0} /\ \A n \in Now : n \in Nat

Init ==
  /\ sent \in Chains
  /\ \E h \in Hosts, n \in Now : conn = [host |-> h, now |-> n, chain |-> <<>>, verdict |-> "none"]

(* x509_parse_time and tls_pack_datetime: two digits of a year pivot at 50, and the
   packed times compare as the times do.  Months and below are one field. *)
Year(t) == IF t.form = "general" THEN t.year
           ELSE IF t.year % 100 < 50 THEN 2000 + (t.year % 100) ELSE 1900 + (t.year % 100)
PackedTime(t) == Year(t) * 100 + t.rest

(* x509_parse_extensions: what each extension adds to the certificate, in its order. *)
Understood == {"basicConstraints", "keyUsage", "subjectAltName", "keyIdentifier", "policies"}
UnknownLast(c, e) == e.critical /\ e.kind \notin Understood
Unknown(c, e) == c.unknown \/ (e.critical /\ e.kind \notin Understood)
ReadExtension(c, e) ==
  LET marked == [c EXCEPT !.unknown = Unknown(c, e)]
  IN CASE e.kind = "subjectAltName" -> [marked EXCEPT !.san = e.value]
       [] e.kind = "keyUsage" -> [marked EXCEPT !.usage = e.value]
       [] e.kind = "basicConstraints" -> [marked EXCEPT !.ca = e.value]
       [] OTHER -> marked

Extensions(c, exts) ==
  LET R[i \in 0 .. Len(exts)] == IF i = 0 THEN c ELSE ReadExtension(R[i - 1], exts[i])
  IN R[Len(exts)]

(* x509_parse: an RSA or a P-256 or P-384 key is usable, and a signature with the schemes
   that go with these. *)
NoNames == {}
Usable == {"rsa", "p256", "p384"}
Schemes == [rsa |-> "pkcs1", p256 |-> "ecdsa", p384 |-> "ecdsa", ed25519 |-> "eddsa"]
Parse(x) ==
  Extensions([subject |-> x.subject, issuer |-> x.issuer, key |-> x.key, signer |-> x.signer,
              from |-> PackedTime(x.from), until |-> PackedTime(x.until),
              san |-> NoNames, usage |-> {"any"}, ca |-> FALSE, unknown |-> FALSE, cn |-> x.cn],
             x.exts)
UsableKey(c) == c.key.kind \in Usable
SigSupported(c) == Schemes[c.signer.kind] # "eddsa"

(* x509_verify_signed_by: the key must be of the scheme's kind, and the one that signed. *)
SignedBy(c, issuer) ==
  /\ SigSupported(c) /\ UsableKey(issuer)
  /\ Schemes[issuer.key.kind] = Schemes[c.signer.kind]
  /\ c.signer = issuer.key
IssuedBy(c, parent) == c.issuer = parent.subject

(* x509_is_valid_now *)
ValidNow(c, now) == c.from <= now /\ now <= c.until

NameMatchesSuffix(pattern, host) ==
  IF Len(pattern) > 1 /\ pattern[1] = "*" THEN IsSuffix(Tail(pattern), host) ELSE pattern = host

(* x509_name_matches_host: a star stands for one whole label at the left. *)
NameMatches(pattern, host) ==
  IF Len(pattern) > 1 /\ pattern[1] = "*" THEN Len(host) > 1 /\ Tail(host) = Tail(pattern)
  ELSE pattern = host

(* x509_matches_hostname: the common name only where there is no list of names. *)
MatchesHost(c, host) ==
  IF c.san # NoNames THEN \E n \in c.san : NameMatches(n, host)
  ELSE c.cn # <<>> /\ NameMatches(c.cn, host)

(* x509_leaf_extensions_ok and x509_ca_extensions_ok *)
LeafOk(c) == ~c.unknown /\ c.usage \cap {"any", "digitalSignature"} # {}
CaOk(c) == c.ca /\ ~c.unknown /\ c.usage \cap {"any", "keyCertSign"} # {}

(* tls_anchored_by *)
AnchoredBy(c, root) == IssuedBy(c, Parse(root)) /\ SignedBy(c, Parse(root))

LinkedUp(ch) == \A i \in 1 .. Len(ch) - 2 : IssuedBy(ch[i], ch[i + 1]) /\ CaOk(ch[i + 1]) /\ SignedBy(ch[i], ch[i + 1])

(* tls_verify_certificate_chain: the checks in the order of the code, with the reason. *)
Linked(ch) == \A i \in 1 .. Len(ch) - 1 : IssuedBy(ch[i], ch[i + 1]) /\ CaOk(ch[i + 1]) /\ SignedBy(ch[i], ch[i + 1])
Verdict(ch, host, now) ==
  CASE ch = <<>> -> "chain"
    [] \E i \in DOMAIN ch : ~UsableKey(ch[i]) \/ ~SigSupported(ch[i]) \/ ~ValidNow(ch[i], now) -> "chain"
    [] \E i \in DOMAIN ch : ch[i].unknown -> "extension"
    [] ~LeafOk(ch[1]) -> "extension"
    [] ~MatchesHost(ch[1], host) -> "hostname"
    [] ~Linked(ch) -> "chain"
    [] \A r \in Anchors : ~AnchoredBy(Last(ch), r) -> "untrusted"
    [] OTHER -> "trusted"

(* tls_dispatch_handshake_message on Certificate. *)
OnCertificate ==
  /\ conn.verdict = "none"
  /\ IF Len(sent) > ChainMax
     THEN conn' = [conn EXCEPT !.verdict = "overflow"]
     ELSE LET ch == [i \in DOMAIN sent |-> Parse(sent[i])]
          IN conn' = [conn EXCEPT !.chain = ch, !.verdict = Verdict(ch, conn.host, conn.now)]
  /\ UNCHANGED sent
Next == OnCertificate

TypeOK ==
  /\ conn.host \in Hosts /\ conn.now \in Now /\ Len(conn.chain) <= ChainMax
  /\ conn.verdict \in {"none", "overflow", "chain", "extension", "hostname", "untrusted", "trusted"}

(* What a chain must be, said from the top down and of the encoded certificates alone:
   x is vouched for when an anchor signed it, or the certificate after it may sign
   and is itself vouched for. *)
Ext(x, kind) == {x.exts[i].value : i \in {j \in DOMAIN x.exts : x.exts[j].kind = kind}}
Plain(x) == \A i \in DOMAIN x.exts : x.exts[i].critical => x.exts[i].kind \in Understood
In(x, now) == PackedTime(x.from) <= now /\ now <= PackedTime(x.until)
MaySign(x) == TRUE \in Ext(x, "basicConstraints") /\ \A u \in Ext(x, "keyUsage") : "keyCertSign" \in u
Vouched(s, now) ==
  LET V[i \in 1 .. Len(s)] ==
        /\ Plain(s[i]) /\ In(s[i], now)
        /\ IF i = Len(s)
           THEN \E r \in Anchors : r.subject = s[i].issuer /\ r.key = s[i].signer
           ELSE /\ s[i + 1].subject = s[i].issuer /\ s[i + 1].key = s[i].signer
                /\ MaySign(s[i + 1]) /\ V[i + 1]
  IN s # <<>> /\ V[1]
Serves(x, host) ==
  LET names == UNION Ext(x, "subjectAltName")
      Fits(n) == \/ n = host
                 \/ Len(n) > 1 /\ n[1] = "*" /\ \E l \in Range(host) \cup {"*"} : [n EXCEPT ![1] = l] = host
  IN /\ \A u \in Ext(x, "keyUsage") : "digitalSignature" \in u
     /\ \E n \in names \cup (IF names = {} /\ x.cn # <<>> THEN {x.cn} ELSE {}) : Fits(n)
Known(s) == \A i \in DOMAIN s : s[i].key.kind \in Usable /\ s[i].signer.kind \in Usable

(* tls.h:705 and x509.h:231: a chain that servers send is accepted exactly when it leads
   to an anchor, link by link, within its dates, for this host and with nothing critical
   that is not understood: a chain with its root at the end, without it, or
   with one that was signed twice is not turned away, and no other one is accepted. *)
JustTrust ==
  conn.verdict # "none" /\ Len(sent) <= ChainMax /\ Known(sent) =>
    (conn.verdict = "trusted" <=> Vouched(sent, conn.now) /\ Serves(sent[1], conn.host))
=============================================================================
