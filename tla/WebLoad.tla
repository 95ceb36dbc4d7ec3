------------------------------ MODULE WebLoad ------------------------------
(* A page load of MiniWeb: apps/web/address.h, fetch.h, page.h and view.h over http.h
   and https.h.  A load waits for a lease, looks the name up, connects, sends its
   request and takes the answer, and the user may start another one at any of these
   points.  The name lookup (Dns), the connection (Tcp, Tls) and the parser (HttpResp)
   are modelled by themselves; here they are what this code sees of them. *)
EXTENDS Naturals

CONSTANTS Hosts, Literals,   (* host names; those that are IP addresses *)
          Ports,             (* port numbers that are not a scheme's *)
          Paths,             (* request paths *)
          Redirects,         (* what web_redirects_left starts with: 5 *)
          Acts               (* bound on what the user starts *)

VARIABLES load,     (* the web_* variables *)
          client,   (* http_client, https_client, tls_conn, hr, each as far as it counts here *)
          net,      (* net_cfg.ready, dns_client, tcp_conn *)
          asked     (* what the user did: how often, the redirects since, the form sent *)
webVars == <<load, client, net, asked>>

ConstantsOK == Literals \subseteq Hosts /\ Redirects \in Nat /\ Acts \in Nat

Default(https) == IF https THEN 443 ELSE 80
Target == [https : BOOLEAN, host : Hosts, port : Ports \cup {80, 443}, path : Paths]
NoForm == [host |-> "none", path |-> "none"]
Nothing == [kind |-> "none"]
Closed == [state |-> "closed", host |-> "none", port |-> 0, request |-> Nothing, answer |-> Nothing]

Init ==
  /\ load = [target |-> Nothing, waiting |-> FALSE, resolving |-> FALSE, dnsFailed |-> FALSE, ready |-> FALSE,
             left |-> 0, shown |-> Nothing]
  /\ client = [http |-> "idle", https |-> "idle", tls |-> "none", hr |-> Nothing, post |-> FALSE]
  /\ net = [lease |-> FALSE, dns |-> "idle", name |-> "none", tcp |-> Closed]
  /\ asked = [acts |-> 0, hops |-> 0, form |-> NoForm]

(* ---- addresses ---- *)
(* A reference on a page or in a Location: absolute, without a scheme, a path, or
   of a scheme that is not ours; port 0 is none. *)
Refs == {[kind |-> "absolute", https |-> s, host |-> h, port |-> p, path |-> f]
         : s \in BOOLEAN, h \in Hosts, p \in Ports \cup {0}, f \in Paths}
        \cup {[kind |-> "network", host |-> h, port |-> 0, path |-> f] : h \in Hosts, f \in Paths}
        \cup {[kind |-> "path", path |-> f] : f \in Paths} \cup {[kind |-> "mail"]}

(* web_resolve_ref: the same host over the same scheme keeps its port. *)
Resolves(ref) == ref.kind # "mail"
Resolve(cur, ref) ==
  LET https == IF ref.kind = "absolute" THEN ref.https ELSE cur.https
      host == IF ref.kind = "path" THEN cur.host ELSE ref.host
      port == IF ref.kind = "path" THEN 0 ELSE ref.port
  IN [https |-> https, host |-> host, path |-> ref.path,
      port |-> CASE port # 0 -> port
                 [] port = 0 /\ host = cur.host /\ https = cur.https -> cur.port
                 [] OTHER -> Default(https)]

(* ---- starting ---- *)
ConnectedKeep(n, t) ==
  IF n.tcp.state = "up" /\ n.tcp.host = t.host THEN n
  ELSE [n EXCEPT !.tcp = [Closed EXCEPT !.state = "syn", !.host = t.host, !.port = t.port]]
(* tcp_connect: whatever was connected is dropped. *)
Connected(n, t) == [n EXCEPT !.tcp = [Closed EXCEPT !.state = "syn", !.host = t.host, !.port = t.port]]

(* web_connect: http_get or https_get, [client, net] after it. *)
Connect(c, n, t) ==
  [client |-> IF t.https THEN [c EXCEPT !.https = "connecting", !.tls = "wait_tcp", !.hr = Nothing]
              ELSE [c EXCEPT !.http = "connecting", !.hr = Nothing],
   net |-> Connected(n, t)]

(* web_start_fetch and web_begin_transport: the one place where a load starts; what the
   earlier one left in the connection and in the resolver is not touched. *)
IdleNot(c, post) == [c EXCEPT !.post = post]
Idle(c, post) == [c EXCEPT !.http = "idle", !.https = "idle", !.post = post]
StartFetch(was, n, t, left, post) ==
  LET c == Idle(was, post)
      blank == [load EXCEPT !.target = t, !.waiting = FALSE, !.resolving = FALSE, !.dnsFailed = FALSE,
                            !.ready = FALSE, !.left = left, !.shown = Nothing]
  IN IF ~n.lease THEN load' = [blank EXCEPT !.waiting = TRUE] /\ client' = c /\ net' = n
     ELSE IF t.host \in Literals
     THEN LET k == Connect(c, n, t) IN load' = blank /\ client' = k.client /\ net' = k.net
     ELSE /\ load' = [blank EXCEPT !.resolving = TRUE] /\ client' = c
          /\ net' = [n EXCEPT !.dns = "querying", !.name = t.host]

Act(form) == asked.acts < Acts /\ asked' = [acts |-> asked.acts + 1, hops |-> 0, form |-> form]

(* web_go and web_go_url; words that do not fit a search only set the count of redirects. *)
GoUrl ==
  \E t \in Target :
    /\ t.port \in Ports \cup {Default(t.https)}
    /\ Act(NoForm) /\ StartFetch(client, net, t, Redirects, FALSE)
TooLong ==
  /\ load.left < Redirects
  /\ load' = [load EXCEPT !.left = Redirects] /\ asked' = [asked EXCEPT !.hops = 0] /\ UNCHANGED <<client, net>>

(* web_page_click and web_submit_form on the page that is shown: a link, or a form whose
   body is armed after the load has started. *)
Loaded == load.ready /\ ~load.resolving /\ load.shown.kind = "page"
Follow ==
  /\ Loaded
  /\ \E ref \in Refs : Resolves(ref) /\ Act(NoForm) /\ StartFetch(client, net, Resolve(load.target, ref), Redirects, FALSE)
SubmitForm ==
  /\ Loaded
  /\ \E path \in Paths, post \in BOOLEAN :
       /\ Act(IF post THEN [host |-> load.target.host, path |-> path] ELSE NoForm)
       /\ StartFetch(client, net, [load.target EXCEPT !.path = path], Redirects, post)

(* ---- the answer ---- *)
(* web_page_complete: a redirect that may still be followed starts the next load. *)
MayFollowAlways(a) == a.kind = "redirect" /\ Resolves(a.ref)
MayFollow(a) == MayFollowAlways(a) /\ load.left > 0
AgainSame(a) == client.post
Again(a) == FALSE            \* a redirect's request carries no form
PageComplete(c, n) ==
  LET a == c.hr IN
  IF MayFollow(a)
  THEN /\ StartFetch(c, n, Resolve(load.target, a.ref), IF load.left = 0 THEN 0 ELSE load.left - 1, Again(a))
       /\ asked' = [asked EXCEPT !.hops = @ + 1]
  ELSE /\ load' = [load EXCEPT !.ready = TRUE,
                               !.shown = IF a.kind = "page" THEN a ELSE [kind |-> "message"]]
       /\ client' = c /\ net' = n /\ UNCHANGED asked

(* http_poll and https_poll: the next state of the client, and of the connection.  The
   two differ in what they see of a connection that is gone. *)
Request(t) == [kind |-> "request", https |-> t.https, host |-> t.host, path |-> t.path, post |-> client.post,
               act |-> asked.acts, hops |-> asked.hops, form |-> asked.form]
State == IF load.target.https THEN client.https ELSE client.http
Set(c, s) == IF load.target.https THEN [c EXCEPT !.https = s] ELSE [c EXCEPT !.http = s]
Connecting ==
  /\ State = "connecting" /\ UNCHANGED <<load, asked>>
  /\ LET up == net.tcp.state = "up"
         gone == net.tcp.state = "closed" /\ (load.target.https => client.tls = "wait_tcp")
     IN \/ up /\ load.target.https /\ client.tls = "wait_tcp" /\ client' = [client EXCEPT !.tls = "hello"] /\ UNCHANGED net
        \/ up /\ (load.target.https => client.tls = "hello") /\ client' = Set(client, "sending") /\ UNCHANGED net
        \/ gone /\ client' = Set(client, "failed") /\ UNCHANGED net
        \/ ~up /\ ~gone /\ UNCHANGED <<client, net>>
Sending ==
  /\ State = "sending" /\ UNCHANGED <<load, asked>>
  /\ IF net.tcp.state = "up"
     THEN client' = Set(client, "awaiting") /\ net' = [net EXCEPT !.tcp.request = Request(load.target)]
     ELSE UNCHANGED <<client, net>>
Awaiting ==
  /\ State = "awaiting"
  /\ LET a == net.tcp.answer
         parsed == [client EXCEPT !.hr = a]
         closing == [net EXCEPT !.tcp.state = "fin"]
     IN \/ a.kind = "toobig" /\ client' = Set(parsed, "failed") /\ net' = closing /\ UNCHANGED <<load, asked>>
        \/ a.kind \in {"page", "redirect"} /\ PageComplete(Set(parsed, "done"), closing)
        \/ a = Nothing /\ net.tcp.state = "closed" /\ client' = Set(client, "failed") /\ UNCHANGED <<load, net, asked>>
        \/ a = Nothing /\ net.tcp.state # "closed" /\ UNCHANGED webVars

(* web_poll *)
WebPoll ==
  IF load.waiting
  THEN /\ net.lease
       /\ IF load.target.host \in Literals
          THEN LET k == Connect(client, net, load.target)
               IN load' = [load EXCEPT !.waiting = FALSE] /\ client' = k.client /\ net' = k.net
          ELSE /\ load' = [load EXCEPT !.waiting = FALSE, !.resolving = TRUE]
               /\ net' = [net EXCEPT !.dns = "querying", !.name = load.target.host] /\ UNCHANGED client
       /\ UNCHANGED asked
  ELSE IF load.resolving
  THEN /\ net.dns # "querying" /\ UNCHANGED asked
       /\ IF net.dns = "resolved"
          THEN LET k == Connect(client, net, load.target)
               IN load' = [load EXCEPT !.resolving = FALSE] /\ client' = k.client /\ net' = k.net
          ELSE load' = [load EXCEPT !.resolving = FALSE, !.dnsFailed = TRUE] /\ UNCHANGED <<client, net>>
  ELSE /\ load.target # Nothing
       /\ Connecting \/ Sending \/ Awaiting

(* ---- the network, as the layers below report it ---- *)
Lease == ~net.lease /\ net' = [net EXCEPT !.lease = TRUE] /\ UNCHANGED <<load, client, asked>>
Lookup == /\ net.dns = "querying" /\ \E r \in {"resolved", "failed"} : net' = [net EXCEPT !.dns = r]
          /\ UNCHANGED <<load, client, asked>>
Link ==
  /\ UNCHANGED <<load, client, asked>>
  /\ \/ net.tcp.state = "syn" /\ \E s \in {"up", "closed"} : net' = [net EXCEPT !.tcp.state = s]
     \/ net.tcp.state \in {"up", "fin"} /\ net' = [net EXCEPT !.tcp.state = "closed"]
     \/ /\ net.tcp.state = "up" /\ net.tcp.request # Nothing /\ net.tcp.answer = Nothing
        /\ LET r == net.tcp.request
               from == [host |-> net.tcp.host, port |-> net.tcp.port, path |-> r.path, act |-> r.act]
           IN \/ net' = [net EXCEPT !.tcp.answer = [kind |-> "page", from |-> from]]
              \/ net' = [net EXCEPT !.tcp.answer = [kind |-> "toobig"]]
              \/ \E ref \in Refs : net' = [net EXCEPT !.tcp.answer = [kind |-> "redirect", ref |-> ref]]

Next == GoUrl \/ TooLong \/ Follow \/ SubmitForm \/ WebPoll \/ Lease \/ Lookup \/ Link

TypeOK ==
  /\ load.target \in Target \cup {Nothing} /\ load.left \in 0 .. Redirects
  /\ client.http \in {"idle", "connecting", "sending", "awaiting", "done", "failed"}
  /\ client.https \in {"idle", "connecting", "sending", "awaiting", "done", "failed"}
  /\ net.dns \in {"idle", "querying", "resolved", "failed"}
  /\ net.tcp.state \in {"closed", "syn", "up", "fin"}

(* page.h:93 and fetch.h:35: the page on the screen is the one asked for last, from the
   host, the port and the path of the load (a redirect's included): no
   answer, lookup or connection of a load that was given up ends in the one after it. *)
ShownIsAsked ==
  load.shown.kind = "page" =>
    /\ load.shown.from.act = asked.acts
    /\ \A f \in {"host", "port", "path"} : load.shown.from[f] = load.target[f]

(* http.h:101 and fetch.h:60: the answer a load waits for is the one to its own request,
   over a connection to its own server and port, whatever was connected before. *)
RightDoor ==
  /\ net.tcp.request # Nothing => net.tcp.request.host = net.tcp.host
  /\ load.target # Nothing /\ ~load.waiting /\ ~load.resolving /\ State = "awaiting" =>
       /\ net.tcp.host = load.target.host /\ net.tcp.port = load.target.port
       /\ net.tcp.request.path = load.target.path /\ net.tcp.request.act = asked.acts

(* httpresp.h:273: a form's body goes to the form's own action and nowhere after it: not
   with a redirect, nor with the page asked for next. *)
FormToItsAction ==
  net.tcp.request # Nothing /\ net.tcp.request.post =>
    LET r == net.tcp.request IN [host |-> r.host, path |-> r.path] = r.form /\ r.hops = 0

(* state.h:76: servers that send each other's visitors round end in a message after
   five redirects. *)
RedirectsEnd == asked.hops <= Redirects

(* tcp.h:310 and :324: a connection that is lost ends the load with a message. *)
Busy == load.resolving \/ (load.target # Nothing /\ ~load.waiting /\ State \in {"connecting", "sending", "awaiting"})
LoadEnds == Busy ~> ~Busy
=============================================================================
