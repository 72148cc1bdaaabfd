-------------------------------- MODULE Chain --------------------------------
(* The chain of exchanges behind one client_request or session_request         *)
(* (core/client.c, core/session.c, core/sec_fetch.c): the proxy resolved once, *)
(* the ECH gate that may put a DNS-over-HTTPS exchange in front of a hop, the  *)
(* choice of transport, the redirects followed by the client's loop or by the  *)
(* session's cookie-aware loop, and the blocking helpers that run the event    *)
(* loop until their requests are answered.                                     *)
(*                                                                             *)
(* One exchange on a transport is an abstract step here: it is answered once,  *)
(* possibly inside the call that starts it, as Exchange promises for the       *)
(* transports of TcpRequest, QuicRequest and ConnPool.  A callback and every   *)
(* call it makes is one step, a function from the world (the shared state of   *)
(* the client, as a record) to the world.                                      *)
EXTENDS Integers, Sequences, SequencesExt

CONSTANTS Ops,      \* the operations a caller may start: a set of numbers
          Hosts,    \* the https hosts
          SiteOf,   \* the registrable domain of each host
          Doh,      \* the host of the DNS-over-HTTPS resolver (ECH_DOH_ORIGIN)
          Clients   \* the client configurations examined, each with the request
                    \* parameters, answers, expiring hosts and number of operations tried

VARIABLES client,   \* the configuration of the client and the session
          ops,      \* Ops -> the operation's record
          caches,   \* [ech, alt, jar]: what is known of each host
          rr,       \* proxy_rr, the next entry of the rotation pool
          pending,  \* the counter a blocking helper waits on
          stop,     \* uv_stop has been called
          caller    \* "top": user code; "sync", "run": inside loop_run
vars == <<client, ops, caches, rr, pending, stop, caller>>

World == [ops |-> ops, caches |-> caches, rr |-> rr, pending |-> pending, stop |-> stop]

Install(w) ==
  /\ ops' = w.ops
  /\ caches' = w.caches
  /\ rr' = w.rr
  /\ pending' = w.pending
  /\ stop' = w.stop
  /\ UNCHANGED client

Error == [ok |-> FALSE, status |-> 0, loc |-> "", cookie |-> FALSE, alt |-> FALSE]
Redirects == {301, 302, 303, 307, 308}

\* The answers a server may give: Location names a host, a non-https target, or is absent.
Responses(statuses, locs, flags) ==
  [ok : {TRUE}, status : statuses \cap Redirects, loc : locs, cookie : flags, alt : flags] \cup
  [ok : {TRUE}, status : statuses \ Redirects, loc : {""}, cookie : flags, alt : flags]

Nowhere == [proto |-> "none", pooled |-> FALSE, proxy |-> ""]

\* RedirectState / SessionReq / EchPrefetch: everything an operation carries.  The last
\* line is bookkeeping for the properties: what was asked, the hosts visited, the
\* exchanges started, the callbacks made and the arenas released.
Unused ==
  [st |-> "idle", sess |-> FALSE, sync |-> FALSE, follows |-> FALSE, stream |-> FALSE,
   method |-> "GET", body |-> FALSE, ctype |-> FALSE, auth |-> FALSE,
   host |-> "", ref |-> "", site |-> "", ver |-> "Auto", url |-> "", px |-> "",
   left |-> 0, cookie |-> FALSE, expired |-> FALSE, via |-> Nowhere,
   asked |-> "Auto", seen |-> <<>>, given |-> FALSE, lookups |-> 0, calls |-> 0, freed |-> 0]

InFlight(s) == s.st \in {"doh", "hop"}

-----------------------------------------------------------------------------
(* Sec-Fetch-Site                                                            *)

\* sec_fetch_site: how the initiator ref relates to host h.
Site(h, ref) ==
  CASE ref = "" -> "none"
    [] h = ref -> "same-origin"
    [] h # ref /\ ref # "" /\ SiteOf[h] = SiteOf[ref] -> "same-site"
    [] OTHER -> "cross-site"

Rank(site) ==
  CASE site = "cross-site" -> 3 [] site = "same-site" -> 2 [] site = "same-origin" -> 1
    [] OTHER -> 0

\* sec_fetch_site_for_redirect, with the "leave as it is" answer folded in.
SiteNext(s, h) ==
  IF s.site \in {"", "none", "cross-site"} \/ s.ref = "" THEN s.site
  ELSE IF Rank(Site(h, s.ref)) > Rank(s.site) THEN Site(h, s.ref) ELSE s.site

-----------------------------------------------------------------------------
(* Proxy and transport                                                       *)

\* proxy_parse on the URLs examined: a scheme is kept, anything else is refused.
Parse(url) == IF url \in {"http", "socks5"} THEN url ELSE ""

\* client_resolve_proxy: the override, else the next entry of the pool, else "" for the
\* client's single proxy; and the world with the pool advanced.
ResolveProxy(w, url) ==
  IF url # "" THEN Parse(url)
  ELSE IF client.rotation # <<>> THEN client.rotation[w.rr + 1]
  ELSE ""

Rotate(w, url) ==
  IF url = "" /\ client.rotation # <<>>
  THEN [w EXCEPT !.rr = (@ + 1) % Len(client.rotation)] ELSE w

\* Mutant: the proxy test for HTTP/3 looks at the client's proxy only.
RouteIgnoringOverride(w, h, px, ver, stream) ==
  LET hv == IF ver # "Auto" THEN ver ELSE client.mode
      On(p) == [proto |-> p, pooled |-> client.pool /\ px = "" /\ ~stream,
                proxy |-> IF px # "" THEN px ELSE client.proxy]
  IN IF hv = "H3" \/ (hv = "Auto" /\ client.h3 /\ w.caches.alt[h])
     THEN IF client.proxy # "http" /\ client.h3 THEN On("H3") ELSE Nowhere
     ELSE IF hv = "H1" THEN On("H1") ELSE On("H2")

\* client_dispatch_inner: where an exchange goes; Nowhere is refused inside the call.
Route(w, h, px, ver, stream) ==
  LET hv == IF ver # "Auto" THEN ver ELSE client.mode
      proxy == IF px # "" THEN px ELSE client.proxy
      pooled == client.pool /\ px = "" /\ ~stream
      On(p) == [proto |-> p, pooled |-> pooled, proxy |-> proxy]
  IN IF hv = "H3"
     THEN IF proxy # "http" /\ client.h3 THEN On("H3") ELSE Nowhere
     ELSE IF hv = "H1" THEN On("H1")
     ELSE IF hv = "Auto" /\ proxy # "http" /\ client.h3 /\ w.caches.alt[h] THEN On("H3")
     ELSE On("H2")

-----------------------------------------------------------------------------
(* Delivery and dispatch                                                     *)

Put(w, o, s) == [w EXCEPT !.ops[o] = s]

\* The chain's end: the caller's callback, then the arena with all it held;
\* sync_on_response counts down.
Over(s) == [Unused EXCEPT !.st = "done", !.sync = s.sync, !.calls = s.calls + 1, !.freed = s.freed + 1]

Deliver(w, o) ==
  LET s == w.ops[o]
      n == IF s.sync THEN w.pending - 1 ELSE w.pending
  IN [Put(w, o, Over(s))
        EXCEPT !.pending = n, !.stop = @ \/ (s.sync /\ n = 0)]

\* client_dispatch_inner for the hop itself.  An exchange that is refused, or that fails
\* inside the call ("hop" \in now), is answered by an error, which no chain follows.
DispatchInner(w, o, now) ==
  LET s == w.ops[o]
      via == Route(w, s.host, s.px, s.ver, s.stream)
  IN IF ~client.ok \/ via = Nowhere \/ "hop" \in now
     THEN Deliver(w, o)
     ELSE Put(w, o, [s EXCEPT !.st = "hop", !.via = via, !.seen = Append(@, s.host)])

\* Mutant: a failed lookup does not replay the request it held.
DohAnsweredGated(w, o, found, now) ==
  IF found THEN DispatchInner([w EXCEPT !.caches.ech[w.ops[o].host] = "config"], o, now) ELSE w

\* client_ech_doh_cb: cache what the lookup found, a failure as a negative, and replay.
DohAnswered(w, o, found, now) ==
  DispatchInner([w EXCEPT !.caches.ech[w.ops[o].host] = IF found THEN "config" ELSE "negative"],
                o, now)

\* client_ech_prefetch: stash the request and start the lookup, which goes through the
\* client's own proxy and mode.
EchPrefetch(w, o, now) ==
  LET via == Route(w, Doh, "", "Auto", FALSE)
      s == [w.ops[o] EXCEPT !.st = "doh", !.via = via, !.lookups = @ + 1]
  IN IF ~client.ok \/ via = Nowhere \/ "doh" \in now
     THEN DohAnswered(Put(w, o, s), o, FALSE, now) ELSE Put(w, o, s)

\* client_dispatch: the ECH gate.
Dispatch(w, o, now) ==
  IF client.ech /\ w.ops[o].host # Doh /\ w.caches.ech[w.ops[o].host] = "unknown"
  THEN EchPrefetch(w, o, now) ELSE DispatchInner(w, o, now)

\* session_dispatch_hop: the jar's cookie for this hop, then a single-hop client_request.
DispatchHop(w, o, now) ==
  LET s == w.ops[o]
  IN IF ~s.sess THEN Dispatch(w, o, now)
     ELSE Dispatch(Put(w, o, [s EXCEPT !.cookie = client.cookies /\ w.caches.jar[s.host],
                                       !.px = Parse(s.url)]), o, now)

\* redirect_prepare_hop: follow only a successful 3xx with an https Location.
Followable(r) == r.ok /\ r.status \in Redirects /\ r.loc \in Hosts

\* redirect_next_method
DropBody(method, status) == status = 303 \/ (status \in {301, 302} /\ method = "POST")

\* Mutant: the Authorization header follows the redirect to another origin.
NextHopKeepsAuth(s, r) ==
  LET drop == DropBody(s.method, r.status)
  IN [s EXCEPT !.method = IF drop THEN "GET" ELSE @, !.body = @ /\ ~drop, !.ctype = @ /\ ~drop,
               !.site = SiteNext(s, r.loc), !.host = r.loc, !.left = @ - 1]

NextHop(s, r) ==
  LET drop == DropBody(s.method, r.status)
  IN [s EXCEPT !.method = IF drop THEN "GET" ELSE @,
               !.body = @ /\ ~drop,
               !.ctype = @ /\ ~drop,
               !.auth = @ /\ s.host = r.loc,
               !.site = SiteNext(s, r.loc),
               !.host = r.loc,
               !.left = @ - 1]

\* Mutant: the cookie is absorbed after the next hop has left.
HopAnsweredThenAbsorbed(w, o, r, now) ==
  LET s == w.ops[o]
      noted == [w EXCEPT !.caches.alt[s.host] = @ \/ (r.alt /\ s.via.proto # "H3")]
      next == IF s.follows /\ s.left > 0 /\ Followable(r)
              THEN DispatchHop(Put(noted, o, [NextHop(s, r) EXCEPT !.given = r.cookie]), o, now)
              ELSE Deliver(noted, o)
  IN [next EXCEPT !.caches.jar[s.host] = @ \/ (r.cookie /\ s.sess /\ client.cookies)]

\* Mutant: a followed redirect is delivered to the caller as well.
HopAnsweredFallsThrough(w, o, r, now) ==
  LET s == w.ops[o]
  IN IF s.follows /\ s.left > 0 /\ Followable(r)
     THEN Deliver(DispatchHop(Put(w, o, NextHop(s, r)), o, now), o)
     ELSE Deliver(w, o)

\* client_redirect_cb, session_hop_cb, and the plain callback of a single hop.  A TCP
\* answer's Alt-Svc is noted and the session absorbs its cookie before the next hop.
HopAnswered(w, o, r, now) ==
  LET s == w.ops[o]
      noted == [w EXCEPT
                 !.caches.alt[s.host] = @ \/ (r.alt /\ s.via.proto # "H3"),
                 !.caches.jar[s.host] = @ \/ (r.cookie /\ s.sess /\ client.cookies)]
  IN IF s.follows /\ s.left > 0 /\ Followable(r)
     THEN DispatchHop(Put(noted, o, [NextHop(s, r) EXCEPT !.given = r.cookie]), o, now)
     ELSE Deliver(noted, o)

\* client_request and session_request.  A session carries neither the version override
\* nor the parsed proxy: it keeps the proxy as a URL and hands that to every hop.
Request(w, o, q, sync, now) ==
  LET px == ResolveProxy(w, q.proxy)
      s == [Unused EXCEPT
             !.sess = q.sess, !.sync = sync, !.stream = q.stream,
             !.follows = ~q.stream /\ (q.sess \/ ~q.single) /\ client.max > 0,
             !.method = IF q.post THEN "POST" ELSE "GET", !.body = q.post, !.ctype = q.post,
             !.auth = q.auth, !.host = q.host, !.ref = q.ref,
             !.site = IF q.fetch THEN Site(q.host, q.ref) ELSE "",
             !.ver = IF q.sess THEN "Auto" ELSE q.ver, !.asked = q.ver,
             !.url = IF q.proxy # "" THEN q.proxy ELSE px, !.px = px,
             !.left = client.max]
  IN DispatchHop(Put(Rotate(w, q.proxy), o, s), o, now)

-----------------------------------------------------------------------------
(* Actions                                                                   *)

Fails == SUBSET {"doh", "hop"}

\* client_request from user code or from another callback.
Start(o, q, now) ==
  /\ o <= client.ops
  /\ ops[o].st = "idle"
  /\ Install(Request(World, o, q, FALSE, now))
  /\ UNCHANGED caller

\* client_request_all (client_request_sync and session_request_sync are the case of one):
\* the whole count first, then every request, then loop_run.
RequestAll(q, now) ==
  /\ caller = "top"
  /\ pending = 0
  /\ \A o \in DOMAIN q : ops[o].st = "idle"
  /\ LET Submit(w, o) == Request(w, o, q[o], TRUE, now)
     IN Install(FoldLeft(Submit, [World EXCEPT !.pending = Len(q)], [i \in DOMAIN q |-> i]))
  /\ caller' = "sync"

\* User code runs the loop itself.
Run ==
  /\ caller = "top"
  /\ \E o \in Ops : InFlight(ops[o])
  /\ caller' = "run"
  /\ UNCHANGED <<client, ops, caches, rr, pending, stop>>

\* loop_run returns when stopped, or when no handle is left.
LoopReturns ==
  /\ caller # "top"
  /\ stop \/ \A o \in Ops : ~InFlight(ops[o])
  /\ caller' = "top"
  /\ stop' = FALSE
  /\ pending' = 0   \* the helper's counter dies with its frame
  /\ UNCHANGED <<client, ops, caches, rr>>

\* The hop's transport answers.
Answered(o, r, now) ==
  /\ caller # "top"
  /\ ops[o].st = "hop"
  /\ Install(HopAnswered(World, o, r, now))
  /\ UNCHANGED caller

\* The lookup's transport answers.
Looked(o, found, now) ==
  /\ caller # "top"
  /\ ops[o].st = "doh"
  /\ Install(DohAnswered(World, o, found, now))
  /\ UNCHANGED caller

\* The operation's one deadline passes; from then on its exchanges time out.
Expire(o) ==
  /\ client.timeout
  /\ InFlight(ops[o]) /\ ~ops[o].expired
  /\ ops' = [ops EXCEPT ![o].expired = TRUE]
  /\ UNCHANGED <<client, caches, rr, pending, stop, caller>>

TimedOut(o) ==
  /\ caller # "top"
  /\ ops[o].expired
  /\ \/ ops[o].st = "hop" /\ Install(HopAnswered(World, o, Error, {}))
     \/ ops[o].st = "doh" /\ Install(DohAnswered(World, o, FALSE, {}))
  /\ UNCHANGED caller

\* An Alt-Svc entry or an ECH configuration reaches its expiry.
CacheExpires(h) ==
  /\ \/ caches.alt[h] /\ caches' = [caches EXCEPT !.alt[h] = FALSE]
     \/ caches.ech[h] # "unknown" /\ caches' = [caches EXCEPT !.ech[h] = "unknown"]
  /\ UNCHANGED <<client, ops, rr, pending, stop, caller>>

\* Another user of the loop stops it: a WebSocket's callback, a TLS stream's.
StrayStop ==
  /\ caller # "top"
  /\ stop' = TRUE
  /\ UNCHANGED <<client, ops, caches, rr, pending, caller>>

Init ==
  /\ client \in Clients
  /\ ops = [o \in Ops |-> Unused]
  /\ caches = [ech |-> [h \in Hosts |-> "unknown"], alt |-> [h \in Hosts |-> FALSE],
               jar |-> [h \in Hosts |-> FALSE]]
  /\ rr = 0 /\ pending = 0 /\ stop = FALSE /\ caller = "top"

Next ==
  \/ \E o \in Ops, q \in client.inputs, now \in Fails : Start(o, q, now)
  \/ \E n \in 1 .. client.ops, now \in Fails : \E q \in [1 .. n -> client.inputs] :
       RequestAll(q, now)
  \/ Run \/ LoopReturns
  \/ \E o \in Ops, r \in client.answers \cup {Error}, now \in Fails : Answered(o, r, now)
  \/ \E o \in Ops, found \in BOOLEAN, now \in Fails : Looked(o, found, now)
  \/ \E o \in Ops : Expire(o) \/ TimedOut(o)
  \/ \E h \in client.expire : CacheExpires(h)

Spec == Init /\ [][Next]_vars

\* The client shares its loop with others; SyncComplete does not hold of it.
SharedLoopSpec == Init /\ [][Next \/ StrayStop]_vars

\* Time passes for an operation with a deadline, and the loop fires due timers and
\* returns when it may: no answer of the network is assumed.
Fairness ==
  /\ \A o \in Ops : WF_vars(Expire(o)) /\ WF_vars(TimedOut(o))
  /\ WF_vars(LoopReturns)
FairSpec == Spec /\ Fairness

-----------------------------------------------------------------------------
(* Properties                                                                *)

TypeOK ==
  /\ rr \in 0 .. Len(client.rotation)
  /\ client.rotation # <<>> => rr < Len(client.rotation)
  /\ pending \in 0 .. 2
  /\ stop \in BOOLEAN
  /\ caller \in {"top", "sync", "run"}
  /\ \A o \in Ops : ops[o].left \in 0 .. client.max /\ ops[o].st \in {"idle", "doh", "hop", "done"}

\* Over every hop, lookup and replay of a chain, the caller's callback runs once and the
\* chain's arena is released after it, never before (client_redirect_cb's "deliver + free").
AnsweredOnce ==
  \A o \in Ops : LET s == ops[o] IN
    s.calls = (IF s.st = "done" THEN 1 ELSE 0) /\ s.freed = s.calls

\* A chain makes at most max_redirects + 1 exchanges and at most one lookup before each.
WithinBudget ==
  \A o \in Ops : LET s == ops[o] IN
    /\ Len(s.seen) <= client.max + 1
    /\ InFlight(s) => s.lookups <= Len(s.seen) + 1

\* The Authorization header is only ever sent to a host the chain has never left: once a
\* hop crosses hosts it is gone, also when the chain comes back (redirect_prepare_hop).
AuthStaysHome ==
  \A o \in Ops : LET s == ops[o] IN
    InFlight(s) /\ s.auth => \A i \in DOMAIN s.seen : s.seen[i] = s.host

\* A hop that lost its body lost the headers describing it, and is a GET.
BodyDescribed ==
  \A o \in Ops : LET s == ops[o] IN
    /\ InFlight(s) => (s.ctype <=> s.body)
    /\ InFlight(s) /\ s.body => s.method = "POST"

\* Sec-Fetch-Site on a hop is the worst relation to the initiator among all hosts of the
\* chain so far, whatever order they came in (sec_fetch_site_for_redirect's "monotonic").
SiteIsWorst ==
  \A o \in Ops : LET s == ops[o] IN
    s.st = "hop" /\ s.site # "" =>
      IF s.ref = "" THEN s.site = "none"
      ELSE /\ \A i \in DOMAIN s.seen : Rank(Site(s.seen[i], s.ref)) <= Rank(s.site)
           /\ \E i \in DOMAIN s.seen : Site(s.seen[i], s.ref) = s.site

\* Whatever caches, rotation and overrides say, a hop or a lookup never rides QUIC through
\* an HTTP proxy, never shares a pooled connection when it streams or has a proxy of its
\* own, and every hop of a client's chain uses the protocol the request asked for (a
\* session drops that parameter: session_dispatch_hop does not pass it on).
RouteHonoured ==
  \A o \in Ops : LET s == ops[o] IN
    InFlight(s) =>
      /\ s.via.proto = "H3" => s.via.proxy # "http" /\ client.h3
      /\ s.st = "hop" /\ (s.stream \/ s.px # "") => ~s.via.pooled
      /\ s.st = "hop" /\ ~s.sess /\ s.asked # "Auto" => s.via.proto = s.asked

\* A chain keeps the proxy it resolved at the start: no hop or replay changes identity.
ProxySticks ==
  \A o \in Ops : InFlight(ops[o]) /\ InFlight(ops'[o]) => ops'[o].px = ops[o].px

\* The cookie a response sets is on the very next hop to the same host, even though
\* other operations share the jar (session_hop_cb absorbs before it dispatches).
CookieOnNextHop ==
  \A o \in Ops : LET s == ops[o] IN
    s.st = "hop" /\ s.sess /\ client.cookies /\ s.given
      /\ Len(s.seen) > 1 /\ s.seen[Len(s.seen) - 1] = s.host => s.cookie

\* When a blocking helper returns, every request it submitted has been answered, also
\* those answered before loop_run was entered (client_request_all's count).
SyncComplete ==
  caller = "top" => \A o \in Ops : ops[o].sync => ops[o].st = "done"

\* With a timeout set, a blocking helper returns although no server ever answers: the
\* redirect budget and the single replay bound the chain.
SyncReturns == caller = "sync" /\ client.timeout ~> caller = "top"

\* The chain as its caller sees it: one answer for all its hops, lookups and replays, its
\* arena released after that, no more exchanges than max_redirects allows, and a blocking
\* helper that returns only with every answer (client_redirect_cb, client_request_all).
ChainAnswered == TypeOK /\ AnsweredOnce /\ WithinBudget /\ SyncComplete

\* What a redirected hop carries: Authorization only where the chain never left its host,
\* body headers only with a body, and the worst Sec-Fetch-Site of the chain so far
\* (redirect_prepare_hop, sec_fetch_site_for_redirect).
HopCarries == AuthStaysHome /\ BodyDescribed /\ SiteIsWorst

\* How a hop travels: the protocol and the pooling that client_dispatch_inner's rules
\* allow, and one proxy for the whole chain (client_resolve_proxy).
RouteKept == [][RouteHonoured' /\ ProxySticks]_vars
=============================================================================
