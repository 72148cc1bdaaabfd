----------------------------- MODULE TcpRequest -----------------------------
(* A non-pooled request over TCP: the H2Request of client.c together with the  *)
(* Connection it owns (connection.c, ssl_conn.c), from h2req_start to the      *)
(* recycling of its arena: resolution, connect, proxy tunnel, TLS handshake,   *)
(* the 0-RTT window and its rejection, the deadline and the close.             *)
(*                                                                             *)
(* One action is one libuv callback with everything it calls.  A callback is   *)
(* a function of the request's record, built from one operator per C function. *)
EXTENDS Naturals, Sequences

CONSTANTS Reqs,
          Proxies,     \* proxy kinds in use: "None", "Http", "Https", "Socks5"
          EarlyLimit,  \* how many sends the server's early-data limit admits
          WriteFaults, \* which outcomes uv_write has: TRUE is a synchronous error
          SlowDns      \* whether a deadline may expire while a name is resolved

VARIABLES rq,      \* Reqs -> the H2Request and its Connection
          dns,     \* the client's DNS cache: host -> "none" or an address family
          ticket   \* the origin's cached TLS session: "none", "plain", "early"
vars == <<rq, dns, ticket>>

States == {"Idle", "Resolving", "Connecting", "ProxyTls", "ProxyNegotiate",
           "Handshaking", "EarlyData", "Established", "Closing", "Failed"}
Phases == {"None", "HttpConnect", "Greeting", "Auth", "Connect"}
Hosts == {"target", "proxy"}
Families == {"v4", "v6"}

\* The bytes of a request: the session's preface, then the request itself.
Request == <<"preface", "request">>

\* The record s with the fields of f instead of, or besides, its own.
Over(f, s) == [x \in DOMAIN f \cup DOMAIN s |-> IF x \in DOMAIN f THEN f[x] ELSE s[x]]

\* conn_init: the Connection fields of a fresh attempt.
FreshConn ==
  [state |-> "Idle", tcp |-> "none", connecting |-> FALSE, reading |-> FALSE, ready |-> FALSE,
   earlyFired |-> FALSE, rejected |-> FALSE, want |-> FALSE, wasCached |-> FALSE,
   phase |-> "None", outer |-> FALSE, est |-> FALSE,
   early |-> <<>>, pending |-> <<>>, stream |-> <<>>]

NewReq == Over(FreshConn,
  [life |-> "new", idempotent |-> FALSE, resolving |-> FALSE, proxy |-> "None", bind |-> "none",
   session |-> "none", responded |-> FALSE, closing |-> FALSE, submitted |-> FALSE,
   retrying |-> FALSE, retried |-> FALSE, timer |-> "off",
   calls |-> 0, conns |-> 0, served |-> 0, fault |-> FALSE])

-----------------------------------------------------------------------------
(* The request: answering and tearing down.                                    *)

ConnClose(s) ==
  [s EXCEPT !.tcp = IF @ = "open" THEN "closing" ELSE @, !.state = "Closing"]

Finish(s) == IF s.closing THEN s ELSE ConnClose([s EXCEPT !.closing = TRUE])

Answered(s) == [s EXCEPT !.responded = TRUE, !.calls = @ + 1]
\* Mutant: an error is delivered to a request already answered.
DeliverErrorAgain(s) == Answered(s)
DeliverError(s) == IF s.responded THEN s ELSE Answered(s)
TcpDeliver(s) == IF s.responded THEN s ELSE Finish(Answered(s))

\* h2req_on_ready(ok = 0): a rejected 0-RTT request is retried once.
OnReadyFailed(s) ==
  IF s.rejected /\ ~s.retried
  THEN ConnClose([s EXCEPT !.retried = TRUE, !.retrying = TRUE])
  ELSE Finish(DeliverError(s))

ConnFail(s) ==
  LET f == [s EXCEPT !.state = "Failed"]
  IN IF f.ready THEN f ELSE OnReadyFailed([f EXCEPT !.ready = TRUE])

-----------------------------------------------------------------------------
(* Writing.  bad: uv_write refuses the writes of this callback.                *)

\* conn_flush_output, conn_raw_write: nothing goes out on a closing handle.
Flush(s, bad) == IF s.tcp = "open" /\ bad THEN ConnFail(s) ELSE s

Whole(s) == IF s.stream = Request THEN [s EXCEPT !.served = @ + 1] ELSE s

\* conn_send_plaintext: a write beyond the early-data limit, and every one after
\* it, waits in `pending' for the end of the handshake.
Send(s, u, bad) ==
  CASE s.state \notin {"Established", "EarlyData"} -> s
    [] s.pending # <<>> -> [s EXCEPT !.pending = Append(@, u)]
    [] s.state = "EarlyData" /\ Len(s.early) = EarlyLimit ->
         Flush([s EXCEPT !.pending = Append(@, u)], bad)
    [] s.state = "EarlyData" /\ Len(s.early) < EarlyLimit ->
         Flush([s EXCEPT !.early = Append(@, u)], bad)
    [] OTHER -> Flush(Whole([s EXCEPT !.stream = Append(@, u)]), bad)

\* h2req_send_request: session "fail" is a session that cannot be allocated,
\* started or given the request.
SendRequest(s, session, bad) ==
  IF session = "fail"
  THEN Finish(DeliverError(s))
  ELSE [Send(Send(s, Request[1], bad), Request[2], bad)
          EXCEPT !.session = session, !.submitted = TRUE]

\* conn_flush_pending: what the early-data limit held back goes out as 1-RTT data.
FlushPending(s, bad) ==
  IF s.pending = <<>> THEN s
  ELSE Flush([s EXCEPT !.stream = @ \o s.pending, !.pending = <<>>], bad)

-----------------------------------------------------------------------------
(* Reading.  in: what the session makes of the decrypted bytes.                *)

Drain(s, in) ==
  CASE s.closing \/ s.session = "none" \/ in = "more" -> s
    [] in = "response" -> TcpDeliver(s)
    [] OTHER -> Finish(DeliverError(s))

OnReadyOk(s, session, in, bad) ==
  LET t == IF s.submitted THEN s ELSE SendRequest(s, session, bad)
  IN IF t.submitted THEN Drain(t, in) ELSE t

-----------------------------------------------------------------------------
(* The TLS handshake.  hs: what ssl_pump_do_handshake returns; "Unflushed" is  *)
(* Done when the held-back early data then cannot be written.                  *)

Established(s) == [s EXCEPT !.state = "Established", !.est = TRUE, !.stream = s.early]

DriveHandshake(s, hs, session, in, bad) ==
  LET f == Flush(s, bad)
      flushed == Whole(FlushPending(Established(f), bad))
  IN CASE hs = "WantIo" -> f
       [] hs = "Done" ->
            IF flushed.ready THEN flushed
            ELSE OnReadyOk([flushed EXCEPT !.ready = TRUE], session, in, bad)
       [] hs = "Unflushed" -> ConnFail([Established(f) EXCEPT !.pending = <<>>])
       [] hs = "EarlyData" ->
            IF f.earlyFired THEN [f EXCEPT !.state = "EarlyData"]
            ELSE LET e == SendRequest([f EXCEPT !.state = "EarlyData", !.earlyFired = TRUE],
                                      session, bad)
                 IN IF e.state = "EarlyData" THEN Flush(e, bad) ELSE e
       [] hs = "EarlyRejected" -> ConnFail([f EXCEPT !.rejected = TRUE])
       [] OTHER -> ConnFail(f)

\* What the handshake may answer: the first call sends the ClientHello, a later
\* one has the server's bytes.
FirstHs(s) == {"WantIo", "Error"} \cup (IF s.want THEN {"EarlyData"} ELSE {})
LaterHs(s) ==
  FirstHs(s) \cup {"Done"}
    \cup (IF s.earlyFired THEN {"EarlyRejected"} ELSE {})
    \cup (IF s.pending # <<>> THEN {"Unflushed"} ELSE {})

-----------------------------------------------------------------------------
(* The proxy tunnel.                                                           *)

TunnelReady(s, hs, session, bad) ==
  DriveHandshake([s EXCEPT !.phase = "None", !.state = "Handshaking"], hs, session, "more", bad)

\* The next message of the negotiation; m: it fits the protocol's length fields.
SendPhase(s, phase, m, bad) ==
  IF m THEN Flush([s EXCEPT !.phase = phase], bad) ELSE ConnFail(s)

\* conn_proxy_begin; m: an outer TLS session for the proxy can be configured.
ProxyBegin(s, m, bad) ==
  CASE s.proxy = "Socks5" -> Flush([s EXCEPT !.phase = "Greeting", !.state = "ProxyNegotiate"], bad)
    [] s.proxy = "Https" ->
         IF m THEN Flush([s EXCEPT !.outer = TRUE, !.state = "ProxyTls"], bad) ELSE ConnFail(s)
    [] OTHER -> Flush([s EXCEPT !.phase = "HttpConnect", !.state = "ProxyNegotiate"], bad)

\* conn_proxy_outer_drive on the proxy's bytes; up: "Done", "WantIo", "Error".
ProxyOuterDrive(s, up, bad) ==
  LET f == Flush(s, bad)
  IN CASE up = "Done" -> [f EXCEPT !.phase = "HttpConnect", !.state = "ProxyNegotiate"]
       [] up = "WantIo" -> f
       [] OTHER -> ConnFail(f)

\* conn_proxy_advance: reply is "part" (incomplete), "ok", "auth" (SOCKS5 asks for
\* credentials) or "bad" (refused, malformed, or longer than nbuf).
ProxyAdvance(s, reply, m, hs, session, bad) ==
  CASE reply = "part" -> s
    [] reply = "bad" -> ConnFail(s)
    [] reply = "auth" -> SendPhase(s, "Auth", m, bad)
    [] reply = "ok" /\ s.phase \in {"Greeting", "Auth"} -> SendPhase(s, "Connect", m, bad)
    [] reply = "ok" /\ s.phase \in {"HttpConnect", "Connect"} -> TunnelReady(s, hs, session, bad)
    [] OTHER -> s
Replies(s) == {"part", "ok", "bad"} \cup (IF s.phase = "Greeting" THEN {"auth"} ELSE {})

-----------------------------------------------------------------------------
(* Opening the connection.                                                     *)

ResolveHost(s) == IF s.proxy = "None" THEN "target" ELSE "proxy"

\* conn_begin_tcp_connect; ok: bind and connect are accepted.
BeginTcpConnect(s, ok) ==
  IF ok THEN [s EXCEPT !.state = "Connecting", !.connecting = TRUE] ELSE ConnFail(s)

CacheHit(s) ==
  /\ dns[ResolveHost(s)] # "none"
  /\ s.bind \in {"none", dns[ResolveHost(s)]}

\* conn_connect: open says whether TLS could be configured ("tls" fails), and
\* whether the resolution or the connect starts ("ok") or is refused ("refused").
ConnConnect(s, open) ==
  LET t == [s EXCEPT !.tcp = "open", !.conns = @ + 1]
  IN CASE open = "tls" -> OnReadyFailed([t EXCEPT !.ready = TRUE])
       [] open # "tls" /\ CacheHit(s) ->
            BeginTcpConnect([t EXCEPT !.wasCached = TRUE], open = "ok")
       [] open = "ok" -> [t EXCEPT !.state = "Resolving", !.resolving = TRUE]
       [] OTHER -> ConnFail([t EXCEPT !.state = "Resolving"])

\* Mutant: any request may go out as early data.
ConnectAnyEarly(s, allowEarly, open) ==
  ConnConnect(Over([FreshConn EXCEPT !.want = allowEarly /\ ticket = "early"], s), open)

\* h2req_connect: 0-RTT only for an idempotent request with an early-capable
\* ticket, and not on the retry.
Connect(s, allowEarly, open) ==
  LET want == allowEarly /\ s.idempotent /\ ticket = "early"
  IN ConnConnect(Over([FreshConn EXCEPT !.want = want], s), open)

-----------------------------------------------------------------------------
(* The callbacks.                                                              *)

\* The effect of a callback: the request's record, and the ticket that a rejected
\* 0-RTT attempt strips of its early data (resume_cache_strip_early).
Step(r, s) ==
  /\ rq' = [rq EXCEPT ![r] = s]
  /\ ticket' = IF s.retrying /\ ~rq[r].retrying /\ ticket = "early" THEN "plain" ELSE ticket

Live(r) == rq[r].life = "live"
Open(r) == Live(r) /\ rq[r].tcp = "open"

\* h2req_start: a bad URL is answered in the call; otherwise the deadline is armed
\* and the connection opened.
Start(r) ==
  /\ rq[r].life = "new"
  /\ \/ Step(r, [Answered(rq[r]) EXCEPT !.life = "recycled"])
     \/ \E proxy \in Proxies, bind \in {"none", "v4"}, timer \in {"off", "armed"},
           safe \in BOOLEAN, open \in {"ok", "tls", "refused"} :
          Step(r, Connect([rq[r] EXCEPT !.life = "live", !.proxy = proxy, !.bind = bind,
                                        !.timer = timer, !.idempotent = safe], TRUE, open))
  /\ UNCHANGED dns

\* conn_on_resolved.  uv_close does not cancel a resolution, so the callback may
\* come after the request is gone.
Resolved(r) ==
  LET s == [rq[r] EXCEPT !.resolving = FALSE]
  IN /\ rq[r].resolving
     /\ \/ /\ Step(r, IF s.life = "recycled" THEN [s EXCEPT !.fault = TRUE] ELSE ConnFail(s))
           /\ UNCHANGED dns
        \/ /\ s.life # "recycled"
           /\ \E family \in (IF s.bind = "none" THEN Families ELSE {s.bind}), ok \in BOOLEAN :
                /\ dns' = [dns EXCEPT ![ResolveHost(s)] = family]
                /\ Step(r, BeginTcpConnect(s, ok))

\* conn_on_connected: a cached address that fails to connect is dropped.
ConnectFailed(s) == ConnFail([s EXCEPT !.connecting = FALSE])
DnsAfterFailure(s) ==
  IF s.wasCached THEN [dns EXCEPT ![ResolveHost(s)] = "none"] ELSE dns

Connected(r) ==
  LET s == [rq[r] EXCEPT !.connecting = FALSE, !.reading = TRUE]
  IN /\ Open(r) /\ rq[r].connecting
     /\ \/ /\ Step(r, ConnectFailed(rq[r]))
           /\ dns' = DnsAfterFailure(rq[r])
        \/ /\ s.proxy = "None"
           /\ \E hs \in FirstHs(s), session \in {"h1", "h2", "fail"}, bad \in WriteFaults :
                Step(r, DriveHandshake([s EXCEPT !.state = "Handshaking"], hs, session, "more", bad))
           /\ UNCHANGED dns
        \/ /\ s.proxy # "None"
           /\ \E m \in BOOLEAN, bad \in WriteFaults : Step(r, ProxyBegin(s, m, bad))
           /\ UNCHANGED dns

\* conn_read_cb, on bytes.
Readable(r) == Open(r) /\ rq[r].reading

ReadProxy(r) ==
  /\ Readable(r)
  /\ \E m \in BOOLEAN, bad \in WriteFaults :
       \/ /\ rq[r].state = "ProxyTls"
          /\ \E up \in {"Done", "WantIo", "Error"} : Step(r, ProxyOuterDrive(rq[r], up, bad))
       \/ /\ rq[r].state = "ProxyNegotiate"
          /\ \E reply \in Replies(rq[r]), hs \in FirstHs(rq[r]), session \in {"h1", "h2", "fail"} :
               Step(r, ProxyAdvance(rq[r], reply, m, hs, session, bad))
  /\ UNCHANGED dns

ReadTarget(r) ==
  LET s == rq[r]
  IN /\ Readable(r) /\ s.state \notin {"ProxyTls", "ProxyNegotiate"}
     /\ \E bad \in WriteFaults, in \in {"more", "response", "broken"} :
          \/ /\ ~s.est
             /\ \E hs \in LaterHs(s), session \in {"h1", "h2", "fail"} :
                  Step(r, DriveHandshake(s, hs, session, in, bad))
          \/ /\ s.est
             /\ Step(r, Drain(Flush(s, bad), in))
     /\ UNCHANGED dns

\* conn_read_cb, on EOF or an error: h2req_on_closed lets a close-delimited
\* HTTP/1.1 body end here; before the handshake is over it is a failure.
ReadEnd(r) ==
  LET s == [rq[r] EXCEPT !.reading = FALSE]
      closed == [s EXCEPT !.state = "Closing"]
  IN /\ Readable(r)
     /\ \/ s.state # "Established" /\ Step(r, ConnFail(s))
        \/ /\ s.state = "Established"
           /\ Step(r, IF s.responded THEN closed ELSE Finish(DeliverError(closed)))
        \/ s.state = "Established" /\ s.session = "h1" /\ Step(r, TcpDeliver(closed))
     /\ UNCHANGED dns

\* h2req_on_timeout.  libuv runs the close callbacks of a turn before its timers,
\* so no deadline fires while the handle is closing.
Timeout(r) ==
  LET s == [rq[r] EXCEPT !.timer = "fired"]
  IN /\ rq[r].timer = "armed" /\ rq[r].tcp # "closing"
     /\ rq[r].state = "Resolving" => SlowDns
     /\ Step(r, IF s.life = "recycled" THEN [s EXCEPT !.fault = TRUE] ELSE Finish(DeliverError(s)))
     /\ UNCHANGED dns

\* Mutants: the deadline timer outlives the request; it is disarmed before the retry.
FullyClosedKeepsTimer(r) ==
  /\ Live(r) /\ rq[r].tcp = "closing"
  /\ Step(r, [rq[r] EXCEPT !.tcp = "none", !.life = "recycled"])
  /\ UNCHANGED dns
FullyClosedDisarms(r) ==
  LET s == [rq[r] EXCEPT !.tcp = "none", !.session = "none", !.timer = "closed"]
  IN /\ Live(r) /\ rq[r].tcp = "closing"
     /\ IF s.retrying
        THEN Step(r, Connect([s EXCEPT !.retrying = FALSE, !.closing = FALSE,
                                       !.submitted = FALSE], FALSE, "ok"))
        ELSE Step(r, [s EXCEPT !.life = "recycled"])
     /\ UNCHANGED dns

\* The close callback.  A connect still in flight is cancelled first.  The request
\* then reconnects without 0-RTT, or disarms its timer and is recycled.
FullyClosed(r) ==
  LET s == [(IF rq[r].connecting THEN ConnectFailed(rq[r]) ELSE rq[r])
              EXCEPT !.tcp = "none", !.session = "none"]
  IN /\ Live(r) /\ rq[r].tcp = "closing"
     /\ \/ /\ s.retrying
           /\ \E open \in {"ok", "tls", "refused"} :
                Step(r, Connect([s EXCEPT !.retrying = FALSE, !.closing = FALSE,
                                          !.submitted = FALSE], FALSE, open))
        \/ /\ ~s.retrying
           /\ Step(r, [s EXCEPT !.life = "recycled",
                                !.timer = IF @ = "off" THEN "off" ELSE "closed"])
     /\ dns' = IF rq[r].connecting THEN DnsAfterFailure(rq[r]) ELSE dns

\* The caches are shared with the client's other requests, and live on their own
\* time: an entry expires, is evicted or is resolved again (dns_cache_get, _put),
\* and any connection may be handed a new ticket (client_resume_new_cb) or have
\* its own stripped.
CachesChange ==
  /\ \/ /\ \E h \in Hosts, f \in Families \cup {"none"} : dns' = [dns EXCEPT ![h] = f]
        /\ UNCHANGED ticket
     \/ ticket' \in {"plain", "early"} /\ UNCHANGED dns
  /\ UNCHANGED rq

Init ==
  /\ rq = [r \in Reqs |-> NewReq]
  /\ dns = [h \in Hosts |-> "none"]
  /\ ticket \in {"none", "plain", "early"}

Next ==
  \/ \E r \in Reqs :
       \/ Start(r) \/ Resolved(r) \/ Connected(r) \/ ReadProxy(r) \/ ReadTarget(r)
       \/ ReadEnd(r) \/ Timeout(r) \/ FullyClosed(r)
  \/ CachesChange

Spec == Init /\ [][Next]_vars

\* The loop runs: close callbacks come, a due timer fires in some later turn, and
\* the resolver answers (getaddrinfo has timeouts of its own).
LoopFairness ==
  \A r \in Reqs : WF_vars(FullyClosed(r)) /\ WF_vars(Resolved(r)) /\ SF_vars(Timeout(r))
FairSpec == Spec /\ LoopFairness

-----------------------------------------------------------------------------
TypeOK ==
  /\ rq \in [Reqs -> [
       life : {"new", "live", "recycled"}, idempotent : BOOLEAN, resolving : BOOLEAN, proxy : Proxies \cup {"None"},
       bind : {"none", "v4"}, session : {"none", "h1", "h2"}, responded : BOOLEAN,
       closing : BOOLEAN, submitted : BOOLEAN, retrying : BOOLEAN, retried : BOOLEAN,
       timer : {"off", "armed", "fired", "closed"}, calls : 0..1, conns : 0..2, served : Nat,
       fault : BOOLEAN, state : States, tcp : {"none", "open", "closing"},
       connecting : BOOLEAN, reading : BOOLEAN, ready : BOOLEAN, earlyFired : BOOLEAN,
       rejected : BOOLEAN, want : BOOLEAN, wasCached : BOOLEAN, phase : Phases,
       outer : BOOLEAN, est : BOOLEAN, early : Seq({"preface", "request"}),
       pending : Seq({"preface", "request"}), stream : Seq({"preface", "request"})]]
  /\ dns \in [Hosts -> Families \cup {"none"}]
  /\ ticket \in {"none", "plain", "early"}

\* The request the server reads is the request, whole and in order, however the
\* early-data limit split it over the 0-RTT window and the finished handshake:
\* once on_ready has reported success and the request is submitted, the
\* connection's application stream is exactly the request.
RequestWhole ==
  \A r \in Reqs : rq[r].est /\ rq[r].submitted /\ rq[r].state = "Established" /\ ~rq[r].closing
                  => rq[r].stream = Request /\ rq[r].pending = <<>>

\* A server reads the whole request at most once over all the connections of one
\* request, and bytes that a rejected handshake makes the client send again were
\* a GET's or a HEAD's.
ServedOnce ==
  \A r \in Reqs : rq[r].served <= 1 /\ rq[r].conns <= 2
                  /\ (rq[r].early # <<>> \/ rq[r].conns = 2 => rq[r].idempotent)

\* An answered request is being torn down: its handle is closing, so no
\* connection outlives its request and none is opened for one already answered.
AnsweredCloses ==
  \A r \in Reqs : Live(r) /\ rq[r].responded => rq[r].tcp = "closing"

\* on_fully_closed is a safe point to free the owner: no callback of the
\* connection or of the deadline timer reaches a recycled request.
FreedForGood == \A r \in Reqs : ~rq[r].fault

\* A request is released, once answered, however the handshake, the proxy, the
\* 0-RTT retry and the deadline interleave.
Status(s) ==
  CASE s.life = "new" -> "idle"
    [] s.life = "recycled" -> "released"
    [] OTHER -> IF s.responded THEN "answered" ELSE "pending"
TcpExchange == INSTANCE Exchange WITH
  status <- [r \in Reqs |-> Status(rq[r])], calls <- [r \in Reqs |-> rq[r].calls]
ImplementsExchange == TcpExchange!Spec

\* A deadline is honoured whatever the network does: the request is answered,
\* closed and recycled.
DeadlineReleases == \A r \in Reqs : rq[r].timer = "armed" ~> rq[r].life = "recycled"

\* What the server sees of a request: all of it, in order, and at most once, whatever the
\* 0-RTT window, its rejection and the retry do with the bytes (conn_flush_pending,
\* h2req_connect).
ServedWholeOnce == TypeOK /\ RequestWhole /\ ServedOnce

\* What is left of a request: once answered its handle is closing, and once it is recycled
\* nothing reaches it (h2req_finish, h2req_on_fully_closed).
Teardown == AnsweredCloses /\ FreedForGood
=============================================================================
