----------------------------- MODULE QuicRequest -----------------------------
(* A non-pooled request over QUIC: the QuicRequest of client.c, its H3Session   *)
(* (h3_session.c) and the QuicConnection it owns (quic_connection.c), from      *)
(* quicreq_start to the recycling of its arena.  Up to three libuv handles (the *)
(* UDP socket, the QUIC timer, the SOCKS5 control channel) have to close before *)
(* the owner is told, and a connection that has none yet closes inside the call.*)
(*                                                                              *)
(* One action is one libuv callback with everything it calls.                   *)
EXTENDS Naturals, FiniteSets

CONSTANTS Reqs,
          WriteFaults, \* outcomes of an egress flush: TRUE is a fatal ngtcp2 error
          SlowDns      \* whether a lookup may outlast its connection: a deadline
                       \* or the control channel's end meets it unfinished

VARIABLES rq,      \* Reqs -> the QuicRequest with its connection and session
          dns,     \* the DNS cache's entry for the target: "none" or a family
          ticket,  \* the origin's cached TLS session: "none", "plain", "early"
          tp       \* whether 0-RTT transport parameters are cached beside it
vars == <<rq, dns, ticket, tp>>

States == {"Idle", "Resolving", "Handshaking", "EarlyData", "Established", "Closing", "Failed"}
Phases == {"None", "Greeting", "Auth", "Associate", "Done"}
Handles == {"udp", "timer", "ctrl"}
Families == {"v4", "v6"}

\* The record s with the fields of f instead of, or besides, its own.
Over(f, s) == [x \in DOMAIN f \cup DOMAIN s |-> IF x \in DOMAIN f THEN f[x] ELSE s[x]]

\* quic_conn_init, and the session fields h3_session_alloc resets.
FreshConn ==
  [state |-> "Idle", h |-> [x \in Handles |-> "none"], left |-> 0, ready |-> FALSE,
   ngtcp2 |-> FALSE, want |-> FALSE, rejected |-> FALSE, phase |-> "None",
   h3 |-> FALSE, early |-> FALSE, reqFin |-> FALSE, delivered |-> FALSE]

NewReq == Over(FreshConn,
  [life |-> "new", idempotent |-> FALSE, proxied |-> FALSE, bind |-> "none",
   resolving |-> "no", ctrlConnecting |-> FALSE, responded |-> FALSE, closing |-> FALSE,
   submitted |-> FALSE, retrying |-> FALSE, retried |-> FALSE, deadline |-> "off",
   calls |-> 0, conns |-> 0, served |-> 0, capture |-> FALSE,
   fault |-> FALSE])

-----------------------------------------------------------------------------
(* The request: answering and tearing down.                                     *)

\* quicreq_on_fully_closed, when no retry is due.
Recycled(s) ==
  [s EXCEPT !.life = "recycled", !.h3 = FALSE, !.ngtcp2 = FALSE,
            !.deadline = IF @ = "off" THEN "off" ELSE "closed"]

\* quic_conn_close: every open handle starts to close; with none, the owner is told
\* at once (a retry always has a socket to close).
QuicClose(s) ==
  LET open == {x \in Handles : s.h[x] = "open"}
      t == [s EXCEPT !.state = "Closing", !.left = Cardinality(open),
                     !.h = [x \in Handles |-> IF x \in open THEN "closing" ELSE @[x]]]
  IN IF s.state = "Closing" THEN s
     ELSE IF open # {} THEN t
     ELSE IF s.retrying THEN [t EXCEPT !.fault = TRUE] ELSE Recycled(t)

Finish(s) == IF s.closing THEN s ELSE QuicClose([s EXCEPT !.closing = TRUE])

Answered(s) == [s EXCEPT !.responded = TRUE, !.calls = @ + 1]
\* Mutant: an error is delivered to a request already answered.
DeliverErrorAgain(s) == Answered(s)
DeliverError(s) == IF s.responded THEN s ELSE Answered(s)

OnResponse(s) == IF s.responded THEN s ELSE Finish(Answered(s))

OnClosed(s) == IF s.retrying \/ s.responded THEN s ELSE Finish(DeliverError(s))

\* quic_fail: before on_ready the owner is told by on_ready, afterwards by on_closed;
\* a connection its owner is closing stays silent.
QuicFail(s) ==
  LET f == [s EXCEPT !.state = "Failed"]
  IN IF s.state \in {"Failed", "Closing"} THEN s
     ELSE IF f.ready THEN OnClosed(f)
     ELSE Finish(DeliverError([f EXCEPT !.ready = TRUE]))

-----------------------------------------------------------------------------
(* The HTTP/3 session.                                                          *)

\* quic_flush_egress: bad is a fatal error of ngtcp2_conn_writev_stream.
FlushEgress(s, bad) ==
  IF s.ngtcp2 /\ s.state \notin {"Closing", "Failed"} /\ bad THEN QuicFail(s) ELSE s

\* quicreq_send_request and h3_session_request: sub says whether the session can
\* be allocated ("alloc" fails), the streams opened and the header block encoded
\* ("submit" fails).
SendRequest(s, sub, bad) ==
  LET sent == IF s.state = "EarlyData" THEN [s EXCEPT !.early = TRUE]
              ELSE [s EXCEPT !.served = @ + 1]
      f == FlushEgress([sent EXCEPT !.h3 = TRUE], bad)
  IN CASE sub = "alloc" -> Finish(DeliverError(s))
       [] sub = "submit" -> Finish(DeliverError(FlushEgress([s EXCEPT !.h3 = TRUE], bad)))
       [] OTHER -> [f EXCEPT !.submitted = TRUE]
Subs == {"ok", "alloc", "submit"}

\* h3_finish_response: delivers once.
H3Finish(s) == IF s.delivered THEN s ELSE OnResponse([s EXCEPT !.delivered = TRUE])

\* h3_on_stream_data with fin, and h3_on_stream_close, on the request stream.
StreamFin(s) == H3Finish([s EXCEPT !.reqFin = TRUE])
StreamClose(s) == IF s.reqFin THEN s ELSE StreamFin(s)

\* The stream events one packet may bring for the request.
Apply(s, events) ==
  CASE events = "none" -> s
    [] events = "fin" -> StreamFin(s)
    [] events = "close" -> StreamClose(s)
    [] events = "fin+close" -> StreamClose(StreamFin(s))

\* quicreq_on_ready(ok = 1): a rejected 0-RTT request is retried once; otherwise
\* it is sent unless it went out early (quicreq_capture_tp comes first).
OnReadyOk(s, sub, bad) ==
  CASE s.rejected /\ ~s.retried -> QuicClose([s EXCEPT !.retried = TRUE, !.retrying = TRUE])
    [] OTHER -> LET c == [s EXCEPT !.capture = TRUE]
                IN IF s.submitted THEN c ELSE SendRequest(c, sub, bad)

\* quic_handshake_completed_cb; taken: the server accepted the early data.
HandshakeCompleted(s, taken, sub, bad) ==
  LET t == [s EXCEPT !.state = "Established", !.ready = TRUE,
                     !.rejected = s.want /\ ~taken,
                     !.served = IF s.early /\ taken THEN @ + 1 ELSE @]
  IN IF s.ready THEN t ELSE OnReadyOk(t, sub, bad)

-----------------------------------------------------------------------------
(* Connecting: directly, or through a SOCKS5 relay.                             *)

\* quic_begin_udp.  udp: "bind" also stands for uv_udp_connect and quic_init_ngtcp2
\* failing; "tp": the cached transport parameters do not decode, so no 0-RTT.
Udps == {"ok", "bind", "tp"}
BeginUdp(s, udp, sub, bad) ==
  LET u == [s EXCEPT !.h["udp"] = "open"]
      t == [u EXCEPT !.h["timer"] = "open", !.ngtcp2 = TRUE, !.want = @ /\ udp # "tp"]
  IN IF udp = "bind" THEN QuicFail(u)
     ELSE IF t.want THEN FlushEgress(SendRequest([t EXCEPT !.state = "EarlyData"], sub, bad), bad)
     ELSE FlushEgress([t EXCEPT !.state = "Handshaking"], bad)

\* uv_getaddrinfo, which may refuse to start.
Resolve(s, what, ok) ==
  LET t == [s EXCEPT !.state = IF what = "ptarget" THEN @ ELSE "Resolving"]
  IN IF ok THEN [t EXCEPT !.resolving = what] ELSE QuicFail(t)

\* quic_conn_connect.
CacheHit(s) == dns # "none" /\ (s.bind = "none" \/ s.bind = dns)
ConnConnect(s, ok, udp, sub, bad) ==
  CASE s.proxied -> Resolve(s, "proxy", ok)
    [] ~s.proxied /\ CacheHit(s) -> BeginUdp(s, udp, sub, bad)
    [] OTHER -> Resolve(s, "target", ok)

\* quicreq_connect: 0-RTT needs an idempotent request (the body is empty), an
\* early-capable session and the transport parameters cached beside it.
\* Mutant: 0-RTT is offered on the retry too, and for any method.
ConnectAnyEarly(s, allowEarly, ok, udp, sub, bad) ==
  ConnConnect(Over([FreshConn EXCEPT !.want = ticket = "early" /\ tp], [s EXCEPT !.conns = @ + 1]),
              ok, udp, sub, bad)
Connect(s, allowEarly, ok, udp, sub, bad) ==
  ConnConnect(Over([FreshConn EXCEPT !.want = allowEarly /\ s.idempotent /\ ticket = "early" /\ tp],
                   [s EXCEPT !.conns = @ + 1]), ok, udp, sub, bad)

\* quic_proxy_advance, on the control channel; "part" is an incomplete reply.
ProxyAdvance(s, reply, ok, udp, sub, bad) ==
  CASE reply = "refused" -> QuicFail(s)
    [] s.phase = "Greeting" /\ reply = "userpass" -> [s EXCEPT !.phase = "Auth"]
    [] s.phase \in {"Greeting", "Auth"} /\ reply = "ok" -> [s EXCEPT !.phase = "Associate"]
    [] s.phase = "Associate" /\ reply = "ok" ->
         LET t == [s EXCEPT !.phase = "Done"]
         IN IF dns # "none" THEN BeginUdp(t, udp, sub, bad) ELSE Resolve(t, "ptarget", ok)
    [] OTHER -> s

-----------------------------------------------------------------------------
Live(r) == rq[r].life = "live"

\* Install the callback's outcome.  A rejected 0-RTT attempt strips the cached
\* session; a completed handshake caches this connection's parameters.
Step(r, s) ==
  /\ rq' = [rq EXCEPT ![r] = [s EXCEPT !.capture = FALSE]]
  /\ ticket' = IF s.retrying /\ ~rq[r].retrying /\ ticket = "early" THEN "plain" ELSE ticket
  /\ tp' = (s.capture \/ (tp /\ (s.retrying => rq[r].retrying)))

\* quicreq_start; an unusable URL is answered in the call.
Start(r) ==
  /\ rq[r].life = "new"
  /\ \/ Step(r, [rq[r] EXCEPT !.life = "recycled", !.responded = TRUE, !.calls = 1])
     \/ \E i, p, t, ok \in BOOLEAN, b \in {"none", "v4"}, udp \in Udps, sub \in Subs,
           bad \in WriteFaults :
          Step(r, Connect([rq[r] EXCEPT !.life = "live", !.idempotent = i, !.proxied = p,
                                        !.bind = b, !.deadline = IF t THEN "armed" ELSE "off"],
                          TRUE, ok, udp, sub, bad))
  /\ UNCHANGED dns

\* quic_on_resolved, quic_on_target_resolved and quic_on_proxy_resolved.  The last
\* opens the control channel.  Reaching a recycled request is a fault.
Resolved(r) ==
  LET s == [rq[r] EXCEPT !.resolving = "no"]
      what == rq[r].resolving
      ctrl == [s EXCEPT !.h["ctrl"] = "open"]
  IN /\ what # "no"
     /\ \/ /\ Step(r, IF s.life = "recycled" THEN [s EXCEPT !.fault = TRUE] ELSE QuicFail(s))
           /\ UNCHANGED dns
        \/ /\ s.life = "live" /\ what = "proxy" /\ UNCHANGED dns
           /\ \/ Step(r, QuicFail(ctrl))
              \/ Step(r, [ctrl EXCEPT !.ctrlConnecting = TRUE])
        \/ /\ s.life = "live" /\ what # "proxy"
           /\ dns' \in IF what = "target" /\ s.bind # "none" THEN {s.bind} ELSE Families
           /\ \E udp \in Udps, sub \in Subs, bad \in WriteFaults :
                Step(r, BeginUdp(s, udp, sub, bad))

\* quic_on_ctrl_connected, quic_ctrl_write (whose failure is a connection failure)
\* and quic_ctrl_read_cb.
CtrlConnected(r) ==
  LET s == [rq[r] EXCEPT !.ctrlConnecting = FALSE]
  IN /\ Live(r) /\ rq[r].ctrlConnecting /\ rq[r].h["ctrl"] = "open"
     /\ \/ Step(r, QuicFail(s))
        \/ Step(r, [s EXCEPT !.phase = "Greeting"])
     /\ UNCHANGED dns

CtrlRead(r) ==
  /\ Live(r) /\ rq[r].h["ctrl"] = "open" /\ rq[r].phase \in {"Greeting", "Auth", "Associate"}
  /\ \E reply \in {"ok", "userpass", "refused", "part"}, ok \in BOOLEAN, udp \in Udps,
        sub \in Subs, bad \in WriteFaults :
       Step(r, ProxyAdvance(rq[r], reply, ok, udp, sub, bad))
  /\ UNCHANGED dns

\* The association needs its control channel: its end is the connection's end.
CtrlEnd(r) ==
  /\ Live(r) /\ rq[r].h["ctrl"] = "open" /\ rq[r].phase # "None"
  /\ rq[r].resolving # "no" => SlowDns
  /\ Step(r, QuicFail(rq[r]))
  /\ UNCHANGED dns

\* quic_recv_cb: one packet may complete the handshake, end the request stream,
\* and still be refused by ngtcp2_conn_read_pkt; egress follows.  A rejected
\* 0-RTT stream is gone before on_ready runs.
Events(s) == IF s.h3 /\ s.served > 0 THEN {"none", "fin", "close", "fin+close"} ELSE {"none"}
ReadPkt(s, done, taken, sub, bad) ==
  IF done THEN HandshakeCompleted(s, taken, sub, bad) ELSE s
AfterPkt(s, rv, bad) ==
  IF rv THEN FlushEgress(s, bad) ELSE QuicFail(s)

Recv(r) ==
  /\ Live(r) /\ rq[r].h["udp"] = "open" /\ rq[r].h["timer"] = "open"
  /\ \/ Step(r, QuicFail(rq[r]))
     \/ \E done, taken, rv \in BOOLEAN, sub \in Subs, bad \in WriteFaults :
          LET s == ReadPkt(rq[r], done, taken, sub, bad)
          IN /\ done => rq[r].state \in {"Handshaking", "EarlyData"}
             /\ taken => done /\ rq[r].early
             /\ \E events \in Events(s) : Step(r, AfterPkt(Apply(s, events), rv, bad))
  /\ UNCHANGED dns

\* quic_timer_cb: ngtcp2_conn_handle_expiry reports an idle or failed handshake.
QuicTimer(r) ==
  /\ Live(r) /\ rq[r].h["timer"] = "open"
  /\ \/ Step(r, QuicFail(rq[r]))
     \/ \E bad \in WriteFaults : Step(r, FlushEgress(rq[r], bad))
  /\ UNCHANGED dns

\* quicreq_on_timeout.  A retry's close is requested from the poll phase of a loop
\* turn, whose closing phase precedes the timers.
Timeout(r) ==
  LET s == [rq[r] EXCEPT !.deadline = "fired"]
  IN /\ rq[r].deadline = "armed" /\ ~rq[r].retrying
     /\ rq[r].resolving # "no" => SlowDns
     /\ Step(r, IF s.life = "recycled" THEN [s EXCEPT !.fault = TRUE] ELSE Finish(DeliverError(s)))
     /\ UNCHANGED dns

\* quic_on_handle_closed, with quicreq_on_fully_closed at the last handle: the
\* request reconnects without 0-RTT or is recycled.  A control channel still
\* connecting is told so first, which a closing connection ignores.
HandleClosed(r, x) ==
  LET c == IF x = "ctrl" /\ rq[r].ctrlConnecting
           THEN QuicFail([rq[r] EXCEPT !.ctrlConnecting = FALSE]) ELSE rq[r]
      s == [c EXCEPT !.h[x] = "none", !.left = @ - 1]
  IN /\ rq[r].h[x] = "closing"
     /\ \/ s.left > 0 /\ Step(r, IF s.life = "recycled" THEN [s EXCEPT !.fault = TRUE] ELSE s)
        \/ s.life = "live" /\ s.left = 0 /\ ~s.retrying /\ Step(r, Recycled(s))
        \/ /\ s.life = "live" /\ s.left = 0 /\ s.retrying
           /\ \E ok \in BOOLEAN, udp \in Udps, sub \in Subs, bad \in WriteFaults :
                Step(r, Connect([s EXCEPT !.retrying = FALSE, !.closing = FALSE,
                                          !.submitted = FALSE], FALSE, ok, udp, sub, bad))
     /\ UNCHANGED dns

\* The caches are shared with the client's other requests.
CachesChange ==
  /\ \/ dns' \in Families \cup {"none"} /\ UNCHANGED <<ticket, tp>>
     \/ ticket' \in {"plain", "early"} /\ UNCHANGED <<dns, tp>>
     \/ tp' = TRUE /\ UNCHANGED <<dns, ticket>>
  /\ UNCHANGED rq

Init ==
  /\ rq = [r \in Reqs |-> NewReq]
  /\ dns = "none"
  /\ ticket \in {"none", "plain", "early"}
  /\ tp \in BOOLEAN

Next ==
  \/ \E r \in Reqs :
       \/ Start(r) \/ Resolved(r) \/ CtrlConnected(r) \/ CtrlRead(r) \/ CtrlEnd(r)
       \/ Recv(r) \/ QuicTimer(r) \/ Timeout(r)
       \/ \E x \in Handles : HandleClosed(r, x)
  \/ CachesChange

Spec == Init /\ [][Next]_vars

\* The loop runs: close callbacks come, lookups end, a due timer fires.
LoopFairness ==
  \A r \in Reqs : /\ \A x \in Handles : WF_vars(HandleClosed(r, x))
                  /\ WF_vars(Resolved(r)) /\ SF_vars(Timeout(r))
FairSpec == Spec /\ LoopFairness

-----------------------------------------------------------------------------
TypeOK ==
  /\ rq \in [Reqs -> [
       life : {"new", "live", "recycled"}, idempotent : BOOLEAN, proxied : BOOLEAN,
       bind : {"none", "v4"}, resolving : {"no", "target", "proxy", "ptarget"},
       ctrlConnecting : BOOLEAN, responded : BOOLEAN, closing : BOOLEAN, submitted : BOOLEAN,
       retrying : BOOLEAN, retried : BOOLEAN, deadline : {"off", "armed", "fired", "closed"},
       calls : 0..1, conns : 0..2, served : Nat, capture : {FALSE},
       fault : BOOLEAN, state : States,
       h : [Handles -> {"none", "open", "closing"}], left : 0..3, ready : BOOLEAN,
       ngtcp2 : BOOLEAN, want : BOOLEAN, rejected : BOOLEAN, phase : Phases, h3 : BOOLEAN,
       early : BOOLEAN, reqFin : BOOLEAN, delivered : BOOLEAN]]
  /\ dns \in Families \cup {"none"}
  /\ ticket \in {"none", "plain", "early"}
  /\ tp \in BOOLEAN

\* The server acts on the request at most once over both of its connections; only
\* a GET or a HEAD goes out as 0-RTT, and only such a request is ever sent again.
QuicServedOnce ==
  \A r \in Reqs : rq[r].served <= 1 /\ (rq[r].early \/ rq[r].conns = 2 => rq[r].idempotent)

\* An answered request is being torn down: every handle its connection had is
\* closing, and handles_closing counts them, so no socket, timer or control
\* channel outlives the answer.
QuicAnsweredCloses ==
  \A r \in Reqs : Live(r) /\ rq[r].responded =>
    /\ rq[r].state = "Closing"
    /\ \A x \in Handles : rq[r].h[x] # "open"
    /\ rq[r].left = Cardinality({x \in Handles : rq[r].h[x] = "closing"})

\* on_fully_closed is a safe point to free the owner, whether the last close
\* callback or quic_conn_close itself calls it: nothing reaches a recycled request
\* and no handle of it is left.
QuicFreedForGood ==
  \A r \in Reqs : ~rq[r].fault
                  /\ (rq[r].life = "recycled" => \A x \in Handles : rq[r].h[x] = "none")

\* What an Exchange sees of a request.
Status(s) ==
  CASE s.life = "new" -> "idle"
    [] s.life = "recycled" -> "released"
    [] OTHER -> IF s.responded THEN "answered" ELSE "pending"
QuicExchange == INSTANCE Exchange WITH
  status <- [r \in Reqs |-> Status(rq[r])], calls <- [r \in Reqs |-> rq[r].calls]
\* The callback runs exactly once and the arena is recycled after it, however the
\* handshake, the relay, the 0-RTT retry and the deadline interleave.
QuicImplementsExchange == QuicExchange!Spec

\* A deadline is honoured whatever the network does.
QuicDeadlineReleases == \A r \in Reqs : rq[r].deadline = "armed" ~> rq[r].life = "recycled"
=============================================================================
