--------------------------- MODULE TcpRequestProofs ---------------------------
(* Every non-pooled TCP request is answered at most once, closed once answered *)
(* and recycled only then (ImplementsExchange, Teardown), for any number of    *)
(* requests, whatever the proxy, the handshake, the early-data window, the     *)
(* writes, the DNS cache and the deadline do.                                  *)
EXTENDS TcpRequest, TLAPS

\* The fields the argument is about; a callback may write others, and keeps these
\* in the record.
Rec(s) ==
  /\ "life" \in DOMAIN s /\ "responded" \in DOMAIN s /\ "calls" \in DOMAIN s
  /\ "tcp" \in DOMAIN s /\ "closing" \in DOMAIN s /\ "state" \in DOMAIN s
  /\ "retrying" \in DOMAIN s /\ "retried" \in DOMAIN s /\ "rejected" \in DOMAIN s
  /\ "ready" \in DOMAIN s /\ "resolving" \in DOMAIN s /\ "connecting" \in DOMAIN s
  /\ "reading" \in DOMAIN s /\ "timer" \in DOMAIN s /\ "fault" \in DOMAIN s

\* A request that is under way, and one that was answered and is closing.
Unanswered(s) == s.responded = FALSE /\ s.closing = FALSE /\ s.tcp = "open" /\ s.calls = 0
Gone(s) == s.responded = TRUE /\ s.closing = TRUE /\ s.tcp = "closing" /\ s.calls = 1

\* A live request at any point inside a callback; a rejected 0-RTT attempt has
\* been reported (on_ready has run).
Mid(s) ==
  /\ Rec(s) /\ s.life = "live" /\ s.retrying = FALSE
  /\ Unanswered(s) \/ Gone(s)
  /\ s.rejected = FALSE \/ s.ready = TRUE
  /\ s.ready \in BOOLEAN

\* What part of a callback may do to a request: answer it.
Runs(s, t) ==
  /\ Mid(t)
  /\ t.resolving = s.resolving /\ t.timer = s.timer /\ t.fault = s.fault
  /\ Gone(s) => Gone(t)
  /\ s.ready = TRUE => t.ready = TRUE

-----------------------------------------------------------------------------
(* The operators, in the order of the model.                                   *)

\* Parts of a callback follow one another.
LEMMA RunsOn == ASSUME NEW s, NEW t, NEW u, Runs(s, t), Mid(t) => Runs(t, u) PROVE Runs(s, u)
BY Zenon DEF Runs

\* h2req_deliver_error and h2req_finish: an error answers the request and closes it.
LEMMA ErrorRuns ==
  ASSUME NEW s, Mid(s)
  PROVE Runs(s, Finish(DeliverError(s))) /\ Gone(Finish(DeliverError(s)))
<1>1. CASE Gone(s)
  <2>1. Finish(DeliverError(s)) = s
    BY <1>1 DEF Gone, Finish, DeliverError
  <2>2. QED
    BY Zenon, <1>1, <2>1 DEF Runs
<1>2. CASE Unanswered(s)
  <2>1. PICK t : t = [s EXCEPT !.responded = TRUE, !.calls = @ + 1]
    OBVIOUS
  <2>2. Rec(t) /\ t.responded = TRUE /\ t.calls = 1 /\ t.closing = FALSE /\ t.tcp = "open"
    BY <1>2, <2>1 DEF Mid, Rec, Unanswered
  <2>3. /\ t.life = s.life /\ t.retrying = s.retrying /\ t.rejected = s.rejected
        /\ t.ready = s.ready /\ t.resolving = s.resolving /\ t.timer = s.timer /\ t.fault = s.fault
    BY <2>1 DEF Mid, Rec
  <2>4. DeliverError(s) = t
    BY <1>2, <2>1 DEF DeliverError, Answered, Unanswered
  <2>5. PICK u : u = Finish(t)
    OBVIOUS
  <2>6. Rec(u) /\ u.responded = TRUE /\ u.calls = 1 /\ u.closing = TRUE /\ u.tcp = "closing"
    BY <2>2, <2>5 DEF Rec, Finish, ConnClose
  <2>7. /\ u.life = t.life /\ u.retrying = t.retrying /\ u.rejected = t.rejected
        /\ u.ready = t.ready /\ u.resolving = t.resolving /\ u.timer = t.timer /\ u.fault = t.fault
    BY <2>2, <2>5 DEF Rec, Finish, ConnClose
  <2>8. QED
    BY Zenon, <2>3, <2>4, <2>5, <2>6, <2>7 DEF Runs, Mid, Gone
<1>3. QED
  BY <1>1, <1>2 DEF Mid

\* h2req_deliver
LEMMA DeliverRuns == ASSUME NEW s, Mid(s) PROVE Runs(s, TcpDeliver(s))
<1>1. CASE Gone(s)
  BY Zenon, <1>1 DEF Gone, TcpDeliver, Runs
<1>2. CASE Unanswered(s)
  BY Zenon, <1>2, ErrorRuns DEF TcpDeliver, DeliverError, Unanswered
<1>3. QED
  BY <1>1, <1>2 DEF Mid

\* A callback writes fields the argument is not about.
LEMMA Touched ==
  ASSUME NEW s, NEW t, Mid(s), Rec(t),
         t.life = s.life, t.retrying = s.retrying, t.responded = s.responded,
         t.closing = s.closing, t.tcp = s.tcp, t.calls = s.calls,
         t.rejected = s.rejected, t.ready \in {s.ready, TRUE},
         t.resolving = s.resolving, t.timer = s.timer, t.fault = s.fault
  PROVE Runs(s, t)
<1>1. (t.rejected = FALSE \/ t.ready = TRUE) /\ t.ready \in BOOLEAN
  BY Zenon DEF Mid
<1>2. Unanswered(t) \/ Gone(t)
  BY Zenon DEF Mid, Unanswered, Gone
<1>3. QED
  BY Zenon, <1>1, <1>2 DEF Runs, Mid, Gone

\* conn_fail: on_ready(0) answers the request, unless on_ready has run before.
LEMMA FailRuns ==
  ASSUME NEW s, Mid(s) PROVE Runs(s, ConnFail(s)) /\ ConnFail(s).ready = TRUE
<1>1. PICK f : f = [s EXCEPT !.state = "Failed"]
  BY Zenon
<1>2. Runs(s, f) /\ f.ready = s.ready /\ f.rejected = s.rejected
  <2>1. /\ Rec(f) /\ f.ready = s.ready /\ f.rejected = s.rejected
        /\ f.life = s.life /\ f.retrying = s.retrying /\ f.responded = s.responded
        /\ f.closing = s.closing /\ f.tcp = s.tcp /\ f.calls = s.calls
        /\ f.resolving = s.resolving /\ f.timer = s.timer /\ f.fault = s.fault
    BY <1>1 DEF Mid, Rec
  <2>2. QED
    BY Zenon, <2>1, Touched
<1>3. CASE f.ready
  BY Zenon, <1>1, <1>2, <1>3 DEF ConnFail, Mid
<1>4. CASE ~f.ready
  <2>1. PICK g : g = [f EXCEPT !.ready = TRUE]
    BY Zenon
  <2>2. s.rejected = FALSE
    BY <1>2, <1>4 DEF Mid
  <2>3. /\ Rec(g) /\ g.ready = TRUE /\ g.rejected = f.rejected
        /\ g.life = f.life /\ g.retrying = f.retrying /\ g.responded = f.responded
        /\ g.closing = f.closing /\ g.tcp = f.tcp /\ g.calls = f.calls
        /\ g.resolving = f.resolving /\ g.timer = f.timer /\ g.fault = f.fault
    BY <1>2, <2>1 DEF Runs, Mid, Rec
  <2>4. Runs(f, g)
    BY Zenon, <1>2, <2>3, Touched DEF Runs
  <2>5. ConnFail(s) = Finish(DeliverError(g))
    BY <1>1, <1>2, <1>4, <2>1, <2>2, <2>3 DEF ConnFail, OnReadyFailed
  <2>6. Runs(g, Finish(DeliverError(g)))
    BY Zenon, <2>4, ErrorRuns DEF Runs
  <2>7. ConnFail(s).ready = TRUE
    BY Zenon, <2>3, <2>5, <2>6 DEF Runs
  <2>8. QED
    BY Zenon, <1>2, <2>4, <2>5, <2>6, <2>7, RunsOn
<1>5. QED
  BY Zenon, <1>3, <1>4

\* conn_flush_output
LEMMA FlushRuns ==
  ASSUME NEW s, NEW bad, Mid(s)
  PROVE Runs(s, Flush(s, bad)) /\ (Flush(s, bad) = s \/ Flush(s, bad).ready = TRUE)
<1>1. Runs(s, s)
  BY DEF Runs
<1>2. QED
  BY Zenon, <1>1, FailRuns DEF Flush

\* The bytes of the request: counting a whole one, queueing and sending.
LEMMA WriteRuns ==
  ASSUME NEW s, Mid(s), NEW v
  PROVE /\ Runs(s, [s EXCEPT !.served = v]) /\ Runs(s, [s EXCEPT !.pending = v])
        /\ Runs(s, [s EXCEPT !.early = v]) /\ Runs(s, [s EXCEPT !.stream = v])
        /\ Runs(s, Whole(s))
<1>1. Rec(s)
  BY DEF Mid
<1>2. Runs(s, [s EXCEPT !.served = v])
  BY Zenon, <1>1, Touched DEF Rec
<1>3. Runs(s, [s EXCEPT !.pending = v])
  BY Zenon, <1>1, Touched DEF Rec
<1>4. Runs(s, [s EXCEPT !.early = v])
  BY Zenon, <1>1, Touched DEF Rec
<1>5. Runs(s, [s EXCEPT !.stream = v])
  BY Zenon, <1>1, Touched DEF Rec
<1>6. Runs(s, [s EXCEPT !.served = @ + 1]) /\ Runs(s, s)
  BY Zenon, <1>1, Touched DEF Rec, Runs
<1>7. QED
  BY Zenon, <1>2, <1>3, <1>4, <1>5, <1>6 DEF Whole

\* conn_send_plaintext
LEMMA SendRuns == ASSUME NEW s, NEW u, NEW bad, Mid(s) PROVE Runs(s, Send(s, u, bad))
<1>1. Runs(s, s)
  BY DEF Runs
<1>2. ASSUME NEW t, Runs(s, t) PROVE Runs(s, Flush(t, bad))
  BY Zenon, <1>2, FlushRuns, RunsOn
<1>3. /\ Runs(s, [s EXCEPT !.pending = Append(@, u)]) /\ Runs(s, [s EXCEPT !.early = Append(@, u)])
      /\ Runs(s, [s EXCEPT !.stream = Append(@, u)])
  <2>1. Rec(s)
    BY DEF Mid
  <2>2. QED
    BY Zenon, <2>1, Touched DEF Rec
<1>4. Runs(s, Whole([s EXCEPT !.stream = Append(@, u)]))
  <2>1. PICK t : t = [s EXCEPT !.stream = Append(@, u)]
    BY Zenon
  <2>2. Mid(t) => Runs(t, Whole(t))
    BY Zenon, WriteRuns
  <2>3. QED
    BY Zenon, <1>3, <2>1, <2>2, RunsOn
<1>5. QED
  BY Zenon, <1>1, <1>2, <1>3, <1>4 DEF Send

\* h2req_send_request
LEMMA SendRequestRuns ==
  ASSUME NEW s, NEW session, NEW bad, Mid(s) PROVE Runs(s, SendRequest(s, session, bad))
<1>1. PICK t : t = Send(Send(s, Request[1], bad), Request[2], bad)
  BY Zenon
<1>2. Runs(s, t)
  <2>1. PICK h : h = Send(s, Request[1], bad)
    BY Zenon
  <2>2. Runs(s, h) /\ (Mid(h) => Runs(h, t))
    BY Zenon, <1>1, <2>1, SendRuns
  <2>3. QED
    BY Zenon, <2>2, RunsOn
<1>3. Runs(t, [t EXCEPT !.session = session, !.submitted = TRUE])
  <2>1. Mid(t) /\ Rec(t)
    BY Zenon, <1>2 DEF Runs, Mid
  <2>2. QED
    BY Zenon, <2>1, Touched DEF Rec
<1>4. Runs(s, [t EXCEPT !.session = session, !.submitted = TRUE])
  BY Zenon, <1>2, <1>3, RunsOn
<1>5. QED
  BY Zenon, <1>1, <1>4, ErrorRuns DEF SendRequest

\* conn_flush_pending
LEMMA FlushPendingRuns ==
  ASSUME NEW s, NEW bad, Mid(s) PROVE Runs(s, FlushPending(s, bad))
<1>1. PICK t : t = [s EXCEPT !.stream = @ \o s.pending, !.pending = <<>>]
  BY Zenon
<1>2. Runs(s, t)
  BY Zenon, <1>1, Touched DEF Mid, Rec
<1>3. Runs(s, Flush(t, bad))
  BY Zenon, <1>2, FlushRuns, RunsOn
<1>4. Runs(s, s)
  BY DEF Runs
<1>5. QED
  BY Zenon, <1>1, <1>3, <1>4 DEF FlushPending

\* h2req_drain, h2req_on_ready(1)
LEMMA DrainRuns == ASSUME NEW s, NEW in, Mid(s) PROVE Runs(s, Drain(s, in))
<1>1. Runs(s, s)
  BY DEF Runs
<1>2. QED
  BY Zenon, <1>1, DeliverRuns, ErrorRuns DEF Drain

LEMMA OnReadyRuns ==
  ASSUME NEW s, NEW session, NEW in, NEW bad, Mid(s)
  PROVE Runs(s, OnReadyOk(s, session, in, bad))
<1>1. PICK t : t = IF s.submitted THEN s ELSE SendRequest(s, session, bad)
  BY Zenon
<1>2. Runs(s, s)
  BY DEF Runs
<1>3. Runs(s, t)
  BY Zenon, <1>1, <1>2, SendRequestRuns
<1>4. Runs(s, Drain(t, in))
  BY Zenon, <1>3, DrainRuns, RunsOn
<1>5. QED
  BY Zenon, <1>1, <1>3, <1>4 DEF OnReadyOk

-----------------------------------------------------------------------------
(* The handshake and the tunnel: the end of a callback may also be the start of *)
(* the retry without 0-RTT.                                                    *)

\* A request whose 0-RTT attempt was rejected: it is closing, to connect again.
Retrying(s) ==
  /\ Rec(s) /\ s.life = "live" /\ s.retrying = TRUE /\ s.ready = TRUE
  /\ s.responded = FALSE /\ s.closing = FALSE /\ s.tcp = "closing" /\ s.calls = 0

\* What a callback may do to a request.
Ends(s, t) ==
  \/ Runs(s, t)
  \/ /\ Unanswered(s) /\ Retrying(t)
     /\ t.resolving = s.resolving /\ t.timer = s.timer /\ t.fault = s.fault

\* A callback ends after a first part.
LEMMA EndsOn ==
  ASSUME NEW s, NEW t, NEW u, Mid(s), Runs(s, t), Mid(t) => Ends(t, u) PROVE Ends(s, u)
<1>1. Mid(t) /\ t.resolving = s.resolving /\ t.timer = s.timer /\ t.fault = s.fault
  BY Zenon DEF Runs
<1>2. CASE Runs(t, u)
  BY Zenon, <1>2, RunsOn DEF Ends
<1>3. CASE Unanswered(t) /\ Retrying(u)
  <2>1. Unanswered(s)
    BY Zenon, <1>3 DEF Mid, Runs, Unanswered, Gone
  <2>2. QED
    BY Zenon, <1>1, <1>3, <2>1 DEF Ends, Runs
<1>4. QED
  BY Zenon, <1>1, <1>2, <1>3 DEF Ends

\* h2req_on_ready(0) after the server refused the early data: one retry.
LEMMA RejectEnds ==
  ASSUME NEW s, Mid(s), Unanswered(s) \/ s.ready = TRUE
  PROVE Ends(s, ConnFail([s EXCEPT !.rejected = TRUE]))
<1>1. PICK g : g = [s EXCEPT !.rejected = TRUE]
  BY Zenon
<1>2. /\ Rec(g) /\ g.rejected = TRUE /\ g.ready = s.ready /\ g.life = s.life
      /\ g.retrying = s.retrying /\ g.responded = s.responded /\ g.closing = s.closing
      /\ g.tcp = s.tcp /\ g.calls = s.calls /\ g.resolving = s.resolving
      /\ g.timer = s.timer /\ g.fault = s.fault
  BY <1>1 DEF Mid, Rec
<1>3. CASE s.ready = TRUE
  <2>1. Mid(g) /\ (Gone(s) => Gone(g))
    BY Zenon, <1>2, <1>3 DEF Mid, Unanswered, Gone
  <2>2. Runs(s, g)
    BY Zenon, <1>2, <1>3, <2>1 DEF Runs
  <2>3. QED
    BY Zenon, <1>1, <2>2, FailRuns, RunsOn DEF Ends
<1>4. CASE s.ready = FALSE
  <2>1. PICK h : h = [g EXCEPT !.state = "Failed", !.ready = TRUE]
    BY Zenon
  <2>2. /\ Rec(h) /\ h.rejected = TRUE /\ h.ready = TRUE /\ h.life = s.life
        /\ h.retrying = s.retrying /\ h.responded = s.responded /\ h.closing = s.closing
        /\ h.tcp = s.tcp /\ h.calls = s.calls /\ h.resolving = s.resolving
        /\ h.timer = s.timer /\ h.fault = s.fault
    BY <1>2, <2>1 DEF Rec
  <2>3. ConnFail(g) = OnReadyFailed(h)
    <3>1. PICK e : e = [g EXCEPT !.state = "Failed"]
      BY Zenon
    <3>2. e.ready = FALSE /\ h = [e EXCEPT !.ready = TRUE]
      BY <1>2, <1>4, <2>1, <3>1 DEF Rec
    <3>3. QED
      BY Zenon, <3>1, <3>2 DEF ConnFail
  <2>4. Unanswered(s) /\ Mid(h) /\ Runs(s, h)
    BY Zenon, <1>4, <2>2 DEF Runs, Mid, Unanswered, Gone
  <2>5. CASE h.retried
    <3>1. OnReadyFailed(h) = Finish(DeliverError(h))
      BY Zenon, <2>5 DEF OnReadyFailed
    <3>2. QED
      BY Zenon, <1>1, <2>3, <2>4, <3>1, ErrorRuns, RunsOn DEF Ends
  <2>6. CASE ~h.retried
    <3>1. PICK t : t = [h EXCEPT !.retried = TRUE, !.retrying = TRUE]
      BY Zenon
    <3>2. /\ Rec(t) /\ t.retrying = TRUE /\ t.ready = TRUE /\ t.life = s.life
          /\ t.responded = s.responded /\ t.closing = s.closing
          /\ t.tcp = s.tcp /\ t.calls = s.calls /\ t.resolving = s.resolving
          /\ t.timer = s.timer /\ t.fault = s.fault
      BY <2>2, <3>1 DEF Rec
    <3>3. OnReadyFailed(h) = ConnClose(t)
      BY Zenon, <2>2, <2>6, <3>1 DEF OnReadyFailed
    <3>4. PICK u : u = ConnClose(t)
      BY Zenon
    <3>5. t.tcp = "open"
      BY Zenon, <2>4, <3>2 DEF Unanswered
    <3>6. /\ Rec(u) /\ u.retrying = TRUE /\ u.ready = TRUE /\ u.life = s.life
          /\ u.responded = s.responded /\ u.closing = s.closing
          /\ u.tcp = "closing" /\ u.calls = s.calls /\ u.resolving = s.resolving
          /\ u.timer = s.timer /\ u.fault = s.fault
      BY <3>2, <3>4, <3>5 DEF Rec, ConnClose
    <3>7. QED
      BY Zenon, <1>1, <2>3, <2>4, <3>3, <3>4, <3>6 DEF Ends, Retrying, Unanswered, Mid
  <2>7. QED
    BY <2>5, <2>6
<1>5. QED
  BY Zenon, <1>3, <1>4 DEF Mid

\* conn_drive_handshake
LEMMA HandshakeEnds ==
  ASSUME NEW s, NEW hs, NEW session, NEW in, NEW bad, Mid(s), Unanswered(s)
  PROVE Ends(s, DriveHandshake(s, hs, session, in, bad))
<1>1. PICK f : f = Flush(s, bad)
  BY Zenon
<1>2. Runs(s, f) /\ (Unanswered(f) \/ f.ready = TRUE) /\ Mid(f) /\ Rec(f)
  BY Zenon, <1>1, FlushRuns DEF Runs, Mid
<1>3. PICK e : e = Established(f)
  BY Zenon
<1>4. Runs(s, e) /\ Mid(e) /\ Rec(e)
  <2>1. Runs(f, e)
    BY Zenon, <1>2, <1>3, Touched DEF Rec, Established
  <2>2. QED
    BY Zenon, <1>2, <2>1, RunsOn DEF Runs, Mid
<1>5. CASE hs = "WantIo"
  BY Zenon, <1>1, <1>2, <1>5 DEF DriveHandshake, Ends
<1>6. CASE hs = "Done"
  <2>1. PICK w : w = FlushPending(e, bad)
    BY Zenon
  <2>2. PICK d : d = Whole(w)
    BY Zenon
  <2>3. Runs(s, w)
    BY Zenon, <1>4, <2>1, FlushPendingRuns, RunsOn
  <2>4. Runs(s, d) /\ Mid(d) /\ Rec(d)
    BY Zenon, <2>2, <2>3, WriteRuns, RunsOn DEF Runs, Mid
  <2>5. PICK o : o = [d EXCEPT !.ready = TRUE]
    BY Zenon
  <2>6. Runs(s, o)
    BY Zenon, <2>4, <2>5, Touched, RunsOn DEF Rec
  <2>7. Runs(s, OnReadyOk(o, session, in, bad))
    BY Zenon, <2>6, OnReadyRuns, RunsOn
  <2>8. QED
    BY Zenon, <1>1, <1>3, <1>6, <2>1, <2>2, <2>4, <2>5, <2>7 DEF DriveHandshake, Ends
<1>7. CASE hs = "Unflushed"
  <2>1. PICK u : u = [e EXCEPT !.pending = <<>>]
    BY Zenon
  <2>2. Runs(s, u)
    BY Zenon, <1>4, <2>1, Touched, RunsOn DEF Rec
  <2>3. Runs(s, ConnFail(u))
    BY Zenon, <2>2, FailRuns, RunsOn
  <2>4. QED
    BY Zenon, <1>1, <1>3, <1>7, <2>1, <2>3 DEF DriveHandshake, Ends
<1>8. CASE hs = "EarlyData"
  <2>1. PICK u : u = [f EXCEPT !.state = "EarlyData", !.earlyFired = TRUE]
    BY Zenon
  <2>2. Runs(s, u) /\ Runs(s, [f EXCEPT !.state = "EarlyData"])
    BY Zenon, <1>2, <2>1, Touched, RunsOn DEF Rec
  <2>3. PICK v : v = SendRequest(u, session, bad)
    BY Zenon
  <2>4. Runs(s, v)
    BY Zenon, <2>2, <2>3, SendRequestRuns, RunsOn
  <2>5. Runs(s, Flush(v, bad))
    BY Zenon, <2>4, FlushRuns, RunsOn
  <2>6. QED
    BY Zenon, <1>1, <1>8, <2>1, <2>2, <2>3, <2>4, <2>5 DEF DriveHandshake, Ends
<1>9. CASE hs = "EarlyRejected"
  <2>1. Ends(f, ConnFail([f EXCEPT !.rejected = TRUE]))
    BY Zenon, <1>2, RejectEnds
  <2>2. QED
    BY Zenon, <1>1, <1>2, <1>9, <2>1, EndsOn DEF DriveHandshake
<1>10. CASE hs \notin {"WantIo", "Done", "Unflushed", "EarlyData", "EarlyRejected"}
  <2>1. Runs(s, ConnFail(f))
    BY Zenon, <1>2, FailRuns, RunsOn
  <2>2. DriveHandshake(s, hs, session, in, bad) = ConnFail(f)
    BY <1>1, <1>10 DEF DriveHandshake
  <2>3. QED
    BY Zenon, <2>1, <2>2 DEF Ends
<1>11. QED
  BY Zenon, <1>5, <1>6, <1>7, <1>8, <1>9, <1>10

\* conn_proxy_begin, conn_proxy_outer_drive
LEMMA ProxyBeginRuns ==
  ASSUME NEW s, NEW m, NEW bad, Mid(s) PROVE Runs(s, ProxyBegin(s, m, bad))
<1>1. ASSUME NEW t, Runs(s, t) PROVE Runs(s, Flush(t, bad))
  BY Zenon, <1>1, FlushRuns, RunsOn
<1>2. Rec(s)
  BY DEF Mid
<1>3. /\ Runs(s, [s EXCEPT !.phase = "Greeting", !.state = "ProxyNegotiate"])
      /\ Runs(s, [s EXCEPT !.phase = "HttpConnect", !.state = "ProxyNegotiate"])
      /\ Runs(s, [s EXCEPT !.outer = TRUE, !.state = "ProxyTls"])
  BY Zenon, <1>2, Touched DEF Rec
<1>4. QED
  BY Zenon, <1>1, <1>3, FailRuns DEF ProxyBegin

LEMMA ProxyOuterRuns ==
  ASSUME NEW s, NEW up, NEW bad, Mid(s) PROVE Runs(s, ProxyOuterDrive(s, up, bad))
<1>1. PICK f : f = Flush(s, bad)
  BY Zenon
<1>2. Runs(s, f) /\ Mid(f) /\ Rec(f)
  BY Zenon, <1>1, FlushRuns DEF Runs, Mid
<1>3. Runs(f, [f EXCEPT !.phase = "HttpConnect", !.state = "ProxyNegotiate"])
  BY Zenon, <1>2, Touched DEF Rec
<1>4. Runs(s, [f EXCEPT !.phase = "HttpConnect", !.state = "ProxyNegotiate"])
  BY Zenon, <1>2, <1>3, RunsOn
<1>5. Runs(s, ConnFail(f))
  BY Zenon, <1>2, FailRuns, RunsOn
<1>6. QED
  BY Zenon, <1>1, <1>2, <1>4, <1>5 DEF ProxyOuterDrive

\* conn_proxy_advance and the handshake through the tunnel.
LEMMA ProxyAdvanceEnds ==
  ASSUME NEW s, NEW reply, NEW m, NEW hs, NEW session, NEW bad, Mid(s), Unanswered(s)
  PROVE Ends(s, ProxyAdvance(s, reply, m, hs, session, bad))
<1>1. Rec(s)
  BY DEF Mid
<1>2. ASSUME NEW phase PROVE Runs(s, SendPhase(s, phase, m, bad))
  <2>1. Runs(s, [s EXCEPT !.phase = phase])
    BY Zenon, <1>1, Touched DEF Rec
  <2>2. Runs(s, Flush([s EXCEPT !.phase = phase], bad))
    <3>1. PICK t : t = [s EXCEPT !.phase = phase]
      BY Zenon
    <3>2. Mid(t) => Runs(t, Flush(t, bad))
      BY Zenon, FlushRuns
    <3>3. QED
      BY Zenon, <2>1, <3>1, <3>2, RunsOn
  <2>3. QED
    BY Zenon, <2>2, FailRuns DEF SendPhase
<1>3. Ends(s, TunnelReady(s, hs, session, bad))
  <2>1. PICK t : t = [s EXCEPT !.phase = "None", !.state = "Handshaking"]
    BY Zenon
  <2>2. Runs(s, t)
    BY Zenon, <1>1, <2>1, Touched DEF Rec
  <2>3. Unanswered(t)
    BY <1>1, <2>1 DEF Unanswered, Rec
  <2>4. Mid(t) => Ends(t, DriveHandshake(t, hs, session, "more", bad))
    BY Zenon, <2>3, HandshakeEnds
  <2>5. QED
    BY Zenon, <2>1, <2>2, <2>4, EndsOn DEF TunnelReady
<1>4. Runs(s, s) /\ Runs(s, ConnFail(s))
  BY Zenon, FailRuns DEF Runs
<1>5. QED
  BY Zenon, <1>2, <1>3, <1>4 DEF ProxyAdvance, Ends

-----------------------------------------------------------------------------
(* Opening a connection.                                                       *)

\* conn_begin_tcp_connect
LEMMA BeginRuns == ASSUME NEW s, NEW ok, Mid(s) PROVE Runs(s, BeginTcpConnect(s, ok))
<1>1. Rec(s)
  BY DEF Mid
<1>2. Runs(s, [s EXCEPT !.state = "Connecting", !.connecting = TRUE])
  BY Zenon, <1>1, Touched DEF Rec
<1>3. QED
  BY Zenon, <1>2, FailRuns DEF BeginTcpConnect

\* A request about to open a connection: new, or back from its 0-RTT attempt.
Opening(s) ==
  /\ Rec(s) /\ s.life = "live" /\ s.retrying = FALSE
  /\ s.responded = FALSE /\ s.closing = FALSE /\ s.calls = 0

\* A request whose host name is being resolved.
Waits(s) ==
  /\ Unanswered(s) /\ s.state = "Resolving" /\ s.connecting = FALSE /\ s.reading = FALSE

\* What opening a connection leaves behind.
Opens(s, u) ==
  /\ Mid(u) /\ u.timer = s.timer /\ u.fault = s.fault
  /\ u.resolving = s.resolving \/ Waits(u)

\* conn_connect, on the fields of a fresh Connection.
LEMMA ConnConnectOpens ==
  ASSUME NEW s, NEW open, Opening(s), s.rejected = FALSE, s.ready = FALSE,
         s.connecting = FALSE, s.reading = FALSE
  PROVE Opens(s, ConnConnect(s, open))
<1>1. PICK t : t = [s EXCEPT !.tcp = "open", !.conns = @ + 1]
  BY Zenon
<1>2. /\ Rec(t) /\ t.tcp = "open" /\ t.life = "live" /\ t.retrying = FALSE
      /\ t.responded = FALSE /\ t.closing = FALSE /\ t.calls = 0 /\ t.rejected = FALSE
      /\ t.ready = FALSE /\ t.connecting = FALSE /\ t.reading = FALSE
      /\ t.resolving = s.resolving /\ t.timer = s.timer /\ t.fault = s.fault
  BY <1>1 DEF Opening, Rec
<1>3. Mid(t)
  BY Zenon, <1>2 DEF Mid, Unanswered
<1>4. ASSUME NEW u, Runs(t, u) PROVE Opens(s, u)
  BY Zenon, <1>2, <1>4 DEF Opens, Runs
<1>5. Runs(t, OnReadyFailed([t EXCEPT !.ready = TRUE]))
  <2>1. PICK g : g = [t EXCEPT !.ready = TRUE]
    BY Zenon
  <2>2. Runs(t, g)
    BY Zenon, <1>2, <1>3, <2>1, Touched DEF Rec
  <2>3. g.rejected = FALSE
    BY <1>2, <2>1 DEF Rec
  <2>4. OnReadyFailed(g) = Finish(DeliverError(g))
    BY Zenon, <2>3 DEF OnReadyFailed
  <2>5. QED
    BY Zenon, <2>1, <2>2, <2>4, ErrorRuns, RunsOn
<1>6. Runs(t, BeginTcpConnect([t EXCEPT !.wasCached = TRUE], open = "ok"))
  <2>1. Runs(t, [t EXCEPT !.wasCached = TRUE])
    BY Zenon, <1>2, <1>3, Touched DEF Rec
  <2>2. QED
    BY Zenon, <2>1, BeginRuns, RunsOn
<1>7. Runs(t, ConnFail([t EXCEPT !.state = "Resolving"]))
  <2>1. Runs(t, [t EXCEPT !.state = "Resolving"])
    BY Zenon, <1>2, <1>3, Touched DEF Rec
  <2>2. QED
    BY Zenon, <2>1, FailRuns, RunsOn
<1>8. Opens(s, [t EXCEPT !.state = "Resolving", !.resolving = TRUE])
  <2>1. PICK u : u = [t EXCEPT !.state = "Resolving", !.resolving = TRUE]
    BY Zenon
  <2>2. /\ Rec(u) /\ u.tcp = "open" /\ u.life = "live" /\ u.retrying = FALSE
        /\ u.responded = FALSE /\ u.closing = FALSE /\ u.calls = 0 /\ u.rejected = FALSE
        /\ u.ready = FALSE /\ u.connecting = FALSE /\ u.reading = FALSE
        /\ u.state = "Resolving" /\ u.timer = s.timer /\ u.fault = s.fault
    BY <1>2, <2>1 DEF Rec
  <2>3. QED
    BY Zenon, <2>1, <2>2 DEF Opens, Mid, Unanswered, Waits
<1>9. QED
  BY Zenon, <1>1, <1>4, <1>5, <1>6, <1>7, <1>8 DEF ConnConnect

\* h2req_connect: conn_init resets the Connection and leaves the request alone.
LEMMA ConnectOpens ==
  ASSUME NEW s, NEW allowEarly, NEW open, Opening(s)
  PROVE Opens(s, Connect(s, allowEarly, open))
<1>1. PICK w : w = (allowEarly /\ s.idempotent /\ ticket = "early")
  BY Zenon
<1>2. PICK f : f = [FreshConn EXCEPT !.want = w]
  BY Zenon
<1>3. /\ DOMAIN f = {"state", "tcp", "connecting", "reading", "ready", "earlyFired", "rejected",
                     "want", "wasCached", "phase", "outer", "est", "early", "pending", "stream"}
      /\ f.connecting = FALSE /\ f.reading = FALSE /\ f.ready = FALSE /\ f.rejected = FALSE
  BY <1>2 DEF FreshConn
<1>4. PICK v : v = Over(f, s)
  BY Zenon
<1>5. /\ \A x \in DOMAIN f : x \in DOMAIN v /\ v[x] = f[x]
      /\ \A x \in DOMAIN s : x \notin DOMAIN f => x \in DOMAIN v /\ v[x] = s[x]
  BY <1>4 DEF Over
<1>6. /\ Rec(v) /\ v.connecting = FALSE /\ v.reading = FALSE /\ v.ready = FALSE
      /\ v.rejected = FALSE
  BY <1>3, <1>5 DEF Opening, Rec
<1>7. /\ v.life = s.life /\ v.retrying = s.retrying /\ v.responded = s.responded
      /\ v.closing = s.closing /\ v.calls = s.calls /\ v.resolving = s.resolving
      /\ v.timer = s.timer /\ v.fault = s.fault
  BY <1>3, <1>5 DEF Opening, Rec
<1>8. Opening(v)
  BY Zenon, <1>6, <1>7 DEF Opening
<1>9. Opens(v, ConnConnect(v, open))
  BY Zenon, <1>6, <1>8, ConnConnectOpens
<1>10. Connect(s, allowEarly, open) = ConnConnect(v, open)
  BY Zenon, <1>1, <1>2, <1>4 DEF Connect
<1>11. QED
  BY Zenon, <1>7, <1>9, <1>10 DEF Opens

\* A request that waits for its retry only fails or connects in vain.
LEMMA RetryKept ==
  ASSUME NEW s, NEW ok, Retrying(s)
  PROVE \A t \in {ConnFail(s), BeginTcpConnect(s, ok)} :
          Retrying(t) /\ t.resolving = s.resolving /\ t.timer = s.timer /\ t.fault = s.fault
<1>1. /\ Rec(s) /\ s.ready = TRUE
  BY Zenon DEF Retrying
<1>2. PICK f : f = [s EXCEPT !.state = "Failed"]
  BY Zenon
<1>3. /\ Rec(f) /\ f.life = s.life /\ f.retrying = s.retrying /\ f.ready = s.ready
      /\ f.responded = s.responded /\ f.closing = s.closing /\ f.tcp = s.tcp
      /\ f.calls = s.calls /\ f.resolving = s.resolving /\ f.timer = s.timer
      /\ f.fault = s.fault
  BY <1>1, <1>2 DEF Rec
<1>4. ConnFail(s) = f
  BY Zenon, <1>1, <1>2, <1>3 DEF ConnFail
<1>5. PICK c : c = [s EXCEPT !.state = "Connecting", !.connecting = TRUE]
  BY Zenon
<1>6. /\ Rec(c) /\ c.life = s.life /\ c.retrying = s.retrying /\ c.ready = s.ready
      /\ c.responded = s.responded /\ c.closing = s.closing /\ c.tcp = s.tcp
      /\ c.calls = s.calls /\ c.resolving = s.resolving /\ c.timer = s.timer
      /\ c.fault = s.fault
  BY <1>1, <1>5 DEF Rec
<1>7. Retrying(f) /\ Retrying(c)
  BY Zenon, <1>3, <1>6 DEF Retrying
<1>8. BeginTcpConnect(s, ok) \in {f, c}
  BY Zenon, <1>4, <1>5 DEF BeginTcpConnect
<1>9. QED
  BY Zenon, <1>3, <1>4, <1>6, <1>7, <1>8

-----------------------------------------------------------------------------
(* The invariant, and what a callback does to it.                              *)

\* Only a resolution that outlasts a deadline reaches a request that was recycled.
Fine(s) == (s.fault = FALSE \/ SlowDns) /\ (s.resolving = FALSE \/ SlowDns \/ Waits(s))

\* A request between callbacks.
ReqInv(s) ==
  \/ s = NewReq
  \/ Mid(s) /\ Fine(s)
  \/ Retrying(s) /\ Fine(s)
  \/ /\ Rec(s) /\ s.life = "recycled" /\ s.responded = TRUE /\ s.calls = 1
     /\ s.timer # "armed" /\ (s.fault = FALSE \/ SlowDns)
     /\ s.resolving = FALSE \/ SlowDns

Inv == rq = [r \in Reqs |-> rq[r]] /\ \A r \in Reqs : ReqInv(rq[r])

\* The steps that Exchange allows a request.
Moves(s, t) ==
  \/ Status(t) = Status(s) /\ t.calls = s.calls
  \/ Status(s) = "idle" /\ Status(t) = "pending" /\ t.calls = s.calls
  \/ /\ Status(s) \in {"idle", "pending"} /\ Status(t) \in {"answered", "released"}
     /\ t.calls = s.calls + 1
  \/ Status(s) = "answered" /\ Status(t) = "released" /\ t.calls = s.calls

\* A callback that is one of the request's moves.
Moved(r) ==
  \E t : rq' = [rq EXCEPT ![r] = t] /\ ReqInv(t) /\ Moves(rq[r], t)

\* What a caller can tell in each of the states of the invariant.
LEMMA Statuses ==
  ASSUME NEW s
  PROVE /\ Unanswered(s) /\ s.life = "live" => Status(s) = "pending" /\ s.calls = 0
        /\ Retrying(s) => Status(s) = "pending" /\ s.calls = 0
        /\ Gone(s) /\ s.life = "live" => Status(s) = "answered" /\ s.calls = 1
        /\ s.life = "recycled" => Status(s) = "released"
        /\ s.life = "new" => Status(s) = "idle"
<1>1. /\ "live" # "new" /\ "live" # "recycled" /\ "recycled" # "new"
  OBVIOUS
<1>2. QED
  BY Zenon, <1>1 DEF Unanswered, Retrying, Gone, Status

\* A new request has been told nothing.
LEMMA NewFields ==
  /\ Rec(NewReq) /\ NewReq.life = "new" /\ NewReq.responded = FALSE /\ NewReq.calls = 0
  /\ NewReq.closing = FALSE /\ NewReq.retrying = FALSE /\ NewReq.resolving = FALSE
  /\ NewReq.timer = "off" /\ NewReq.fault = FALSE /\ NewReq.tcp = "none"
  /\ NewReq.connecting = FALSE /\ NewReq.reading = FALSE
<1>1. PICK n : n = [life |-> "new", idempotent |-> FALSE, resolving |-> FALSE, proxy |-> "None",
                    bind |-> "none", session |-> "none", responded |-> FALSE, closing |-> FALSE,
                    submitted |-> FALSE, retrying |-> FALSE, retried |-> FALSE, timer |-> "off",
                    calls |-> 0, conns |-> 0, served |-> 0, fault |-> FALSE]
  BY Zenon
<1>2. /\ {"life", "resolving", "responded", "closing", "retrying", "retried", "timer", "calls",
          "fault"} \subseteq DOMAIN n
      /\ n.life = "new" /\ n.responded = FALSE /\ n.calls = 0 /\ n.closing = FALSE
      /\ n.retrying = FALSE /\ n.resolving = FALSE /\ n.timer = "off" /\ n.fault = FALSE
  BY <1>1
<1>3. /\ DOMAIN FreshConn =
            {"state", "tcp", "connecting", "reading", "ready", "earlyFired", "rejected",
             "want", "wasCached", "phase", "outer", "est", "early", "pending", "stream"}
      /\ FreshConn.connecting = FALSE /\ FreshConn.reading = FALSE /\ FreshConn.tcp = "none"
  BY DEF FreshConn
<1>4. NewReq = Over(FreshConn, n)
  BY Zenon, <1>1 DEF NewReq
<1>5. /\ \A x \in DOMAIN FreshConn : x \in DOMAIN NewReq /\ NewReq[x] = FreshConn[x]
      /\ \A x \in DOMAIN n : x \notin DOMAIN FreshConn => x \in DOMAIN NewReq /\ NewReq[x] = n[x]
  BY <1>4 DEF Over
<1>6. Rec(NewReq)
  BY <1>2, <1>3, <1>5 DEF Rec
<1>7. QED
  BY <1>2, <1>3, <1>5, <1>6

\* A live request whose handle is open has not been answered; one whose handle is
\* closing has been, or is about to retry.
LEMMA LiveCases ==
  ASSUME NEW s, ReqInv(s), s.life = "live"
  PROVE /\ Fine(s) /\ Rec(s)
        /\ s.tcp = "open" => Mid(s) /\ Unanswered(s)
        /\ s.tcp # "open" => ~Waits(s) /\ ((Mid(s) /\ Gone(s)) \/ Retrying(s))
<1>1. s # NewReq /\ "live" # "recycled" /\ "open" # "closing"
  BY NewFields
<1>2. CASE Mid(s) /\ Fine(s)
  <2>1. Unanswered(s) => s.tcp = "open"
    BY DEF Unanswered
  <2>2. Gone(s) => s.tcp # "open"
    BY DEF Gone
  <2>3. QED
    BY Zenon, <1>2, <2>1, <2>2 DEF Mid, Waits
<1>3. CASE Retrying(s) /\ Fine(s)
  <2>1. s.tcp # "open"
    BY <1>3 DEF Retrying
  <2>2. ~Waits(s) /\ Rec(s)
    BY Zenon, <1>3, <2>1 DEF Waits, Unanswered, Retrying
  <2>3. QED
    BY Zenon, <1>3, <2>1, <2>2
<1>4. QED
  BY Zenon, <1>1, <1>2, <1>3 DEF ReqInv

\* The end of a callback is a move of its request.
LEMMA EndsMove ==
  ASSUME NEW s, NEW t, Mid(s), Ends(s, t),
         s.fault = FALSE \/ SlowDns, s.resolving = FALSE \/ SlowDns
  PROVE ReqInv(t) /\ Moves(s, t)
<1>1. s.life = "live" /\ (Unanswered(s) \/ Gone(s))
  BY Zenon DEF Mid
<1>2. CASE Runs(s, t)
  <2>1. Mid(t) /\ Fine(t) /\ t.life = "live" /\ (Unanswered(t) \/ Gone(t)) /\ (Gone(s) => Gone(t))
    BY Zenon, <1>2 DEF Runs, Fine, Mid
  <2>2. ReqInv(t)
    BY Zenon, <2>1 DEF ReqInv
  <2>3. CASE Unanswered(s) /\ Unanswered(t)
    BY Zenon, <1>1, <2>1, <2>2, <2>3, Statuses DEF Moves
  <2>4. CASE Unanswered(s) /\ Gone(t)
    <3>1. t.calls = s.calls + 1 /\ Status(s) = "pending" /\ Status(t) = "answered"
      BY <1>1, <2>1, <2>4, Statuses
    <3>2. QED
      BY <2>2, <3>1 DEF Moves
  <2>5. CASE Gone(s) /\ Gone(t)
    BY Zenon, <1>1, <2>1, <2>2, <2>5, Statuses DEF Moves
  <2>6. QED
    BY Zenon, <1>1, <2>1, <2>3, <2>4, <2>5
<1>3. CASE /\ Unanswered(s) /\ Retrying(t)
           /\ t.resolving = s.resolving /\ t.timer = s.timer /\ t.fault = s.fault
  <2>1. Fine(t)
    BY Zenon, <1>3 DEF Fine
  <2>2. QED
    BY Zenon, <1>1, <1>3, <2>1, Statuses DEF ReqInv, Moves
<1>4. QED
  BY Zenon, <1>2, <1>3 DEF Ends

-----------------------------------------------------------------------------
(* The callbacks.                                                              *)

\* A callback on a live request whose handle is open: the request is unanswered
\* and, if it has gone past its resolution, no resolution is pending.
LEMMA OpenCases ==
  ASSUME Inv, NEW r \in Reqs, Open(r), rq[r].connecting \/ rq[r].reading
  PROVE /\ Mid(rq[r]) /\ Unanswered(rq[r]) /\ Rec(rq[r])
        /\ rq[r].fault = FALSE \/ SlowDns
        /\ rq[r].resolving = FALSE \/ SlowDns
<1>1. ReqInv(rq[r]) /\ rq[r].life = "live" /\ rq[r].tcp = "open"
  BY Zenon DEF Inv, Open, Live
<1>2. Fine(rq[r]) /\ Mid(rq[r]) /\ Unanswered(rq[r]) /\ Rec(rq[r])
  BY Zenon, <1>1, LiveCases
<1>3. ~Waits(rq[r])
  BY Zenon DEF Waits
<1>4. QED
  BY Zenon, <1>2, <1>3 DEF Fine

\* Such a callback first writes fields the argument is not about.
LEMMA CallbackMoves ==
  ASSUME Inv, NEW r \in Reqs, Open(r), rq[r].connecting \/ rq[r].reading,
         NEW s, NEW t, Runs(rq[r], s), Mid(s) => Ends(s, t), Step(r, t)
  PROVE Moved(r)
<1>1. /\ Mid(rq[r]) /\ (rq[r].fault = FALSE \/ SlowDns)
      /\ (rq[r].resolving = FALSE \/ SlowDns)
  BY Zenon, OpenCases
<1>2. Ends(rq[r], t)
  BY Zenon, <1>1, EndsOn
<1>3. QED
  BY Zenon, <1>1, <1>2, EndsMove DEF Moved, Step

\* h2req_start
LEMMA StartMoves == ASSUME Inv, NEW r \in Reqs, Start(r) PROVE Moved(r)
<1>1. rq[r] = NewReq
  <2>1. rq[r].life = "new" /\ ReqInv(rq[r])
    BY Zenon DEF Start, Inv
  <2>2. rq[r].life # "live" /\ rq[r].life # "recycled"
    BY <2>1
  <2>3. QED
    BY Zenon, <2>1, <2>2 DEF ReqInv, Mid, Retrying
<1>2. CASE Step(r, [Answered(rq[r]) EXCEPT !.life = "recycled"])
  <2>1. PICK t : t = [Answered(NewReq) EXCEPT !.life = "recycled"]
    BY Zenon
  <2>2. /\ Rec(t) /\ t.life = "recycled" /\ t.responded = TRUE /\ t.calls = NewReq.calls + 1
        /\ t.timer = NewReq.timer /\ t.fault = NewReq.fault /\ t.resolving = NewReq.resolving
    BY <2>1, NewFields DEF Answered, Rec
  <2>3. t.calls = 1 /\ t.timer # "armed" /\ t.fault = FALSE /\ t.resolving = FALSE
    BY <2>2, NewFields
  <2>4. Status(NewReq) = "idle" /\ Status(t) = "released"
    BY Zenon, <2>2, NewFields, Statuses
  <2>5. ReqInv(t) /\ Moves(NewReq, t)
    BY Zenon, <2>2, <2>3, <2>4 DEF ReqInv, Moves
  <2>6. QED
    BY Zenon, <1>1, <1>2, <2>1, <2>5 DEF Moved, Step
<1>3. ASSUME NEW proxy, NEW bind, NEW timer, NEW safe, NEW open,
             Step(r, Connect([rq[r] EXCEPT !.life = "live", !.proxy = proxy, !.bind = bind,
                                        !.timer = timer, !.idempotent = safe], TRUE, open))
      PROVE Moved(r)
  <2>1. PICK s : s = [NewReq EXCEPT !.life = "live", !.proxy = proxy, !.bind = bind,
                                    !.timer = timer, !.idempotent = safe]
    BY Zenon
  <2>2. /\ Rec(s) /\ s.life = "live" /\ s.retrying = FALSE /\ s.responded = FALSE
        /\ s.closing = FALSE /\ s.calls = 0 /\ s.fault = FALSE /\ s.resolving = FALSE
    BY <2>1, NewFields DEF Rec
  <2>3. PICK t : t = Connect(s, TRUE, open)
    BY Zenon
  <2>4. Opens(s, t)
    BY Zenon, <2>2, <2>3, ConnectOpens DEF Opening
  <2>5. Mid(t) /\ Fine(t)
    BY Zenon, <2>2, <2>4 DEF Opens, Fine
  <2>6. Status(NewReq) = "idle" /\ NewReq.calls = 0
    BY Zenon, NewFields, Statuses
  <2>7. Unanswered(t) => Moves(NewReq, t)
    BY Zenon, <2>5, <2>6, Statuses DEF Moves, Mid
  <2>8. ASSUME Gone(t) PROVE Moves(NewReq, t)
    <3>1. Status(t) = "answered" /\ t.calls = 1
      BY Zenon, <2>5, <2>8, Statuses DEF Mid
    <3>2. t.calls = NewReq.calls + 1
      BY <2>6, <3>1
    <3>3. QED
      BY Zenon, <2>6, <3>1, <3>2 DEF Moves
  <2>9. Moves(NewReq, t)
    BY Zenon, <2>5, <2>7, <2>8 DEF Mid
  <2>10. QED
    BY Zenon, <1>1, <1>3, <2>1, <2>3, <2>5, <2>9 DEF Moved, Step, ReqInv
<1>4. \/ Step(r, [Answered(rq[r]) EXCEPT !.life = "recycled"])
      \/ \E proxy \in Proxies, bind \in {"none", "v4"}, timer \in {"off", "armed"},
            safe \in BOOLEAN, open \in {"ok", "tls", "refused"} :
           Step(r, Connect([rq[r] EXCEPT !.life = "live", !.proxy = proxy, !.bind = bind,
                                         !.timer = timer, !.idempotent = safe], TRUE, open))
  BY Zenon DEF Start
<1>5. CASE \E proxy \in Proxies, bind \in {"none", "v4"}, timer \in {"off", "armed"},
            safe \in BOOLEAN, open \in {"ok", "tls", "refused"} :
           Step(r, Connect([rq[r] EXCEPT !.life = "live", !.proxy = proxy, !.bind = bind,
                                         !.timer = timer, !.idempotent = safe], TRUE, open))
  <2>1. PICK proxy \in Proxies, bind \in {"none", "v4"}, timer \in {"off", "armed"},
             safe \in BOOLEAN, open \in {"ok", "tls", "refused"} :
           Step(r, Connect([rq[r] EXCEPT !.life = "live", !.proxy = proxy, !.bind = bind,
                                         !.timer = timer, !.idempotent = safe], TRUE, open))
    BY Zenon, <1>5
  <2>2. QED
    BY Zenon, <1>3, <2>1
<1>6. QED
  BY Zenon, <1>2, <1>4, <1>5

\* conn_on_resolved
LEMMA ResolvedMoves == ASSUME Inv, NEW r \in Reqs, Resolved(r) PROVE Moved(r)
<1>1. PICK s : s = [rq[r] EXCEPT !.resolving = FALSE]
  BY Zenon
<1>2. ReqInv(rq[r]) /\ rq[r].resolving
  BY Zenon DEF Resolved, Inv
<1>3. PICK t : /\ rq' = [rq EXCEPT ![r] = t]
               /\ \/ s.life = "recycled" /\ t = [s EXCEPT !.fault = TRUE]
                  \/ s.life # "recycled" /\ t = ConnFail(s)
                  \/ s.life # "recycled" /\ \E ok \in BOOLEAN : t = BeginTcpConnect(s, ok)
  BY Zenon, <1>1 DEF Resolved, Step
<1>4. Rec(rq[r]) /\ rq[r] # NewReq
  <2>1. rq[r] # NewReq
    BY <1>2, NewFields
  <2>2. QED
    BY Zenon, <1>2, <2>1 DEF ReqInv, Mid, Retrying
<1>5. /\ Rec(s) /\ s.life = rq[r].life /\ s.responded = rq[r].responded /\ s.calls = rq[r].calls
      /\ s.closing = rq[r].closing /\ s.tcp = rq[r].tcp /\ s.retrying = rq[r].retrying
      /\ s.rejected = rq[r].rejected /\ s.ready = rq[r].ready /\ s.timer = rq[r].timer
      /\ s.fault = rq[r].fault /\ s.resolving = FALSE
  BY <1>1, <1>4 DEF Rec
<1>6. Status(s) = Status(rq[r])
  BY Zenon, <1>5 DEF Status
<1>7. CASE s.life = "recycled"
  <2>1. t = [s EXCEPT !.fault = TRUE] /\ s.life # "live"
    BY <1>3, <1>7
  <2>2. /\ Rec(t) /\ t.life = s.life /\ t.responded = s.responded /\ t.calls = s.calls
        /\ t.timer = s.timer /\ t.resolving = FALSE
    BY <1>5, <2>1 DEF Rec
  <2>3. /\ SlowDns /\ s.responded = TRUE /\ s.calls = 1 /\ s.timer # "armed"
    BY Zenon, <1>2, <1>4, <1>5, <2>1 DEF ReqInv, Mid, Retrying
  <2>4. ReqInv(t)
    BY Zenon, <1>7, <2>2, <2>3 DEF ReqInv
  <2>5. Status(t) = Status(s)
    BY Zenon, <2>2 DEF Status
  <2>6. QED
    BY Zenon, <1>3, <1>5, <1>6, <2>2, <2>4, <2>5 DEF Moved, Moves
<1>8. CASE s.life # "recycled"
  <2>1. s.life = "live" /\ (s.fault = FALSE \/ SlowDns)
    BY Zenon, <1>2, <1>4, <1>5, <1>8 DEF ReqInv, Mid, Retrying, Fine
  <2>2. CASE Mid(rq[r])
    <3>1. Mid(s)
      BY Zenon, <1>5, <2>2 DEF Mid, Unanswered, Gone
    <3>2. Runs(s, t)
      BY Zenon, <1>3, <1>8, <3>1, FailRuns, BeginRuns
    <3>3. ReqInv(t) /\ Moves(s, t)
      BY Zenon, <1>5, <2>1, <3>1, <3>2, EndsMove DEF Ends
    <3>4. QED
      BY Zenon, <1>3, <1>5, <1>6, <3>3 DEF Moved, Moves
  <2>3. CASE Retrying(rq[r])
    <3>1. Retrying(s)
      BY Zenon, <1>5, <2>3 DEF Retrying
    <3>2. Retrying(t) /\ t.resolving = s.resolving /\ t.fault = s.fault
      <4>1. PICK ok : t \in {ConnFail(s), BeginTcpConnect(s, ok)}
        BY Zenon, <1>3, <1>8
      <4>2. QED
        BY Zenon, <3>1, <4>1, RetryKept
    <3>3. ReqInv(t)
      BY Zenon, <1>5, <2>1, <3>2 DEF ReqInv, Fine
    <3>4. Status(t) = Status(rq[r]) /\ t.calls = rq[r].calls
      BY Zenon, <2>3, <3>2, Statuses
    <3>5. QED
      BY Zenon, <1>3, <3>3, <3>4 DEF Moved, Moves
  <2>4. QED
    BY Zenon, <1>2, <1>4, <1>5, <1>8, <2>2, <2>3 DEF ReqInv
<1>9. QED
  BY Zenon, <1>7, <1>8

\* conn_on_connected
LEMMA ConnectedMoves == ASSUME Inv, NEW r \in Reqs, Connected(r) PROVE Moved(r)
<1>1. Open(r) /\ rq[r].connecting
  BY Zenon DEF Connected
<1>2. Mid(rq[r]) /\ Unanswered(rq[r]) /\ Rec(rq[r])
  BY Zenon, <1>1, OpenCases
<1>3. PICK s : s = [rq[r] EXCEPT !.connecting = FALSE, !.reading = TRUE]
  BY Zenon
<1>4. PICK h : h = [s EXCEPT !.state = "Handshaking"]
  BY Zenon
<1>5. PICK f : f = [rq[r] EXCEPT !.connecting = FALSE]
  BY Zenon
<1>6. Runs(rq[r], s) /\ Runs(rq[r], f) /\ Rec(s) /\ Unanswered(s)
  <2>1. Runs(rq[r], s) /\ Runs(rq[r], f)
    BY Zenon, <1>2, <1>3, <1>5, Touched DEF Rec
  <2>2. Rec(s) /\ Unanswered(s)
    BY <1>2, <1>3 DEF Rec, Unanswered
  <2>3. QED
    BY <2>1, <2>2
<1>7. Runs(rq[r], h) /\ Unanswered(h)
  <2>1. Mid(s) => Runs(s, h)
    BY Zenon, <1>4, <1>6, Touched DEF Rec
  <2>2. Runs(rq[r], h)
    BY Zenon, <1>6, <2>1, RunsOn
  <2>3. Unanswered(h)
    BY <1>4, <1>6 DEF Rec, Unanswered
  <2>4. QED
    BY <2>2, <2>3
<1>8. \/ Step(r, ConnFail(f))
      \/ \E hs \in FirstHs(s), session \in {"h1", "h2", "fail"}, bad \in WriteFaults :
           Step(r, DriveHandshake(h, hs, session, "more", bad))
      \/ \E m \in BOOLEAN, bad \in WriteFaults : Step(r, ProxyBegin(s, m, bad))
  BY <1>3, <1>4, <1>5 DEF Connected, ConnectFailed
<1>9. CASE Step(r, ConnFail(f))
  <2>1. Mid(f) => Ends(f, ConnFail(f))
    BY Zenon, FailRuns DEF Ends
  <2>2. QED
    BY Zenon, <1>1, <1>6, <1>9, <2>1, CallbackMoves
<1>10. ASSUME NEW hs, NEW session, NEW bad,
              Step(r, DriveHandshake(h, hs, session, "more", bad))
       PROVE Moved(r)
  <2>1. Mid(h) => Ends(h, DriveHandshake(h, hs, session, "more", bad))
    BY Zenon, <1>7, HandshakeEnds
  <2>2. QED
    BY Zenon, <1>1, <1>7, <1>10, <2>1, CallbackMoves
<1>11. ASSUME NEW m, NEW bad, Step(r, ProxyBegin(s, m, bad)) PROVE Moved(r)
  <2>1. Mid(s) => Ends(s, ProxyBegin(s, m, bad))
    BY Zenon, ProxyBeginRuns DEF Ends
  <2>2. QED
    BY Zenon, <1>1, <1>6, <1>11, <2>1, CallbackMoves
<1>12. QED
  BY Zenon, <1>8, <1>9, <1>10, <1>11

\* conn_read_cb with the proxy's bytes.
LEMMA ReadProxyMoves == ASSUME Inv, NEW r \in Reqs, ReadProxy(r) PROVE Moved(r)
<1>1. Open(r) /\ rq[r].reading
  BY Zenon DEF ReadProxy, Readable
<1>2. Mid(rq[r]) /\ Unanswered(rq[r]) /\ Runs(rq[r], rq[r])
  BY Zenon, <1>1, OpenCases DEF Runs
<1>3. PICK m \in BOOLEAN, bad \in WriteFaults :
        \/ \E up \in {"Done", "WantIo", "Error"} : Step(r, ProxyOuterDrive(rq[r], up, bad))
        \/ \E reply \in Replies(rq[r]), hs \in FirstHs(rq[r]), session \in {"h1", "h2", "fail"} :
             Step(r, ProxyAdvance(rq[r], reply, m, hs, session, bad))
  BY Zenon DEF ReadProxy
<1>4. ASSUME NEW up, Step(r, ProxyOuterDrive(rq[r], up, bad)) PROVE Moved(r)
  <2>1. Ends(rq[r], ProxyOuterDrive(rq[r], up, bad))
    BY Zenon, <1>2, ProxyOuterRuns DEF Ends
  <2>2. QED
    BY Zenon, <1>1, <1>2, <1>4, <2>1, CallbackMoves
<1>5. ASSUME NEW reply, NEW hs, NEW session,
             Step(r, ProxyAdvance(rq[r], reply, m, hs, session, bad))
      PROVE Moved(r)
  <2>1. Ends(rq[r], ProxyAdvance(rq[r], reply, m, hs, session, bad))
    BY Zenon, <1>2, ProxyAdvanceEnds
  <2>2. QED
    BY Zenon, <1>1, <1>2, <1>5, <2>1, CallbackMoves
<1>6. QED
  BY Zenon, <1>3, <1>4, <1>5

\* conn_read_cb with the target's bytes.
LEMMA ReadTargetMoves == ASSUME Inv, NEW r \in Reqs, ReadTarget(r) PROVE Moved(r)
<1>1. Open(r) /\ rq[r].reading
  BY Zenon DEF ReadTarget, Readable
<1>2. Mid(rq[r]) /\ Unanswered(rq[r]) /\ Runs(rq[r], rq[r])
  BY Zenon, <1>1, OpenCases DEF Runs
<1>3. PICK bad \in WriteFaults, in \in {"more", "response", "broken"} :
        \/ \E hs \in LaterHs(rq[r]), session \in {"h1", "h2", "fail"} :
             Step(r, DriveHandshake(rq[r], hs, session, in, bad))
        \/ Step(r, Drain(Flush(rq[r], bad), in))
  BY Zenon DEF ReadTarget
<1>4. ASSUME NEW hs, NEW session, Step(r, DriveHandshake(rq[r], hs, session, in, bad))
      PROVE Moved(r)
  <2>1. Ends(rq[r], DriveHandshake(rq[r], hs, session, in, bad))
    BY Zenon, <1>2, HandshakeEnds
  <2>2. QED
    BY Zenon, <1>1, <1>2, <1>4, <2>1, CallbackMoves
<1>5. CASE Step(r, Drain(Flush(rq[r], bad), in))
  <2>1. PICK f : f = Flush(rq[r], bad)
    BY Zenon
  <2>2. Runs(rq[r], f)
    BY Zenon, <1>2, <2>1, FlushRuns
  <2>3. Mid(f) => Ends(f, Drain(f, in))
    BY Zenon, DrainRuns DEF Ends
  <2>4. QED
    BY Zenon, <1>1, <1>5, <2>1, <2>2, <2>3, CallbackMoves
<1>6. QED
  BY Zenon, <1>3, <1>4, <1>5

\* conn_read_cb at the end of the stream.
LEMMA ReadEndMoves == ASSUME Inv, NEW r \in Reqs, ReadEnd(r) PROVE Moved(r)
<1>1. Open(r) /\ rq[r].reading
  BY Zenon DEF ReadEnd, Readable
<1>2. Mid(rq[r]) /\ Unanswered(rq[r]) /\ Rec(rq[r])
  BY Zenon, <1>1, OpenCases
<1>3. PICK s : s = [rq[r] EXCEPT !.reading = FALSE]
  BY Zenon
<1>4. PICK c : c = [s EXCEPT !.state = "Closing"]
  BY Zenon
<1>5. Runs(rq[r], s) /\ Rec(s)
  <2>1. Runs(rq[r], s)
    BY Zenon, <1>2, <1>3, Touched DEF Rec
  <2>2. QED
    BY Zenon, <2>1 DEF Runs, Mid
<1>6. Runs(rq[r], c)
  <2>1. Mid(s) => Runs(s, c)
    BY Zenon, <1>4, <1>5, Touched DEF Rec
  <2>2. QED
    BY Zenon, <1>5, <2>1, RunsOn
<1>7. PICK t \in {ConnFail(s), c, Finish(DeliverError(c)), TcpDeliver(c)} : Step(r, t)
  BY Zenon, <1>3, <1>4 DEF ReadEnd
<1>8. CASE t = ConnFail(s)
  <2>1. Mid(s) => Ends(s, t)
    BY Zenon, <1>8, FailRuns DEF Ends
  <2>2. QED
    BY Zenon, <1>1, <1>5, <1>7, <2>1, CallbackMoves
<1>9. CASE t \in {c, Finish(DeliverError(c)), TcpDeliver(c)}
  <2>1. Mid(c) => Runs(c, c)
    BY Zenon DEF Runs
  <2>2. Mid(c) => Ends(c, t)
    BY Zenon, <1>9, <2>1, ErrorRuns, DeliverRuns DEF Ends
  <2>3. QED
    BY Zenon, <1>1, <1>6, <1>7, <2>2, CallbackMoves
<1>10. QED
  BY Zenon, <1>7, <1>8, <1>9

\* h2req_on_timeout
LEMMA TimeoutMoves == ASSUME Inv, NEW r \in Reqs, Timeout(r) PROVE Moved(r)
<1>1. PICK s : s = [rq[r] EXCEPT !.timer = "fired"]
  BY Zenon
<1>2. /\ ReqInv(rq[r]) /\ rq[r].timer = "armed" /\ rq[r].tcp # "closing"
      /\ rq[r].state = "Resolving" => SlowDns
  BY Zenon DEF Timeout, Inv
<1>3. rq[r] # NewReq /\ "open" # "closing"
  BY <1>2, NewFields
<1>4. Mid(rq[r]) /\ Unanswered(rq[r]) /\ Rec(rq[r]) /\ Fine(rq[r])
  BY Zenon, <1>2, <1>3 DEF ReqInv, Retrying, Mid, Gone
<1>5. ~Waits(rq[r]) \/ SlowDns
  BY Zenon, <1>2 DEF Waits
<1>6. /\ Rec(s) /\ s.life = rq[r].life /\ s.responded = rq[r].responded /\ s.calls = rq[r].calls
      /\ s.closing = rq[r].closing /\ s.tcp = rq[r].tcp /\ s.retrying = rq[r].retrying
      /\ s.rejected = rq[r].rejected /\ s.ready = rq[r].ready
      /\ s.fault = rq[r].fault /\ s.resolving = rq[r].resolving
  BY <1>1, <1>4 DEF Rec
<1>7. Mid(s) /\ (s.fault = FALSE \/ SlowDns) /\ (s.resolving = FALSE \/ SlowDns)
  BY Zenon, <1>4, <1>5, <1>6 DEF Mid, Unanswered, Fine
<1>8. s.life # "recycled"
  BY <1>7 DEF Mid
<1>9. rq' = [rq EXCEPT ![r] = Finish(DeliverError(s))]
  BY Zenon, <1>1, <1>8 DEF Timeout, Step
<1>10. ReqInv(Finish(DeliverError(s))) /\ Moves(s, Finish(DeliverError(s)))
  BY Zenon, <1>7, ErrorRuns, EndsMove DEF Ends
<1>11. Status(s) = Status(rq[r])
  BY Zenon, <1>6 DEF Status
<1>12. QED
  BY Zenon, <1>6, <1>9, <1>10, <1>11 DEF Moved, Moves

\* The close callback: the retry, or the end.
LEMMA FullyClosedMoves == ASSUME Inv, NEW r \in Reqs, FullyClosed(r) PROVE Moved(r)
<1>1. PICK e : e = IF rq[r].connecting THEN ConnectFailed(rq[r]) ELSE rq[r]
  BY Zenon
<1>2. PICK s : s = [e EXCEPT !.tcp = "none", !.session = "none"]
  BY Zenon
<1>3. ReqInv(rq[r]) /\ rq[r].life = "live" /\ rq[r].tcp = "closing"
  BY Zenon DEF FullyClosed, Inv, Live
<1>4. /\ Fine(rq[r]) /\ Rec(rq[r]) /\ ~Waits(rq[r])
      /\ (Mid(rq[r]) /\ Gone(rq[r])) \/ Retrying(rq[r])
  <2>1. rq[r].tcp # "open"
    BY <1>3
  <2>2. QED
    BY Zenon, <1>3, <2>1, LiveCases
<1>5. /\ rq[r].fault = FALSE \/ SlowDns
      /\ rq[r].resolving = FALSE \/ SlowDns
  BY Zenon, <1>4 DEF Fine
<1>6. PICK f : f = [rq[r] EXCEPT !.connecting = FALSE]
  BY Zenon
<1>7. /\ Mid(rq[r]) /\ Gone(rq[r]) => Mid(e) /\ Gone(e)
      /\ Retrying(rq[r]) => Retrying(e)
      /\ e.fault = rq[r].fault /\ e.resolving = rq[r].resolving /\ e.timer = rq[r].timer
  <2>1. CASE Mid(rq[r]) /\ Gone(rq[r])
    <3>1. Runs(rq[r], f)
      BY Zenon, <1>4, <1>6, <2>1, Touched DEF Rec
    <3>2. Runs(rq[r], ConnFail(f))
      BY Zenon, <3>1, FailRuns, RunsOn
    <3>3. Runs(rq[r], rq[r])
      BY Zenon, <2>1 DEF Runs
    <3>4. Runs(rq[r], e)
      BY Zenon, <1>1, <1>6, <3>2, <3>3 DEF ConnectFailed
    <3>5. ~Retrying(rq[r])
      BY Zenon, <2>1 DEF Retrying, Gone
    <3>6. QED
      BY Zenon, <2>1, <3>4, <3>5 DEF Runs
  <2>2. CASE Retrying(rq[r])
    <3>1. /\ Rec(f) /\ f.life = rq[r].life /\ f.retrying = rq[r].retrying /\ f.ready = rq[r].ready
          /\ f.responded = rq[r].responded /\ f.closing = rq[r].closing /\ f.tcp = rq[r].tcp
          /\ f.calls = rq[r].calls /\ f.resolving = rq[r].resolving /\ f.timer = rq[r].timer
          /\ f.fault = rq[r].fault
      BY <1>4, <1>6 DEF Rec
    <3>2. Retrying(f)
      BY Zenon, <2>2, <3>1 DEF Retrying
    <3>3. /\ Retrying(ConnFail(f)) /\ ConnFail(f).resolving = f.resolving
          /\ ConnFail(f).timer = f.timer /\ ConnFail(f).fault = f.fault
      BY Zenon, <3>2, RetryKept
    <3>4. ~Gone(rq[r])
      BY Zenon, <2>2 DEF Retrying, Gone
    <3>5. e = ConnFail(f) \/ e = rq[r]
      BY Zenon, <1>1, <1>6 DEF ConnectFailed
    <3>6. QED
      BY Zenon, <2>2, <3>1, <3>3, <3>4, <3>5
  <2>3. QED
    BY Zenon, <1>4, <2>1, <2>2
<1>8. Rec(e)
  BY Zenon, <1>4, <1>7 DEF Mid, Retrying
<1>9. /\ Rec(s) /\ s.life = e.life /\ s.retrying = e.retrying /\ s.responded = e.responded
      /\ s.closing = e.closing /\ s.calls = e.calls /\ s.resolving = e.resolving
      /\ s.timer = e.timer /\ s.fault = e.fault
  BY <1>2, <1>8 DEF Rec
<1>10. CASE Mid(rq[r]) /\ Gone(rq[r])
  <2>1. PICK t : t = [s EXCEPT !.life = "recycled", !.timer = IF @ = "off" THEN "off" ELSE "closed"]
    BY Zenon
  <2>2. s.retrying = FALSE /\ s.responded = TRUE /\ s.calls = 1
    BY Zenon, <1>7, <1>9, <1>10 DEF Mid, Gone
  <2>3. rq' = [rq EXCEPT ![r] = t]
    BY Zenon, <1>1, <1>2, <2>1, <2>2 DEF FullyClosed, Step
  <2>4. /\ Rec(t) /\ t.life = "recycled" /\ t.responded = TRUE /\ t.calls = 1
        /\ t.timer # "armed" /\ t.fault = s.fault /\ t.resolving = s.resolving
    BY <1>9, <2>1, <2>2 DEF Rec
  <2>5. ReqInv(t)
    BY Zenon, <1>5, <1>7, <1>9, <2>4 DEF ReqInv
  <2>6. Status(rq[r]) = "answered" /\ rq[r].calls = 1 /\ Status(t) = "released"
    BY Zenon, <1>3, <1>10, <2>4, Statuses
  <2>7. QED
    BY Zenon, <2>3, <2>4, <2>5, <2>6 DEF Moved, Moves
<1>11. CASE Retrying(rq[r])
  <2>1. PICK o : o = [s EXCEPT !.retrying = FALSE, !.closing = FALSE, !.submitted = FALSE]
    BY Zenon
  <2>2. s.retrying = TRUE /\ s.responded = FALSE /\ s.calls = 0 /\ s.life = "live"
    BY Zenon, <1>7, <1>9, <1>11 DEF Retrying
  <2>3. PICK open \in {"ok", "tls", "refused"} : rq' = [rq EXCEPT ![r] = Connect(o, FALSE, open)]
    BY Zenon, <1>1, <1>2, <2>1, <2>2 DEF FullyClosed, Step
  <2>4. /\ Rec(o) /\ o.life = s.life /\ o.retrying = FALSE /\ o.responded = s.responded
        /\ o.closing = FALSE /\ o.calls = s.calls /\ o.fault = s.fault
        /\ o.resolving = s.resolving
    BY <1>9, <2>1 DEF Rec
  <2>5. PICK t : t = Connect(o, FALSE, open)
    BY Zenon
  <2>6. Opens(o, t)
    BY Zenon, <2>2, <2>4, <2>5, ConnectOpens DEF Opening
  <2>7. Mid(t) /\ Fine(t)
    BY Zenon, <1>5, <1>7, <1>9, <2>4, <2>6 DEF Opens, Fine
  <2>8. Status(rq[r]) = "pending" /\ rq[r].calls = 0
    BY Zenon, <1>11, Statuses
  <2>9. Unanswered(t) => Moves(rq[r], t)
    BY Zenon, <2>7, <2>8, Statuses DEF Moves, Mid
  <2>10. ASSUME Gone(t) PROVE Moves(rq[r], t)
    <3>1. Status(t) = "answered" /\ t.calls = 1
      BY Zenon, <2>7, <2>10, Statuses DEF Mid
    <3>2. t.calls = rq[r].calls + 1
      BY <2>8, <3>1
    <3>3. QED
      BY Zenon, <2>8, <3>1, <3>2 DEF Moves
  <2>11. QED
    BY Zenon, <2>3, <2>5, <2>7, <2>9, <2>10 DEF Moved, Mid, ReqInv
<1>12. QED
  BY Zenon, <1>4, <1>10, <1>11

-----------------------------------------------------------------------------
(* The theorems.                                                               *)

\* Every callback is a move of one request; the caches are nobody's.
LEMMA NextMoves ==
  ASSUME Inv, [Next]_vars PROVE rq' = rq \/ \E r \in Reqs : Moved(r)
<1>1. CASE \E r \in Reqs : \/ Start(r) \/ Resolved(r) \/ Connected(r) \/ ReadProxy(r)
                           \/ ReadTarget(r) \/ ReadEnd(r) \/ Timeout(r) \/ FullyClosed(r)
  BY Zenon, <1>1, StartMoves, ResolvedMoves, ConnectedMoves, ReadProxyMoves, ReadTargetMoves,
     ReadEndMoves, TimeoutMoves, FullyClosedMoves
<1>2. CASE CachesChange
  BY Zenon, <1>2 DEF CachesChange
<1>3. CASE UNCHANGED vars
  BY Zenon, <1>3 DEF vars
<1>4. QED
  BY Zenon, <1>1, <1>2, <1>3 DEF Next

\* The invariant is inductive, and no assumption on the constants is needed.
THEOREM TcpInvariance == Spec => []Inv
<1>1. Init => Inv
  BY Zenon DEF Init, Inv, ReqInv
<1>2. Inv /\ [Next]_vars => Inv'
  <2>1. SUFFICES ASSUME Inv, [Next]_vars PROVE Inv'
    OBVIOUS
  <2>2. CASE rq' = rq
    BY Zenon, <2>1, <2>2 DEF Inv
  <2>3. ASSUME NEW r \in Reqs, Moved(r) PROVE Inv'
    <3>1. PICK t : rq' = [rq EXCEPT ![r] = t] /\ ReqInv(t)
      BY Zenon, <2>3 DEF Moved
    <3>2. DOMAIN rq = Reqs
      BY Zenon, <2>1 DEF Inv
    <3>3. rq' = [q \in Reqs |-> IF q = r THEN t ELSE rq[q]]
      BY Zenon, <3>1, <3>2
    <3>4. rq' = [q \in Reqs |-> rq'[q]]
      BY Zenon, <3>3
    <3>5. ASSUME NEW q \in Reqs PROVE ReqInv(rq'[q])
      BY Zenon, <2>1, <3>1, <3>3 DEF Inv
    <3>6. QED
      BY Zenon, <3>4, <3>5 DEF Inv
  <2>4. QED
    BY Zenon, <2>1, <2>2, <2>3, NextMoves
<1>3. QED
  BY <1>1, <1>2, PTL DEF Spec

\* An answered request is closing, and no callback reaches a request that was
\* recycled, unless a deadline may expire during a resolution (h2req_finish,
\* h2req_on_fully_closed, conn_on_resolved).
THEOREM TornDown == ASSUME SlowDns = FALSE PROVE Spec => []Teardown
<1>1. Inv => Teardown
  <2>1. SUFFICES ASSUME Inv, NEW r \in Reqs
                 PROVE ~rq[r].fault /\ (Live(r) /\ rq[r].responded => rq[r].tcp = "closing")
    BY Zenon DEF Teardown, AnsweredCloses, FreedForGood
  <2>2. ReqInv(rq[r]) /\ ~SlowDns
    BY Zenon, <2>1 DEF Inv
  <2>3. "live" # "new" /\ "live" # "recycled"
    OBVIOUS
  <2>4. CASE rq[r] = NewReq
    BY Zenon, <2>3, <2>4, NewFields DEF Live
  <2>5. CASE rq[r] # NewReq
    <3>1. rq[r].fault = FALSE
      BY Zenon, <2>2, <2>5 DEF ReqInv, Fine
    <3>2. ASSUME rq[r].life = "live", rq[r].responded PROVE rq[r].tcp = "closing"
      BY Zenon, <2>2, <2>3, <2>5, <3>2 DEF ReqInv, Mid, Retrying, Unanswered, Gone
    <3>3. QED
      BY Zenon, <3>1, <3>2 DEF Live
  <2>6. QED
    BY Zenon, <2>4, <2>5
<1>2. QED
  BY <1>1, TcpInvariance, PTL

\* A non-pooled TCP request is an Exchange: its callback runs exactly once, and its
\* arena is recycled only then.
THEOREM TcpImplementsExchange == Spec => ImplementsExchange
<1>1. Init => TcpExchange!Init
  <2>1. SUFFICES ASSUME Init PROVE TcpExchange!Init
    OBVIOUS
  <2>2. \A r \in Reqs : Status(rq[r]) = "idle" /\ rq[r].calls = 0
    BY Zenon, <2>1, NewFields, Statuses DEF Init
  <2>3. QED
    BY Zenon, <2>2 DEF TcpExchange!Init
<1>2. Inv /\ [Next]_vars => [TcpExchange!Next]_(TcpExchange!vars)
  <2>1. SUFFICES ASSUME Inv, [Next]_vars PROVE [TcpExchange!Next]_(TcpExchange!vars)
    OBVIOUS
  <2>2. CASE rq' = rq
    BY Zenon, <2>2 DEF TcpExchange!vars
  <2>3. ASSUME NEW r \in Reqs, Moved(r) PROVE [TcpExchange!Next]_(TcpExchange!vars)
    <3>1. PICK t : rq' = [rq EXCEPT ![r] = t] /\ Moves(rq[r], t)
      BY Zenon, <2>3 DEF Moved
    <3>2. DOMAIN rq = Reqs
      BY Zenon, <2>1 DEF Inv
    <3>3. PICK st : st = [q \in Reqs |-> Status(rq[q])]
      BY Zenon
    <3>4. PICK ca : ca = [q \in Reqs |-> rq[q].calls]
      BY Zenon
    <3>5. /\ [q \in Reqs |-> Status(rq'[q])] = [st EXCEPT ![r] = Status(t)]
          /\ [q \in Reqs |-> rq'[q].calls] = [ca EXCEPT ![r] = t.calls]
          /\ st[r] = Status(rq[r]) /\ ca[r] = rq[r].calls
      BY Zenon, <3>1, <3>2, <3>3, <3>4
    <3>6. CASE Status(t) = Status(rq[r]) /\ t.calls = rq[r].calls
      BY <3>3, <3>4, <3>5, <3>6 DEF TcpExchange!vars
    <3>7. CASE Status(rq[r]) = "idle" /\ Status(t) = "pending" /\ t.calls = rq[r].calls
      BY Zenon, <3>3, <3>4, <3>5, <3>7 DEF TcpExchange!Next, TcpExchange!Begin
    <3>8. CASE /\ Status(rq[r]) \in {"idle", "pending"} /\ Status(t) \in {"answered", "released"}
               /\ t.calls = rq[r].calls + 1
      BY Zenon, <3>3, <3>4, <3>5, <3>8 DEF TcpExchange!Next, TcpExchange!Answer
    <3>9. CASE Status(rq[r]) = "answered" /\ Status(t) = "released" /\ t.calls = rq[r].calls
      BY Zenon, <3>3, <3>4, <3>5, <3>9 DEF TcpExchange!Next, TcpExchange!Release
    <3>10. QED
      BY Zenon, <3>1, <3>6, <3>7, <3>8, <3>9 DEF Moves
  <2>4. QED
    BY Zenon, <2>1, <2>2, <2>3, NextMoves
<1>3. QED
  BY <1>1, <1>2, TcpInvariance, PTL DEF Spec, ImplementsExchange, TcpExchange!Spec
===============================================================================
