-------------------------- MODULE QuicRequestProofs --------------------------
(* Every non-pooled QUIC request is served at most once and answered once,      *)
(* closes all its handles once it is answered, and is recycled only when they   *)
(* are closed (QuicServedOnce, QuicAnsweredCloses, QuicFreedForGood,            *)
(* QuicImplementsExchange), for any number of requests and any behaviour of the *)
(* relay, the peer and the caches, as long as no lookup outlasts its connection.*)
EXTENDS QuicRequest, FiniteSetTheorems, TLAPS

\* The fields the argument reads; a callback may write others.
Rec(s) ==
  /\ "life" \in DOMAIN s /\ "responded" \in DOMAIN s /\ "closing" \in DOMAIN s
  /\ "retrying" \in DOMAIN s /\ "retried" \in DOMAIN s /\ "calls" \in DOMAIN s
  /\ "conns" \in DOMAIN s /\ "served" \in DOMAIN s /\ "early" \in DOMAIN s
  /\ "idempotent" \in DOMAIN s /\ "want" \in DOMAIN s /\ "submitted" \in DOMAIN s
  /\ "state" \in DOMAIN s /\ "ready" \in DOMAIN s /\ "resolving" \in DOMAIN s
  /\ "ctrlConnecting" \in DOMAIN s /\ "phase" \in DOMAIN s /\ "h" \in DOMAIN s
  /\ "left" \in DOMAIN s /\ "deadline" \in DOMAIN s /\ "fault" \in DOMAIN s
  /\ "rejected" \in DOMAIN s /\ DOMAIN s.h = Handles

\* The account of what was sent: at most one request served, and only an idempotent
\* one early or twice.
Acc(s) ==
  /\ s.served \in {0, 1} /\ s.early \in BOOLEAN
  /\ s.early = TRUE => s.idempotent = TRUE
  /\ s.conns = 2 => s.idempotent = TRUE

\* 0-RTT is for idempotent requests on their first connection.
Booked(s) ==
  /\ s.want \in BOOLEAN
  /\ s.want = TRUE => s.idempotent = TRUE /\ s.retried = FALSE
  /\ \/ s.conns = 1 /\ s.retried = FALSE
     \/ s.conns = 2 /\ s.retried = TRUE

\* A request that was not answered and is not closing; one under way, whatever its
\* connection is doing; one that may fail.
Unanswered(s) ==
  /\ Rec(s) /\ Acc(s)
  /\ s.life = "live" /\ s.responded = FALSE /\ s.closing = FALSE /\ s.retrying = FALSE
  /\ s.calls = 0 /\ s.fault = FALSE /\ s.state # "Closing"
  /\ \A x \in Handles : s.h[x] \in {"none", "open"}
Under(s) == Unanswered(s) /\ Booked(s) /\ s.state # "Failed"
Able(s) == Under(s) /\ s.resolving = "no"

\* Nothing of the way to the UDP socket is pending.
Calm(s) == s.resolving = "no" /\ s.ctrlConnecting = FALSE /\ s.phase \in {"None", "Done"}

Unsent(s) == s.ready = FALSE /\ s.served = 0 /\ s.early = FALSE

\* What a request under way waits for: a lookup or its relay, the handshake, the
\* response.
Looking(s) ==
  /\ Under(s) /\ Unsent(s) /\ s.h["timer"] = "none"
  /\ \/ s.resolving # "no" /\ s.ctrlConnecting = FALSE /\ s.phase \in {"None", "Done"}
     \/ s.resolving = "no" /\ s.ctrlConnecting = TRUE /\ s.phase \in {"None", "Done"}
     \/ s.resolving = "no" /\ s.ctrlConnecting = FALSE
        /\ s.phase \in {"Greeting", "Auth", "Associate"}
Shaking(s) ==
  /\ Under(s) /\ Calm(s) /\ s.h["timer"] = "open" /\ s.ready = FALSE /\ s.served = 0
  /\ s.early = TRUE => s.submitted = TRUE
Up(s) == Under(s) /\ Calm(s) /\ s.h["timer"] = "open" /\ s.ready = TRUE /\ s.state = "Established"

\* Every handle the connection had is closing, and they are counted.
Closes(s) ==
  /\ \A x \in Handles : s.h[x] \in {"none", "closing"}
  /\ s.left = Cardinality({x \in Handles : s.h[x] = "closing"})
  /\ s.left # 0

\* The 0-RTT attempt was rejected: the connection closes and the request will be
\* sent on another.
Again(s) ==
  /\ Rec(s) /\ Acc(s) /\ Closes(s)
  /\ s.life = "live" /\ s.responded = FALSE /\ s.closing = FALSE /\ s.retrying = TRUE
  /\ s.retried = TRUE /\ s.calls = 0 /\ s.fault = FALSE /\ s.state = "Closing"
  /\ s.resolving = "no" /\ s.ctrlConnecting = FALSE
  /\ s.conns = 1 /\ s.served = 0 /\ s.idempotent = TRUE

\* Answered, and its handles are closing; and with no handle left.
Done(s) ==
  /\ Rec(s) /\ Acc(s) /\ s.responded = TRUE /\ s.calls = 1 /\ s.fault = FALSE
  /\ s.retrying = FALSE /\ s.resolving = "no"
Leaving(s) ==
  Done(s) /\ s.life = "live" /\ s.closing = TRUE /\ s.state = "Closing" /\ Closes(s)
Freed(s) ==
  /\ Done(s) /\ s.life = "recycled" /\ s.deadline \in {"off", "closed"}
  /\ \A x \in Handles : s.h[x] = "none"
Shut(s) == Leaving(s) \/ (Freed(s) /\ s.closing = TRUE /\ s.state = "Closing")

ReqInv(s) ==
  s = NewReq \/ Looking(s) \/ Shaking(s) \/ Up(s) \/ Again(s) \/ Leaving(s) \/ Freed(s)
Inv == /\ DOMAIN rq = Reqs
       /\ \A r \in Reqs : ReqInv(rq[r])

-----------------------------------------------------------------------------
(* Counting handles.                                                            *)

\* There are three handles; a set of them is empty just when it counts none.
LEMMA HandlesFinite == \A S \in SUBSET Handles : IsFiniteSet(S)
<1>1. IsFiniteSet({}) /\ IsFiniteSet({} \cup {"udp"}) /\ IsFiniteSet({} \cup {"udp"} \cup {"timer"})
  BY FS_EmptySet, FS_AddElement
<1>2. IsFiniteSet({} \cup {"udp"} \cup {"timer"} \cup {"ctrl"})
  BY <1>1, FS_AddElement
<1>3. {} \cup {"udp"} \cup {"timer"} \cup {"ctrl"} = Handles
  BY DEF Handles
<1>4. QED
  BY <1>2, <1>3, FS_Subset

LEMMA HandlesCount ==
  ASSUME NEW S \in SUBSET Handles
  PROVE  /\ Cardinality(S) \in Nat /\ (S # {} => Cardinality(S) # 0)
         /\ (Cardinality(S) = 0 => S = {})
         /\ \A x \in S : Cardinality(S \ {x}) = Cardinality(S) - 1
<1>1. IsFiniteSet(S)
  BY HandlesFinite
<1>2. Cardinality(S) \in Nat
  BY <1>1, FS_CardinalityType
<1>3. Cardinality(S) = 0 <=> S = {}
  BY <1>1, FS_EmptySet
<1>4. ASSUME NEW x \in S PROVE Cardinality(S \ {x}) = Cardinality(S) - 1
  BY <1>1, FS_RemoveElement
<1>5. QED
  BY <1>2, <1>3, <1>4

-----------------------------------------------------------------------------
(* Answering and closing.                                                       *)

\* What quic_conn_close makes of a connection with handles, and of one without.
Closed(s) ==
  LET open == {x \in Handles : s.h[x] = "open"}
  IN [s EXCEPT !.state = "Closing", !.left = Cardinality(open),
               !.h = [x \in Handles |-> IF x \in open THEN "closing" ELSE @[x]]]

\* The fields of a request that closing leaves alone.
Kept(s, t) ==
  /\ t.responded = s.responded /\ t.closing = s.closing /\ t.retrying = s.retrying
  /\ t.retried = s.retried /\ t.calls = s.calls /\ t.conns = s.conns /\ t.served = s.served
  /\ t.early = s.early /\ t.idempotent = s.idempotent /\ t.resolving = s.resolving
  /\ t.ctrlConnecting = s.ctrlConnecting /\ t.fault = s.fault

\* Every open handle starts to close.
LEMMA ClosedHandles ==
  ASSUME NEW s, Rec(s), \A x \in Handles : s.h[x] \in {"none", "open"}
  PROVE  /\ Rec(Closed(s)) /\ Kept(s, Closed(s)) /\ Closed(s).state = "Closing"
         /\ Closed(s).life = s.life /\ Closed(s).deadline = s.deadline
         /\ (\E x \in Handles : s.h[x] = "open") => Closes(Closed(s))
         /\ (\A x \in Handles : s.h[x] # "open") => \A x \in Handles : Closed(s).h[x] = "none"
<1>1. PICK open \in SUBSET Handles : open = {x \in Handles : s.h[x] = "open"}
  BY Zenon
<1>2. PICK g : g = [x \in Handles |-> IF x \in open THEN "closing" ELSE s.h[x]]
  BY Zenon
<1>3. PICK t : t = [s EXCEPT !.state = "Closing", !.left = Cardinality(open), !.h = g]
  BY Zenon
<1>4. Closed(s) = t
  BY Zenon, <1>1, <1>2, <1>3 DEF Closed
<1>5. t.state = "Closing" /\ t.left = Cardinality(open) /\ t.h = g
  BY Zenon, <1>3 DEF Rec
<1>6. Kept(s, t) /\ t.life = s.life /\ t.deadline = s.deadline
  BY Zenon, <1>3 DEF Rec, Kept
<1>7. Rec(t)
  BY Zenon, <1>2, <1>3, <1>5 DEF Rec
<1>8. /\ \A x \in Handles : g[x] \in {"none", "closing"} /\ (g[x] = "closing" <=> x \in open)
  BY Zenon, <1>1, <1>2
<1>9. {x \in Handles : t.h[x] = "closing"} = open
  BY Zenon, <1>5, <1>8
<1>10. ASSUME \E x \in Handles : s.h[x] = "open" PROVE Closes(t)
  <2>1. open # {}
    BY Zenon, <1>1, <1>10
  <2>2. t.left # 0
    BY Zenon, <1>5, <2>1, HandlesCount
  <2>3. QED
    BY Zenon, <1>5, <1>8, <1>9, <2>2 DEF Closes
<1>11. ASSUME \A x \in Handles : s.h[x] # "open" PROVE \A x \in Handles : t.h[x] = "none"
  BY Zenon, <1>1, <1>5, <1>8, <1>11
<1>12. QED
  BY Zenon, <1>4, <1>5, <1>6, <1>7, <1>10, <1>11

\* quic_conn_close for an answered request.
LEMMA CloseShuts ==
  ASSUME NEW s, Rec(s), Acc(s), s.life = "live", s.responded = TRUE, s.calls = 1, s.fault = FALSE,
         s.closing = TRUE, s.retrying = FALSE, s.resolving = "no", s.state # "Closing",
         \A x \in Handles : s.h[x] \in {"none", "open"}
  PROVE  Shut(QuicClose(s))
<1>1. PICK t : t = Closed(s)
  BY Zenon
<1>2. /\ Rec(t) /\ Kept(s, t) /\ t.state = "Closing" /\ t.life = "live"
      /\ (\E x \in Handles : s.h[x] = "open") => Closes(t)
      /\ (\A x \in Handles : s.h[x] # "open") => \A x \in Handles : t.h[x] = "none"
  BY Zenon, <1>1, ClosedHandles
<1>3. Acc(t) /\ Done(t)
  BY Zenon, <1>2 DEF Acc, Kept, Done
<1>4. CASE \E x \in Handles : s.h[x] = "open"
  <2>1. QuicClose(s) = t
    BY Zenon, <1>1, <1>4 DEF QuicClose, Closed
  <2>2. QED
    BY Zenon, <1>2, <1>3, <1>4, <2>1 DEF Shut, Leaving, Kept
<1>5. CASE \A x \in Handles : s.h[x] # "open"
  <2>1. {x \in Handles : s.h[x] = "open"} = {}
    BY Zenon, <1>5
  <2>2. QuicClose(s) = Recycled(t)
    BY Zenon, <1>1, <2>1 DEF QuicClose, Closed
  <2>3. PICK u : u = Recycled(t)
    BY Zenon
  <2>4. /\ Rec(u) /\ Kept(t, u) /\ u.state = "Closing" /\ u.life = "recycled" /\ u.h = t.h
        /\ u.deadline \in {"off", "closed"}
    BY Zenon, <1>2, <2>3 DEF Rec, Kept, Recycled
  <2>5. Acc(u)
    BY Zenon, <1>3, <2>4 DEF Acc, Kept
  <2>6. Done(u) /\ u.closing = TRUE
    BY ZenonT(40), <1>2, <1>3, <2>4, <2>5 DEF Kept, Done
  <2>7. \A x \in Handles : u.h[x] = "none"
    <3>1. \A x \in Handles : t.h[x] = "none"
      BY Zenon, <1>2, <1>5
    <3>2. u.h = t.h
      BY Zenon, <2>4
    <3>3. QED
      BY Zenon, <3>1, <3>2
  <2>8. Shut(u)
    BY Zenon, <2>4, <2>6, <2>7 DEF Shut, Freed
  <2>9. QED
    BY Zenon, <2>2, <2>3, <2>8
<1>6. QED
  BY Zenon, <1>4, <1>5

\* quicreq_deliver_error and quicreq_finish.
LEMMA AnswerShuts == ASSUME NEW s, Unanswered(s), s.resolving = "no" PROVE Shut(Finish(Answered(s)))
<1>1. PICK a : a = [s EXCEPT !.responded = TRUE, !.calls = @ + 1]
  BY Zenon
<1>2. PICK c : c = [a EXCEPT !.closing = TRUE]
  BY Zenon
<1>3. Rec(s) /\ Acc(s) /\ s.calls = 0
  BY DEF Unanswered
<1>4. a.closing = FALSE /\ a.calls = 1
  BY <1>1, <1>3 DEF Unanswered, Rec
<1>5. /\ Rec(c) /\ c.life = s.life /\ c.responded = TRUE /\ c.calls = 1 /\ c.fault = s.fault
      /\ c.closing = TRUE /\ c.retrying = s.retrying /\ c.resolving = s.resolving
      /\ c.state = s.state /\ c.h = s.h /\ c.served = s.served /\ c.early = s.early
      /\ c.idempotent = s.idempotent /\ c.conns = s.conns
  BY Zenon, <1>1, <1>2, <1>3, <1>4 DEF Rec
<1>6. Acc(c)
  BY Zenon, <1>3, <1>5 DEF Acc
<1>7. Shut(QuicClose(c))
  BY Zenon, <1>5, <1>6, CloseShuts DEF Unanswered
<1>8. QED
  BY Zenon, <1>1, <1>2, <1>4, <1>7 DEF Finish, Answered

LEMMA ErrorShuts ==
  ASSUME NEW s, Unanswered(s), s.resolving = "no" PROVE Shut(Finish(DeliverError(s)))
BY Zenon, AnswerShuts DEF DeliverError, Unanswered

\* A request that is closing hears of nothing more.
LEMMA ShutStays ==
  ASSUME NEW s, Shut(s), NEW bad
  PROVE  /\ Finish(DeliverError(s)) = s /\ QuicFail(s) = s /\ FlushEgress(s, bad) = s
         /\ OnResponse(s) = s
BY Zenon DEF Shut, Leaving, Freed, Done, Finish, DeliverError, QuicFail, FlushEgress, OnResponse

\* quic_fail
LEMMA FailShuts == ASSUME NEW s, Able(s) PROVE Shut(QuicFail(s))
<1>1. PICK f : f = [s EXCEPT !.state = "Failed"]
  BY Zenon
<1>2. PICK g : g = [f EXCEPT !.ready = TRUE]
  BY Zenon
<1>3. Rec(s) /\ Acc(s) /\ s.state # "Closing" /\ s.state # "Failed"
  BY Zenon DEF Able, Under, Unanswered
<1>4. /\ Rec(f) /\ f.life = s.life /\ f.responded = s.responded /\ f.calls = s.calls
      /\ f.fault = s.fault /\ f.closing = s.closing /\ f.retrying = s.retrying
      /\ f.resolving = s.resolving /\ f.state = "Failed" /\ f.h = s.h /\ f.served = s.served
      /\ f.early = s.early /\ f.idempotent = s.idempotent /\ f.conns = s.conns
  BY Zenon, <1>1, <1>3 DEF Rec
<1>5. /\ Rec(g) /\ g.life = s.life /\ g.responded = s.responded /\ g.calls = s.calls
      /\ g.fault = s.fault /\ g.closing = s.closing /\ g.retrying = s.retrying
      /\ g.resolving = s.resolving /\ g.state = "Failed" /\ g.h = s.h /\ g.served = s.served
      /\ g.early = s.early /\ g.idempotent = s.idempotent /\ g.conns = s.conns
  BY Zenon, <1>2, <1>4 DEF Rec
<1>6. Unanswered(f) /\ f.resolving = "no"
  <2>1. Acc(f)
    BY Zenon, <1>3, <1>4 DEF Acc
  <2>2. QED
    BY Zenon, <1>4, <2>1 DEF Able, Under, Unanswered
<1>7. Unanswered(g) /\ g.resolving = "no"
  <2>1. Acc(g)
    BY Zenon, <1>3, <1>5 DEF Acc
  <2>2. QED
    BY Zenon, <1>5, <2>1 DEF Able, Under, Unanswered
<1>8. Shut(Finish(DeliverError(f))) /\ Shut(Finish(DeliverError(g)))
  BY Zenon, <1>6, <1>7, ErrorShuts
<1>9. OnClosed(f) = Finish(DeliverError(f))
  BY Zenon, <1>6 DEF OnClosed, Unanswered
<1>10. QED
  BY Zenon, <1>1, <1>2, <1>3, <1>8, <1>9 DEF QuicFail

\* quic_flush_egress
LEMMA FlushShuts ==
  ASSUME NEW s, NEW bad, Able(s)
  PROVE  FlushEgress(s, bad) = s \/ Shut(FlushEgress(s, bad))
BY Zenon, FailShuts DEF FlushEgress

-----------------------------------------------------------------------------
(* Fields the argument does not read.                                           *)

Same(s, t) ==
  /\ Rec(t) /\ Kept(s, t) /\ t.life = s.life /\ t.deadline = s.deadline /\ t.state = s.state
  /\ t.h = s.h /\ t.left = s.left /\ t.ready = s.ready /\ t.want = s.want /\ t.phase = s.phase

\* Writing such a field changes nothing.
LEMMA Marks ==
  ASSUME NEW s, Rec(s), NEW v
  PROVE  /\ Same(s, [s EXCEPT !.capture = v]) /\ Same(s, [s EXCEPT !.reqFin = v])
         /\ Same(s, [s EXCEPT !.delivered = v]) /\ Same(s, [s EXCEPT !.h3 = v])
         /\ Same(s, [s EXCEPT !.submitted = v])
         /\ [s EXCEPT !.capture = v].submitted = s.submitted
         /\ [s EXCEPT !.reqFin = v].submitted = s.submitted
         /\ [s EXCEPT !.delivered = v].submitted = s.submitted
         /\ [s EXCEPT !.h3 = v].submitted = s.submitted
         /\ [s EXCEPT !.submitted = v].submitted = v
         /\ [s EXCEPT !.capture = v].resolving = s.resolving
<1>1. Same(s, [s EXCEPT !.capture = v])
  BY Zenon DEF Rec, Same, Kept
<1>2. Same(s, [s EXCEPT !.reqFin = v])
  BY Zenon DEF Rec, Same, Kept
<1>3. Same(s, [s EXCEPT !.delivered = v])
  BY Zenon DEF Rec, Same, Kept
<1>4. Same(s, [s EXCEPT !.h3 = v])
  BY Zenon DEF Rec, Same, Kept
<1>5. Same(s, [s EXCEPT !.submitted = v])
  BY Zenon DEF Rec, Same, Kept
<1>6. /\ [s EXCEPT !.capture = v].submitted = s.submitted
      /\ [s EXCEPT !.reqFin = v].submitted = s.submitted
      /\ [s EXCEPT !.delivered = v].submitted = s.submitted
      /\ [s EXCEPT !.h3 = v].submitted = s.submitted
      /\ [s EXCEPT !.submitted = v].submitted = v
      /\ [s EXCEPT !.capture = v].resolving = s.resolving
  BY Zenon DEF Rec
<1>7. QED
  BY Zenon, <1>1, <1>2, <1>3, <1>4, <1>5, <1>6

LEMMA SameUnder ==
  ASSUME NEW s, NEW t, Same(s, t)
  PROVE  /\ Acc(s) => Acc(t)
         /\ Under(s) => Under(t)
         /\ Up(s) => Up(t)
         /\ Looking(s) => Looking(t)
         /\ Shaking(s) /\ (t.submitted = TRUE \/ t.submitted = s.submitted) => Shaking(t)
<1>1. Acc(s) => Acc(t)
  BY Zenon DEF Same, Kept, Acc
<1>2. Booked(s) => Booked(t)
  BY Zenon DEF Same, Kept, Booked
<1>3. Unanswered(s) => Unanswered(t)
  BY Zenon, <1>1 DEF Same, Kept, Unanswered
<1>4. Under(s) => Under(t)
  BY Zenon, <1>2, <1>3 DEF Same, Under
<1>5. Calm(s) => Calm(t)
  BY Zenon DEF Same, Kept, Calm
<1>6. Up(s) => Up(t)
  BY Zenon, <1>4, <1>5 DEF Same, Up
<1>7. Unsent(s) => Unsent(t)
  BY Zenon DEF Same, Kept, Unsent
<1>8. Looking(s) => Looking(t)
  BY Zenon, <1>4, <1>7 DEF Same, Kept, Looking
<1>9. Shaking(s) /\ (t.submitted = TRUE \/ t.submitted = s.submitted) => Shaking(t)
  BY Zenon, <1>4, <1>5 DEF Same, Kept, Shaking
<1>10. QED
  BY Zenon, <1>1, <1>4, <1>6, <1>8, <1>9

LEMMA SameShut ==
  ASSUME NEW s, NEW t, Same(s, t)
  PROVE  /\ Leaving(s) => Leaving(t)
         /\ Freed(s) => Freed(t)
         /\ Shut(s) => Shut(t)
         /\ Again(s) => Again(t)
<1>1. Acc(s) => Acc(t)
  BY Zenon, SameUnder
<1>2. Closes(s) => Closes(t)
  BY Zenon DEF Same, Closes
<1>3. Done(s) => Done(t)
  BY Zenon, <1>1 DEF Same, Kept, Done
<1>4. Leaving(s) => Leaving(t)
  BY Zenon, <1>2, <1>3 DEF Same, Kept, Leaving
<1>5. Freed(s) => Freed(t)
  BY Zenon, <1>3 DEF Same, Freed
<1>6. Shut(s) => Shut(t)
  BY Zenon, <1>4, <1>5 DEF Same, Kept, Shut
<1>7. Again(s) => Again(t)
  BY Zenon, <1>1, <1>2 DEF Same, Kept, Again
<1>8. QED
  BY Zenon, <1>4, <1>5, <1>6, <1>7

-----------------------------------------------------------------------------
(* The session.                                                                 *)

\* A connection that failed keeps its record.
LEMMA ShutRec == ASSUME NEW s, Shut(s) PROVE Rec(s)
BY Zenon DEF Shut, Leaving, Freed, Done

\* quicreq_send_request: it ends in an answer, or the request is out.
Sent(s) ==
  [(IF s.state = "EarlyData" THEN [s EXCEPT !.early = TRUE] ELSE [s EXCEPT !.served = @ + 1])
     EXCEPT !.h3 = TRUE]
Submitted(s) == [Sent(s) EXCEPT !.submitted = TRUE]
LEMMA SendEnds ==
  ASSUME NEW s, NEW sub, NEW bad, Able(s), Able(Sent(s))
  PROVE  Shut(SendRequest(s, sub, bad)) \/ SendRequest(s, sub, bad) = Submitted(s)
<1>0. PICK g : g = Sent(s) /\ Able(g)
  BY Zenon
<1>1. PICK h : h = [s EXCEPT !.h3 = TRUE]
  BY Zenon
<1>2. Same(s, h)
  BY Zenon, <1>1, Marks DEF Able, Under, Unanswered
<1>3. Able(h)
  BY Zenon, <1>2, SameUnder DEF Able, Same, Kept
<1>4. PICK k : k = FlushEgress(h, bad)
  BY Zenon
<1>5. Shut(Finish(DeliverError(k)))
  <2>1. CASE k = h
    BY Zenon, <1>3, <2>1, ErrorShuts DEF Able, Under
  <2>2. CASE Shut(k)
    BY Zenon, <2>2, ShutStays
  <2>3. QED
    BY Zenon, <1>3, <1>4, <2>1, <2>2, FlushShuts
<1>6. PICK f : f = FlushEgress(g, bad)
  BY Zenon
<1>7. f = g \/ Shut([f EXCEPT !.submitted = TRUE])
  <2>1. ASSUME Shut(f) PROVE Shut([f EXCEPT !.submitted = TRUE])
    <3>1. PICK e : e = [f EXCEPT !.submitted = TRUE]
      BY Zenon
    <3>2. Same(f, e)
      BY Zenon, <2>1, <3>1, ShutRec, Marks
    <3>3. QED
      BY Zenon, <2>1, <3>1, <3>2, SameShut
  <2>2. QED
    BY Zenon, <1>0, <1>6, <2>1, FlushShuts
<1>8. Shut(Finish(DeliverError(s)))
  BY Zenon, ErrorShuts DEF Able, Under
<1>9. CASE sub = "alloc"
  BY Zenon, <1>8, <1>9 DEF SendRequest
<1>10. CASE sub = "submit"
  <2>1. SendRequest(s, sub, bad) = Finish(DeliverError(FlushEgress([s EXCEPT !.h3 = TRUE], bad)))
    BY <1>10 DEF SendRequest
  <2>2. QED
    BY Zenon, <1>1, <1>4, <1>5, <2>1
<1>11. CASE sub # "alloc" /\ sub # "submit"
  <2>1. SendRequest(s, sub, bad) = [f EXCEPT !.submitted = TRUE]
    BY Zenon, <1>0, <1>6, <1>11 DEF SendRequest, Sent
  <2>2. QED
    BY Zenon, <1>0, <1>7, <2>1 DEF Submitted
<1>12. QED
  BY Zenon, <1>9, <1>10, <1>11

\* The request goes out as 0-RTT, or once the handshake is complete.
LEMMA SendEarly ==
  ASSUME NEW s, NEW sub, NEW bad, Able(s), Calm(s), Unsent(s), s.h["timer"] = "open",
         s.state = "EarlyData", s.want = TRUE
  PROVE  Shut(SendRequest(s, sub, bad)) \/ Shaking(SendRequest(s, sub, bad))
<1>1. PICK e : e = [s EXCEPT !.early = TRUE]
  BY Zenon
<1>2. PICK g : g = [e EXCEPT !.h3 = TRUE]
  BY Zenon
<1>3. PICK t : t = [g EXCEPT !.submitted = TRUE]
  BY Zenon
<1>4. Rec(s)
  BY Zenon DEF Able, Under, Unanswered
<1>5. /\ Rec(e) /\ e.life = s.life /\ e.responded = s.responded /\ e.closing = s.closing
      /\ e.retrying = s.retrying /\ e.retried = s.retried /\ e.calls = s.calls
      /\ e.conns = s.conns /\ e.served = s.served /\ e.early = TRUE
      /\ e.idempotent = s.idempotent /\ e.want = s.want /\ e.state = s.state
      /\ e.ready = s.ready /\ e.resolving = s.resolving /\ e.phase = s.phase
      /\ e.ctrlConnecting = s.ctrlConnecting /\ e.h = s.h /\ e.fault = s.fault
  BY Zenon, <1>1, <1>4 DEF Rec
<1>6. Booked(e)
  BY Zenon, <1>5 DEF Able, Under, Booked
<1>7. Acc(e)
  BY Zenon, <1>5 DEF Able, Under, Unanswered, Acc, Booked
<1>8. Unanswered(e)
  BY Zenon, <1>5, <1>7 DEF Able, Under, Unanswered
<1>9. Able(e)
  BY Zenon, <1>5, <1>6, <1>8 DEF Able, Under
<1>10. Same(e, g)
  BY Zenon, <1>2, <1>5, Marks
<1>11. Able(g)
  BY Zenon, <1>9, <1>10, SameUnder DEF Able, Same, Kept
<1>12. Same(g, t) /\ t.submitted = TRUE
  <2>1. Rec(g)
    BY Zenon, <1>10 DEF Same
  <2>2. QED
    BY Zenon, <1>3, <2>1, Marks
<1>13. Able(t)
  BY Zenon, <1>11, <1>12, SameUnder DEF Able, Same, Kept
<1>14. /\ t.resolving = s.resolving /\ t.phase = s.phase /\ t.ctrlConnecting = s.ctrlConnecting
       /\ t.h = s.h /\ t.ready = s.ready /\ t.served = s.served
  BY Zenon, <1>5, <1>10, <1>12 DEF Same, Kept
<1>15. Shaking(t)
  BY Zenon, <1>12, <1>13, <1>14 DEF Shaking, Able, Calm, Unsent
<1>16. g = Sent(s) /\ t = Submitted(s)
  BY Zenon, <1>1, <1>2, <1>3 DEF Sent, Submitted
<1>17. Shut(SendRequest(s, sub, bad)) \/ SendRequest(s, sub, bad) = t
  BY Zenon, <1>11, <1>16, SendEnds
<1>18. QED
  BY Zenon, <1>15, <1>17

LEMMA SendNow ==
  ASSUME NEW s, NEW sub, NEW bad, Up(s), s.served = 0
  PROVE  Shut(SendRequest(s, sub, bad)) \/ Up(SendRequest(s, sub, bad))
<1>1. PICK e : e = [s EXCEPT !.served = @ + 1]
  BY Zenon
<1>2. PICK g : g = [e EXCEPT !.h3 = TRUE]
  BY Zenon
<1>3. PICK t : t = [g EXCEPT !.submitted = TRUE]
  BY Zenon
<1>4. Rec(s) /\ s.state = "Established" /\ Able(s)
  BY Zenon DEF Up, Calm, Able, Under, Unanswered
<1>5. /\ Rec(e) /\ e.life = s.life /\ e.responded = s.responded /\ e.closing = s.closing
      /\ e.retrying = s.retrying /\ e.retried = s.retried /\ e.calls = s.calls
      /\ e.conns = s.conns /\ e.early = s.early
      /\ e.idempotent = s.idempotent /\ e.want = s.want /\ e.state = s.state
      /\ e.ready = s.ready /\ e.resolving = s.resolving /\ e.phase = s.phase
      /\ e.ctrlConnecting = s.ctrlConnecting /\ e.h = s.h /\ e.fault = s.fault
  BY Zenon, <1>1, <1>4 DEF Rec
<1>6. e.served = 1
  <2>1. e.served = s.served + 1
    BY Zenon, <1>1, <1>4 DEF Rec
  <2>2. QED
    BY <2>1
<1>7. Booked(e)
  BY Zenon, <1>5 DEF Up, Under, Booked
<1>8. Acc(e)
  BY Zenon, <1>5, <1>6 DEF Up, Under, Unanswered, Acc
<1>9. Unanswered(e)
  BY Zenon, <1>5, <1>8 DEF Up, Under, Unanswered
<1>10. Up(e)
  BY Zenon, <1>5, <1>7, <1>9 DEF Up, Under, Calm
<1>11. Same(e, g)
  BY Zenon, <1>2, <1>5, Marks
<1>12. Up(g)
  BY Zenon, <1>10, <1>11, SameUnder
<1>13. Same(g, t)
  <2>1. Rec(g)
    BY Zenon, <1>11 DEF Same
  <2>2. QED
    BY Zenon, <1>3, <2>1, Marks
<1>14. Up(t) /\ Able(g)
  <2>1. Up(t)
    BY Zenon, <1>12, <1>13, SameUnder
  <2>2. QED
    BY Zenon, <1>12, <2>1 DEF Up, Calm, Able
<1>15. g = Sent(s) /\ t = Submitted(s)
  BY Zenon, <1>1, <1>2, <1>3, <1>4 DEF Sent, Submitted
<1>16. Shut(SendRequest(s, sub, bad)) \/ SendRequest(s, sub, bad) = t
  BY Zenon, <1>4, <1>14, <1>15, SendEnds
<1>17. QED
  BY Zenon, <1>14, <1>16

\* A request that is out, or answered.
Out(s) == Up(s) \/ Shut(s)

\* h3_finish_response
LEMMA FinishOut == ASSUME NEW s, Out(s) PROVE Out(H3Finish(s))
<1>1. PICK d : d = [s EXCEPT !.delivered = TRUE]
  BY Zenon
<1>2. Rec(s)
  BY Zenon, ShutRec DEF Out, Up, Under, Unanswered
<1>3. Same(s, d)
  BY Zenon, <1>1, <1>2, Marks
<1>4. CASE Up(s)
  <2>1. Up(d)
    BY Zenon, <1>3, <1>4, SameUnder
  <2>2. Unanswered(d) /\ d.resolving = "no" /\ d.responded = FALSE
    BY Zenon, <2>1 DEF Up, Calm, Under, Unanswered
  <2>3. Shut(OnResponse(d))
    BY Zenon, <2>2, AnswerShuts DEF OnResponse
  <2>4. QED
    BY Zenon, <1>1, <2>3 DEF H3Finish, Out
<1>5. CASE Shut(s)
  <2>1. Shut(d)
    BY Zenon, <1>3, <1>5, SameShut
  <2>2. OnResponse(d) = d
    BY Zenon, <2>1, ShutStays
  <2>3. QED
    BY Zenon, <1>1, <1>5, <2>1, <2>2 DEF H3Finish, Out
<1>6. QED
  BY Zenon, <1>4, <1>5 DEF Out

\* The events of a packet on the request stream.
LEMMA StreamOut == ASSUME NEW s, Out(s) PROVE Out(StreamFin(s)) /\ Out(StreamClose(s))
<1>1. PICK d : d = [s EXCEPT !.reqFin = TRUE]
  BY Zenon
<1>2. Rec(s)
  BY Zenon, ShutRec DEF Out, Up, Under, Unanswered
<1>3. Same(s, d)
  BY Zenon, <1>1, <1>2, Marks
<1>4. Out(d)
  BY Zenon, <1>3, SameUnder, SameShut DEF Out
<1>5. Out(StreamFin(s))
  BY Zenon, <1>1, <1>4, FinishOut DEF StreamFin
<1>6. QED
  BY Zenon, <1>5 DEF StreamClose

LEMMA ApplyOut ==
  ASSUME NEW s, Out(s), NEW events \in {"none", "fin", "close", "fin+close"}
  PROVE  Out(Apply(s, events))
<1>1. CASE events = "none"
  BY <1>1 DEF Apply
<1>2. CASE events = "fin"
  <2>1. Apply(s, events) = StreamFin(s)
    BY <1>2 DEF Apply
  <2>2. QED
    BY Zenon, <2>1, StreamOut
<1>3. CASE events = "close"
  <2>1. Apply(s, events) = StreamClose(s)
    BY <1>3 DEF Apply
  <2>2. QED
    BY Zenon, <2>1, StreamOut
<1>4. CASE events = "fin+close"
  <2>1. Apply(s, events) = StreamClose(StreamFin(s))
    BY <1>4 DEF Apply
  <2>2. PICK t : t = StreamFin(s)
    BY Zenon
  <2>3. Out(t) /\ Out(StreamClose(t))
    BY Zenon, <2>2, StreamOut
  <2>4. QED
    BY Zenon, <2>1, <2>2, <2>3
<1>5. QED
  BY Zenon, <1>1, <1>2, <1>3, <1>4

\* quic_handshake_completed_cb and quicreq_on_ready: the request is out, answered, or
\* to be sent again.
LEMMA ReadyEnds ==
  ASSUME NEW s, NEW sub, NEW bad, Up(s), s.rejected \in BOOLEAN, s.early \in BOOLEAN,
         s.rejected = TRUE => s.want = TRUE /\ s.served = 0,
         s.submitted # TRUE => s.served = 0
  PROVE  Out(OnReadyOk(s, sub, bad)) \/ Again(OnReadyOk(s, sub, bad))
<1>1. Rec(s) /\ Acc(s) /\ Booked(s) /\ Unanswered(s) /\ Calm(s) /\ s.h["timer"] = "open"
  BY Zenon DEF Up, Under, Unanswered
<1>2. CASE s.rejected /\ ~s.retried
  <2>1. PICK c : c = [s EXCEPT !.retried = TRUE, !.retrying = TRUE]
    BY Zenon
  <2>2. /\ Rec(c) /\ c.responded = s.responded /\ c.closing = s.closing /\ c.retrying = TRUE
        /\ c.retried = TRUE /\ c.calls = s.calls /\ c.conns = s.conns /\ c.served = s.served
        /\ c.early = s.early /\ c.idempotent = s.idempotent /\ c.resolving = s.resolving
        /\ c.ctrlConnecting = s.ctrlConnecting /\ c.fault = s.fault /\ c.h = s.h
        /\ c.life = s.life /\ c.state = s.state
    BY Zenon, <1>1, <2>1 DEF Rec
  <2>3. PICK t : t = Closed(c)
    BY Zenon
  <2>4. \E x \in Handles : c.h[x] = "open"
    BY <1>1, <2>2 DEF Handles
  <2>5. c.state # "Closing" /\ \A x \in Handles : c.h[x] \in {"none", "open"}
    BY Zenon, <1>1, <2>2 DEF Unanswered
  <2>6. QuicClose(c) = t
    BY Zenon, <2>3, <2>4, <2>5 DEF QuicClose, Closed
  <2>7. Rec(t) /\ Kept(c, t) /\ t.state = "Closing" /\ t.life = c.life /\ Closes(t)
    BY Zenon, <2>2, <2>3, <2>4, <2>5, ClosedHandles
  <2>8. s.want = TRUE /\ s.served = 0 /\ s.idempotent = TRUE /\ s.retried = FALSE /\ s.conns = 1
    BY Zenon, <1>1, <1>2 DEF Booked
  <2>9. Acc(t)
    BY Zenon, <1>1, <2>2, <2>7 DEF Acc, Kept
  <2>10. /\ t.responded = FALSE /\ t.closing = FALSE /\ t.retrying = TRUE /\ t.retried = TRUE
         /\ t.calls = 0 /\ t.fault = FALSE /\ t.resolving = "no" /\ t.ctrlConnecting = FALSE
         /\ t.conns = 1 /\ t.served = 0 /\ t.idempotent = TRUE /\ t.life = "live"
    BY ZenonT(40), <1>1, <2>2, <2>7, <2>8 DEF Kept, Unanswered, Calm
  <2>11. Again(t)
    BY Zenon, <2>7, <2>9, <2>10 DEF Again
  <2>12. OnReadyOk(s, sub, bad) = QuicClose(c)
    BY Zenon, <1>2, <2>1 DEF OnReadyOk
  <2>13. QED
    BY Zenon, <2>6, <2>11, <2>12
<1>3. CASE ~(s.rejected /\ ~s.retried)
  <2>1. PICK c : c = [s EXCEPT !.capture = TRUE]
    BY Zenon
  <2>2. Same(s, c)
    BY Zenon, <1>1, <2>1, Marks
  <2>3. Up(c) /\ c.served = s.served
    BY Zenon, <2>2, SameUnder DEF Same, Kept
  <2>4. OnReadyOk(s, sub, bad) = IF s.submitted THEN c ELSE SendRequest(c, sub, bad)
    BY Zenon, <1>3, <2>1 DEF OnReadyOk
  <2>5. CASE s.submitted
    BY Zenon, <2>3, <2>4, <2>5 DEF Out
  <2>6. CASE ~s.submitted
    <3>1. Shut(SendRequest(c, sub, bad)) \/ Up(SendRequest(c, sub, bad))
      BY Zenon, <2>3, <2>6, SendNow
    <3>2. QED
      BY Zenon, <2>4, <2>6, <3>1 DEF Out
  <2>7. QED
    BY Zenon, <2>5, <2>6
<1>4. QED
  BY Zenon, <1>2, <1>3

LEMMA HandshakeEnds ==
  ASSUME NEW s, NEW taken \in BOOLEAN, NEW sub, NEW bad, Shaking(s), taken = TRUE => s.early = TRUE
  PROVE  LET t == HandshakeCompleted(s, taken, sub, bad) IN Out(t) \/ Again(t)
<1>1. /\ Rec(s) /\ Acc(s) /\ Booked(s) /\ Unanswered(s) /\ Calm(s) /\ s.h["timer"] = "open"
      /\ s.ready = FALSE /\ s.served = 0 /\ (s.early = TRUE => s.submitted = TRUE)
      /\ s.early \in BOOLEAN /\ s.want \in BOOLEAN
  <2>1. /\ Acc(s) /\ Booked(s) /\ Unanswered(s) /\ Calm(s) /\ s.h["timer"] = "open"
        /\ s.ready = FALSE /\ s.served = 0 /\ (s.early = TRUE => s.submitted = TRUE)
    BY Zenon DEF Shaking, Under, Unanswered
  <2>2. Rec(s) /\ s.early \in BOOLEAN /\ s.want \in BOOLEAN
    BY Zenon, <2>1 DEF Unanswered, Acc, Booked
  <2>3. QED
    BY Zenon, <2>1, <2>2
<1>2. PICK v : v = IF s.early /\ taken THEN s.served + 1 ELSE s.served
  BY Zenon
<1>3. PICK j : j = (s.want /\ ~taken)
  BY Zenon
<1>4. PICK t : t = [s EXCEPT !.state = "Established", !.ready = TRUE, !.rejected = j, !.served = v]
  BY Zenon
<1>5. HandshakeCompleted(s, taken, sub, bad) = OnReadyOk(t, sub, bad)
  BY Zenon, <1>1, <1>2, <1>3, <1>4 DEF HandshakeCompleted
<1>6. /\ v \in {0, 1} /\ (v # 0 => taken = TRUE /\ s.submitted = TRUE)
  BY <1>1, <1>2
<1>7. j \in BOOLEAN /\ (j = TRUE => s.want = TRUE /\ taken = FALSE)
  BY Zenon, <1>1, <1>3
<1>8. /\ Rec(t) /\ t.state = "Established" /\ t.ready = TRUE /\ t.rejected = j /\ t.served = v
      /\ t.life = s.life /\ t.responded = s.responded /\ t.closing = s.closing
      /\ t.retrying = s.retrying /\ t.retried = s.retried /\ t.calls = s.calls
      /\ t.conns = s.conns /\ t.early = s.early /\ t.idempotent = s.idempotent
      /\ t.want = s.want /\ t.submitted = s.submitted /\ t.resolving = s.resolving
      /\ t.ctrlConnecting = s.ctrlConnecting /\ t.phase = s.phase /\ t.h = s.h
      /\ t.fault = s.fault
  BY Zenon, <1>1, <1>4 DEF Rec
<1>9. Acc(t)
  BY Zenon, <1>1, <1>6, <1>8 DEF Acc
<1>10. Booked(t)
  BY Zenon, <1>1, <1>8 DEF Booked
<1>11. Unanswered(t)
  BY Zenon, <1>1, <1>8, <1>9 DEF Unanswered
<1>12. Up(t)
  BY Zenon, <1>1, <1>8, <1>10, <1>11 DEF Up, Under, Calm
<1>13. QED
  BY ZenonT(40), <1>1, <1>5, <1>6, <1>7, <1>8, <1>12, ReadyEnds

-----------------------------------------------------------------------------
(* The way to the UDP socket.                                                   *)

\* A step of connecting touches only the fields left out here.
Alike(s, t) ==
  /\ Rec(t) /\ t.life = s.life /\ t.responded = s.responded /\ t.closing = s.closing
  /\ t.retrying = s.retrying /\ t.retried = s.retried /\ t.calls = s.calls
  /\ t.conns = s.conns /\ t.served = s.served /\ t.early = s.early
  /\ t.idempotent = s.idempotent /\ t.fault = s.fault /\ t.ready = s.ready

LEMMA AlikeUnder ==
  ASSUME NEW s, NEW t, Under(s), Alike(s, t), t.want \in BOOLEAN, t.want = TRUE => s.want = TRUE,
         t.state # "Closing", t.state # "Failed", \A x \in Handles : t.h[x] \in {"none", "open"}
  PROVE  Under(t) /\ (Unsent(s) => Unsent(t))
<1>1. Acc(t)
  BY Zenon DEF Under, Unanswered, Alike, Acc
<1>2. Booked(t)
  BY Zenon DEF Under, Alike, Booked
<1>3. Unanswered(t)
  BY Zenon, <1>1 DEF Under, Alike, Unanswered
<1>4. Unsent(s) => Unsent(t)
  BY Zenon DEF Alike, Unsent
<1>5. QED
  BY Zenon, <1>2, <1>3, <1>4 DEF Under

\* Ready for quic_begin_udp.
Ripe(s) == Under(s) /\ Calm(s) /\ Unsent(s) /\ s.h["timer"] = "none"

\* A handle opens.
LEMMA OpenHandle ==
  ASSUME NEW s, NEW x \in Handles, Under(s)
  PROVE  LET t == [s EXCEPT !.h[x] = "open"]
         IN /\ Alike(s, t) /\ Under(t) /\ t.resolving = s.resolving /\ t.phase = s.phase
            /\ t.ctrlConnecting = s.ctrlConnecting /\ t.want = s.want /\ t.state = s.state
            /\ t.h[x] = "open" /\ \A y \in Handles : y # x => t.h[y] = s.h[y]
<1>1. PICK g : g = [s.h EXCEPT ![x] = "open"]
  BY Zenon
<1>2. PICK t : t = [s EXCEPT !.h = g]
  BY Zenon
<1>3. t = [s EXCEPT !.h[x] = "open"]
  BY Zenon, <1>1, <1>2
<1>4. /\ Rec(s) /\ DOMAIN s.h = Handles /\ s.want \in BOOLEAN /\ s.state # "Closing"
      /\ s.state # "Failed"
  <2>1. Rec(s)
    BY Zenon DEF Under, Unanswered
  <2>2. QED
    BY Zenon, <2>1 DEF Under, Unanswered, Rec, Booked
<1>5. DOMAIN g = Handles /\ g[x] = "open" /\ \A y \in Handles : y # x => g[y] = s.h[y]
  BY Zenon, <1>1, <1>4
<1>6. t.h = g
  BY Zenon, <1>2, <1>4 DEF Rec
<1>7. Alike(s, t)
  BY Zenon, <1>2, <1>4, <1>5, <1>6 DEF Rec, Alike
<1>8. /\ t.resolving = s.resolving /\ t.phase = s.phase /\ t.ctrlConnecting = s.ctrlConnecting
      /\ t.want = s.want /\ t.state = s.state
  BY Zenon, <1>2, <1>4 DEF Rec
<1>9. \A y \in Handles : t.h[y] \in {"none", "open"}
  BY Zenon, <1>5, <1>6 DEF Under, Unanswered
<1>10. Under(t)
  BY Zenon, <1>4, <1>7, <1>8, <1>9, AlikeUnder
<1>11. QED
  BY Zenon, <1>3, <1>5, <1>6, <1>7, <1>8, <1>10

\* quic_begin_udp: the handshake starts, with the request as 0-RTT or without.
LEMMA BeginEnds ==
  ASSUME NEW s, NEW udp, NEW sub, NEW bad, Ripe(s)
  PROVE  Shaking(BeginUdp(s, udp, sub, bad)) \/ Shut(BeginUdp(s, udp, sub, bad))
<1>1. PICK u : u = [s EXCEPT !.h["udp"] = "open"]
  BY Zenon
<1>2. "udp" \in Handles /\ "timer" \in Handles /\ "udp" # "timer"
  BY DEF Handles
<1>3. Alike(s, u) /\ Under(u) /\ Calm(u) /\ u.want = s.want /\ u.state = s.state
  BY ZenonT(40), <1>1, <1>2, OpenHandle DEF Ripe, Calm
<1>4. Able(u)
  BY Zenon, <1>3 DEF Able, Calm
<1>5. PICK a : a = [u EXCEPT !.h["timer"] = "open"]
  BY Zenon
<1>6. /\ Alike(u, a) /\ Under(a) /\ Calm(a) /\ a.want = u.want /\ a.h["timer"] = "open"
      /\ a.state = u.state
  BY ZenonT(40), <1>2, <1>3, <1>5, OpenHandle DEF Calm
<1>7. PICK w : w = (s.want /\ udp # "tp")
  BY Zenon
<1>8. w \in BOOLEAN /\ (w = TRUE => s.want = TRUE)
  <2>1. s.want \in BOOLEAN
    BY Zenon DEF Ripe, Under, Booked
  <2>2. QED
    BY Zenon, <1>7, <2>1
<1>9. PICK t : t = [a EXCEPT !.ngtcp2 = TRUE, !.want = w]
  BY Zenon
<1>10. PICK e : e = [t EXCEPT !.state = "EarlyData"]
  BY Zenon
<1>11. PICK k : k = [t EXCEPT !.state = "Handshaking"]
  BY Zenon
<1>12. Rec(a) /\ Rec(u)
  BY Zenon, <1>3, <1>6 DEF Alike
<1>13. /\ Alike(a, t) /\ t.want = w /\ t.h = a.h /\ t.resolving = a.resolving
       /\ t.phase = a.phase /\ t.ctrlConnecting = a.ctrlConnecting
  BY Zenon, <1>9, <1>12 DEF Rec, Alike
<1>14. Rec(t)
  BY Zenon, <1>13 DEF Alike
<1>15. /\ Alike(t, e) /\ e.want = w /\ e.h = a.h /\ e.resolving = a.resolving
       /\ e.phase = a.phase /\ e.ctrlConnecting = a.ctrlConnecting /\ e.state = "EarlyData"
  BY Zenon, <1>10, <1>13, <1>14 DEF Rec, Alike
<1>16. /\ Alike(t, k) /\ k.want = w /\ k.h = a.h /\ k.resolving = a.resolving
       /\ k.phase = a.phase /\ k.ctrlConnecting = a.ctrlConnecting /\ k.state = "Handshaking"
  BY Zenon, <1>11, <1>13, <1>14 DEF Rec, Alike
<1>17. /\ \A x \in Handles : a.h[x] \in {"none", "open"}
       /\ Unsent(a)
  BY Zenon, <1>3, <1>6 DEF Under, Unanswered, Unsent, Alike, Ripe
<1>18. Alike(a, e) /\ Alike(a, k)
  BY Zenon, <1>13, <1>15, <1>16 DEF Alike
<1>19. w = TRUE => a.want = TRUE
  BY Zenon, <1>3, <1>6, <1>8
<1>20. Under(e) /\ Unsent(e)
  <2>1. e.want = w /\ e.state # "Closing" /\ e.state # "Failed" /\ e.h = a.h
    BY <1>15
  <2>2. QED
    BY Zenon, <1>6, <1>8, <1>17, <1>18, <1>19, <2>1, AlikeUnder
<1>21. Under(k) /\ Unsent(k)
  <2>1. k.want = w /\ k.state # "Closing" /\ k.state # "Failed" /\ k.h = a.h
    BY <1>16
  <2>2. QED
    BY Zenon, <1>6, <1>8, <1>17, <1>18, <1>19, <2>1, AlikeUnder
<1>22. Able(e) /\ Calm(e) /\ e.h["timer"] = "open"
  BY Zenon, <1>6, <1>15, <1>20 DEF Able, Calm
<1>23. Able(k) /\ Calm(k) /\ k.h["timer"] = "open"
  BY Zenon, <1>6, <1>16, <1>21 DEF Able, Calm
<1>24. Shaking(k)
  BY Zenon, <1>21, <1>23 DEF Shaking, Unsent
<1>25. CASE udp = "bind"
  <2>1. BeginUdp(s, udp, sub, bad) = QuicFail(u)
    BY Zenon, <1>1, <1>25 DEF BeginUdp
  <2>2. QED
    BY Zenon, <1>4, <2>1, FailShuts
<1>26. t = [[s EXCEPT !.h["udp"] = "open"] EXCEPT !.h["timer"] = "open", !.ngtcp2 = TRUE, !.want = @ /\ udp # "tp"]
  BY <1>1, <1>3, <1>5, <1>7, <1>9, <1>12 DEF Rec
<1>27. CASE udp # "bind" /\ w = TRUE
  <2>1. PICK q : q = SendRequest(e, sub, bad)
    BY Zenon
  <2>2. Shut(q) \/ Shaking(q)
    BY Zenon, <1>15, <1>20, <1>22, <1>27, <2>1, SendEarly
  <2>3. BeginUdp(s, udp, sub, bad) = FlushEgress(q, bad)
    BY Zenon, <1>10, <1>13, <1>26, <1>27, <2>1 DEF BeginUdp
  <2>4. CASE Shut(q)
    BY Zenon, <2>3, <2>4, ShutStays
  <2>5. CASE Shaking(q)
    <3>1. Able(q)
      BY Zenon, <2>5 DEF Shaking, Calm, Able
    <3>2. QED
      BY Zenon, <2>3, <2>5, <3>1, FlushShuts
  <2>6. QED
    BY Zenon, <2>2, <2>4, <2>5
<1>28. CASE udp # "bind" /\ w # TRUE
  <2>1. BeginUdp(s, udp, sub, bad) = FlushEgress(k, bad)
    BY Zenon, <1>8, <1>11, <1>13, <1>26, <1>28 DEF BeginUdp
  <2>2. QED
    BY Zenon, <1>23, <1>24, <2>1, FlushShuts
<1>29. QED
  BY Zenon, <1>25, <1>27, <1>28

\* uv_getaddrinfo starts, or the connection fails.
LEMMA ResolveEnds ==
  ASSUME NEW s, NEW what, NEW ok, Ripe(s), what # "no"
  PROVE  Looking(Resolve(s, what, ok)) \/ Shut(Resolve(s, what, ok))
<1>1. PICK v : v = IF what = "ptarget" THEN s.state ELSE "Resolving"
  BY Zenon
<1>2. PICK t : t = [s EXCEPT !.state = v]
  BY Zenon
<1>3. PICK l : l = [t EXCEPT !.resolving = what]
  BY Zenon
<1>4. Rec(s) /\ s.want \in BOOLEAN /\ Under(s)
  BY Zenon DEF Ripe, Under, Unanswered, Booked
<1>5. v # "Closing" /\ v # "Failed"
  <2>1. s.state # "Closing" /\ s.state # "Failed"
    BY Zenon, <1>4 DEF Under, Unanswered
  <2>2. QED
    BY <1>1, <2>1
<1>6. /\ Alike(s, t) /\ t.want = s.want /\ t.h = s.h /\ t.resolving = s.resolving
      /\ t.phase = s.phase /\ t.ctrlConnecting = s.ctrlConnecting /\ t.state = v
  BY Zenon, <1>2, <1>4 DEF Rec, Alike
<1>7. Rec(t)
  BY Zenon, <1>6 DEF Alike
<1>8. /\ Alike(s, l) /\ l.want = s.want /\ l.h = s.h /\ l.resolving = what
      /\ l.phase = s.phase /\ l.ctrlConnecting = s.ctrlConnecting /\ l.state = v
  BY Zenon, <1>3, <1>6, <1>7 DEF Rec, Alike
<1>9. \A x \in Handles : s.h[x] \in {"none", "open"}
  BY Zenon, <1>4 DEF Under, Unanswered
<1>10. Under(t)
  BY Zenon, <1>4, <1>5, <1>6, <1>9, AlikeUnder
<1>11. Able(t)
  BY Zenon, <1>6, <1>10 DEF Able, Ripe, Calm
<1>12. Under(l) /\ Unsent(l)
  BY Zenon, <1>4, <1>5, <1>8, <1>9, AlikeUnder DEF Ripe
<1>13. Looking(l)
  BY Zenon, <1>8, <1>12 DEF Looking, Ripe, Calm
<1>14. Resolve(s, what, ok) = IF ok THEN l ELSE QuicFail(t)
  BY Zenon, <1>1, <1>2, <1>3 DEF Resolve
<1>15. QED
  BY Zenon, <1>11, <1>13, <1>14, FailShuts

\* quic_conn_connect
LEMMA ConnConnectEnds ==
  ASSUME NEW s, NEW ok, NEW udp, NEW sub, NEW bad, Ripe(s)
  PROVE  LET t == ConnConnect(s, ok, udp, sub, bad) IN Looking(t) \/ Shaking(t) \/ Shut(t)
<1>1. PICK t : t = ConnConnect(s, ok, udp, sub, bad)
  BY Zenon
<1>2. "proxy" # "no" /\ "target" # "no"
  OBVIOUS
<1>3. CASE s.proxied
  <2>1. t = Resolve(s, "proxy", ok)
    BY <1>1, <1>3 DEF ConnConnect
  <2>2. QED
    BY Zenon, <1>1, <1>2, <2>1, ResolveEnds
<1>4. CASE ~s.proxied /\ CacheHit(s)
  <2>1. t = BeginUdp(s, udp, sub, bad)
    BY <1>1, <1>4 DEF ConnConnect
  <2>2. QED
    BY Zenon, <1>1, <2>1, BeginEnds
<1>5. CASE ~s.proxied /\ ~CacheHit(s)
  <2>1. t = Resolve(s, "target", ok)
    BY <1>1, <1>5 DEF ConnConnect
  <2>2. QED
    BY Zenon, <1>1, <1>2, <2>1, ResolveEnds
<1>6. QED
  BY Zenon, <1>3, <1>4, <1>5

\* A request whose first, or second and last, connection is due.
Due(s, allowEarly) ==
  /\ Rec(s) /\ s.life = "live" /\ s.responded = FALSE /\ s.closing = FALSE /\ s.retrying = FALSE
  /\ s.calls = 0 /\ s.fault = FALSE /\ s.resolving = "no" /\ s.ctrlConnecting = FALSE
  /\ s.served = 0 /\ s.idempotent \in BOOLEAN
  /\ \/ s.conns = 0 /\ s.retried = FALSE
     \/ s.conns = 1 /\ s.retried = TRUE /\ s.idempotent = TRUE /\ allowEarly = FALSE

\* quicreq_connect: quic_conn_init resets the connection and leaves the request alone.
LEMMA ConnectEnds ==
  ASSUME NEW s, NEW allowEarly, NEW ok, NEW udp, NEW sub, NEW bad, Due(s, allowEarly)
  PROVE  LET t == Connect(s, allowEarly, ok, udp, sub, bad) IN Looking(t) \/ Shaking(t) \/ Shut(t)
<1>1. PICK w : w = (allowEarly /\ s.idempotent /\ ticket = "early" /\ tp)
  BY Zenon
<1>2. w \in BOOLEAN /\ (w = TRUE => allowEarly /\ s.idempotent)
  BY Zenon, <1>1
<1>3. PICK f : f = [FreshConn EXCEPT !.want = w]
  BY Zenon
<1>4. PICK o : o = [s EXCEPT !.conns = @ + 1]
  BY Zenon
<1>5. PICK n : n = Over(f, o)
  BY Zenon
<1>6. /\ DOMAIN f = {"state", "h", "left", "ready", "ngtcp2", "want", "rejected", "phase", "h3",
                     "early", "reqFin", "delivered"}
      /\ f.state = "Idle" /\ f.h = [x \in Handles |-> "none"] /\ f.ready = FALSE /\ f.want = w
      /\ f.phase = "None" /\ f.early = FALSE
  BY <1>3 DEF FreshConn
<1>7. Rec(s)
  BY Zenon DEF Due
<1>8. /\ Rec(o) /\ o.life = s.life /\ o.responded = s.responded /\ o.closing = s.closing
      /\ o.retrying = s.retrying /\ o.retried = s.retried /\ o.calls = s.calls
      /\ o.served = s.served /\ o.idempotent = s.idempotent /\ o.fault = s.fault
      /\ o.resolving = s.resolving /\ o.ctrlConnecting = s.ctrlConnecting
      /\ o.conns = s.conns + 1
  BY Zenon, <1>4, <1>7 DEF Rec
<1>9. /\ \A x \in DOMAIN f : x \in DOMAIN n /\ n[x] = f[x]
      /\ \A x \in DOMAIN o : x \notin DOMAIN f => x \in DOMAIN n /\ n[x] = o[x]
  BY Zenon, <1>5 DEF Over
<1>10. /\ n.state = "Idle" /\ n.h = [x \in Handles |-> "none"] /\ n.ready = FALSE /\ n.want = w
       /\ n.phase = "None" /\ n.early = FALSE
  BY <1>6, <1>9
<1>11. /\ n.life = s.life /\ n.responded = s.responded /\ n.closing = s.closing
       /\ n.retrying = s.retrying /\ n.retried = s.retried /\ n.calls = s.calls
       /\ n.served = s.served /\ n.idempotent = s.idempotent /\ n.fault = s.fault
       /\ n.resolving = s.resolving /\ n.ctrlConnecting = s.ctrlConnecting
       /\ n.conns = s.conns + 1
  BY <1>6, <1>8, <1>9 DEF Rec
<1>12. DOMAIN n.h = Handles /\ \A x \in Handles : n.h[x] = "none"
  BY Zenon, <1>10
<1>13. Rec(n)
  BY <1>6, <1>8, <1>9, <1>12 DEF Rec
<1>14. (n.conns = 1 /\ s.retried = FALSE)
       \/ (n.conns = 2 /\ s.retried = TRUE /\ s.idempotent = TRUE /\ allowEarly = FALSE)
  BY <1>11 DEF Due
<1>15. n.conns = 2 => s.idempotent = TRUE
  BY <1>14
<1>16. Acc(n)
  BY Zenon, <1>10, <1>11, <1>15 DEF Acc, Due
<1>17. w = TRUE => s.idempotent = TRUE /\ s.retried = FALSE
  BY Zenon, <1>2, <1>14 DEF Due
<1>18. Booked(n)
  BY Zenon, <1>2, <1>10, <1>11, <1>14, <1>17 DEF Booked
<1>19. "Idle" # "Closing" /\ "Idle" # "Failed"
  OBVIOUS
<1>20. Unanswered(n)
  BY Zenon, <1>10, <1>11, <1>12, <1>13, <1>16, <1>19 DEF Unanswered, Due
<1>21. Ripe(n)
  <2>1. "timer" \in Handles
    BY DEF Handles
  <2>2. QED
    BY Zenon, <1>10, <1>11, <1>12, <1>18, <1>19, <1>20, <2>1 DEF Ripe, Under, Calm, Unsent, Due
<1>22. Connect(s, allowEarly, ok, udp, sub, bad) = ConnConnect(n, ok, udp, sub, bad)
  BY Zenon, <1>1, <1>3, <1>4, <1>5 DEF Connect
<1>23. QED
  BY Zenon, <1>21, <1>22, ConnConnectEnds

-----------------------------------------------------------------------------
(* Between callbacks.                                                           *)

Pend(s) == Looking(s) \/ Shaking(s) \/ Up(s) \/ Again(s)

\* The steps that Exchange allows a request.
Moves(s, t) ==
  \/ Status(t) = Status(s) /\ t.calls = s.calls
  \/ Status(s) = "idle" /\ Status(t) = "pending" /\ t.calls = s.calls
  \/ /\ Status(s) \in {"idle", "pending"} /\ Status(t) \in {"answered", "released"}
     /\ t.calls = s.calls + 1
  \/ Status(s) = "answered" /\ Status(t) = "released" /\ t.calls = s.calls

\* A callback that is one of the request's moves.
Moved(r) == \E t : rq' = [rq EXCEPT ![r] = t] /\ ReqInv(t) /\ Moves(rq[r], t)

\* A new request has no connection and has been told nothing.
LEMMA NewFields ==
  /\ Rec(NewReq) /\ NewReq.life = "new" /\ NewReq.responded = FALSE /\ NewReq.closing = FALSE
  /\ NewReq.retrying = FALSE /\ NewReq.retried = FALSE /\ NewReq.calls = 0 /\ NewReq.conns = 0
  /\ NewReq.served = 0 /\ NewReq.fault = FALSE /\ NewReq.resolving = "no"
  /\ NewReq.ctrlConnecting = FALSE /\ NewReq.early = FALSE /\ NewReq.idempotent = FALSE
  /\ NewReq.deadline = "off" /\ \A x \in Handles : NewReq.h[x] = "none"
<1>1. PICK n : n =
        [life |-> "new", idempotent |-> FALSE, proxied |-> FALSE, bind |-> "none",
         resolving |-> "no", ctrlConnecting |-> FALSE, responded |-> FALSE, closing |-> FALSE,
         submitted |-> FALSE, retrying |-> FALSE, retried |-> FALSE, deadline |-> "off",
         calls |-> 0, conns |-> 0, served |-> 0, capture |-> FALSE, fault |-> FALSE]
  BY Zenon
<1>2. /\ {"life", "idempotent", "resolving", "ctrlConnecting", "responded", "closing",
          "submitted", "retrying", "retried", "deadline", "calls", "conns", "served", "fault"}
           \subseteq DOMAIN n
      /\ n.life = "new" /\ n.responded = FALSE /\ n.closing = FALSE
      /\ n.retrying = FALSE /\ n.retried = FALSE /\ n.calls = 0 /\ n.conns = 0
      /\ n.served = 0 /\ n.fault = FALSE /\ n.resolving = "no"
      /\ n.ctrlConnecting = FALSE /\ n.idempotent = FALSE /\ n.deadline = "off"
  BY <1>1
<1>3. /\ DOMAIN FreshConn = {"state", "h", "left", "ready", "ngtcp2", "want", "rejected", "phase",
                             "h3", "early", "reqFin", "delivered"}
      /\ FreshConn.h = [x \in Handles |-> "none"] /\ FreshConn.early = FALSE
  BY DEF FreshConn
<1>4. NewReq = Over(FreshConn, n)
  BY Zenon, <1>1 DEF NewReq
<1>5. /\ \A x \in DOMAIN FreshConn : x \in DOMAIN NewReq /\ NewReq[x] = FreshConn[x]
      /\ \A x \in DOMAIN n : x \notin DOMAIN FreshConn => x \in DOMAIN NewReq /\ NewReq[x] = n[x]
  BY Zenon, <1>4 DEF Over
<1>6. NewReq.h = [x \in Handles |-> "none"] /\ NewReq.early = FALSE
  BY <1>3, <1>5
<1>7. DOMAIN NewReq.h = Handles /\ \A x \in Handles : NewReq.h[x] = "none"
  BY Zenon, <1>6
<1>8. Rec(NewReq)
  BY <1>2, <1>3, <1>5, <1>7 DEF Rec
<1>9. QED
  BY <1>2, <1>3, <1>5, <1>6, <1>7, <1>8

\* What a caller can tell in each of the states of the invariant.
LEMMA Statuses ==
  ASSUME NEW s
  PROVE  /\ s = NewReq => Status(s) = "idle" /\ s.calls = 0
         /\ Pend(s) => Status(s) = "pending" /\ s.calls = 0
         /\ Leaving(s) => Status(s) = "answered" /\ s.calls = 1
         /\ Freed(s) => Status(s) = "released" /\ s.calls = 1
<1>1. "live" # "new" /\ "live" # "recycled" /\ "recycled" # "new"
  OBVIOUS
<1>2. Pend(s) => s.life = "live" /\ s.responded = FALSE /\ s.calls = 0
  BY Zenon DEF Pend, Looking, Shaking, Up, Again, Under, Unanswered
<1>3. Leaving(s) => s.life = "live" /\ s.responded = TRUE /\ s.calls = 1
  BY Zenon DEF Leaving, Done
<1>4. Freed(s) => s.life = "recycled" /\ s.calls = 1
  BY Zenon DEF Freed, Done
<1>5. QED
  BY Zenon, <1>1, <1>2, <1>3, <1>4, NewFields DEF Status

\* The outcome of a callback is installed.
LEMMA Installs ==
  ASSUME NEW r \in Reqs, NEW s, Step(r, s),
         \/ (rq[r] = NewReq \/ Pend(rq[r])) /\ (Pend(s) \/ Leaving(s) \/ Freed(s))
         \/ Leaving(rq[r]) /\ (Leaving(s) \/ Freed(s))
  PROVE  Moved(r)
<1>1. PICK t : t = [s EXCEPT !.capture = FALSE]
  BY Zenon
<1>2. Rec(s)
  BY Zenon DEF Pend, Looking, Shaking, Up, Again, Under, Unanswered, Leaving, Freed, Done
<1>3. Same(s, t) /\ t.submitted = s.submitted
  BY Zenon, <1>1, <1>2, Marks
<1>4. (Pend(s) => Pend(t)) /\ (Leaving(s) => Leaving(t)) /\ (Freed(s) => Freed(t))
  BY Zenon, <1>3, SameUnder, SameShut DEF Pend
<1>5. ReqInv(t)
  BY Zenon, <1>4 DEF ReqInv, Pend
<1>6. Moves(rq[r], t)
  <2>1. PICK q : q = rq[r]
    BY Zenon
  <2>2. CASE (q = NewReq \/ Pend(q)) /\ Pend(t)
    BY Zenon, <2>1, <2>2, Statuses DEF Moves
  <2>3. CASE (q = NewReq \/ Pend(q)) /\ (Leaving(t) \/ Freed(t))
    <3>1. /\ Status(q) \in {"idle", "pending"} /\ q.calls = 0
          /\ Status(t) \in {"answered", "released"} /\ t.calls = 1
      BY Zenon, <2>3, Statuses
    <3>2. t.calls = q.calls + 1
      BY <3>1
    <3>3. QED
      BY Zenon, <2>1, <3>1, <3>2 DEF Moves
  <2>4. CASE Leaving(q) /\ (Leaving(t) \/ Freed(t))
    BY Zenon, <2>1, <2>4, Statuses DEF Moves
  <2>5. QED
    BY Zenon, <1>4, <2>1, <2>2, <2>3, <2>4
<1>7. rq' = [rq EXCEPT ![r] = t]
  BY Zenon, <1>1 DEF Step
<1>8. QED
  BY Zenon, <1>5, <1>6, <1>7 DEF Moved

\* The states a callback finds.
LEMMA Kinds ==
  ASSUME NEW s, ReqInv(s)
  PROVE  /\ s.life = "live" => Pend(s) \/ Leaving(s)
         /\ s.life = "new" => s = NewReq
         /\ s # NewReq => Rec(s)
         /\ Leaving(s) \/ Again(s) => \A x \in Handles : s.h[x] # "open"
         /\ Pend(s) /\ ~Again(s) => Under(s)
<1>1. "live" # "new" /\ "live" # "recycled" /\ "recycled" # "new" /\ "closing" # "open" /\ "none" # "open"
  OBVIOUS
<1>2. Pend(s) => s.life = "live" /\ Rec(s)
  BY Zenon DEF Pend, Looking, Shaking, Up, Again, Under, Unanswered
<1>3. (Leaving(s) => s.life = "live" /\ Rec(s)) /\ (Freed(s) => s.life = "recycled" /\ Rec(s))
  BY Zenon DEF Leaving, Freed, Done
<1>4. Leaving(s) \/ Again(s) => \A x \in Handles : s.h[x] # "open"
  BY Zenon, <1>1 DEF Leaving, Again, Closes
<1>5. Pend(s) /\ ~Again(s) => Under(s)
  BY Zenon DEF Pend, Looking, Shaking, Up
<1>6. QED
  BY Zenon, <1>1, <1>2, <1>3, <1>4, <1>5, NewFields DEF ReqInv, Pend

-----------------------------------------------------------------------------
(* The callbacks.                                                               *)

\* quicreq_start
LEMMA StartMoves == ASSUME Inv, NEW r \in Reqs, Start(r) PROVE Moved(r)
<1>1. rq[r] = NewReq
  BY Zenon, Kinds DEF Start, Inv
<1>2. CASE Step(r, [rq[r] EXCEPT !.life = "recycled", !.responded = TRUE, !.calls = 1])
  <2>1. PICK t : t = [NewReq EXCEPT !.life = "recycled", !.responded = TRUE, !.calls = 1]
    BY Zenon
  <2>2. /\ Rec(t) /\ t.life = "recycled" /\ t.responded = TRUE /\ t.calls = 1
        /\ t.conns = NewReq.conns /\ t.served = NewReq.served /\ t.early = NewReq.early
        /\ t.fault = NewReq.fault /\ t.retrying = NewReq.retrying /\ t.h = NewReq.h
        /\ t.resolving = NewReq.resolving /\ t.deadline = NewReq.deadline
    BY Zenon, <2>1, NewFields DEF Rec
  <2>3. t.conns = 0 /\ t.early = FALSE /\ t.served = 0 /\ 0 # 2
    BY <2>2, NewFields
  <2>4. Acc(t)
    BY Zenon, <2>3 DEF Acc
  <2>5. Freed(t)
    BY ZenonT(40), <2>2, <2>4, NewFields DEF Freed, Done
  <2>6. QED
    BY Zenon, <1>1, <1>2, <2>1, <2>5, Installs
<1>3. ASSUME NEW i \in BOOLEAN, NEW p, NEW d, NEW ok, NEW b, NEW udp, NEW sub, NEW bad,
             Step(r, Connect([rq[r] EXCEPT !.life = "live", !.idempotent = i, !.proxied = p,
                                           !.bind = b, !.deadline = d], TRUE, ok, udp, sub, bad))
      PROVE  Moved(r)
  <2>1. PICK s : s = [NewReq EXCEPT !.life = "live", !.idempotent = i, !.proxied = p,
                                    !.bind = b, !.deadline = d]
    BY Zenon
  <2>2. /\ Rec(s) /\ s.life = "live" /\ s.idempotent = i /\ s.responded = NewReq.responded
        /\ s.closing = NewReq.closing /\ s.retrying = NewReq.retrying
        /\ s.retried = NewReq.retried /\ s.calls = NewReq.calls /\ s.conns = NewReq.conns
        /\ s.served = NewReq.served /\ s.fault = NewReq.fault
        /\ s.resolving = NewReq.resolving /\ s.ctrlConnecting = NewReq.ctrlConnecting
    BY Zenon, <2>1, NewFields DEF Rec
  <2>3. Due(s, TRUE)
    BY Zenon, <2>2, NewFields DEF Due
  <2>4. PICK t : t = Connect(s, TRUE, ok, udp, sub, bad)
    BY Zenon
  <2>5. Looking(t) \/ Shaking(t) \/ Shut(t)
    BY Zenon, <2>3, <2>4, ConnectEnds
  <2>6. Step(r, t)
    BY Zenon, <1>1, <1>3, <2>1, <2>4
  <2>7. QED
    BY Zenon, <1>1, <2>5, <2>6, Installs DEF Pend, Shut
<1>4. CASE \E i, p, t, ok \in BOOLEAN, b \in {"none", "v4"}, udp \in Udps, sub \in Subs,
              bad \in WriteFaults :
             Step(r, Connect([rq[r] EXCEPT !.life = "live", !.idempotent = i, !.proxied = p,
                                !.bind = b, !.deadline = IF t THEN "armed" ELSE "off"],
                             TRUE, ok, udp, sub, bad))
  <2>1. PICK i, p, t, ok \in BOOLEAN, b \in {"none", "v4"}, udp \in Udps, sub \in Subs,
             bad \in WriteFaults :
          Step(r, Connect([rq[r] EXCEPT !.life = "live", !.idempotent = i, !.proxied = p,
                             !.bind = b, !.deadline = IF t THEN "armed" ELSE "off"],
                          TRUE, ok, udp, sub, bad))
    BY Zenon, <1>4
  <2>2. PICK d : d = IF t THEN "armed" ELSE "off"
    BY Zenon
  <2>3. Step(r, Connect([rq[r] EXCEPT !.life = "live", !.idempotent = i, !.proxied = p,
                           !.bind = b, !.deadline = d], TRUE, ok, udp, sub, bad))
    BY Zenon, <2>1, <2>2
  <2>4. QED
    BY ZenonT(40), <1>3, <2>3
<1>5. QED
  BY Zenon, <1>2, <1>4 DEF Start

\* quic_on_resolved, quic_on_target_resolved, quic_on_proxy_resolved
LEMMA ResolvedMoves == ASSUME Inv, NEW r \in Reqs, Resolved(r) PROVE Moved(r)
<1>1. PICK s : s = [rq[r] EXCEPT !.resolving = "no"]
  BY Zenon
<1>2. PICK c : c = [s EXCEPT !.h["ctrl"] = "open"]
  BY Zenon
<1>3. PICK k : k = [c EXCEPT !.ctrlConnecting = TRUE]
  BY Zenon
<1>4. rq[r].resolving # "no" /\ ReqInv(rq[r])
  BY Zenon DEF Resolved, Inv
<1>5. Looking(rq[r])
  BY Zenon, <1>4, NewFields DEF ReqInv, Shaking, Up, Calm, Again, Leaving, Freed, Done
<1>6. PICK q : q = rq[r]
  BY Zenon
<1>7. /\ Under(q) /\ Unsent(q) /\ q.h["timer"] = "none" /\ q.ctrlConnecting = FALSE
      /\ q.phase \in {"None", "Done"} /\ q.resolving # "no"
  BY Zenon, <1>4, <1>5, <1>6 DEF Looking
<1>8. Rec(q) /\ q.want \in BOOLEAN /\ \A x \in Handles : q.h[x] \in {"none", "open"}
  BY Zenon, <1>7 DEF Under, Unanswered, Booked
<1>9. /\ Alike(q, s) /\ s.resolving = "no" /\ s.want = q.want /\ s.h = q.h /\ s.phase = q.phase
      /\ s.ctrlConnecting = q.ctrlConnecting /\ s.state = q.state
  BY Zenon, <1>1, <1>6, <1>8 DEF Rec, Alike
<1>10. Ripe(s)
  <2>1. q.state # "Closing" /\ q.state # "Failed"
    BY Zenon, <1>7 DEF Under, Unanswered
  <2>2. Under(s) /\ Unsent(s)
    BY ZenonT(40), <1>7, <1>8, <1>9, <2>1, AlikeUnder
  <2>3. QED
    BY Zenon, <1>7, <1>9, <2>2 DEF Ripe, Calm
<1>11. Able(s) /\ s.life = "live" /\ s.life # "recycled"
  <2>1. Able(s) /\ s.life = "live"
    BY Zenon, <1>9, <1>10 DEF Able, Ripe, Under, Unanswered
  <2>2. QED
    BY <2>1
<1>12. "ctrl" \in Handles /\ "timer" \in Handles /\ "timer" # "ctrl"
  BY DEF Handles
<1>13. /\ Alike(s, c) /\ Under(c) /\ c.resolving = s.resolving /\ c.phase = s.phase
       /\ c.h["timer"] = s.h["timer"] /\ c.want = s.want /\ c.state = s.state
  <2>1. Under(s)
    BY Zenon, <1>11 DEF Able
  <2>2. QED
    BY ZenonT(40), <1>2, <1>12, <2>1, OpenHandle
<1>14. Able(c) /\ Unsent(c) /\ Rec(c)
  BY Zenon, <1>9, <1>10, <1>13 DEF Able, Ripe, Unsent, Alike
<1>15. /\ Alike(c, k) /\ k.resolving = c.resolving /\ k.phase = c.phase /\ k.h = c.h
       /\ k.want = c.want /\ k.state = c.state /\ k.ctrlConnecting = TRUE
  BY Zenon, <1>3, <1>14 DEF Rec, Alike
<1>16. Looking(k)
  <2>1. /\ c.state # "Closing" /\ c.state # "Failed" /\ c.want \in BOOLEAN
        /\ \A x \in Handles : c.h[x] \in {"none", "open"}
    BY Zenon, <1>13 DEF Under, Unanswered, Booked
  <2>2. Under(k) /\ Unsent(k)
    BY ZenonT(40), <1>13, <1>14, <1>15, <2>1, AlikeUnder
  <2>3. QED
    BY Zenon, <1>9, <1>10, <1>13, <1>15, <2>2 DEF Looking, Ripe, Calm
<1>17. Pend(rq[r])
  BY Zenon, <1>5 DEF Pend
<1>18. CASE Step(r, QuicFail(s)) \/ Step(r, QuicFail(c))
  BY Zenon, <1>11, <1>14, <1>17, <1>18, FailShuts, Installs DEF Shut
<1>19. CASE Step(r, k)
  BY Zenon, <1>16, <1>17, <1>19, Installs DEF Pend
<1>20. ASSUME NEW udp, NEW sub, NEW bad, Step(r, BeginUdp(s, udp, sub, bad)) PROVE Moved(r)
  <2>1. PICK t : t = BeginUdp(s, udp, sub, bad)
    BY Zenon
  <2>2. Shaking(t) \/ Shut(t)
    BY Zenon, <1>10, <2>1, BeginEnds
  <2>3. QED
    BY Zenon, <1>17, <1>20, <2>1, <2>2, Installs DEF Pend, Shut
<1>21. \/ Step(r, QuicFail(s)) \/ Step(r, QuicFail(c)) \/ Step(r, k)
       \/ \E udp \in Udps, sub \in Subs, bad \in WriteFaults : Step(r, BeginUdp(s, udp, sub, bad))
  BY Zenon, <1>1, <1>2, <1>3, <1>11 DEF Resolved
<1>22. QED
  BY Zenon, <1>18, <1>19, <1>20, <1>21

\* quic_on_ctrl_connected
LEMMA CtrlConnectedMoves == ASSUME Inv, NEW r \in Reqs, CtrlConnected(r) PROVE Moved(r)
<1>1. PICK q : q = rq[r]
  BY Zenon
<1>2. q.life = "live" /\ q.ctrlConnecting /\ q.h["ctrl"] = "open" /\ ReqInv(q)
  BY Zenon, <1>1 DEF CtrlConnected, Live, Inv
<1>3. "ctrl" \in Handles
  BY DEF Handles
<1>4. Looking(q) /\ Pend(q) /\ ~Again(q)
  BY Zenon, <1>2, <1>3, Kinds DEF Pend, Shaking, Up, Calm
<1>5. q.resolving = "no" /\ q.phase \in {"None", "Done"} /\ Under(q) /\ Unsent(q) /\ q.h["timer"] = "none"
  BY Zenon, <1>2, <1>4 DEF Looking
<1>6. PICK s : s = [q EXCEPT !.ctrlConnecting = FALSE]
  BY Zenon
<1>7. PICK g : g = [s EXCEPT !.phase = "Greeting"]
  BY Zenon
<1>8. /\ Rec(q) /\ q.want \in BOOLEAN /\ q.state # "Closing" /\ q.state # "Failed"
      /\ \A x \in Handles : q.h[x] \in {"none", "open"}
  BY Zenon, <1>5 DEF Under, Unanswered, Booked
<1>9. /\ Alike(q, s) /\ s.resolving = q.resolving /\ s.want = q.want /\ s.h = q.h
      /\ s.ctrlConnecting = FALSE /\ s.state = q.state /\ Rec(s)
  BY Zenon, <1>6, <1>8 DEF Rec, Alike
<1>10. /\ Alike(q, g) /\ g.resolving = q.resolving /\ g.want = q.want /\ g.h = q.h
       /\ g.ctrlConnecting = FALSE /\ g.state = q.state /\ g.phase = "Greeting"
  BY Zenon, <1>7, <1>9 DEF Rec, Alike
<1>11. Under(s)
  BY ZenonT(40), <1>5, <1>8, <1>9, AlikeUnder
<1>12. Under(g) /\ Unsent(g)
  BY ZenonT(40), <1>5, <1>8, <1>10, AlikeUnder
<1>13. Able(s) /\ Looking(g)
  BY Zenon, <1>5, <1>9, <1>10, <1>11, <1>12 DEF Able, Looking
<1>14. Step(r, QuicFail(s)) \/ Step(r, g)
  BY Zenon, <1>1, <1>6, <1>7 DEF CtrlConnected
<1>15. QED
  BY Zenon, <1>1, <1>4, <1>13, <1>14, FailShuts, Installs DEF Pend, Shut

\* quic_proxy_advance during the negotiation.
LEMMA AdvanceEnds ==
  ASSUME NEW s, NEW reply, NEW ok, NEW udp, NEW sub, NEW bad, Looking(s), s.resolving = "no",
         s.ctrlConnecting = FALSE, s.phase \in {"Greeting", "Auth", "Associate"}
  PROVE  LET t == ProxyAdvance(s, reply, ok, udp, sub, bad) IN Looking(t) \/ Shaking(t) \/ Shut(t)
<1>1. PICK t : t = ProxyAdvance(s, reply, ok, udp, sub, bad)
  BY Zenon
<1>2. /\ Under(s) /\ Unsent(s) /\ Rec(s) /\ s.want \in BOOLEAN /\ s.state # "Closing"
      /\ s.state # "Failed" /\ \A x \in Handles : s.h[x] \in {"none", "open"}
  BY Zenon DEF Looking, Under, Unanswered, Booked
<1>3. ASSUME NEW v
      PROVE  LET u == [s EXCEPT !.phase = v]
             IN /\ Under(u) /\ Unsent(u) /\ u.h = s.h /\ u.resolving = "no"
                /\ u.ctrlConnecting = FALSE /\ u.phase = v
  <2>1. PICK u : u = [s EXCEPT !.phase = v]
    BY Zenon
  <2>2. /\ Alike(s, u) /\ u.h = s.h /\ u.resolving = s.resolving /\ u.want = s.want
        /\ u.ctrlConnecting = s.ctrlConnecting /\ u.phase = v /\ u.state = s.state
    BY Zenon, <1>2, <2>1 DEF Rec, Alike
  <2>3. Under(u) /\ Unsent(u)
    BY ZenonT(40), <1>2, <2>2, AlikeUnder
  <2>4. QED
    BY Zenon, <2>1, <2>2, <2>3
<1>4. Looking([s EXCEPT !.phase = "Auth"]) /\ Looking([s EXCEPT !.phase = "Associate"])
  BY Zenon, <1>3 DEF Looking
<1>5. PICK d : d = [s EXCEPT !.phase = "Done"]
  BY Zenon
<1>6. Ripe(d)
  BY Zenon, <1>3, <1>5 DEF Ripe, Calm, Looking
<1>7. "ptarget" # "no"
  OBVIOUS
<1>8. \A x : /\ x = BeginUdp(d, udp, sub, bad) => Shaking(x) \/ Shut(x)
             /\ x = Resolve(d, "ptarget", ok) => Looking(x) \/ Shut(x)
  BY Zenon, <1>6, <1>7, BeginEnds, ResolveEnds
<1>9. Shut(QuicFail(s))
  BY Zenon, <1>2, FailShuts DEF Able
<1>10. \/ t = QuicFail(s) \/ t = [s EXCEPT !.phase = "Auth"] \/ t = [s EXCEPT !.phase = "Associate"]
       \/ t = s \/ t = BeginUdp(d, udp, sub, bad) \/ t = Resolve(d, "ptarget", ok)
  BY <1>1, <1>5 DEF ProxyAdvance
<1>11. QED
  BY Zenon, <1>1, <1>4, <1>8, <1>9, <1>10

\* quic_ctrl_read_cb
LEMMA CtrlReadMoves == ASSUME Inv, NEW r \in Reqs, CtrlRead(r) PROVE Moved(r)
<1>1. PICK q : q = rq[r]
  BY Zenon
<1>2. PICK reply \in {"ok", "userpass", "refused", "part"}, ok \in BOOLEAN, udp \in Udps,
           sub \in Subs, bad \in WriteFaults :
        Step(r, ProxyAdvance(q, reply, ok, udp, sub, bad))
  BY Zenon, <1>1 DEF CtrlRead
<1>3. /\ q.life = "live" /\ q.h["ctrl"] = "open" /\ q.phase \in {"Greeting", "Auth", "Associate"}
      /\ ReqInv(q)
  BY Zenon, <1>1 DEF CtrlRead, Live, Inv
<1>4. "ctrl" \in Handles /\ q.phase \notin {"None", "Done"}
  BY <1>3 DEF Handles
<1>5. Looking(q) /\ Pend(q)
  BY Zenon, <1>3, <1>4, Kinds DEF Pend, Shaking, Up, Calm
<1>6. q.resolving = "no" /\ q.ctrlConnecting = FALSE
  BY Zenon, <1>4, <1>5 DEF Looking
<1>7. PICK t : t = ProxyAdvance(q, reply, ok, udp, sub, bad)
  BY Zenon
<1>8. Looking(t) \/ Shaking(t) \/ Shut(t)
  BY Zenon, <1>3, <1>5, <1>6, <1>7, AdvanceEnds
<1>9. QED
  BY Zenon, <1>1, <1>2, <1>5, <1>7, <1>8, Installs DEF Pend, Shut

\* quic_ctrl_read_cb at the channel's end.
LEMMA CtrlEndMoves == ASSUME SlowDns = FALSE, Inv, NEW r \in Reqs, CtrlEnd(r) PROVE Moved(r)
<1>1. PICK q : q = rq[r]
  BY Zenon
<1>2. /\ q.life = "live" /\ q.h["ctrl"] = "open" /\ q.resolving = "no"
      /\ ReqInv(q) /\ Step(r, QuicFail(q))
  BY Zenon, <1>1 DEF CtrlEnd, Live, Inv
<1>3. "ctrl" \in Handles
  BY DEF Handles
<1>4. Pend(q) /\ Able(q)
  BY Zenon, <1>2, <1>3, Kinds DEF Able
<1>5. QED
  BY Zenon, <1>1, <1>2, <1>4, FailShuts, Installs DEF Shut

\* A live request with its QUIC timer open is shaking hands or established.
LEMMA TimerKinds ==
  ASSUME Inv, NEW r \in Reqs, Live(r), rq[r].h["timer"] = "open"
  PROVE  (Shaking(rq[r]) \/ Up(rq[r])) /\ Pend(rq[r]) /\ Able(rq[r])
<1>1. PICK q : q = rq[r]
  BY Zenon
<1>2. q.life = "live" /\ q.h["timer"] = "open" /\ ReqInv(q)
  BY Zenon, <1>1 DEF Live, Inv
<1>3. "timer" \in Handles /\ "open" # "none"
  BY DEF Handles
<1>4. Shaking(q) \/ Up(q)
  BY Zenon, <1>2, <1>3, Kinds DEF Pend, Looking
<1>5. QED
  BY Zenon, <1>1, <1>4 DEF Shaking, Up, Calm, Able, Pend

\* quic_timer_cb
LEMMA QuicTimerMoves == ASSUME Inv, NEW r \in Reqs, QuicTimer(r) PROVE Moved(r)
<1>1. Pend(rq[r]) /\ Able(rq[r])
  BY Zenon, TimerKinds DEF QuicTimer
<1>2. CASE Step(r, QuicFail(rq[r]))
  BY Zenon, <1>1, <1>2, FailShuts, Installs DEF Shut
<1>3. ASSUME NEW bad, Step(r, FlushEgress(rq[r], bad)) PROVE Moved(r)
  <2>1. PICK t : t = FlushEgress(rq[r], bad)
    BY Zenon
  <2>2. t = rq[r] \/ Shut(t)
    BY Zenon, <1>1, <2>1, FlushShuts
  <2>3. QED
    BY Zenon, <1>1, <1>3, <2>1, <2>2, Installs DEF Shut
<1>4. QED
  BY Zenon, <1>2, <1>3 DEF QuicTimer

\* The packet's events and what follows them.
LEMMA PacketEnds ==
  ASSUME NEW s, Shaking(s) \/ Out(s) \/ Again(s), NEW events \in Events(s), NEW rv, NEW bad
  PROVE  LET t == AfterPkt(Apply(s, events), rv, bad)
         IN Shaking(t) \/ Up(t) \/ Again(t) \/ Shut(t)
<1>1. PICK a : a = Apply(s, events)
  BY Zenon
<1>2. events \in {"none", "fin", "close", "fin+close"}
  BY DEF Events
<1>3. Shaking(a) \/ Out(a) \/ Again(a)
  <2>1. CASE Out(s)
    BY Zenon, <1>1, <1>2, <2>1, ApplyOut
  <2>2. CASE Shaking(s) \/ Again(s)
    <3>1. s.served = 0
      BY Zenon, <2>2 DEF Shaking, Again
    <3>2. events = "none"
      BY <3>1 DEF Events
    <3>3. a = s
      BY <1>1, <3>2 DEF Apply
    <3>4. QED
      BY Zenon, <2>2, <3>3
  <2>3. QED
    BY Zenon, <2>1, <2>2
<1>4. CASE Shut(a)
  BY Zenon, <1>1, <1>4, ShutStays DEF AfterPkt
<1>5. CASE Again(a)
  <2>1. QuicFail(a) = a /\ FlushEgress(a, bad) = a
    BY Zenon, <1>5 DEF QuicFail, FlushEgress, Again
  <2>2. QED
    BY Zenon, <1>1, <1>5, <2>1 DEF AfterPkt
<1>6. CASE Shaking(a) \/ Up(a)
  <2>1. Able(a)
    BY Zenon, <1>6 DEF Shaking, Up, Calm, Able
  <2>2. Shut(QuicFail(a)) /\ (FlushEgress(a, bad) = a \/ Shut(FlushEgress(a, bad)))
    BY Zenon, <2>1, FailShuts, FlushShuts
  <2>3. QED
    BY Zenon, <1>1, <1>6, <2>2 DEF AfterPkt
<1>7. QED
  BY Zenon, <1>3, <1>4, <1>5, <1>6 DEF Out

\* quic_recv_cb
LEMMA RecvMoves == ASSUME Inv, NEW r \in Reqs, Recv(r) PROVE Moved(r)
<1>1. PICK q : q = rq[r]
  BY Zenon
<1>2. (Shaking(q) \/ Up(q)) /\ Pend(q) /\ Able(q)
  BY Zenon, <1>1, TimerKinds DEF Recv
<1>3. CASE Step(r, QuicFail(q))
  BY Zenon, <1>1, <1>2, <1>3, FailShuts, Installs DEF Shut
<1>4. ASSUME NEW done \in BOOLEAN, NEW taken \in BOOLEAN, NEW rv \in BOOLEAN, NEW sub \in Subs,
             NEW bad \in WriteFaults, done => q.state \in {"Handshaking", "EarlyData"},
             taken => done /\ q.early,
             NEW s, s = ReadPkt(q, done, taken, sub, bad),
             NEW events \in Events(s), Step(r, AfterPkt(Apply(s, events), rv, bad))
      PROVE  Moved(r)
  <2>1. Shaking(s) \/ Out(s) \/ Again(s)
    <3>1. CASE ~done
      BY Zenon, <1>2, <1>4, <3>1 DEF ReadPkt, Out
    <3>2. CASE done
      <4>1. q.state # "Established"
        BY <1>4, <3>2
      <4>2. Shaking(q)
        BY Zenon, <1>2, <4>1 DEF Up
      <4>3. taken = TRUE => q.early = TRUE
        BY Zenon, <1>4, <4>2 DEF Shaking, Under, Unanswered, Acc
      <4>4. s = HandshakeCompleted(q, taken, sub, bad)
        BY Zenon, <1>4, <3>2 DEF ReadPkt
      <4>5. QED
        BY Zenon, <4>2, <4>3, <4>4, HandshakeEnds
    <3>3. QED
      BY Zenon, <3>1, <3>2
  <2>2. PICK t : t = AfterPkt(Apply(s, events), rv, bad)
    BY Zenon
  <2>3. Shaking(t) \/ Up(t) \/ Again(t) \/ Shut(t)
    BY Zenon, <2>1, <2>2, PacketEnds
  <2>4. QED
    BY Zenon, <1>1, <1>2, <1>4, <2>2, <2>3, Installs DEF Pend, Shut
<1>5. CASE \E done, taken, rv \in BOOLEAN, sub \in Subs, bad \in WriteFaults :
             LET s == ReadPkt(rq[r], done, taken, sub, bad)
             IN /\ done => rq[r].state \in {"Handshaking", "EarlyData"}
                /\ taken => done /\ rq[r].early
                /\ \E events \in Events(s) : Step(r, AfterPkt(Apply(s, events), rv, bad))
  <2>1. PICK done, taken, rv \in BOOLEAN, sub \in Subs, bad \in WriteFaults :
          LET s == ReadPkt(rq[r], done, taken, sub, bad)
          IN /\ done => rq[r].state \in {"Handshaking", "EarlyData"}
             /\ taken => done /\ rq[r].early
             /\ \E events \in Events(s) : Step(r, AfterPkt(Apply(s, events), rv, bad))
    BY Zenon, <1>5
  <2>2. PICK s : s = ReadPkt(rq[r], done, taken, sub, bad) /\ s = ReadPkt(q, done, taken, sub, bad)
    BY Zenon, <1>1
  <2>3. PICK events \in Events(s) : Step(r, AfterPkt(Apply(s, events), rv, bad))
    BY Zenon, <2>1, <2>2
  <2>4. QED
    BY Zenon, <1>1, <1>4, <2>1, <2>2, <2>3
<1>6. CASE Step(r, QuicFail(rq[r]))
  BY Zenon, <1>1, <1>3, <1>6
<1>7. QED
  BY Zenon, <1>5, <1>6 DEF Recv

\* quicreq_on_timeout
LEMMA TimeoutMoves == ASSUME SlowDns = FALSE, Inv, NEW r \in Reqs, Timeout(r) PROVE Moved(r)
<1>1. PICK q : q = rq[r]
  BY Zenon
<1>2. PICK s : s = [q EXCEPT !.deadline = "fired"]
  BY Zenon
<1>3. /\ q.deadline = "armed" /\ ~q.retrying /\ q.resolving = "no" /\ ReqInv(q)
      /\ Step(r, IF s.life = "recycled" THEN [s EXCEPT !.fault = TRUE] ELSE Finish(DeliverError(s)))
  BY Zenon, <1>1, <1>2 DEF Timeout, Inv
<1>4. q.deadline \notin {"off", "closed"} /\ q # NewReq
  BY <1>3, NewFields
<1>5. ~Freed(q) /\ ~Again(q)
  BY Zenon, <1>3, <1>4 DEF Freed, Again
<1>6. Rec(q) /\ (Leaving(q) \/ (Pend(q) /\ Under(q)))
  BY Zenon, <1>3, <1>4, <1>5, Kinds DEF ReqInv, Pend
<1>7. /\ Rec(s) /\ Alike(q, s) /\ s.h = q.h /\ s.state = q.state /\ s.resolving = q.resolving
      /\ s.left = q.left /\ s.want = q.want
  BY Zenon, <1>2, <1>6 DEF Rec, Alike
<1>8. CASE Leaving(q)
  <2>1. Acc(s)
    BY Zenon, <1>7, <1>8 DEF Alike, Leaving, Done, Acc
  <2>2. Closes(s)
    BY Zenon, <1>7, <1>8 DEF Leaving, Closes
  <2>3. Leaving(s)
    BY Zenon, <1>7, <1>8, <2>1, <2>2 DEF Alike, Leaving, Done
  <2>4. s.life = "live" /\ s.life # "recycled"
    <3>1. s.life = "live"
      BY Zenon, <2>3 DEF Leaving
    <3>2. QED
      BY <3>1
  <2>5. Finish(DeliverError(s)) = s
    BY Zenon, <2>3, ShutStays DEF Shut
  <2>6. QED
    BY Zenon, <1>1, <1>3, <1>8, <2>3, <2>4, <2>5, Installs
<1>9. CASE Pend(q) /\ Under(q)
  <2>1. /\ q.want \in BOOLEAN /\ q.state # "Closing" /\ q.state # "Failed" /\ q.life = "live"
        /\ \A x \in Handles : q.h[x] \in {"none", "open"}
    BY Zenon, <1>9 DEF Under, Unanswered, Booked
  <2>2. Under(s)
    BY ZenonT(40), <1>7, <1>9, <2>1, AlikeUnder
  <2>3. Shut(Finish(DeliverError(s)))
    BY Zenon, <1>3, <1>7, <2>2, ErrorShuts DEF Under
  <2>4. s.life # "recycled"
    <3>1. s.life = "live"
      BY Zenon, <1>7, <2>1 DEF Alike
    <3>2. QED
      BY <3>1
  <2>5. QED
    BY Zenon, <1>1, <1>3, <1>9, <2>3, <2>4, Installs DEF Shut
<1>10. QED
  BY Zenon, <1>6, <1>8, <1>9

\* One of the closing handles is closed.
Less(q, s, x) ==
  /\ Rec(s) /\ s.life = q.life /\ s.responded = q.responded /\ s.closing = q.closing
  /\ s.retrying = q.retrying /\ s.retried = q.retried /\ s.calls = q.calls
  /\ s.conns = q.conns /\ s.served = q.served /\ s.early = q.early
  /\ s.idempotent = q.idempotent /\ s.fault = q.fault /\ s.resolving = q.resolving
  /\ s.state = q.state /\ (s.ctrlConnecting = q.ctrlConnecting \/ s.ctrlConnecting = FALSE)
  /\ s.left = q.left - 1 /\ s.h = [q.h EXCEPT ![x] = "none"]

LEMMA OneClosed ==
  ASSUME NEW q, NEW s, NEW x \in Handles, Rec(q), Closes(q), q.h[x] = "closing", Less(q, s, x)
  PROVE  /\ s.left = 0 => \A y \in Handles : s.h[y] = "none"
         /\ s.left # 0 => Closes(s)
<1>1. PICK S \in SUBSET Handles : S = {y \in Handles : q.h[y] = "closing"}
  BY Zenon
<1>2. x \in S /\ q.left = Cardinality(S)
  BY Zenon, <1>1 DEF Closes
<1>3. Cardinality(S \ {x}) = Cardinality(S) - 1
  BY Zenon, <1>2, HandlesCount
<1>4. s.left = Cardinality(S \ {x})
  BY Zenon, <1>2, <1>3 DEF Less
<1>5. \A y \in Handles : s.h[y] = IF y = x THEN "none" ELSE q.h[y]
  BY Zenon DEF Less, Rec
<1>6. "none" # "closing"
  OBVIOUS
<1>7. {y \in Handles : s.h[y] = "closing"} = S \ {x}
  BY Zenon, <1>1, <1>5, <1>6
<1>8. \A y \in Handles : s.h[y] \in {"none", "closing"}
  BY Zenon, <1>5 DEF Closes
<1>9. ASSUME s.left = 0 PROVE \A y \in Handles : s.h[y] = "none"
  <2>1. S \ {x} \in SUBSET Handles
    BY Zenon
  <2>2. S \ {x} = {}
    BY Zenon, <1>4, <1>9, <2>1, HandlesCount
  <2>3. QED
    BY Zenon, <1>7, <1>8, <2>2
<1>10. ASSUME s.left # 0 PROVE Closes(s)
  BY Zenon, <1>4, <1>7, <1>8, <1>10 DEF Closes
<1>11. QED
  BY Zenon, <1>9, <1>10

\* quic_on_handle_closed and quicreq_on_fully_closed
LEMMA HandleClosedMoves ==
  ASSUME Inv, NEW r \in Reqs, NEW x \in Handles, HandleClosed(r, x) PROVE Moved(r)
<1> DEFINE d == IF x = "ctrl" /\ rq[r].ctrlConnecting
                THEN QuicFail([rq[r] EXCEPT !.ctrlConnecting = FALSE]) ELSE rq[r]
           s == [d EXCEPT !.h[x] = "none", !.left = @ - 1]
<1>0.  \/ s.left > 0 /\ Step(r, IF s.life = "recycled" THEN [s EXCEPT !.fault = TRUE] ELSE s)
       \/ s.life = "live" /\ s.left = 0 /\ ~s.retrying /\ Step(r, Recycled(s))
       \/ /\ s.life = "live" /\ s.left = 0 /\ s.retrying
          /\ \E ok \in BOOLEAN, udp \in Udps, sub \in Subs, bad \in WriteFaults :
               Step(r, Connect([s EXCEPT !.retrying = FALSE, !.closing = FALSE,
                                         !.submitted = FALSE], FALSE, ok, udp, sub, bad))
  BY Zenon DEF HandleClosed
<1>1. PICK q : q = rq[r]
  BY Zenon
<1>2. q.h[x] = "closing" /\ ReqInv(q)
  BY Zenon, <1>1 DEF HandleClosed, Inv
<1>3. q.h[x] \notin {"none", "open"} /\ q.h[x] # "none"
  BY <1>2
<1>4. Again(q) \/ Leaving(q)
  BY Zenon, <1>2, <1>3, NewFields DEF ReqInv, Looking, Shaking, Up, Under, Unanswered, Freed
<1>5. Rec(q) /\ Closes(q) /\ q.state = "Closing" /\ q.life = "live" /\ Acc(q)
  BY Zenon, <1>4 DEF Again, Leaving, Done
<1>6. PICK f : f = [q EXCEPT !.ctrlConnecting = FALSE]
  BY Zenon
<1>7. /\ Rec(f) /\ f.life = q.life /\ f.responded = q.responded /\ f.closing = q.closing
      /\ f.retrying = q.retrying /\ f.retried = q.retried /\ f.calls = q.calls
      /\ f.conns = q.conns /\ f.served = q.served /\ f.early = q.early
      /\ f.idempotent = q.idempotent /\ f.fault = q.fault /\ f.resolving = q.resolving
      /\ f.state = q.state /\ f.ctrlConnecting = FALSE /\ f.left = q.left /\ f.h = q.h
  BY Zenon, <1>5, <1>6 DEF Rec
<1>8. QuicFail(f) = f
  BY Zenon, <1>5, <1>7 DEF QuicFail
<1>9. PICK c : c = IF x = "ctrl" /\ q.ctrlConnecting THEN f ELSE q
  BY Zenon
<1>10. /\ Rec(c) /\ c.life = q.life /\ c.responded = q.responded /\ c.closing = q.closing
       /\ c.retrying = q.retrying /\ c.retried = q.retried /\ c.calls = q.calls
       /\ c.conns = q.conns /\ c.served = q.served /\ c.early = q.early
       /\ c.idempotent = q.idempotent /\ c.fault = q.fault /\ c.resolving = q.resolving
       /\ c.state = q.state /\ c.left = q.left /\ c.h = q.h
       /\ c.ctrlConnecting = q.ctrlConnecting \/ c.ctrlConnecting = FALSE
  <2>1. c = f \/ c = q
    BY Zenon, <1>9
  <2>2. QED
    BY Zenon, <1>5, <1>7, <2>1
<1>11. s = [c EXCEPT !.h[x] = "none", !.left = @ - 1]
  <2>1. d = c
    BY Zenon, <1>1, <1>6, <1>8, <1>9
  <2> HIDE DEF d
  <2>2. QED
    BY Zenon, <2>1
<1> HIDE DEF s, d
<1>12. Less(q, s, x)
  <2>1. PICK g : g = [c.h EXCEPT ![x] = "none"]
    BY Zenon
  <2>2. PICK n : n = c.left - 1
    BY Zenon
  <2>3. s = [c EXCEPT !.h = g, !.left = n]
    BY Zenon, <1>11, <2>1, <2>2
  <2>4. /\ s.life = c.life /\ s.responded = c.responded /\ s.closing = c.closing
        /\ s.retrying = c.retrying /\ s.retried = c.retried /\ s.calls = c.calls
        /\ s.conns = c.conns /\ s.served = c.served /\ s.early = c.early
        /\ s.idempotent = c.idempotent /\ s.fault = c.fault /\ s.resolving = c.resolving
        /\ s.state = c.state /\ s.left = n /\ s.h = g /\ s.ctrlConnecting = c.ctrlConnecting
    BY Zenon, <1>10, <2>3 DEF Rec
  <2>5. DOMAIN g = Handles
    BY Zenon, <1>10, <2>1 DEF Rec
  <2>6. Rec(s)
    BY Zenon, <1>10, <2>3, <2>4, <2>5 DEF Rec
  <2>7. QED
    BY Zenon, <1>10, <2>1, <2>2, <2>4, <2>6 DEF Less
<1>13. /\ s.left = 0 => \A y \in Handles : s.h[y] = "none"
       /\ s.left # 0 => Closes(s)
  BY Zenon, <1>2, <1>5, <1>12, OneClosed
<1>14. Acc(s) /\ s.life = "live" /\ s.state = "Closing" /\ "live" # "recycled"
  <2>1. Acc(s)
    BY Zenon, <1>5, <1>12 DEF Acc, Less
  <2>2. QED
    BY <1>5, <1>12, <2>1 DEF Less
<1>15. CASE s.left > 0 /\ Step(r, IF s.life = "recycled" THEN [s EXCEPT !.fault = TRUE] ELSE s)
  <2>1. s.left # 0
    BY <1>15
  <2>2. Closes(s) /\ Step(r, s)
    BY Zenon, <1>13, <1>14, <1>15, <2>1
  <2>3. Leaving(q) => Leaving(s)
    BY Zenon, <1>12, <1>14, <2>2 DEF Leaving, Done, Less
  <2>4. Again(q) => Again(s)
    BY ZenonT(40), <1>12, <1>14, <2>2 DEF Again, Less
  <2>5. QED
    BY Zenon, <1>1, <1>4, <2>2, <2>3, <2>4, Installs DEF Pend
<1>16. CASE s.life = "live" /\ s.left = 0 /\ ~s.retrying /\ Step(r, Recycled(s))
  <2>1. Leaving(q)
    BY Zenon, <1>4, <1>12, <1>16 DEF Again, Less
  <2>2. PICK t : t = Recycled(s)
    BY Zenon
  <2>3. Rec(s)
    BY Zenon, <1>12 DEF Less
  <2>4. /\ Rec(t) /\ t.life = "recycled" /\ t.responded = s.responded /\ t.calls = s.calls
        /\ t.fault = s.fault /\ t.retrying = s.retrying /\ t.resolving = s.resolving
        /\ t.served = s.served /\ t.early = s.early /\ t.idempotent = s.idempotent
        /\ t.conns = s.conns /\ t.h = s.h /\ t.deadline \in {"off", "closed"}
    BY Zenon, <2>2, <2>3 DEF Rec, Recycled
  <2>5. Acc(t)
    BY Zenon, <1>14, <2>4 DEF Acc
  <2>6. Done(t)
    BY ZenonT(40), <1>12, <2>1, <2>4, <2>5 DEF Leaving, Done, Less
  <2>7. \A y \in Handles : t.h[y] = "none"
    BY Zenon, <1>13, <1>16, <2>4
  <2>8. Freed(t)
    BY Zenon, <2>4, <2>6, <2>7 DEF Freed
  <2>9. QED
    BY Zenon, <1>1, <1>16, <2>1, <2>2, <2>8, Installs
<1>17. ASSUME s.retrying, NEW ok, NEW udp, NEW sub, NEW bad,
              Step(r, Connect([s EXCEPT !.retrying = FALSE, !.closing = FALSE,
                                        !.submitted = FALSE], FALSE, ok, udp, sub, bad))
       PROVE  Moved(r)
  <2>1. Again(q)
    BY Zenon, <1>4, <1>12, <1>17 DEF Leaving, Done, Less
  <2>2. PICK n : n = [s EXCEPT !.retrying = FALSE, !.closing = FALSE, !.submitted = FALSE]
    BY Zenon
  <2>3. Rec(s)
    BY Zenon, <1>12 DEF Less
  <2>4. /\ Rec(n) /\ n.life = s.life /\ n.responded = s.responded /\ n.closing = FALSE
        /\ n.retrying = FALSE /\ n.retried = s.retried /\ n.calls = s.calls
        /\ n.fault = s.fault /\ n.resolving = s.resolving /\ n.served = s.served
        /\ n.ctrlConnecting = s.ctrlConnecting /\ n.idempotent = s.idempotent
        /\ n.conns = s.conns
    BY Zenon, <2>2, <2>3 DEF Rec
  <2>5. /\ s.responded = FALSE /\ s.retried = TRUE /\ s.calls = 0 /\ s.fault = FALSE
        /\ s.resolving = "no" /\ s.ctrlConnecting = FALSE /\ s.conns = 1 /\ s.served = 0
        /\ s.idempotent = TRUE
    BY Zenon, <1>12, <2>1 DEF Again, Less
  <2>6. Due(n, FALSE)
    BY Zenon, <1>14, <2>4, <2>5 DEF Due
  <2>7. PICK t : t = Connect(n, FALSE, ok, udp, sub, bad)
    BY Zenon
  <2>8. Looking(t) \/ Shaking(t) \/ Shut(t)
    BY Zenon, <2>6, <2>7, ConnectEnds
  <2>9. QED
    BY Zenon, <1>1, <1>17, <2>1, <2>2, <2>7, <2>8, Installs DEF Pend, Shut
<1>18. QED
  BY Zenon, <1>0, <1>15, <1>16, <1>17

-----------------------------------------------------------------------------
(* The theorems.                                                                *)

\* Every step is a move of one request, or none.
LEMMA NextMoves ==
  ASSUME SlowDns = FALSE, Inv, [Next]_vars
  PROVE  rq' = rq \/ \E r \in Reqs : Moved(r)
<1>1. CASE UNCHANGED vars
  BY Zenon, <1>1 DEF vars
<1>2. CASE CachesChange
  BY Zenon, <1>2 DEF CachesChange
<1>3. ASSUME NEW r \in Reqs,
             \/ Start(r) \/ Resolved(r) \/ CtrlConnected(r) \/ CtrlRead(r) \/ CtrlEnd(r)
             \/ Recv(r) \/ QuicTimer(r) \/ Timeout(r)
             \/ \E x \in Handles : HandleClosed(r, x)
      PROVE  Moved(r)
  BY Zenon, <1>3, StartMoves, ResolvedMoves, CtrlConnectedMoves, CtrlReadMoves, CtrlEndMoves,
     RecvMoves, QuicTimerMoves, TimeoutMoves, HandleClosedMoves
<1>4. QED
  BY Zenon, <1>1, <1>2, <1>3 DEF Next

\* The inductive invariant: a request is new, looking for its address, shaking hands,
\* established, about to try again, closing, or recycled.
THEOREM QuicInvariance == ASSUME SlowDns = FALSE PROVE Spec => []Inv
<1>1. Init => Inv
  BY Zenon DEF Init, Inv, ReqInv
<1>2. Inv /\ [Next]_vars => Inv'
  <2>1. SUFFICES ASSUME Inv, [Next]_vars PROVE Inv'
    BY Zenon
  <2>2. CASE rq' = rq
    BY Zenon, <2>1, <2>2 DEF Inv
  <2>3. ASSUME NEW r \in Reqs, Moved(r) PROVE Inv'
    <3>1. PICK t : rq' = [rq EXCEPT ![r] = t] /\ ReqInv(t)
      BY Zenon, <2>3 DEF Moved
    <3>2. QED
      BY Zenon, <2>1, <3>1 DEF Inv
  <2>4. QED
    BY Zenon, <2>1, <2>2, <2>3, NextMoves
<1>3. QED
  BY <1>1, <1>2, PTL DEF Spec

\* The server acts on a request at most once over both of its connections, and only
\* an idempotent one goes out early or is sent again.
THEOREM QuicOnceOnly == ASSUME SlowDns = FALSE PROVE Spec => []QuicServedOnce
<1>1. Inv => QuicServedOnce
  <2>1. SUFFICES ASSUME Inv, NEW r \in Reqs
                 PROVE  rq[r].served <= 1 /\ (rq[r].early \/ rq[r].conns = 2 => rq[r].idempotent)
    BY Zenon DEF QuicServedOnce
  <2>2. PICK q : q = rq[r] /\ ReqInv(q)
    BY Zenon, <2>1 DEF Inv
  <2>3. Acc(q)
    <3>1. NewReq.served \in {0, 1} /\ NewReq.conns # 2 /\ NewReq.early = FALSE
      BY NewFields
    <3>2. Acc(NewReq)
      BY Zenon, <3>1 DEF Acc
    <3>3. QED
      BY Zenon, <2>2, <3>2
         DEF ReqInv, Looking, Shaking, Up, Under, Unanswered, Again, Leaving, Freed, Done
  <2>4. q.served <= 1
    BY <2>3 DEF Acc
  <2>5. QED
    BY Zenon, <2>2, <2>3, <2>4 DEF Acc
<1>2. QED
  BY <1>1, QuicInvariance, PTL

\* Once a request is answered every handle of its connection is closing and counted,
\* and it is recycled only when none is left.
THEOREM QuicTornDown ==
  ASSUME SlowDns = FALSE PROVE Spec => [](QuicAnsweredCloses /\ QuicFreedForGood)
<1>1. Inv => QuicAnsweredCloses /\ QuicFreedForGood
  <2>1. ASSUME NEW q, ReqInv(q)
        PROVE  /\ q.life = "live" /\ q.responded =>
                    /\ q.state = "Closing"
                    /\ \A x \in Handles : q.h[x] # "open"
                    /\ q.left = Cardinality({x \in Handles : q.h[x] = "closing"})
               /\ ~q.fault
               /\ q.life = "recycled" => \A x \in Handles : q.h[x] = "none"
    <3>1. "live" # "new" /\ "live" # "recycled" /\ "recycled" # "new"
      OBVIOUS
    <3>2. CASE q = NewReq
      BY Zenon, <3>1, <3>2, NewFields
    <3>3. CASE Pend(q)
      BY Zenon, <3>1, <3>3 DEF Pend, Looking, Shaking, Up, Again, Under, Unanswered
    <3>4. CASE Leaving(q)
      BY Zenon, <2>1, <3>1, <3>4, Kinds DEF Leaving, Done, Closes
    <3>5. CASE Freed(q)
      BY Zenon, <3>1, <3>5 DEF Freed, Done
    <3>6. QED
      BY Zenon, <2>1, <3>2, <3>3, <3>4, <3>5 DEF ReqInv, Pend
  <2>2. QED
    BY Zenon, <2>1 DEF Inv, QuicAnsweredCloses, QuicFreedForGood, Live
<1>2. QED
  BY <1>1, QuicInvariance, PTL

\* A non-pooled QUIC request is an Exchange: its callback runs exactly once, and its
\* arena is recycled only then.
THEOREM QuicExchanges == ASSUME SlowDns = FALSE PROVE Spec => QuicImplementsExchange
<1>1. Init => QuicExchange!Init
  <2>1. SUFFICES ASSUME Init PROVE QuicExchange!Init
    OBVIOUS
  <2>2. \A r \in Reqs : Status(rq[r]) = "idle" /\ rq[r].calls = 0
    BY Zenon, <2>1, Statuses DEF Init
  <2>3. QED
    BY Zenon, <2>2 DEF QuicExchange!Init
<1>2. Inv /\ [Next]_vars => [QuicExchange!Next]_(QuicExchange!vars)
  <2>1. SUFFICES ASSUME Inv, [Next]_vars PROVE [QuicExchange!Next]_(QuicExchange!vars)
    OBVIOUS
  <2>2. CASE rq' = rq
    BY Zenon, <2>2 DEF QuicExchange!vars
  <2>3. ASSUME NEW r \in Reqs, Moved(r) PROVE [QuicExchange!Next]_(QuicExchange!vars)
    <3>1. PICK t : rq' = [rq EXCEPT ![r] = t] /\ Moves(rq[r], t)
      BY Zenon, <2>3 DEF Moved
    <3>2. DOMAIN rq = Reqs
      BY Zenon, <2>1 DEF Inv
    <3>3. PICK st : st = [q \in Reqs |-> Status(rq[q])]
      BY Zenon
    <3>4. PICK ca : ca = [q \in Reqs |-> rq[q].calls]
      BY Zenon
    <3>5. /\ [q \in Reqs |-> Status(rq'[q])] = [st EXCEPT ![r] = Status(t)]
          /\ [q \in Reqs |-> rq'[q].calls] = [ca EXCEPT ![r] = t.calls]
          /\ st[r] = Status(rq[r]) /\ ca[r] = rq[r].calls
      BY Zenon, <3>1, <3>2, <3>3, <3>4
    <3>6. CASE Status(t) = Status(rq[r]) /\ t.calls = rq[r].calls
      BY <3>3, <3>4, <3>5, <3>6 DEF QuicExchange!vars
    <3>7. CASE Status(rq[r]) = "idle" /\ Status(t) = "pending" /\ t.calls = rq[r].calls
      BY Zenon, <3>3, <3>4, <3>5, <3>7 DEF QuicExchange!Next, QuicExchange!Begin
    <3>8. CASE /\ Status(rq[r]) \in {"idle", "pending"} /\ Status(t) \in {"answered", "released"}
               /\ t.calls = rq[r].calls + 1
      BY Zenon, <3>3, <3>4, <3>5, <3>8 DEF QuicExchange!Next, QuicExchange!Answer
    <3>9. CASE Status(rq[r]) = "answered" /\ Status(t) = "released" /\ t.calls = rq[r].calls
      BY Zenon, <3>3, <3>4, <3>5, <3>9 DEF QuicExchange!Next, QuicExchange!Release
    <3>10. QED
      BY Zenon, <3>1, <3>6, <3>7, <3>8, <3>9 DEF Moves
  <2>4. QED
    BY Zenon, <2>1, <2>2, <2>3, NextMoves
<1>3. QED
  BY <1>1, <1>2, QuicInvariance, PTL DEF Spec, QuicImplementsExchange, QuicExchange!Spec
=============================================================================
