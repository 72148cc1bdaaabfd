------------------------------ MODULE WebSocket ------------------------------
(* A WsConn (ws.c): a WebSocket driven by blocking calls, each of which runs the *)
(* client's event loop until a callback has set the flag it waits for and woken  *)
(* it with loop_stop.  The loop is shared: another call on the same client may   *)
(* run it, and this socket's callbacks with it, between two calls.               *)
(*                                                                               *)
(* The connection below is the one TcpRequest models in detail; here it is the   *)
(* callbacks it delivers.                                                        *)
EXTENDS Integers, Sequences

CONSTANTS MaxMsgs,  \* application messages the peer sends; it sends one Close
          Shared    \* whether the client's loop has other users

VARIABLES ws,       \* the WsConn
          call,     \* the blocking call the user is in, "none" between calls
          arrived   \* how many messages the peer's frames have brought
wsVars == <<ws, call, arrived>>

Blocking == {"connect", "recv", "close", "free"}
Frames == {"msg", "ping", "pong", "close", "bad", "inflate"}

\* ws_conn_alloc.
Fresh ==
  [life |-> "open", conn |-> "none", resolving |-> FALSE, transport |-> "None",
   h2up |-> FALSE, submitted |-> FALSE,
   hs |-> "part", est |-> FALSE, fail |-> FALSE, closed |-> FALSE, fullyClosed |-> FALSE,
   peerClose |-> FALSE, closeLate |-> FALSE, recvLate |-> FALSE, dead |-> FALSE,
   queue |-> <<>>, got |-> <<>>, timer |-> "none", stop |-> FALSE, rc |-> 9]

-----------------------------------------------------------------------------
(* What the callbacks do, each up to its last ws_wake.                          *)

Wake(w) == [w EXCEPT !.stop = TRUE]
Failed(w) == Wake([w EXCEPT !.fail = TRUE])

Sendable(w) == ~w.fail /\ ~w.closed /\ w.est

\* ws_conn_send: refused once failed or closed; a message (never a control frame)
\* that does not deflate fails the connection, from the user's own call.
SendFrame(w, deflated) == IF Sendable(w) /\ ~deflated THEN [w EXCEPT !.fail = TRUE] ELSE w

\* ws_on_event: a ping is answered, a message or the peer's Close is queued.  Frame
\* "inflate" is a compressed message that does not inflate; a queued 0 is a Close.
\* Mutant: the peer's Close does not wake the call that waits for it.
OnEventQuiet(w, f) ==
  CASE f.kind = "ping" -> SendFrame(w, TRUE)
    [] f.kind = "pong" -> w
    [] f.kind = "inflate" -> Failed(w)
    [] f.kind = "close" -> [w EXCEPT !.queue = Append(@, 0), !.peerClose = TRUE]
    [] OTHER -> Wake([w EXCEPT !.queue = Append(@, f.n)])
OnEvent(w, f) ==
  CASE f.kind = "ping" -> SendFrame(w, TRUE)
    [] f.kind = "pong" -> w
    [] f.kind = "inflate" -> Failed(w)
    [] f.kind = "close" -> Wake([w EXCEPT !.queue = Append(@, 0), !.peerClose = TRUE])
    [] OTHER -> Wake([w EXCEPT !.queue = Append(@, f.n)])

\* ws_parser_feed: events up to a protocol error, which leaves the parser dead.
RECURSIVE Feed(_, _)
Feed(w, frames) ==
  IF frames = <<>> \/ w.dead THEN w
  ELSE IF Head(frames).kind = "bad" THEN [w EXCEPT !.dead = TRUE]
  ELSE Feed(OnEvent(w, Head(frames)), Tail(frames))

\* Feed's caller fails the connection when the parser reports an error.
FeedChecked(w, frames) == LET f == Feed(w, frames) IN IF f.dead THEN Failed(f) ELSE f

\* ws_h1_drain: before the 101 the bytes belong to the handshake (hs: incomplete,
\* rejected, accepted), and what follows the 101 is fed without looking at the
\* result; afterwards every byte is framing.
H1Drain(w, hs, frames) ==
  IF w.est THEN FeedChecked(w, frames)
  ELSE CASE hs = "part" -> w
         [] hs = "bad" -> Failed([w EXCEPT !.hs = "bad"])
         [] hs = "ok" -> Wake(Feed([w EXCEPT !.est = TRUE], frames))

\* ws_h2_submit: a refused CONNECT fails the connection.
H2Submit(w, ok) == IF ok THEN [w EXCEPT !.submitted = TRUE]
                   ELSE Failed([w EXCEPT !.submitted = TRUE])

\* ws_h2_drain: h2_session_recv reports SETTINGS, the CONNECT response, DATA, the
\* end of the stream, or a protocol error; then the CONNECT is submitted once the
\* server allows it.
H2Event(w, event, frames) ==
  CASE event = "settings" -> [w EXCEPT !.h2up = TRUE]
    [] event = "200" -> Wake([w EXCEPT !.est = TRUE])
    [] event = "rejected" -> Failed(w)
    [] event = "data" -> FeedChecked(w, frames)
    [] event = "eof" -> Wake([w EXCEPT !.closed = TRUE])
    [] event = "error" -> Failed(w)
RECURSIVE H2Recv(_, _, _)
H2Recv(w, events, frames) ==
  IF events = <<>> THEN w
  ELSE H2Recv(H2Event(w, Head(events), frames), Tail(events), frames)
H2Drain(w, events, frames, ok) ==
  LET r == H2Recv(w, events, frames)
  IN IF ~r.fail /\ ~r.submitted /\ r.h2up THEN H2Submit(r, ok) ELSE r

\* ws_on_ready: how the handshake ended, or which protocol it chose; an HTTP/2
\* session may fail to start.
OnReady(w, alpn) ==
  CASE alpn = "failed" -> Failed([w EXCEPT !.conn = "dead"])
    [] alpn = "h2broken" -> Failed([w EXCEPT !.conn = "up", !.transport = "H2"])
    [] alpn = "h2" -> [w EXCEPT !.conn = "up", !.transport = "H2"]
    [] alpn = "h1" -> [w EXCEPT !.conn = "up", !.transport = "H1"]

\* conn_close: the handle starts to close unless it has, or has closed.
ConnClose(w) ==
  [w EXCEPT !.conn = IF @ \in {"resolving", "pending", "up", "dead"} THEN "closing" ELSE @]

-----------------------------------------------------------------------------
(* The loop.                                                                    *)

\* uv_loop_alive.
Alive(w) == Shared \/ w.resolving \/ w.conn \in {"pending", "up", "closing"} \/ w.timer # "none"

LoopRuns == \/ call \in Blocking /\ ~ws.stop
            \/ Shared /\ call = "none" /\ ws.life = "open"

Callback(w) == LoopRuns /\ ws' = w /\ UNCHANGED call

\* conn_on_resolved.
Resolved ==
  /\ ws.resolving
  /\ \/ Callback([OnReady(ws, "failed") EXCEPT !.resolving = FALSE])
     \/ Callback([ws EXCEPT !.resolving = FALSE, !.conn = "pending"])
  /\ UNCHANGED arrived

Ready ==
  /\ ws.conn = "pending"
  /\ \E alpn \in {"failed", "h1", "h2", "h2broken"} : Callback(OnReady(ws, alpn))
  /\ UNCHANGED arrived

\* The frames one read may bring: messages are numbered as they arrive, and what
\* follows a protocol error is never looked at.
Batches == {<<>>} \cup {<<f>> : f \in Frames} \cup {<<f, g>> : f \in Frames \ {"bad"}, g \in Frames}
Messages(frames) == Len(SelectSeq(frames, LAMBDA f : f \in {"msg", "inflate"}))
Numbered(frames) ==
  [i \in DOMAIN frames |->
     [kind |-> frames[i], n |-> arrived + Messages(SubSeq(frames, 1, i))]]
Closes(frames) == Len(SelectSeq(frames, LAMBDA f : f = "close"))
Arrive(frames) == /\ arrived' = arrived + Messages(frames)
                  /\ arrived' <= MaxMsgs
                  /\ Closes(frames) <= IF ws.peerClose THEN 0 ELSE 1
                  /\ ws.dead => frames = <<>>

ReadH1 ==
  /\ ws.conn = "up" /\ ws.transport = "H1"
  /\ \E hs \in {"part", "bad", "ok"}, frames \in Batches :
       /\ hs # "ok" /\ ~ws.est => frames = <<>>
       /\ ws.hs = "bad" => hs = "bad"
       /\ ws.est => hs = "ok"
       /\ Arrive(frames)
       /\ Callback(H1Drain(ws, hs, Numbered(frames)))

H2Batches == {<<"settings">>, <<"rejected">>, <<"200">>, <<"200", "data">>, <<"200", "error">>,
              <<"data">>, <<"data", "eof">>, <<"data", "error">>, <<"eof">>, <<"error">>}
ReadH2 ==
  /\ ws.conn = "up" /\ ws.transport = "H2"
  /\ \E events \in H2Batches, frames \in Batches, ok \in BOOLEAN :
       /\ Head(events) = "settings" => ~ws.h2up
       /\ Head(events) \in {"200", "rejected"} => ws.submitted /\ ~ws.est
       /\ Head(events) \in {"data", "eof"} => ws.est
       /\ "data" \notin {events[i] : i \in DOMAIN events} => frames = <<>>
       /\ Arrive(frames)
       /\ Callback(H2Drain(ws, events, Numbered(frames), ok))

\* ws_on_closed, at the end of the stream or a read error.
PeerGone ==
  /\ ws.conn = "up"
  /\ Callback(Wake([ws EXCEPT !.conn = "dead", !.closed = TRUE]))
  /\ UNCHANGED arrived

FullyClosed ==
  /\ ws.conn = "closing"
  /\ Callback(Wake([ws EXCEPT !.conn = "gone", !.fullyClosed = TRUE]))
  /\ UNCHANGED arrived

\* ws_on_connect_timeout, ws_on_close_timeout, ws_on_recv_timeout.  A lookup that
\* outlasts the deadline is TcpRequest's subject.
TimerFires ==
  /\ ws.timer # "none" /\ ~ws.resolving
  /\ LET w == [ws EXCEPT !.timer = "none"]
     IN Callback(CASE ws.timer = "connect" -> IF w.est THEN w ELSE Failed(w)
                   [] ws.timer = "close" -> Wake([w EXCEPT !.closeLate = TRUE])
                   [] ws.timer = "recv" -> Wake([w EXCEPT !.recvLate = TRUE]))
  /\ UNCHANGED arrived

-----------------------------------------------------------------------------
(* The calls.                                                                   *)

\* What each call's loop waits for.
Done(w, c) ==
  CASE c = "connect" -> w.est \/ w.fail \/ w.closed
    [] c = "recv" -> w.queue # <<>> \/ w.fail \/ w.closed \/ w.recvLate
    [] c = "close" -> w.peerClose \/ w.closed \/ w.fail \/ w.closeLate
    [] c = "free" -> w.fullyClosed \/ ~Alive(w)

\* What each call does once its wait is over: ws_conn_recv hands out the oldest
\* message before it looks at anything else.
\* Mutant: an error is reported ahead of the messages that arrived before it.
RecvErrorFirst(w) ==
  IF w.fail \/ w.closed THEN [w EXCEPT !.rc = -1, !.queue = <<>>]
  ELSE [w EXCEPT !.rc = 1, !.got = Append(@, Head(w.queue)), !.queue = Tail(@)]
RecvResult(w) ==
  IF w.queue # <<>>
  THEN [w EXCEPT !.rc = IF Head(w.queue) = 0 THEN 0 ELSE 1,
                 !.got = Append(@, Head(w.queue)), !.queue = Tail(@)]
  ELSE [w EXCEPT !.rc = IF w.fail \/ w.closed THEN -1 ELSE -2]

\* ws_conn_close, after the peer's Close or two seconds.
CloseEnd(w) == [ConnClose(w) EXCEPT !.closed = TRUE]

\* req_timer_disarm, and the end of the call.
End(w, c) ==
  LET d == [w EXCEPT !.timer = "none", !.stop = FALSE]
  IN CASE c = "connect" -> d
       [] c = "recv" -> RecvResult(d)
       [] c = "close" -> CloseEnd(d)
       [] c = "free" -> [d EXCEPT !.life = "freed"]

\* A call that blocks runs the loop only if what it waits for has not happened.
Enter(w, c) ==
  IF Done(w, c) THEN ws' = End(w, c) /\ call' = "none" ELSE ws' = w /\ call' = c

\* loop_run returns when it has been stopped or has nothing left to do.
Return ==
  /\ call \in Blocking
  /\ ws.stop \/ ~Alive(ws)
  /\ Enter([ws EXCEPT !.stop = FALSE], call)
  /\ UNCHANGED arrived

Idle == call = "none" /\ ws.life = "open"

Connect ==
  /\ Idle /\ ws.conn = "none" /\ ~ws.fail
  /\ \/ ws' = [ws EXCEPT !.fail = TRUE] /\ UNCHANGED call
     \/ \E t \in {"none", "connect"}, conn \in {"resolving", "pending", "dead"} :
          Enter([ws EXCEPT !.timer = t, !.conn = conn, !.resolving = conn = "resolving",
                           !.fail = conn = "dead"], "connect")
  /\ UNCHANGED arrived

Send ==
  /\ Idle
  /\ \E deflated \in BOOLEAN : ws' = SendFrame(ws, deflated)
  /\ UNCHANGED <<call, arrived>>

Recv ==
  /\ Idle /\ (ws.est \/ ws.fail \/ ws.closed)
  /\ \E t \in {"none", "recv"} : Enter([ws EXCEPT !.timer = t, !.recvLate = FALSE], "recv")
  /\ UNCHANGED arrived

\* The Close frame goes out, and the call waits for the peer's, two seconds long.
Close ==
  /\ Idle /\ ws.conn # "none"
  /\ IF Sendable(ws)
     THEN Enter([SendFrame(ws, TRUE) EXCEPT !.timer = "close", !.closeLate = FALSE], "close")
     ELSE ws' = [ConnClose(ws) EXCEPT !.closed = TRUE] /\ UNCHANGED call
  /\ UNCHANGED arrived

\* ws_conn_free closes the connection, forgets whether it had closed, and waits.
\* Mutant: it does not wait.
FreeAtOnce ==
  /\ Idle
  /\ ws' = [ConnClose(ws) EXCEPT !.life = "freed"]
  /\ UNCHANGED <<call, arrived>>
Free ==
  /\ Idle
  /\ IF ws.conn = "none" THEN ws' = [ws EXCEPT !.life = "freed"] /\ UNCHANGED call
     ELSE Enter([ConnClose(ws) EXCEPT !.fullyClosed = FALSE], "free")
  /\ UNCHANGED arrived

Init == ws = Fresh /\ call = "none" /\ arrived = 0

Loop == Resolved \/ Ready \/ ReadH1 \/ ReadH2 \/ PeerGone \/ FullyClosed \/ TimerFires
Next == Loop \/ Return \/ Connect \/ Send \/ Recv \/ Close \/ Free

Spec == Init /\ [][Next]_wsVars

\* The loop's own steps: close callbacks, lookups and due timers come, and a
\* stopped loop returns.
Fairness == WF_wsVars(Return) /\ WF_wsVars(FullyClosed) /\ WF_wsVars(TimerFires)
            /\ WF_wsVars(Resolved)
FairSpec == Spec /\ Fairness

-----------------------------------------------------------------------------
TypeOK ==
  /\ ws \in [life : {"open", "freed"},
             conn : {"none", "resolving", "pending", "up", "dead", "closing", "gone"},
             resolving : BOOLEAN, transport : {"None", "H1", "H2"}, h2up : BOOLEAN,
             submitted : BOOLEAN, hs : {"part", "bad"}, est : BOOLEAN, fail : BOOLEAN,
             closed : BOOLEAN, fullyClosed : BOOLEAN, peerClose : BOOLEAN, closeLate : BOOLEAN,
             recvLate : BOOLEAN, dead : BOOLEAN, queue : Seq(0..MaxMsgs), got : Seq(0..MaxMsgs),
             timer : {"none", "connect", "recv", "close"}, stop : BOOLEAN, rc : {-2, -1, 0, 1, 9}]
  /\ call \in Blocking \cup {"none"}
  /\ arrived \in 0..MaxMsgs

\* No wakeup is lost: while a blocking call sits in the loop, what it waits for has
\* not happened, whichever callback of whichever transport made it happen.
NoLostWakeup == call \in Blocking /\ ~ws.stop /\ Alive(ws) => ~Done(ws, call)

\* Until the connection fails, ws_conn_recv has handed out, and the queue holds,
\* exactly the messages the peer sent, in order, whether they came with the 101,
\* during another call or after a timed-out receive.
IsMessage(n) == n # 0
InOrder == ~ws.fail => SelectSeq(ws.got \o ws.queue, IsMessage) = [i \in 1..arrived |-> i]

\* A receive reports an error or a timeout only when no message is left to hand out.
ErrorsComeLast ==
  call = "recv" /\ call' = "none" /\ ws'.rc < 0 => ws.queue = <<>> /\ ws'.queue = <<>>

\* A WsConn is freed only when its socket is closed: no handle in the loop points
\* into the arena that is released.
FreedClosed == ws.life = "freed" => ws.conn \in {"none", "gone"}

\* A call with a deadline returns, whatever the peer does.
DeadlineReturns == ws.timer # "none" ~> call = "none"

\* ws_conn_free returns when it has a connection to close.
FreeReturns == call = "free" /\ ws.conn = "closing" ~> ws.life = "freed"
=============================================================================
