------------------------------ MODULE H2Session ------------------------------
(* One HTTP/2 session of h2/h2.c over nghttp2.  nghttp2 owns the streams and    *)
(* calls back with the user data of a stream; the session owns a Req per stream, *)
(* with an arena and perhaps a decoder of its own.  A stream ends by the peer's  *)
(* END_STREAM or RST_STREAM, by a GOAWAY that refuses it, by a cancel, or with   *)
(* the session, and the last two reach no close callback.  A step of the peer is *)
(* one frame through h2_session_recv, its trailing flush included.               *)
EXTENDS Naturals, Sequences, FiniteSets, SequencesExt

CONSTANTS MaxStreams,  \* the bound on the streams of a session
          MaxData,     \* the bound on the DATA frames the peer sends on one stream
          MaxOut,      \* the bound on the units one stream writes
          Window       \* the receive window in frames, of a stream and of the session

VARIABLES h2,    \* H2Session, with nghttp2's connection window
          strm   \* stream -> the Req and nghttp2's stream
h2vars == <<h2, strm>>

Streams == 1 .. MaxStreams
Kinds == {"buffered", "chunked"}

\* recv, eaten: nghttp2's recv_window_size and consumed_size.
Closed == [use |-> "none", open |-> 0, goaway |-> FALSE, live |-> <<>>, recv |-> 0, eaten |-> 0]

NoReq == [kind |-> "none", user |-> FALSE, arena |-> "none", dec |-> "none", failed |-> FALSE,
          status |-> FALSE, body |-> 0, calls |-> 0, ok |-> FALSE, cancelled |-> FALSE,
          state |-> "idle", recv |-> 0, eaten |-> 0, sent |-> 0, fin |-> FALSE,
          wq |-> <<>>, off |-> 0, eof |-> FALSE, deferred |-> FALSE, credit |-> 0,
          queued |-> 0, out |-> <<>>, ended |-> FALSE]

Opened == {s \in Streams : strm[s].state = "open"}
World == [h |-> h2, s |-> strm]
Install(w) == h2' = w.h /\ strm' = w.s

-----------------------------------------------------------------------------
(* The callbacks                                                             *)

Gone(held) == IF held = "held" THEN "freed" ELSE held

\* on_stream_close_cb: the answer, and then the request's arena goes.  A WebSocket's Req
\* lives on the session's arena, and its callback is the end-of-data call.
StreamClose(w, s, clean) ==
  LET q == w.s[s]
      over == [q EXCEPT !.state = "closed", !.user = FALSE]
      less == [w EXCEPT !.h.open = @ - 1]
  IN IF ~q.user THEN [w EXCEPT !.s[s] = over]
     ELSE IF q.kind = "ws" THEN [less EXCEPT !.s[s] = [over EXCEPT !.calls = @ + 1]]
     ELSE [less EXCEPT !.h.live = SelectSeq(@, LAMBDA t : t # s),
                       !.s[s] = [over EXCEPT !.arena = Gone(@), !.dec = Gone(@),
                                             !.calls = @ + 1, !.ok = clean /\ ~q.failed]]

\* body_read_cb and ws_data_read_cb: what fits the peer's window, END_STREAM with the
\* last of it; a WebSocket's empty queue defers until it is resumed or finished.
ReadData(q) ==
  LET n == IF Len(q.wq) - q.off < q.credit THEN Len(q.wq) - q.off ELSE q.credit
      drained == q.off + n = Len(q.wq)
  IN IF Len(q.wq) = q.off /\ ~q.eof THEN [q EXCEPT !.deferred = TRUE]
     ELSE [q EXCEPT !.out = @ \o SubSeq(q.wq, q.off + 1, q.off + n), !.credit = @ - n,
                    !.wq = IF drained THEN <<>> ELSE @, !.off = IF drained THEN 0 ELSE q.off + n,
                    !.ended = drained /\ q.eof,
                    !.deferred = drained /\ ~q.eof]

\* nghttp2_session_send for one stream: nghttp2 reads only into an open window, and a
\* stream whose both sides have ended is closed.
Flush(w, s) ==
  LET q == w.s[s]
      p == IF q.state # "open" \/ q.ended \/ q.deferred \/ q.credit = 0 THEN q ELSE ReadData(q)
      v == [w EXCEPT !.s[s] = p]
  IN IF p.state = "open" /\ p.fin /\ p.ended THEN StreamClose(v, s, TRUE) ELSE v

\* nghttp2 sends a WINDOW_UPDATE once half of a window has been consumed.
Consume(x) ==
  LET eaten == x.eaten + 1
      due == IF eaten < x.recv THEN eaten ELSE x.recv
  IN IF due >= Window \div 2 THEN [x EXCEPT !.recv = @ - due, !.eaten = eaten - due]
     ELSE [x EXCEPT !.eaten = eaten]

\* Mutant: the connection window is not given back.
OnDataStreamOnly(w, s, bad) ==
  [w EXCEPT !.s[s] = Consume(IF w.s[s].user THEN [@ EXCEPT !.body = @ + 1] ELSE @)]

\* on_data_cb: to the WebSocket, through the decoder made at the first DATA, or into the
\* body; and whoever took it, the windows are given back.
OnData(w, s, bad) ==
  LET q == w.s[s]
      taken == IF q.kind = "chunked"
               THEN [q EXCEPT !.dec = IF @ = "none" THEN "held" ELSE @, !.failed = @ \/ bad,
                              !.body = IF bad THEN @ ELSE @ + 1]
               ELSE [q EXCEPT !.body = @ + 1]
  IN [w EXCEPT !.h = Consume(@), !.s[s] = Consume(IF q.user THEN taken ELSE q)]

-----------------------------------------------------------------------------
(* Calls of the session's owner                                              *)

\* h2_session_alloc and h2_session_start, for the pool or for one WebSocket.
Alloc(use) ==
  /\ h2.use = "none"
  /\ h2' = [Closed EXCEPT !.use = use]
  /\ strm' = [s \in Streams |-> NoReq]

Fresh == CHOOSE s \in Streams : strm[s].state = "idle" /\ \A t \in 1 .. s - 1 : strm[t].state # "idle"
Idle == \E s \in Streams : strm[s].state = "idle"

\* h2_session_submit_request: tracked and counted before the flush, which may already end
\* the stream.  The pool asks no session that has seen a GOAWAY.
SubmitRequest(kind, body) ==
  /\ h2.use = "pool" /\ ~h2.goaway /\ Idle
  /\ LET s == Fresh
         q == [NoReq EXCEPT !.kind = kind, !.user = TRUE, !.arena = "held", !.state = "open",
                            !.wq = [i \in 1 .. body |-> i], !.queued = body, !.eof = TRUE,
                            !.ended = body = 0, !.credit = 1]
     IN Install(Flush([World EXCEPT !.h.open = @ + 1, !.h.live = <<s>> \o @, !.s[s] = q], s))

\* nghttp2 refuses the submit: the arena is recycled and nothing else happened.
SubmitRefused ==
  /\ h2.use = "pool" /\ Idle
  /\ strm' = [strm EXCEPT ![Fresh] = [NoReq EXCEPT !.state = "closed", !.arena = "freed"]]
  /\ UNCHANGED h2

\* h2_session_ws_connect.  After a GOAWAY nghttp2 closes the stream inside the flush.
WsConnect ==
  /\ h2.use = "ws" /\ strm[1].state = "idle"
  /\ LET q == [NoReq EXCEPT !.kind = "ws", !.user = TRUE, !.state = "open", !.credit = 1]
         w == [World EXCEPT !.h.open = @ + 1, !.s[1] = q]
     IN Install(IF h2.goaway THEN StreamClose(w, 1, FALSE) ELSE Flush(w, 1))

\* h2_session_ws_send and the caller's flush: the sent prefix goes before the frame is
\* appended.  ws_conn_close finishes last, so nothing is sent after it.
WsSend(s, n) ==
  /\ strm[s].kind = "ws" /\ strm[s].user /\ strm[s].queued + n <= MaxOut /\ ~strm[s].eof
  /\ LET q == strm[s]
     IN Install(Flush([World EXCEPT !.s[s] =
          [q EXCEPT !.wq = SubSeq(@, q.off + 1, Len(@)) \o [i \in 1 .. n |-> q.queued + i],
                    !.off = 0, !.queued = @ + n, !.deferred = FALSE]], s))

\* h2_session_ws_finish and the caller's flush
WsFinish(s) ==
  /\ strm[s].kind = "ws" /\ strm[s].user /\ ~strm[s].eof
  /\ Install(Flush([World EXCEPT !.s[s].eof = TRUE, !.s[s].deferred = FALSE], s))

\* h2_session_cancel_stream: without its user data the close callback does nothing, so
\* the count is taken down here, and the Req waits for h2_session_release.
Cancel(s) ==
  /\ strm[s].kind \in Kinds /\ strm[s].user
  /\ LET w == [World EXCEPT !.h.open = @ - 1, !.s[s].cancelled = TRUE, !.s[s].user = FALSE]
     IN Install(StreamClose(w, s, FALSE))

\* h2_session_release: nghttp2 frees the open streams without a callback.
Release ==
  /\ h2.use # "none"
  /\ h2' = Closed
  /\ strm' = [s \in Streams |->
       LET q == strm[s]
           over == [q EXCEPT !.user = FALSE, !.state = "closed"]
       IN IF Contains(h2.live, s)
          THEN [over EXCEPT !.arena = IF @ = "held" THEN "freed" ELSE "twice", !.dec = Gone(@)]
          ELSE over]

-----------------------------------------------------------------------------
(* Frames of the peer                                                        *)

\* on_header_cb and on_frame_recv_cb
Headers(s) ==
  /\ s \in Opened /\ ~strm[s].status /\ ~strm[s].fin
  /\ Install([World EXCEPT !.s[s].status = TRUE])

\* Also for a stream whose RST_STREAM the peer has not seen yet: nghttp2 then ignores the
\* DATA and returns it to the connection's window by itself.
Data(s, bad) ==
  /\ h2.use # "none" /\ h2.recv < Window
  /\ strm[s].status /\ ~strm[s].fin /\ strm[s].sent < MaxData
  /\ bad => strm[s].kind = "chunked"
  /\ \/ /\ s \in Opened /\ strm[s].recv < Window
        /\ Install(Flush(OnData([World EXCEPT !.h.recv = @ + 1, !.s[s].recv = @ + 1,
                                               !.s[s].sent = @ + 1], s, bad), s))
     \/ /\ strm[s].cancelled /\ ~bad
        /\ Install([World EXCEPT !.h = Consume([@ EXCEPT !.recv = @ + 1]), !.s[s].sent = @ + 1])

\* END_STREAM; the stream closes when our side has ended too.
EndStream(s) ==
  /\ s \in Opened /\ strm[s].status /\ ~strm[s].fin
  /\ Install(Flush([World EXCEPT !.s[s].fin = TRUE], s))

Reset(s) ==
  /\ s \in Opened
  /\ Install(StreamClose(World, s, FALSE))

\* GOAWAY: nghttp2 closes the streams above the last one the peer will serve.
Goaway(last) ==
  /\ h2.use # "none" /\ ~h2.goaway
  /\ LET refused == {s \in Opened : s > last}
         close(s, w) == StreamClose(w, s, FALSE)
     IN Install(FoldSeq(close, [World EXCEPT !.h.goaway = TRUE],
                        SetToSortSeq(refused, LAMBDA a, b : a > b)))

\* The peer's WINDOW_UPDATE for what we send.
Credit(s) ==
  /\ s \in Opened /\ strm[s].credit = 0 /\ ~strm[s].ended
  /\ Install(Flush([World EXCEPT !.s[s].credit = @ + 1], s))

Init == h2 = Closed /\ strm = [s \in Streams |-> NoReq]

Next ==
  \/ \E use \in {"pool", "ws"} : Alloc(use)
  \/ \E kind \in Kinds, body \in {0, 2} : SubmitRequest(kind, body)
  \/ SubmitRefused \/ WsConnect \/ Release
  \/ \E last \in 0 .. MaxStreams : Goaway(last)
  \/ \E s \in Streams, n \in {1, 2} : WsSend(s, n)
  \/ \E s \in Streams : WsFinish(s) \/ Cancel(s) \/ Headers(s) \/ EndStream(s)
                        \/ Reset(s) \/ Credit(s)
  \/ \E s \in Streams, bad \in BOOLEAN : Data(s, bad)
Spec == Init /\ [][Next]_h2vars

-----------------------------------------------------------------------------
(* Properties                                                                *)

\* A request's arena, and its decoder, are held exactly while the session tracks it, are
\* recycled once, and outlive no session (on_stream_close_cb against the sweep of
\* h2_session_release).
ArenasBalanced ==
  /\ \A s \in Streams : (strm[s].arena = "held") <=> Contains(h2.live, s)
  /\ \A s \in Streams : strm[s].dec = "held" => Contains(h2.live, s)
  /\ \A s \in Streams : strm[s].arena # "twice"
  /\ IsInjective(h2.live)

\* open_streams, which h2_session_idle reads, counts the streams that still owe an answer.
OpenExact == h2.open = Cardinality({s \in Streams : strm[s].user})

\* A stream is answered once, after a cancel never; success is reported only for a body
\* that is complete and decoded.
AnswersTrue ==
  \A s \in Streams :
    /\ strm[s].calls <= 1
    /\ strm[s].cancelled => strm[s].calls = 0
    /\ strm[s].ok => strm[s].fin /\ strm[s].ended /\ strm[s].body = strm[s].sent

\* What is written reaches the wire once, in order, and END_STREAM follows all of it
\* (ws_data_read_cb and the compaction of h2_session_ws_send).
SendsInOrder ==
  \A s \in Streams :
    LET q == strm[s]
    IN /\ q.state = "open" => q.out \o SubSeq(q.wq, q.off + 1, Len(q.wq)) = [i \in 1 .. q.queued |-> i]
       /\ q.ended => Len(q.out) = q.queued

\* The peer is never left without a window: "DATA stalls for good once a stream window or
\* the connection window drains", also by DATA of cancelled streams.
WindowsReopen == h2.recv < Window /\ \A s \in Opened : strm[s].recv < Window
=============================================================================
