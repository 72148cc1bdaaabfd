------------------------------ MODULE H1Session ------------------------------
(* One HTTP/1.1 response through h1/h1.c.  The bytes arrive in any chunking; a   *)
(* token of the wire is a run of bytes that picohttpparser treats alike: a piece *)
(* of the header region, its end, a chunk-size line, one unit of body, the last  *)
(* chunk with its trailer, or garbage.                                           *)
EXTENDS Naturals, Sequences, SequencesExt, FiniteSetsExt

CONSTANTS Heads,      \* the possible numbers of tokens of a header region
          MaxBody,    \* the bound on the units of a body
          HeaderCap   \* H1_MAX_HEADER_REGION in tokens

VARIABLES resp,   \* the response the server sends
          wire,   \* its tokens not yet received
          h1      \* H1Session
h1vars == <<resp, wire, h1>>

NoResp == [framing |-> "none", keep |-> FALSE, head |-> 0, body |-> 0, bad |-> FALSE, extra |-> 0]
Fresh == [state |-> "headers", in |-> <<>>, need |-> 0, chunk |-> 0, body |-> <<>>,
          delivered |-> 0, keep |-> FALSE, cut |-> FALSE]

\* framing "empty": a HEAD, a 204 or a 304 (a 1xx, which the code also takes for the whole
\* answer, is in ConnPool); keep: what the version and the Connection header say.
Responses ==
  [framing : {"empty", "length", "chunked", "close"}, keep : BOOLEAN, head : Heads,
   body : 0 .. MaxBody, bad : BOOLEAN, extra : 0 .. 1]

Piece == <<"piece">>
End == <<"end">>
Unit(i) == <<"unit", i>>
Size(n) == <<"size", n>>
Final == <<"last">>
Junk == <<"junk">>
Extra == <<"extra">>
Units(from, to) == [i \in 1 .. to - from + 1 |-> Unit(from + i - 1)]

\* A chunked body goes out in a chunk of one unit and one with the rest.
Body(r) ==
  IF r.framing = "empty" THEN <<>>
  ELSE IF r.framing # "chunked" THEN Units(1, r.body)
  ELSE (IF r.body > 0 THEN <<Size(1), Unit(1)>> ELSE <<>>)
       \o (IF r.body > 1 THEN <<Size(r.body - 1)>> \o Units(2, r.body) ELSE <<>>)
       \o (IF r.bad THEN <<Junk>> ELSE <<Final>>)

Bytes(r) == [i \in 1 .. r.head - 1 |-> Piece] \o <<End>> \o Body(r) \o [i \in 1 .. r.extra |-> Extra]

-----------------------------------------------------------------------------
(* h1.c                                                                      *)

\* h1_deliver, with h1_compute_keep_alive before the state moves on
Deliver(s) ==
  IF s.delivered > 0 THEN s
  ELSE [s EXCEPT !.delivered = 1, !.keep = resp.keep /\ s.state # "close", !.state = "done"]

\* Content-Length: no more than is still missing
FeedLength(s, data) ==
  LET take == IF Len(data) < s.need THEN Len(data) ELSE s.need
      got == [s EXCEPT !.body = @ \o SubSeq(data, 1, take), !.need = @ - take]
  IN IF got.need = 0 THEN Deliver(got) ELSE got

\* phr_decode_chunked, one token: the framing goes, the payload stays, and after the last
\* chunk the rest is ignored.
DecodeChunk(t, s) ==
  CASE s.state # "chunked" -> s
    [] t = Final /\ s.chunk = 0 -> Deliver(s)
    [] t = Junk -> [s EXCEPT !.state = "error"]
    [] t[1] = "size" -> [s EXCEPT !.chunk = t[2]]
    [] OTHER -> [s EXCEPT !.body = Append(@, t), !.chunk = @ - 1]

\* h1_feed_body
FeedBody(s, data) ==
  CASE s.state = "length" -> FeedLength(s, data)
    [] s.state = "chunked" -> FoldLeft(LAMBDA a, t : DecodeChunk(t, a), s, data)
    [] s.state = "close" -> [s EXCEPT !.body = @ \o data]
    [] OTHER -> s

\* h1_begin_body
BeginBody(s) ==
  IF resp.framing = "empty" THEN Deliver(s)
  ELSE LET begun == [s EXCEPT !.state = resp.framing, !.need = resp.body]
       IN IF resp.framing = "length" /\ resp.body = 0 THEN Deliver(begun) ELSE begun

HeaderEnd(in) == SelectInSeq(in, LAMBDA t : t \in {End, Junk})

\* Accumulate until the header region is complete, then feed what follows it.  The cap is
\* on all that is buffered.
FeedHeaders(s, data) ==
  LET in == s.in \o data
      end == HeaderEnd(in)
  IN IF Len(in) > HeaderCap THEN [s EXCEPT !.state = "error"]
     ELSE IF end = 0 THEN [s EXCEPT !.in = in]
     ELSE IF in[end] = Junk THEN [s EXCEPT !.state = "error"]
     ELSE LET begun == BeginBody([s EXCEPT !.in = <<>>])
          IN IF begun.state = "done" THEN begun ELSE FeedBody(begun, SubSeq(in, end + 1, Len(in)))

-----------------------------------------------------------------------------
(* Actions                                                                   *)

\* h1_session_alloc and h1_session_submit_request: the server answers with r.
Serve(r) ==
  /\ resp = NoResp
  /\ r.bad => r.framing = "chunked"
  /\ r.framing = "close" => r.extra = 0
  /\ resp' = r /\ h1' = Fresh
  /\ \E whole \in BOOLEAN : wire' = IF whole THEN Bytes(r) ELSE [Bytes(r) EXCEPT ![1] = Junk]

\* h1_session_recv with the next n tokens
Recv(n) ==
  /\ n <= Len(wire)
  /\ wire' = SubSeq(wire, n + 1, Len(wire))
  /\ LET data == SubSeq(wire, 1, n)
     IN h1' = CASE h1.state \in {"error", "done"} -> h1
                [] h1.state = "headers" -> FeedHeaders(h1, data)
                [] OTHER -> FeedBody(h1, data)
  /\ UNCHANGED resp

\* h1_session_eof: only a body that runs to the end of the connection is complete.  What
\* the server had not sent yet is cut off.
Eof ==
  /\ resp # NoResp
  /\ h1' = [(IF h1.state = "close" THEN Deliver(h1) ELSE h1) EXCEPT !.cut = @ \/ wire # <<>>]
  /\ wire' = <<>> /\ UNCHANGED resp

\* h1_session_release; the next exchange has a session of its own.
Release == resp # NoResp /\ resp' = NoResp /\ h1' = Fresh /\ wire' = <<>>

Init == resp = NoResp /\ wire = <<>> /\ h1 = Fresh
Next ==
  \/ \E r \in Responses : Serve(r)
  \/ \E n \in 1 .. Len(wire) : Recv(n)
  \/ Eof \/ Release
Spec == Init /\ [][Next]_h1vars

-----------------------------------------------------------------------------
(* Properties                                                                *)

\* However the bytes are cut, a delivered response has the body the server framed, whole
\* and in order, and it is delivered once.
BodyExact ==
  h1.delivered > 0 =>
    /\ h1.delivered = 1
    /\ resp.framing \notin {"empty", "close"} => h1.body = Units(1, resp.body) /\ ~resp.bad
    /\ \E n \in 0 .. resp.body : h1.body = Units(1, n)

\* A connection called reusable has no byte of this response left to read, so the next
\* response on it starts at a status line.
ReuseIsClean ==
  h1.delivered > 0 /\ h1.keep => \A t \in Range(wire) : t = Extra

\* A response that has arrived whole is delivered, unless more was buffered with its
\* headers than the cap allows (h1_session_recv feeds what follows the headers at once).
WholeIsDelivered ==
  resp # NoResp /\ h1.state # "error" /\ ~h1.cut /\ ~resp.bad /\ resp.framing # "close"
    /\ (\A t \in Range(wire) : t = Extra)
  => h1.delivered = 1
=============================================================================
