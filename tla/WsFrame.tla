------------------------------- MODULE WsFrame -------------------------------
(* The incremental WebSocket frame parser of ws/ws_frame.c.  The peer sends      *)
(* frames; their bytes arrive in any chunking, and control frames may stand      *)
(* between the fragments of a message.  Sizes are in units: a header has as many *)
(* bytes as on the wire, a payload a few units, numbered over the whole stream.  *)
EXTENDS Naturals, Sequences, SequencesExt

CONSTANTS Frames,      \* the frames the peer can send
          MaxFrames,   \* the bound on the frames of a stream
          MaxMessage,  \* max_message, in payload units
          MaxControl   \* the longest control payload (125 bytes), in payload units

VARIABLES sent,    \* the frames of the stream
          taken,   \* how many of its bytes were fed
          ws,      \* WsParser
          events   \* what the callback was given
wfvars == <<sent, taken, ws, events>>

HeaderLen(f) == CASE f.len = "short" -> 2 [] f.len = "medium" -> 4 [] f.len = "long" -> 10
FrameLen(f) == HeaderLen(f) + f.payload
StreamLen(fs) == FoldLeft(LAMBDA n, f : n + FrameLen(f), 0, fs)
Control(op) == op \in {"ping", "pong", "close"}
Known(op) == op \in {"text", "binary", "more"} \/ Control(op)

\* allow: permessage-deflate was negotiated (ws_parser_allow_compression).
Fresh == [allow |-> FALSE, have |-> 0, payload |-> FALSE, left |-> 0, cur |-> "none", fin |-> FALSE,
          inmsg |-> FALSE, op |-> "none", rsv1 |-> FALSE, msg |-> <<>>, ctrl |-> <<>>, dead |-> FALSE]
Parsing == [p |-> ws, at |-> taken, ev |-> events]
Fail(w) == [w EXCEPT !.p.dead = TRUE]

\* The frame that byte number n of the stream (counted from 1) belongs to, and its place in it
RECURSIVE Locate(_, _)
Locate(fs, n) ==
  IF n <= FrameLen(fs[1]) THEN [f |-> fs[1], i |-> n] ELSE Locate(Tail(fs), n - FrameLen(fs[1]))

-----------------------------------------------------------------------------
(* ws_frame.c                                                                *)

\* Mutant: a control frame between two fragments resets the message.
BeginFrameResets(p, f) ==
  IF f.rsv1 \/ ~Known(f.op) THEN [p EXCEPT !.dead = TRUE]
  ELSE [p EXCEPT !.cur = f.op, !.fin = f.fin, !.left = f.payload, !.have = 0, !.payload = TRUE,
                 !.inmsg = ~Control(f.op), !.op = IF f.op = "more" THEN @ ELSE f.op,
                 !.msg = IF f.op = "more" THEN @ ELSE <<>>, !.ctrl = <<>>]

\* ws_begin_frame: what a header may be, given whether a message is under way
BeginFrame(p, f) ==
  LET begun == [p EXCEPT !.cur = f.op, !.fin = f.fin, !.left = f.payload, !.have = 0, !.payload = TRUE]
  IN CASE f.rsv1 /\ ~p.allow -> [p EXCEPT !.dead = TRUE]
       [] Control(f.op) ->
            IF ~f.fin \/ f.payload > MaxControl \/ f.rsv1 THEN [p EXCEPT !.dead = TRUE]
            ELSE [begun EXCEPT !.ctrl = <<>>]
       [] f.op = "more" ->
            IF ~p.inmsg \/ f.rsv1 THEN [p EXCEPT !.dead = TRUE] ELSE begun
       [] f.op \in {"text", "binary"} ->
            IF p.inmsg THEN [p EXCEPT !.dead = TRUE]
            ELSE [begun EXCEPT !.inmsg = TRUE, !.op = f.op, !.rsv1 = f.rsv1, !.msg = <<>>]
       [] OTHER -> [p EXCEPT !.dead = TRUE]

\* ws_frame_done: a control frame at once, a message with its last fragment
FrameDone(w) ==
  LET p == w.p
      over == [p EXCEPT !.payload = FALSE]
  IN IF Control(p.cur)
     THEN [w EXCEPT !.p = over, !.ev = Append(@, [op |-> p.cur, data |-> p.ctrl, zip |-> FALSE])]
     ELSE IF p.fin
     THEN [w EXCEPT !.p = [over EXCEPT !.inmsg = FALSE, !.msg = <<>>],
                    !.ev = Append(@, [op |-> p.op, data |-> p.msg, zip |-> p.rsv1])]
     ELSE [w EXCEPT !.p = over]

\* One header byte: the masked and reserved bits are refused with the second, the rest
\* once the header is complete.
HeaderByte(w, f) ==
  LET p == [w.p EXCEPT !.have = @ + 1]
      next == [w EXCEPT !.at = @ + 1]
  IN IF p.have = 2 /\ f.bits # "ok" THEN Fail(next)
     ELSE IF p.have < HeaderLen(f) THEN [next EXCEPT !.p = p]
     ELSE LET begun == BeginFrame(p, f)
          IN IF begun.dead THEN Fail(next)
             ELSE IF f.payload = 0 THEN FrameDone([next EXCEPT !.p = begun])
             ELSE [next EXCEPT !.p = begun]

\* ws_msg_append: up to the ceiling
MsgAppend(p, run) ==
  IF Len(p.msg) + Len(run) > MaxMessage THEN [p EXCEPT !.dead = TRUE] ELSE [p EXCEPT !.msg = @ \o run]

\* A run of payload, as much as the chunk and the frame have
PayloadRun(w, avail) ==
  LET take == IF avail < w.p.left THEN avail ELSE w.p.left
      run == [i \in 1 .. take |-> w.at + i]
      got == IF Control(w.p.cur) THEN [w.p EXCEPT !.ctrl = @ \o run] ELSE MsgAppend(w.p, run)
      next == [w EXCEPT !.at = @ + take, !.p = [got EXCEPT !.left = @ - take]]
  IN IF got.dead THEN Fail(next) ELSE IF next.p.left = 0 THEN FrameDone(next) ELSE next

\* ws_parser_feed up to byte number end
RECURSIVE FeedTo(_, _)
FeedTo(w, end) ==
  IF w.p.dead \/ w.at >= end THEN w
  ELSE FeedTo(IF w.p.payload THEN PayloadRun(w, end - w.at)
              ELSE HeaderByte(w, Locate(sent, w.at + 1).f), end)

-----------------------------------------------------------------------------
(* Actions                                                                   *)

\* ws_parser_init, for a stream of the peer
Begin(fs, allow) ==
  /\ sent = <<>>
  /\ sent' = fs /\ taken' = 0 /\ ws' = [Fresh EXCEPT !.allow = allow] /\ events' = <<>>

Feed(n) ==
  /\ taken + n <= StreamLen(sent)
  /\ LET w == FeedTo(Parsing, taken + n)
     IN ws' = w.p /\ events' = w.ev /\ taken' = IF w.p.dead THEN StreamLen(sent) ELSE taken + n
  /\ UNCHANGED sent

Free == sent # <<>> /\ sent' = <<>> /\ taken' = 0 /\ ws' = Fresh /\ events' = <<>>

Init == sent = <<>> /\ taken = 0 /\ ws = Fresh /\ events = <<>>
Next ==
  \/ \E k \in 1 .. MaxFrames, allow \in BOOLEAN : \E fs \in [1 .. k -> Frames] : Begin(fs, allow)
  \/ \E n \in 1 .. StreamLen(sent) - taken : Feed(n)
  \/ Free
Spec == Init /\ [][Next]_wfvars

-----------------------------------------------------------------------------
(* The reference: whole frames, one after the other (RFC 6455, 5.4 and 5.5)  *)

Start(fs, k) == StreamLen(SubSeq(fs, 1, k - 1)) + HeaderLen(fs[k])
Payload(fs, k) == [i \in 1 .. fs[k].payload |-> Start(fs, k) + i]

\* The data frames before frame k, and those of them after the last that ends a message
DataBefore(fs, k) == {j \in 1 .. k - 1 : ~Control(fs[j].op)}
Parts(fs, k) == {j \in DataBefore(fs, k) : \A i \in DataBefore(fs, k) : i >= j => ~fs[i].fin}
Message(fs, k) == FlattenSeq([j \in 1 .. k |-> IF j \in Parts(fs, k) \cup {k} THEN Payload(fs, j) ELSE <<>>])

Legal(fs, k) ==
  LET f == fs[k]
  IN /\ f.bits = "ok" /\ Known(f.op) /\ (f.rsv1 => ws.allow)
     /\ Control(f.op) => f.fin /\ f.payload <= MaxControl /\ ~f.rsv1
     /\ f.op = "more" => Parts(fs, k) # {} /\ ~f.rsv1
     /\ f.op \in {"text", "binary"} => Parts(fs, k) = {}
     /\ ~Control(f.op) => Len(Message(fs, k)) <= MaxMessage

Event(fs, k) ==
  LET first == fs[CHOOSE j \in Parts(fs, k) \cup {k} : \A i \in Parts(fs, k) : j <= i]
  IN IF Control(fs[k].op) THEN <<[op |-> fs[k].op, data |-> Payload(fs, k), zip |-> FALSE]>>
     ELSE IF fs[k].fin THEN <<[op |-> first.op, data |-> Message(fs, k), zip |-> first.rsv1]>>
     ELSE <<>>

\* The frames that are complete after n bytes
Complete(fs, n) == {k \in 1 .. Len(fs) : StreamLen(SubSeq(fs, 1, k)) <= n}
Spoilt(fs) == {k \in 1 .. Len(fs) : ~Legal(fs, k)}

-----------------------------------------------------------------------------
(* Properties                                                                *)

\* However the bytes are cut, the callback has been given exactly the events of the
\* complete frames before the first illegal one, with every message reassembled.
EventsExact ==
  LET good == {k \in Complete(sent, taken) : \A j \in 1 .. k : j \notin Spoilt(sent)}
  IN events = FlattenSeq([k \in 1 .. Len(sent) |-> IF k \in good THEN Event(sent, k) ELSE <<>>])

\* A stream with an illegal frame is refused by the time that frame is complete, and a
\* legal one never ("the parser is dead afterwards", ws_parser_feed).
RefusedRightly ==
  /\ ws.dead => Spoilt(sent) # {}
  /\ Complete(sent, taken) \cap Spoilt(sent) # {} => ws.dead
=============================================================================
