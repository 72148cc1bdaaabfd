------------------------------ MODULE TlsStream ------------------------------
(* A TlsStream (tls_stream.c): a TLS byte stream driven by blocking calls, each  *)
(* of which runs the client's loop until a callback has noted what happened and  *)
(* stopped it.  The TLS pump holds the bytes that no read has asked for yet.     *)
(* Writing changes nothing here: TcpRequest models what becomes of the bytes.    *)
EXTENDS Integers

CONSTANT MaxBytes  \* how much the peer sends

VARIABLES tls,     \* the TlsStream, its connection and the blocking call it is in
          served   \* how much the peer's records have brought
tlsVars == <<tls, served>>

Blocking == {"connect", "read", "free"}

Fresh ==
  [life |-> "new", call |-> "none", conn |-> "none", est |-> FALSE, fail |-> FALSE,
   closed |-> FALSE, err |-> FALSE, fullyClosed |-> FALSE, timedOut |-> FALSE, plain |-> 0,
   end |-> "no", timer |-> "none", stop |-> FALSE, got |-> 0, rc |-> 9]

-----------------------------------------------------------------------------
(* Callbacks.  The loop runs inside a blocking call, or for another user of it.  *)

Wake(t) == [t EXCEPT !.stop = TRUE]
Failed(t) == Wake([t EXCEPT !.fail = TRUE, !.err = TRUE])

LoopRuns == tls.life = "open" /\ (tls.call = "none" \/ ~tls.stop)
Callback(t) == LoopRuns /\ tls' = t

\* conn_on_resolved; the connect may fail at once.
Resolved ==
  /\ tls.conn = "resolving"
  /\ \/ Callback(Failed([tls EXCEPT !.conn = "dead"]))
     \/ Callback([tls EXCEPT !.conn = "pending"])
  /\ UNCHANGED served

\* The records one read brings: n bytes, then perhaps the peer's close_notify or a
\* record that does not decrypt, after either of which the pump yields no more.
Feed(t, n, end) == [t EXCEPT !.plain = @ + n, !.end = IF @ = "no" THEN end ELSE @]
Records(t) == {<<n, end>> \in (0..(MaxBytes - served)) \X {"no", "notify", "broken"} :
                 t.end # "no" => n = 0}

\* tls_on_ready: the handshake's last flight may bring application data with it.
OnReady ==
  /\ tls.conn = "pending"
  /\ \/ /\ Callback(Failed([tls EXCEPT !.conn = "dead"]))
        /\ UNCHANGED served
     \/ \E r \in Records(tls) :
          /\ Callback(Wake(Feed([tls EXCEPT !.conn = "up", !.est = TRUE], r[1], r[2])))
          /\ served' = served + r[1]

\* tls_on_readable.
OnReadable ==
  /\ tls.conn = "up"
  /\ \E r \in Records(tls) :
       /\ Callback(Wake(Feed(tls, r[1], r[2])))
       /\ served' = served + r[1]

\* tls_on_closed: the end of the TCP stream, or a read error.
OnClosed ==
  /\ tls.conn = "up"
  /\ \E err \in BOOLEAN :
       Callback(Wake([tls EXCEPT !.conn = "dead", !.closed = TRUE, !.err = @ \/ err]))
  /\ UNCHANGED served

OnFullyClosed ==
  /\ tls.conn = "closing"
  /\ Callback(Wake([tls EXCEPT !.conn = "gone", !.fullyClosed = TRUE]))
  /\ UNCHANGED served

\* tls_on_connect_timeout and tls_on_recv_timeout.  A lookup that outlasts the
\* deadline is TcpRequest's subject.
\* Mutant: a read's deadline is noted only while no byte has ever come.
TimerFiresOnce ==
  /\ tls.timer # "none" /\ tls.conn # "resolving"
  /\ LET t == [tls EXCEPT !.timer = "none"]
     IN Callback(IF tls.timer = "connect" THEN (IF t.est THEN t ELSE Failed(t))
                 ELSE IF t.got = 0 THEN Wake([t EXCEPT !.timedOut = TRUE]) ELSE t)
  /\ UNCHANGED served
TimerFires ==
  /\ tls.timer # "none" /\ tls.conn # "resolving"
  /\ LET t == [tls EXCEPT !.timer = "none"]
     IN Callback(IF tls.timer = "connect" THEN (IF t.est THEN t ELSE Failed(t))
                 ELSE Wake([t EXCEPT !.timedOut = TRUE]))
  /\ UNCHANGED served

-----------------------------------------------------------------------------
(* The calls.                                                                    *)

\* What ends the wait of each call; uv_loop_alive is false once no handle is left.
Done(t) ==
  CASE t.call = "connect" -> t.est \/ t.fail \/ t.closed
    [] t.call = "read" -> t.plain > 0 \/ t.end # "no" \/ t.closed \/ t.fail \/ t.timedOut
    [] t.call = "free" -> t.fullyClosed \/ t.conn \in {"none", "gone"}

\* tls_stream_read drains the pump before it looks at the flags.
ReadResult(t) ==
  IF t.plain > 0 THEN [t EXCEPT !.rc = 1, !.got = @ + t.plain, !.plain = 0]
  ELSE [t EXCEPT !.rc = IF t.end # "no" \/ t.closed \/ t.fail
                        THEN (IF t.err THEN -1 ELSE 0) ELSE -2]

\* req_timer_disarm and the end of the call; a connect that ended without a reason
\* is given one.
Finish(t) ==
  LET d == [t EXCEPT !.timer = "none", !.stop = FALSE, !.call = "none"]
  IN CASE t.call = "connect" -> [d EXCEPT !.err = @ \/ ~t.est]
       [] t.call = "read" -> ReadResult(d)
       [] t.call = "free" -> [d EXCEPT !.life = "freed"]

\* The condition is tested before every loop_run.
Enter(t) == IF Done(t) THEN Finish(t) ELSE t

Return ==
  /\ tls.call \in Blocking /\ (tls.stop \/ tls.conn \in {"none", "gone"})
  /\ tls' = Enter([tls EXCEPT !.stop = FALSE])
  /\ UNCHANGED served

\* conn_connect starts a lookup, or a connect to a cached address, or fails with or
\* without a TCP handle left to close.
Connect ==
  /\ tls.life = "new"
  /\ \E timer \in {"none", "connect"}, conn \in {"resolving", "pending", "dead", "none"} :
       LET t == [tls EXCEPT !.life = "open", !.call = "connect", !.timer = timer, !.conn = conn]
       IN tls' = Enter(IF conn \in {"dead", "none"} THEN Failed(t) ELSE t)
  /\ UNCHANGED served

Read ==
  /\ tls.life = "open" /\ tls.call = "none" /\ (tls.est \/ tls.closed \/ tls.fail)
  /\ \E timer \in {"none", "read"} :
       tls' = Enter([tls EXCEPT !.call = "read", !.timer = timer, !.timedOut = FALSE])
  /\ UNCHANGED served

\* tls_stream_free: conn_close, then a wait for the handle.
Free ==
  /\ tls.life = "open" /\ tls.call = "none"
  /\ tls' = Enter([tls EXCEPT !.call = "free", !.fullyClosed = FALSE,
                              !.conn = IF @ \in {"none", "gone"} THEN @ ELSE "closing"])
  /\ UNCHANGED served

Init == tls = Fresh /\ served = 0

Next ==
  \/ Resolved \/ OnReady \/ OnReadable \/ OnClosed \/ OnFullyClosed \/ TimerFires
  \/ Return \/ Connect \/ Read \/ Free

Spec == Init /\ [][Next]_tlsVars

\* The loop runs: lookups end, close callbacks come, a stopped loop returns, and a
\* turn of the loop fires the timers that are due even when it was stopped.
Fairness == /\ WF_tlsVars(Return) /\ WF_tlsVars(Resolved)
            /\ WF_tlsVars(OnFullyClosed) /\ SF_tlsVars(TimerFires)

-----------------------------------------------------------------------------
\* No wakeup is lost: while a call sits in the loop, what it waits for has not
\* happened, bytes that came with the handshake included.
NoLostWakeup == tls.call \in Blocking /\ ~tls.stop => ~Done(tls)

\* A read reports the end, an error or a timeout only when every byte the peer has
\* sent was handed out.
EndComesLast ==
  tls'.rc # tls.rc /\ tls'.rc <= 0 => tls'.plain = 0 /\ tls'.got = served

\* The stream is freed only when its socket is closed.
FreedClosed == tls.life = "freed" => tls.conn \in {"none", "gone"}

\* A call with a deadline returns, whatever the peer does.
DeadlineReturns == tls.timer # "none" ~> tls.call = "none"
=============================================================================
