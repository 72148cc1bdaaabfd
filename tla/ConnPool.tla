------------------------------- MODULE ConnPool -------------------------------
(***************************************************************************)
(* The per-client connection pool (src/core/pool.c, pool.h): pooled        *)
(* connections (PoolConn) that carry requests (PoolReq) over H1, H2 or H3, *)
(* all driven by one libuv loop thread.                                    *)
(*                                                                         *)
(* A libuv callback or an API call runs to completion, but on its way it   *)
(* runs user callbacks, which may call back into the pool.  `stack' is the *)
(* C call stack cut at those points: a callback or call pushes frames, a   *)
(* non-empty stack allows only the step of its top frame (and, below a     *)
(* user callback, the API calls of the application), and no other event    *)
(* happens until it is empty again.  A handler and everything it calls is  *)
(* therefore one uninterruptible run of steps.                             *)
(***************************************************************************)
EXTENDS Integers, Sequences, FiniteSets, Functions

CONSTANTS
  Reqs,          \* the requests the application will issue
  Conns,         \* the slots of ConnPool.conns[]; |Conns| is POOL_MAX_CONNS
  Origins,       \* "host:port" keys
  Key,           \* Reqs -> protocol and origin of the request
  Deadline,      \* the requests issued with a timeout (deadline_ns # 0)
  MaxRetries,    \* POOL_MAX_RETRIES
  MaxPerOrigin,  \* Client.max_conns_per_origin
  H2Max,         \* the peer's MAX_CONCURRENT_STREAMS
  H3Max,         \* POOL_H3_MAX_CONCURRENT
  AppOps,        \* what else the application calls: "evict", "drain"
  SyncFail,      \* may the transport fail inside a call the pool makes to it?
  Interim,       \* may an H1 server send a 1xx response before the final one?
  None, Freed    \* a null PoolReq.pc, and one whose PoolConn was released

Protos == {"H1", "H2", "H3"}
Keys == [proto : Protos, origin : Origins]

ASSUME ReqsAssumption == IsFiniteSet(Reqs) /\ IsFiniteSet(Conns)
ASSUME KeyAssumption == Key \in [Reqs -> Keys] /\ Deadline \subseteq Reqs
ASSUME BoundAssumption ==
  /\ MaxRetries \in Nat
  /\ MaxPerOrigin \in Nat \ {0}
  /\ H2Max \in Nat \ {0}
  /\ H3Max \in Nat \ {0}
ASSUME AppAssumption == AppOps \subseteq {"evict", "drain"} /\ {SyncFail, Interim} \subseteq BOOLEAN
ASSUME MarkAssumption ==
  None \notin Conns \cup Reqs \cup Keys /\ Freed \notin Conns /\ None # Freed

VARIABLES
  conn,       \* Conns -> state and flags of the PoolConn (and of its transport)
  inflight,   \* Conns -> PoolConn.inflight
  active,     \* Conns -> the PoolConn.active list, as a set
  waiting,    \* Conns -> the PoolConn.waiting queue
  owed,       \* Conns -> H1 requests written whose responses are still to come
  rst,        \* Reqs -> "new", "live", "done", or "legacy" (left the pool)
  pc,         \* Reqs -> PoolReq.pc
  retries,    \* Reqs -> PoolReq.retries_left
  responded,  \* Reqs -> PoolReq.responded
  calls,      \* Reqs -> how often the response callback ran
  by,         \* Reqs -> the request whose response was handed to the callback
  strm,       \* Reqs -> PoolReq.h3_fin ("new", "fin"); "dead": and its stream closed
  stack,      \* the frames of the running handler, the innermost first
  sweep,      \* the sweep timer: "none", "stopped", "armed", "closing"
  fault       \* a released PoolConn or a closing timer was written to

lists == <<inflight, active, waiting, owed>>
delivery == <<responded, calls, by>>
answers == <<delivery, strm>>
vars == <<conn, lists, rst, pc, retries, answers, stack, sweep, fault>>

-----------------------------------------------------------------------------
(* Frames and small helpers. *)

F(op, c, rs) == [op |-> op, c |-> c, rs |-> rs]
Cons(f, s) == <<f>> \o s
Ops == {"cb", "done", "drop", "acquire", "retry", "flush", "idle", "close",
        "recv", "loop", "failall", "timeout", "fallback",
        "late"}

\* A frame that works through the requests rs, if there are any.
Push(op, rs, rest) == IF rs = {} THEN rest ELSE Cons(F(op, None, rs), rest)

Quiet == stack = <<>>
At(op) == stack # <<>> /\ Head(stack).op = op
UserTurn == Quiet \/ At("cb")

Proto(c) == conn[c].key.proto
Live(c) == conn[c].st \in {"Handshaking", "Ready"}
Upd(f, cs, v) == [c \in DOMAIN f |-> IF c \in cs THEN v ELSE f[c]]

\* A slot of conns[] that holds no PoolConn, and a PoolConn just opened.
NoConn == [st |-> "Free", key |-> None, broken |-> FALSE, inRecv |-> FALSE,
           idle |-> FALSE, goaway |-> FALSE, open |-> FALSE]
NewConn(k, open) == [NoConn EXCEPT !.st = "Handshaking", !.key = k, !.open = open]

\* Mutant: off-by-one limits.
HasCapacityOneMore(c) ==
  /\ conn[c].st = "Ready" /\ ~conn[c].broken
  /\ Proto(c) = "H1" => inflight[c] <= 1
  /\ Proto(c) = "H2" => ~conn[c].goaway /\ inflight[c] <= H2Max
  /\ Proto(c) = "H3" => inflight[c] <= H3Max
\* pool_conn_has_capacity
HasCapacity(c) ==
  /\ conn[c].st = "Ready" /\ ~conn[c].broken
  /\ Proto(c) = "H1" => inflight[c] < 1
  /\ Proto(c) = "H2" => ~conn[c].goaway /\ inflight[c] < H2Max
  /\ Proto(c) = "H3" => inflight[c] < H3Max

\* pool_close_conn on every conn of cs, in the conns[] state `base'.  A QUIC
\* connection that has no libuv handle yet is released at once
\* (quic_conn_close -> pool_h3_on_fully_closed); any other waits for its close
\* callback.
Closed(base, cs) ==
  [c \in Conns |->
     IF c \notin cs \/ ~Live(c) THEN base[c]
     ELSE IF conn[c].open THEN [base[c] EXCEPT !.st = "Closing"] ELSE NoConn]

\* pool_remove_conn: the last conn to go stops the sweep timer.
SweepAfter(conns) ==
  IF sweep = "armed" /\ \A c \in Conns : conns[c].st = "Free" THEN "stopped" ELSE sweep

\* arena_release of the conns that conns frees: their lists go with them.
Released(conns, timer) ==
  LET gone == {c \in Conns : conn[c].st # "Free" /\ conns[c].st = "Free"}
  IN  /\ conn' = conns
      /\ inflight' = Upd(inflight, gone, 0)
      /\ active' = Upd(active, gone, {})
      /\ waiting' = Upd(waiting, gone, <<>>)
      /\ owed' = Upd(owed, gone, <<>>)
      /\ pc' = [r \in Reqs |-> IF pc[r] \in gone THEN Freed ELSE pc[r]]
      /\ sweep' = timer

\* pool_req_fail / the failing half of pool_req_retry_or_fail: the error goes to
\* the callback unless one already did, then the request is torn down.
ReqFail(r, rest) ==
  /\ stack' = IF responded[r] THEN Cons(F("done", None, {r}), rest)
              ELSE Cons(F("cb", None, {r}), Cons(F("done", None, {r}), rest))
  /\ responded' = [responded EXCEPT ![r] = TRUE]
  /\ calls' = [calls EXCEPT ![r] = IF responded[r] THEN @ ELSE @ + 1]
  /\ UNCHANGED <<by, strm>>

\* pool_conn_fail_all, from the conns `base' and the waiting queues w: close the conn, detach
\* both lists, then retry or fail every request they held.
FailAll(base, w, c, rest) ==
  IF ~Live(c)
  THEN /\ conn' = base
       /\ waiting' = w
       /\ stack' = rest
       /\ UNCHANGED <<inflight, active, owed, pc, sweep>>
  ELSE /\ conn' = Closed([base EXCEPT ![c].broken = TRUE], {c})
       /\ inflight' = [inflight EXCEPT ![c] = 0]
       /\ active' = [active EXCEPT ![c] = {}]
       /\ waiting' = [w EXCEPT ![c] = <<>>]
       /\ owed' = [owed EXCEPT ![c] = <<>>]
       /\ pc' = [r \in Reqs |-> IF r \in active[c] \cup Range(w[c]) THEN None ELSE pc[r]]
       /\ sweep' = SweepAfter(conn')
       /\ stack' = Push("retry", active[c], Push("retry", Range(w[c]), rest))

-----------------------------------------------------------------------------
(* Submitting and acquiring. *)

\* pool_waiting_push
Park(c, r, w, rest) ==
  /\ pc' = [pc EXCEPT ![r] = c]
  /\ waiting' = [w EXCEPT ![c] = Append(@, r)]
  /\ stack' = rest
  /\ UNCHANGED <<conn, inflight, active, owed, rst, retries, answers, sweep, fault>>

\* Mutant: the loop is not held for a conn that was idle.
RefForgotten(c) == conn
\* pool_conn_ref when the first request goes out on an idle conn.
Ref(c) == [conn EXCEPT ![c].idle = IF inflight[c] = 0 THEN FALSE ELSE @]

\* Mutant: a finished request stays linked.
ActiveKept(c, r) == active
\* pool_active_remove
ActiveRemove(c, r) == [active EXCEPT ![c] = @ \ {r}]

\* pool_after_submit, and for H1 the request bytes that are now on the wire.
AfterSubmit(c, r, rest) ==
  /\ conn' = Ref(c)
  /\ inflight' = [inflight EXCEPT ![c] = @ + 1]
  /\ active' = [active EXCEPT ![c] = @ \cup {r}]
  /\ owed' = IF Proto(c) = "H1" THEN [owed EXCEPT ![c] = Append(@, r)] ELSE owed
  /\ strm' = [strm EXCEPT ![r] = IF @ = "dead" THEN "fin" ELSE @]
  /\ stack' = rest
  /\ UNCHANGED delivery

\* pool_h1_submit, pool_h2_submit, pool_h3_submit on a conn outside its receive
\* path: a stream is opened, or the transport refuses.  A refusal fails the
\* request (H1, H2) or retries it (H3).  Writing an H3 request may also find the
\* whole connection dead: pool_h3_on_closed then runs inside the submit, which
\* goes on to book the request on the conn it just saw closed.
SubmitStream(c, r, w, rest) ==
  /\ pc' = [pc EXCEPT ![r] = c]
  /\ waiting' = w
  /\ \/ AfterSubmit(c, r, rest)
     \/ /\ Proto(c) # "H3"
        /\ ReqFail(r, rest)
        /\ UNCHANGED <<conn, inflight, active, owed>>
     \/ /\ Proto(c) = "H3"
        /\ stack' = Cons(F("retry", None, {r}), rest)
        /\ UNCHANGED <<conn, inflight, active, owed, answers>>
  /\ UNCHANGED <<rst, retries, sweep, fault>>

SubmitIntoDeadConn(c, r, w, rest) ==
  /\ SyncFail /\ Proto(c) = "H3"
  /\ FailAll(conn, w, c, Cons(F("late", c, {r}), rest))
  /\ UNCHANGED <<rst, retries, answers, fault>>

\* pool_submit, with w the waiting queues it starts from: inside the conn's
\* receive path, or on an H3 conn with no stream to give, the request waits.
PoolSubmit(c, r, w, rest) ==
  LET defer == conn[c].inRecv \/ (Proto(c) = "H3" /\ ~HasCapacity(c))
  IN  \/ defer /\ Park(c, r, w, rest)
      \/ ~defer /\ SubmitStream(c, r, w, rest)
      \/ ~defer /\ SubmitIntoDeadConn(c, r, w, rest)

\* pool_conn_open and the push that follows it in pool_acquire.  When the
\* connect fails before it returns, on_ready(0) has already closed the conn
\* (released it, if it is QUIC without a handle) by the time r is pushed on it.
PoolConnOpen(c, r, rest) ==
  /\ conn[c].st = "Free"
  /\ \E open \in (IF Key[r].proto = "H3" THEN BOOLEAN ELSE {TRUE}), ok \in BOOLEAN :
       /\ ok \/ SyncFail
       /\ conn' = [conn EXCEPT ![c] =
            IF ok THEN NewConn(Key[r], open)
            ELSE IF open THEN [NewConn(Key[r], TRUE) EXCEPT !.st = "Closing", !.broken = TRUE]
            ELSE NoConn]
       /\ pc' = [pc EXCEPT ![r] = IF ok \/ open THEN c ELSE Freed]
       /\ waiting' = [waiting EXCEPT ![c] = IF ok \/ open THEN <<r>> ELSE <<>>]
       /\ fault' = (fault \/ sweep = "closing" \/ (~ok /\ ~open))
  /\ sweep' = IF \A d \in Conns : conn'[d].st = "Free" THEN "stopped" ELSE "armed"
  /\ stack' = rest
  /\ UNCHANGED <<inflight, active, owed, rst, retries, answers>>

\* Mutants: a broken conn, or one to another origin, passes the filter.
UsableThoughBroken(r) == {c \in Conns : Live(c) /\ conn[c].key = Key[r]}
UsableAnyOrigin(r) ==
  {c \in Conns : Live(c) /\ ~conn[c].broken /\ Proto(c) = Key[r].proto}
\* The filter at the top of the scan in pool_acquire.
Usable(r) == {c \in Conns : Live(c) /\ ~conn[c].broken /\ conn[c].key = Key[r]}

FreeSlots == {c \in Conns : conn[c].st = "Free"}
\* Mutant: off-by-one cap.
MayOpenOneMore(r) == Cardinality(Usable(r)) <= MaxPerOrigin /\ FreeSlots # {}
\* The condition of PATH 3.
MayOpen(r) == Cardinality(Usable(r)) < MaxPerOrigin /\ FreeSlots # {}

\* pool_acquire, its four paths in order.  Which of several equally good conns
\* the scan of conns[] meets first is left open.
PoolAcquire(r, rest) ==
  LET usable   == Usable(r)
      shaking  == {c \in usable : conn[c].st = "Handshaking"}
      ready    == usable \ shaking
      reusable == {c \in ready : HasCapacity(c)}
      coalesce == Key[r].proto # "H1"
      mayOpen  == MayOpen(r)
      path2    == coalesce /\ shaking # {}
  IN  \/ \E c \in reusable : PoolSubmit(c, r, waiting, rest)
      \/ /\ reusable = {} /\ path2
         /\ \E c \in shaking : Park(c, r, waiting, rest)
      \/ /\ reusable = {} /\ ~path2 /\ mayOpen
         /\ \E c \in FreeSlots : PoolConnOpen(c, r, rest)
      \/ /\ reusable = {} /\ ~path2 /\ ~mayOpen
         /\ \/ coalesce /\ \E c \in ready : PoolSubmit(c, r, waiting, rest)
            \/ ~coalesce /\ \E c \in IF shaking # {} THEN shaking ELSE ready : Park(c, r, waiting, rest)
            \/ /\ usable = {}
               /\ ReqFail(r, rest)
               /\ UNCHANGED <<conn, lists, rst, pc, retries, sweep, fault>>

-----------------------------------------------------------------------------
(* Steps of the running handler: each executes the top frame. *)

Top == Head(stack)
Below == Tail(stack)

\* The user callback returns (client_cb_exit).
CallbackReturn ==
  /\ At("cb")
  /\ stack' = Below
  /\ UNCHANGED <<conn, lists, rst, pc, retries, answers, sweep, fault>>

\* pool_req_done; "drop" is its use in pool_h1_on_response for a response that
\* does not keep the connection alive.
ReqDone ==
  /\ At("done") \/ At("drop")
  /\ rst' = [r \in Reqs |-> IF r \in Top.rs THEN "done" ELSE rst[r]]
  /\ conn' = IF Top.op = "drop" THEN [conn EXCEPT ![Top.c].broken = TRUE] ELSE conn
  /\ stack' = Below
  /\ UNCHANGED <<lists, pc, retries, answers, sweep, fault>>

Acquire ==
  /\ At("acquire")
  /\ \E r \in Top.rs : PoolAcquire(r, Push("acquire", Top.rs \ {r}, Below))

MayRetry(r) == retries[r] > 0 /\ ~responded[r]

\* pool_req_retry_or_fail
RetryOrFail ==
  /\ At("retry")
  /\ \E r \in Top.rs :
       LET rest == Push("retry", Top.rs \ {r}, Below)
       IN  IF MayRetry(r)
           THEN /\ retries' = [retries EXCEPT ![r] = @ - 1]
                /\ pc' = [pc EXCEPT ![r] = None]
                /\ stack' = Cons(F("acquire", None, {r}), rest)
                /\ UNCHANGED answers
           ELSE ReqFail(r, rest) /\ UNCHANGED <<pc, retries>>
  /\ UNCHANGED <<conn, lists, rst, sweep, fault>>

\* pool_flush_waiting: one iteration of its loop, or its end.
FlushWaiting ==
  /\ At("flush")
  /\ LET c == Top.c
     IN  IF waiting[c] # <<>> /\ HasCapacity(c)
         THEN PoolSubmit(c, Head(waiting[c]), [waiting EXCEPT ![c] = Tail(@)], stack)
         ELSE /\ stack' = Below
              /\ UNCHANGED <<conn, lists, rst, pc, retries, answers, sweep, fault>>

\* Mutant: waiters of a broken conn are not re-homed.
RehomesNone(c) == FALSE
Rehomes(c) == Live(c) /\ conn[c].broken

\* pool_update_idle: a broken conn's waiters are acquired afresh and the conn is
\* closed once nothing is in flight; a healthy one that fell idle is unref'd.
UpdateIdle ==
  /\ At("idle")
  /\ LET c == Top.c
         rs == Range(waiting[c])
         rehome == Rehomes(c)
     IN  /\ waiting' = IF rehome THEN [waiting EXCEPT ![c] = <<>>] ELSE waiting
         /\ pc' = IF rehome THEN [r \in Reqs |-> IF r \in rs THEN None ELSE pc[r]] ELSE pc
         /\ stack' = IF rehome THEN Push("acquire", rs, Cons(F("close", c, {}), Below))
                     ELSE Below
         /\ conn' = IF ~rehome /\ conn[c].st = "Ready" /\ inflight[c] = 0
                    THEN [conn EXCEPT ![c].idle = TRUE] ELSE conn
  /\ UNCHANGED <<inflight, active, owed, rst, retries, answers, sweep, fault>>

\* The last line of pool_update_idle on a broken conn.
CloseDrained ==
  /\ At("close")
  /\ LET conns == IF inflight[Top.c] = 0 THEN Closed(conn, {Top.c}) ELSE conn
     IN  Released(conns, SweepAfter(conns))
  /\ stack' = Below
  /\ UNCHANGED <<rst, retries, answers, fault>>

\* The tail of pool_h3_submit after the connection died under it.
LateBooking ==
  /\ At("late")
  /\ \E r \in Top.rs : pc' = [pc EXCEPT ![r] = Top.c] /\ AfterSubmit(Top.c, r, Below)
  /\ UNCHANGED <<waiting, rst, retries, sweep, fault>>

\* pool_conn_fallback_legacy: each queued request goes to h2req_start, which may
\* fail it (and run its callback) before returning; then the conn is closed.
FallbackNext ==
  /\ At("fallback") /\ Top.rs # {}
  /\ \E r \in Top.rs, failed \in {FALSE, SyncFail} :
       /\ rst' = [rst EXCEPT ![r] = "legacy"]
       /\ calls' = [calls EXCEPT ![r] = IF failed THEN @ + 1 ELSE @]
       /\ LET rest == Cons(F("fallback", Top.c, Top.rs \ {r}), Below)
          IN  stack' = IF failed THEN Cons(F("cb", None, {r}), rest) ELSE rest
  /\ UNCHANGED <<conn, lists, pc, retries, responded, by, strm, sweep, fault>>

FallbackEnd ==
  /\ At("fallback") /\ Top.rs = {}
  /\ LET conns == Closed([conn EXCEPT ![Top.c].broken = TRUE], {Top.c})
     IN  Released(conns, SweepAfter(conns))
  /\ stack' = Below
  /\ UNCHANGED <<rst, retries, answers, fault>>
-----------------------------------------------------------------------------
(* The receive loop: pool_h1_drain, pool_h2_drain, and the part of           *)
(* quic_recv_cb around ngtcp2_conn_read_pkt.  What the peer sends, and so how *)
(* often the loop turns, is up to the environment.                            *)

\* A drain started by pool_h2_on_ready finds the conn possibly closed already.
DrainStart ==
  /\ At("recv")
  /\ conn' = IF Live(Top.c) THEN [conn EXCEPT ![Top.c].inRecv = TRUE] ELSE conn
  /\ stack' = IF Live(Top.c) THEN Cons(F("loop", Top.c, {}), Below) ELSE Below
  /\ UNCHANGED <<lists, rst, pc, retries, answers, sweep, fault>>

\* pool_h1_on_response, pool_h2_on_response, pool_h3_finish: detach the request,
\* then retry it if the exchange ended without a status and the budget allows,
\* else hand the response to the callback.  On H1 the bytes are those of the
\* oldest response still owed, parsed on behalf of the active request; an
\* interim response may leave that debt standing.
OnResponse(c, r, keeps, rest) ==
  /\ r \in active[c] /\ ~responded[r] /\ strm[r] # "dead"
  /\ active' = ActiveRemove(c, r)
  /\ inflight' = [inflight EXCEPT ![c] = IF @ > 0 THEN @ - 1 ELSE 0]
  /\ strm' = IF Proto(c) = "H3" THEN [strm EXCEPT ![r] = "fin"] ELSE strm
  /\ \/ Proto(c) # "H1" /\ UNCHANGED owed
     \/ /\ Proto(c) = "H1" /\ owed[c] # <<>>
        /\ owed' = [owed EXCEPT ![c] = Tail(@)] \/ (Interim /\ UNCHANGED owed)
  /\ \/ /\ retries[r] > 0
        /\ stack' = Cons(F("retry", None, {r}), rest)
        /\ UNCHANGED delivery
     \/ /\ responded' = [responded EXCEPT ![r] = TRUE]
        /\ calls' = [calls EXCEPT ![r] = @ + 1]
        /\ by' = [by EXCEPT ![r] = IF Proto(c) = "H1" THEN Head(owed[c]) ELSE r]
        /\ \E keep \in keeps :
             stack' = Cons(F("cb", None, {r}),
                           Cons(F(IF keep THEN "done" ELSE "drop", c, {r}), rest))
  /\ UNCHANGED <<conn, waiting, rst, pc, retries, sweep, fault>>

Receive(r) ==
  /\ At("loop")
  /\ OnResponse(Top.c, r, IF Proto(Top.c) = "H1" THEN BOOLEAN ELSE {TRUE}, stack)

\* pool_h3_on_stream_close for a stream reset before its end: it finishes the
\* request unless h3_fin is set, which an earlier attempt may have done.
H3ResetIgnored(r) ==
  /\ At("loop") /\ r \in active[Top.c] /\ Proto(Top.c) = "H3" /\ strm[r] = "fin"
  /\ strm' = [strm EXCEPT ![r] = "dead"]
  /\ UNCHANGED <<conn, lists, rst, pc, retries, delivery, stack, sweep, fault>>

\* on_frame_recv_cb notes a GOAWAY.
GoAway ==
  /\ At("loop") /\ Proto(Top.c) = "H2" /\ ~conn[Top.c].goaway
  /\ conn' = [conn EXCEPT ![Top.c].goaway = TRUE]
  /\ UNCHANGED <<lists, rst, pc, retries, answers, stack, sweep, fault>>

\* pool_h1_drain ignores bytes that arrive with no request active.
StrayBytes ==
  /\ At("loop") /\ Proto(Top.c) = "H1" /\ active[Top.c] = {} /\ owed[Top.c] # <<>>
  /\ owed' = [owed EXCEPT ![Top.c] = Tail(@)]
  /\ UNCHANGED <<conn, inflight, active, waiting, rst, pc, retries, answers, stack, sweep, fault>>

\* pool_h3_on_ready, inside read_pkt: Ready, or failed (no h3, no QPACK).
H3Ready ==
  /\ At("loop") /\ conn[Top.c].st = "Handshaking"
  /\ \/ /\ conn' = [conn EXCEPT ![Top.c].st = "Ready"]
        /\ UNCHANGED <<lists, pc, stack, sweep>>
     \/ FailAll(conn, waiting, Top.c, stack)
  /\ UNCHANGED <<rst, retries, answers, fault>>

\* A protocol or parse error ends the loop and the connection.
LoopError ==
  /\ At("loop")
  /\ FailAll([conn EXCEPT ![Top.c].inRecv = FALSE], waiting, Top.c, Below)
  /\ UNCHANGED <<rst, retries, answers, fault>>

\* Nothing more to read: back outside the receive path, flush and go idle.
LoopEnd ==
  /\ At("loop")
  /\ conn' = [conn EXCEPT ![Top.c].inRecv = FALSE,
                          ![Top.c].broken = @ \/ conn[Top.c].goaway]
  /\ stack' = Cons(F("flush", Top.c, {}), Cons(F("idle", Top.c, {}), Below))
  /\ UNCHANGED <<lists, rst, pc, retries, answers, sweep, fault>>

\* The second half of pool_h1_on_closed.
FailAfterEof ==
  /\ At("failall")
  /\ FailAll(conn, waiting, Top.c, Below)
  /\ UNCHANGED <<rst, retries, answers, fault>>

\* The loop of pool_req_timeout over the waiting queue: q without the first r.
Unlink(q, r) ==
  IF \E i \in DOMAIN q : q[i] = r
  THEN LET k == CHOOSE i \in DOMAIN q : q[i] = r /\ \A j \in 1 .. i - 1 : q[j] # r
       IN  SubSeq(q, 1, k - 1) \o SubSeq(q, k + 1, Len(q))
  ELSE q

\* pool_req_timeout after its callback: unlink r from the list it is on, free
\* it, and let the conn serve others.  Cancelling an H3 stream may find the
\* connection dead: pool_conn_fail_all then frees r before this code does.
TimeoutTail ==
  /\ At("timeout")
  /\ \E r \in Top.rs :
       LET c == Top.c
           next == IF c # None /\ Live(c)
                   THEN Cons(F("flush", c, {}), Cons(F("idle", c, {}), Below)) ELSE Below
       IN  \/ /\ rst' = [rst EXCEPT ![r] = "done"]
              /\ fault' = (fault \/ pc[r] = Freed \/ rst[r] # "live")
              /\ IF c # None /\ r \in active[c]
                 THEN /\ active' = ActiveRemove(c, r)
                      /\ inflight' = [inflight EXCEPT ![c] = IF @ > 0 THEN @ - 1 ELSE 0]
                      /\ UNCHANGED waiting
                 ELSE /\ waiting' = [d \in Conns |->
                                      IF d = c THEN Unlink(waiting[d], r) ELSE waiting[d]]
                      /\ UNCHANGED <<active, inflight>>
              /\ stack' = next
              /\ UNCHANGED <<conn, owed, pc, sweep>>
           \/ /\ SyncFail /\ c # None /\ r \in active[c] /\ Proto(c) = "H3" /\ Live(c)
              /\ FailAll(conn, waiting, c, Below)
              /\ fault' = TRUE
              /\ UNCHANGED rst
  /\ UNCHANGED <<retries, answers>>

-----------------------------------------------------------------------------
(* The application's calls. *)

\* pool_dispatch: a bad URL is answered at once, anything else acquires a conn.
Dispatch(r) ==
  /\ UserTurn /\ rst[r] = "new"
  /\ rst' = [rst EXCEPT ![r] = "live"]
  /\ \/ /\ stack' = Cons(F("acquire", None, {r}), stack)
        /\ UNCHANGED answers
     \/ ReqFail(r, stack)
  /\ UNCHANGED <<conn, lists, pc, retries, sweep, fault>>

\* Is a conn that conns frees still named by a frame of the running handler?
Dangling(conns) ==
  \E f \in Range(stack) : f.c # None /\ conn[f.c].st # "Free" /\ conns[f.c].st = "Free"

\* pool_evict_all (client_set_proxy)
EvictAll ==
  /\ UserTurn /\ "evict" \in AppOps
  /\ LET marked == [c \in Conns |-> IF Live(c) THEN [conn[c] EXCEPT !.broken = TRUE] ELSE conn[c]]
         conns == Closed(marked, {c \in Conns : inflight[c] = 0})
     IN  /\ Released(conns, SweepAfter(conns))
         /\ fault' = (fault \/ Dangling(conns))
  /\ UNCHANGED <<rst, retries, answers, stack>>

\* pool_drain (client_cleanup, client_set_max_conns_per_origin(0))
PoolDrain ==
  /\ UserTurn /\ "drain" \in AppOps
  /\ LET conns == Closed(conn, Conns)
     IN  /\ Released(conns, IF sweep = "none" THEN "none" ELSE "closing")
         /\ fault' = (fault \/ Dangling(conns))
  /\ UNCHANGED <<rst, retries, answers, stack>>

-----------------------------------------------------------------------------
(* Events of the loop: each starts a handler, with the stack empty. *)

\* quic_on_resolved -> quic_begin_udp: a QUIC conn gets its socket and timer.
Resolved(c) ==
  /\ Quiet /\ conn[c].st = "Handshaking" /\ ~conn[c].open
  /\ conn' = [conn EXCEPT ![c].open = TRUE]
  /\ UNCHANGED <<lists, rst, pc, retries, answers, stack, sweep, fault>>

\* pool_h1_on_ready / pool_h2_on_ready (ok): serve the queue; H2 also drains
\* what arrived with the handshake.
TcpReady(c) ==
  /\ Quiet /\ conn[c].st = "Handshaking" /\ Proto(c) # "H3"
  /\ conn' = [conn EXCEPT ![c].st = "Ready"]
  /\ stack' = Cons(F("flush", c, {}),
                   IF Proto(c) = "H2" THEN Cons(F("recv", c, {}), stack) ELSE stack)
  /\ UNCHANGED <<lists, rst, pc, retries, answers, sweep, fault>>

\* on_ready(0): resolve, connect or handshake failed.
ReadyFailed(c) ==
  /\ Quiet /\ conn[c].st = "Handshaking"
  /\ FailAll(conn, waiting, c, stack)
  /\ UNCHANGED <<rst, retries, answers, fault>>

\* pool_h2_on_ready without h2 in the ALPN: the queue leaves the pool.
FallbackLegacy(c) ==
  /\ Quiet /\ conn[c].st = "Handshaking" /\ Proto(c) = "H2"
  /\ waiting' = [waiting EXCEPT ![c] = <<>>]
  /\ stack' = Cons(F("fallback", c, Range(waiting[c])), stack)
  /\ UNCHANGED <<conn, inflight, active, owed, rst, pc, retries, answers, sweep, fault>>

\* Bytes arrived: on_readable, or quic_recv_cb.
Readable(c) ==
  /\ Quiet /\ Live(c) /\ conn[c].open
  /\ Proto(c) = "H3" \/ conn[c].st = "Ready"
  /\ stack' = Cons(F("loop", c, {}), stack)
  /\ conn' = [conn EXCEPT ![c].inRecv = TRUE]
  /\ UNCHANGED <<lists, rst, pc, retries, answers, sweep, fault>>

\* pool_h1_on_closed, pool_h2_on_closed, pool_h3_on_closed: the peer or the
\* network ended an established conn.  On H1 the end of the stream may complete
\* the active request's close-delimited body (h1_session_eof).
TransportClosed(c) ==
  /\ Quiet /\ conn[c].st = "Ready"
  /\ FailAll(conn, waiting, c, stack)
  /\ UNCHANGED <<rst, retries, answers, fault>>

H1Eof(c, r) ==
  /\ Quiet /\ conn[c].st = "Ready" /\ Proto(c) = "H1"
  /\ OnResponse(c, r, {FALSE}, Cons(F("failall", c, {}), stack))

\* pool_h1_on_fully_closed, pool_h2_on_fully_closed, pool_h3_on_fully_closed
FullyClosed(c) ==
  /\ Quiet /\ conn[c].st = "Closing"
  /\ LET conns == [conn EXCEPT ![c] = NoConn]
     IN  Released(conns, SweepAfter(conns))
  /\ UNCHANGED <<rst, retries, answers, stack, fault>>

\* Mutants: the timer outlives the request; only submitted requests time out.
TimerFiresLate(r) == r \in Deadline /\ rst[r] # "new"
TimerFiresIfActive(r) ==
  r \in Deadline /\ rst[r] = "live" /\ ~responded[r] /\ \E c \in Conns : r \in active[c]
\* The request's timer is armed, and its callback does not return early.
TimerFires(r) == r \in Deadline /\ rst[r] = "live" /\ ~responded[r]

\* pool_req_timeout up to and including its callback.
ReqTimeout(r) ==
  /\ Quiet /\ TimerFires(r)
  /\ responded' = [responded EXCEPT ![r] = TRUE]
  /\ calls' = [calls EXCEPT ![r] = @ + 1]
  /\ stack' = Cons(F("cb", None, {r}),
                   Cons(F("timeout", IF pc[r] \in Conns THEN pc[r] ELSE None, {r}), stack))
  /\ UNCHANGED <<conn, lists, rst, pc, retries, by, strm, sweep, fault>>

\* Mutants: conns with requests in flight are swept; idle conns are not.
SweepsBusy(due) == {c \in Conns : conn[c].broken \/ c \in due}
SweepsBroken(due) == {c \in Conns : inflight[c] = 0 /\ conn[c].broken}
Sweeps(due) == {c \in Conns : inflight[c] = 0 /\ (conn[c].broken \/ c \in due)}

\* pool_sweep_cb: broken conns with nothing in flight, and those idle too long.
\* The clock is abstracted: any Ready conn with nothing in flight may be due.
SweepExpired(due) ==
  /\ Quiet /\ sweep = "armed"
  /\ due \subseteq {c \in Conns : conn[c].st = "Ready"}
  /\ LET conns == Closed(conn, Sweeps(due))
     IN  Released(conns, SweepAfter(conns))
  /\ UNCHANGED <<rst, retries, answers, stack, fault>>

\* The close callback phase after pool_drain: the timer handle is gone.
SweepTimerClosed ==
  /\ Quiet /\ sweep = "closing"
  /\ sweep' = "none"
  /\ UNCHANGED <<conn, lists, rst, pc, retries, answers, stack, fault>>

-----------------------------------------------------------------------------
Init ==
  /\ conn = [c \in Conns |-> NoConn]
  /\ inflight = [c \in Conns |-> 0]
  /\ active = [c \in Conns |-> {}]
  /\ waiting = [c \in Conns |-> <<>>]
  /\ owed = [c \in Conns |-> <<>>]
  /\ rst = [r \in Reqs |-> "new"]
  /\ pc = [r \in Reqs |-> None]
  /\ retries = [r \in Reqs |-> MaxRetries]
  /\ responded = [r \in Reqs |-> FALSE]
  /\ calls = [r \in Reqs |-> 0]
  /\ by = [r \in Reqs |-> None]
  /\ strm = [r \in Reqs |-> "new"]
  /\ stack = <<>>
  /\ sweep = "none"
  /\ fault = FALSE

\* One step of the handler that is running.
Handler ==
  \/ CallbackReturn \/ ReqDone \/ Acquire \/ RetryOrFail \/ FlushWaiting
  \/ UpdateIdle \/ CloseDrained \/ LateBooking \/ FallbackNext \/ FallbackEnd
  \/ DrainStart \/ GoAway \/ StrayBytes \/ H3Ready \/ LoopError \/ LoopEnd
  \/ FailAfterEof \/ TimeoutTail
  \/ \E r \in Reqs : Receive(r) \/ H3ResetIgnored(r)

App ==
  \/ \E r \in Reqs : Dispatch(r)
  \/ EvictAll
  \/ PoolDrain

Event ==
  \/ \E c \in Conns :
       \/ Resolved(c) \/ TcpReady(c) \/ ReadyFailed(c) \/ FallbackLegacy(c)
       \/ Readable(c) \/ FullyClosed(c) \/ TransportClosed(c)
       \/ \E r \in Reqs : H1Eof(c, r)
  \/ \E r \in Reqs : ReqTimeout(r)
  \/ \E due \in SUBSET Conns : SweepExpired(due)
  \/ SweepTimerClosed

Next == Handler \/ App \/ Event

Spec == Init /\ [][Next]_vars

-----------------------------------------------------------------------------
(* Properties. *)

ConnState == [st : {"Free", "Handshaking", "Ready", "Closing"}, key : Keys \cup {None},
              broken : BOOLEAN, inRecv : BOOLEAN, idle : BOOLEAN, goaway : BOOLEAN,
              open : BOOLEAN]
Frame == [op : Ops, c : Conns \cup {None}, rs : SUBSET Reqs]

\* The variables have the types of the fields they stand for (pool.h).
TypeOK ==
  /\ conn \in [Conns -> ConnState]
  /\ inflight \in [Conns -> Nat]
  /\ active \in [Conns -> SUBSET Reqs]
  /\ waiting \in [Conns -> Seq(Reqs)]
  /\ owed \in [Conns -> Seq(Reqs)]
  /\ rst \in [Reqs -> {"new", "live", "done", "legacy"}]
  /\ pc \in [Reqs -> Conns \cup {None, Freed}]
  /\ retries \in [Reqs -> 0 .. MaxRetries]
  /\ responded \in [Reqs -> BOOLEAN]
  /\ calls \in [Reqs -> Nat]
  /\ by \in [Reqs -> Reqs \cup {None}]
  /\ strm \in [Reqs -> {"new", "fin", "dead"}]
  /\ stack \in Seq(Frame)
  /\ sweep \in {"none", "stopped", "armed", "closing"}
  /\ fault \in BOOLEAN

\* The requests on one of c's lists, and those that a frame holds: its local
\* variables are the only pointers to them.
Listed(c) == active[c] \cup Range(waiting[c])
Hold(f) ==
  IF f.op \in {"acquire", "retry", "fallback", "late", "done", "drop"} THEN f.rs ELSE {}
Held == UNION {Hold(f) : f \in Range(stack)}

\* A request is on at most one list of one conn, which its pc names, and is queued
\* there at most once; a request some handler holds is on no list and is held by
\* one frame only.  pool_req_timeout, pool_h2_on_response and the intrusive next
\* pointers all rely on this.
OnePlace ==
  /\ \A c \in Conns :
       /\ \A r \in Listed(c) : rst[r] = "live" /\ pc[r] = c
       /\ active[c] \cap Range(waiting[c]) = {}
       /\ IsInjective(waiting[c])
  /\ \A r \in Held : rst[r] = "live" /\ \A c \in Conns : r \notin Listed(c)
  /\ \A i, j \in DOMAIN stack : i # j => Hold(stack[i]) \cap Hold(stack[j]) = {}

\* A request is only ever queued or sent on a conn to its own origin over its own
\* protocol, however often it was retried or re-homed.
RightOrigin == \A c \in Conns : \A r \in Listed(c) : conn[c].key = Key[r]

\* The callback of a request runs at most once, and exactly once by the time the
\* pool frees the request, whatever mix of responses, resets, timeouts, retries
\* and connection failures it met.
CalledOnce ==
  \A r \in Reqs :
    /\ calls[r] <= 1
    /\ rst[r] = "done" => calls[r] = 1
    /\ rst[r] = "new" => calls[r] = 0

\* inflight counts the active list, and a usable conn never carries more than its
\* protocol allows here: one H1 request, POOL_H3_MAX_CONCURRENT H3 streams (the
\* comment in pool_submit: more would never finish).
CapacityRespected ==
  \A c \in Conns :
    /\ inflight[c] = Cardinality(active[c])
    /\ (Live(c) /\ Proto(c) = "H1") => inflight[c] <= 1
    /\ (Live(c) /\ Proto(c) = "H3") => inflight[c] <= H3Max

\* Never more usable conns to one (origin, protocol) than max_conns_per_origin.
OriginCap ==
  \A k \in Keys :
    Cardinality({c \in Conns : Live(c) /\ ~conn[c].broken /\ conn[c].key = k}) <= MaxPerOrigin

\* Between events every live request is on a list of a conn that can still serve
\* or fail it: none is lost by closing, evicting, sweeping or re-homing.
NoneStranded ==
  Quiet => \A r \in Reqs :
             rst[r] = "live" => (\E c \in Conns : Live(c) /\ r \in Listed(c))

\* Between events a conn with work holds the loop (it is not unref'd), so loop_run
\* does not return under a pending request; and requests wait only where
\* something is still to come that flushes the queue.
WorkHoldsLoop ==
  Quiet => \A c \in Conns :
             (Live(c) /\ Listed(c) # {}) =>
               ~conn[c].idle /\ (conn[c].st = "Ready" => inflight[c] > 0)

\* The conn of a request that got a response is the one whose bytes were parsed:
\* each request is answered with its own response.
ResponseIsOwn == \A r \in Reqs : by[r] \in {None, r}

\* No handler touches a PoolConn after its memory was released, frees a request
\* twice, or restarts the sweep timer while it is being closed.
NoFault == ~fault

\* A usable H1 conn has at most one response outstanding.
H1OneOutstanding == \A c \in Conns : Live(c) => Len(owed[c]) <= 1

\* A request that counts as in flight has a stream on which its answer, or its
\* failure, can still arrive.
StreamsOpen == \A c \in Conns : \A r \in active[c] : Live(c) => strm[r] # "dead"

\* Once a conn is broken (GOAWAY, Connection: close, proxy switch) no request is
\* added to it, until the slot holds a new conn.
BrokenTakesNoMore ==
  [][\A c \in Conns : (Live(c) /\ conn[c].broken /\ conn'[c].broken) =>
        active'[c] \subseteq active[c] /\ Range(waiting'[c]) \subseteq Range(waiting[c])]_vars

\* pool_sweep_cb walks conns[] while it closes: no conn leaves the array under it
\* ("close is async; no removal mid-loop").
SweepRemovesNothing ==
  (Quiet /\ \E due \in SUBSET Conns : SweepExpired(due)) =>
    \A c \in Conns : conn[c].st # "Free" => conn'[c].st # "Free"
=============================================================================
