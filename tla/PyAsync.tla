------------------------------- MODULE PyAsync -------------------------------
(* The Python AsyncClient on top of the C one: requests are futures of one     *)
(* asyncio thread, parked and flushed in batches; completions come back either *)
(* through the C FIFO and its pipe or through a callback on the loop thread.   *)
(*                                                                             *)
(* The asyncio thread runs one callback at a time; inside one, the loop thread *)
(* may run wherever the code leaves a C call's lock or a bytecode boundary     *)
(* that matters, which is what py.at and py.cbAt hold.                         *)
EXTENDS AsyncClient

CONSTANTS MaxReqs,   \* requests made in a behaviour
          DrainMax,  \* _DRAIN_MAX
          Watchable  \* whether the event loop can watch the pipe: one of these

VARIABLES py,    \* the AsyncClient object and the asyncio thread
          fut,   \* id -> "none", "waiting", "cancelled", "result" or "error"
          spent, \* id -> how often its response was handed out or freed
          leaked \* responses nobody can free any more
asyncVars == <<ac, py, fut, spent, leaked>>

Ids == 1..MaxReqs

Fresh(watch) ==
  [watch |-> watch, queueMode |-> FALSE, next |-> 1, inflight |-> {}, pending |-> <<>>,
   flushQ |-> FALSE, completions |-> <<>>, carry |-> <<>>, drainQ |-> FALSE,
   closed |-> FALSE, closing |-> "no", reader |-> FALSE, ready |-> <<>>, at |-> "idle",
   cbAt |-> "begin"]

Schedule(p, cb) == [p EXCEPT !.ready = Append(@, cb)]

\* A new list of completions: an append that had looked up the old one goes astray.
Rebind(p) == [p EXCEPT !.completions = <<>>, !.cbAt = IF @ = "loaded" THEN "stale" ELSE @]

-----------------------------------------------------------------------------
(* The callback path: _on_complete, on the thread that runs the loop.          *)

\* The tail of _on_complete: one _drain is scheduled for all that is parked.
Park(p) ==
  IF p.drainQ THEN [p EXCEPT !.cbAt = "begin"]
  ELSE Schedule([p EXCEPT !.cbAt = "begin", !.drainQ = TRUE], "drain")

OnCompleteAppend ==
  /\ ac.loop.cb # Nobody /\ py.cbAt \in {"begin", "loaded"}
  /\ py' = [py EXCEPT !.cbAt = "parked", !.completions = Append(@, ac.loop.cb)]
  /\ UNCHANGED <<ac, fut, spent, leaked>>

OnCompleteEnd ==
  /\ ac.loop.cb # Nobody /\ py.cbAt = "parked"
  /\ py' = Park(py)
  /\ ac' = [ac EXCEPT !.loop.cb = Nobody]
  /\ UNCHANGED <<fut, spent, leaked>>

\* self._completions is looked up before the argument int(req_id) is evaluated, and
\* appended to after.  An interpreter that switches threads at that call (CPython
\* does) lets _drain rebind the list in between; the append then goes to the old one.
OnCompleteLoad ==
  /\ ac.loop.cb # Nobody /\ py.cbAt = "begin"
  /\ py' = [py EXCEPT !.cbAt = "loaded"]
  /\ UNCHANGED <<ac, fut, spent, leaked>>

OnCompleteAstray ==
  /\ ac.loop.cb # Nobody /\ py.cbAt = "stale"
  /\ py' = [py EXCEPT !.cbAt = "parked"]
  /\ leaked' = leaked \cup {ac.loop.cb}
  /\ UNCHANGED <<ac, fut, spent>>

-----------------------------------------------------------------------------
(* The asyncio thread.                                                         *)

AtIdle == py.at = "idle"

Futures(ids, from, to) == [i \in Ids |-> IF i \in ids /\ fut[i] = from THEN to ELSE fut[i]]
Spend(ids) == [i \in Ids |-> spent[i] + Cardinality({n \in DOMAIN ids : ids[n] = i})]

\* _ensure_reader, at the first request: watch the pipe, then switch the C side over.
EnsureReader(p) ==
  IF p.next = 1 /\ p.watch THEN [p EXCEPT !.reader = TRUE, !.queueMode = TRUE] ELSE p

\* request, up to its await.
Request ==
  /\ AtIdle /\ ~py.closed /\ py.next \in Ids
  /\ LET p == EnsureReader(py)
         parked == [p EXCEPT !.next = @ + 1, !.inflight = @ \cup {p.next},
                             !.pending = Append(@, p.next), !.flushQ = TRUE]
     IN py' = IF py.flushQ THEN parked ELSE Schedule(parked, "flush")
  /\ ac' = IF py.next = 1 /\ py.watch THEN UseCompletionQueue(ac) ELSE ac
  /\ fut' = [fut EXCEPT ![py.next] = "waiting"]
  /\ UNCHANGED <<spent, leaked>>

\* A task is cancelled: its future is at once, its registration when it next runs.
Cancel(i) ==
  /\ AtIdle /\ fut[i] = "waiting"
  /\ fut' = [fut EXCEPT ![i] = "cancelled"]
  /\ UNCHANGED <<ac, py, spent, leaked>>

CancelledRuns(i) ==
  /\ AtIdle /\ fut[i] = "cancelled" /\ i \in py.inflight
  /\ py' = [py EXCEPT !.inflight = @ \ {i}]
  /\ UNCHANGED <<ac, fut, spent, leaked>>

Runs(cb) == AtIdle /\ py.ready # <<>> /\ Head(py.ready) = cb
Popped == [py EXCEPT !.ready = Tail(@)]

Waiting(i) == fut[i] = "waiting"
LiveOf == SelectSeq(py.pending, Waiting)

\* _flush: one submit_many for all that is parked and not cancelled.  The copy may
\* fail; the send comes after the lock.
Flush ==
  /\ Runs("flush")
  /\ LET p == [Popped EXCEPT !.flushQ = FALSE, !.pending = <<>>]
         live == LiveOf
         refused == /\ py' = [p EXCEPT !.inflight = @ \ Range(live)]
                    /\ fut' = Futures(Range(live), "waiting", "error")
                    /\ ac' = ac
     IN \/ live = <<>> /\ py' = p /\ UNCHANGED <<ac, fut>>
        \/ live # <<>> /\ refused
        \/ /\ live # <<>> /\ ~py.closed /\ Accepts(ac)
           /\ ac' = Enqueue(ac, live)
           /\ py' = [p EXCEPT !.at = "send"]
           /\ UNCHANGED fut
  /\ UNCHANGED <<spent, leaked>>

Send ==
  /\ py.at = "send"
  /\ ac' = AsyncSend(ac)
  /\ py' = [py EXCEPT !.at = "idle"]
  /\ UNCHANGED <<fut, spent, leaked>>

\* The futures of a batch of responses are resolved; one nobody awaits is freed.
Resolve(p, batch) ==
  /\ py' = [p EXCEPT !.inflight = @ \ Range(batch)]
  /\ fut' = [i \in Ids |-> IF i \in Range(batch) \cap p.inflight /\ fut[i] = "waiting"
                             THEN "result" ELSE fut[i]]
  /\ spent' = Spend(batch)

\* _drain, its first line: from here on a completion schedules another drain.
DrainClear ==
  /\ Runs("drain")
  /\ py' = [Popped EXCEPT !.at = "swap", !.drainQ = FALSE]
  /\ UNCHANGED <<ac, fut, spent, leaked>>

\* Mutant: what one tick leaves over waits for the next completion.
LeaveCarryUnscheduled(p, rest) == [p EXCEPT !.carry = rest]

\* What one tick leaves over is taken by a drain of its own.
LeaveCarry(p, rest) ==
  LET q == [p EXCEPT !.carry = rest]
  IN IF rest = <<>> \/ p.drainQ THEN q ELSE Schedule([q EXCEPT !.drainQ = TRUE], "drain")

\* The rest of _drain.
DrainSwap ==
  /\ py.at = "swap"
  /\ LET all == py.carry \o py.completions
         n == IF Len(all) < DrainMax THEN Len(all) ELSE DrainMax
         p == Rebind([py EXCEPT !.at = "idle"])
     IN Resolve(LeaveCarry(p, SubSeq(all, n + 1, Len(all))), SubSeq(all, 1, n))
  /\ UNCHANGED <<ac, leaked>>

\* _drain_ready, up to its _drain_batch: the pipe is emptied first.
DrainReady ==
  /\ AtIdle /\ py.reader /\ ac.pipe > 0
  /\ ac' = ReadPipe(ac)
  /\ py' = [py EXCEPT !.at = "batch"]
  /\ UNCHANGED <<fut, spent, leaked>>

\* _drain_batch, from the reader or rescheduled by itself.
DrainBatch ==
  /\ py.at = "batch" \/ Runs("batch")
  /\ LET took == DrainTakes(ac, DrainMax)
         p == IF py.at = "batch" THEN [py EXCEPT !.at = "idle"] ELSE Popped
     IN Resolve(IF Len(took) = DrainMax THEN Schedule(p, "batch") ELSE p, took)
  /\ ac' = Drain(ac, DrainMax)
  /\ UNCHANGED leaked

-----------------------------------------------------------------------------
(* aclose: stop, join without blocking the event loop, sweep, free.            *)

Close ==
  /\ AtIdle /\ ~py.closed
  /\ ac' = SetStopping(ac)
  /\ py' = [py EXCEPT !.closed = TRUE, !.closing = "join", !.at = "send"]
  /\ UNCHANGED <<fut, spent, leaked>>

\* The executor's join returns; the coroutine goes on when its turn comes.
Joined ==
  /\ py.closing = "join" /\ ac.loop.at = "exited"
  /\ py' = Schedule([py EXCEPT !.closing = "joined"], "close")
  /\ UNCHANGED <<ac, fut, spent, leaked>>

\* Mutant: only the FIFO is swept, whichever path was taken.
SweepFifo == ac.fifo
\* What aclose frees: the FIFO of the queue path, or the lists of the callback path.
Sweep == IF py.queueMode THEN ac.fifo ELSE py.completions \o py.carry

\* The rest of aclose, up to holytls_async_client_free.
CloseSweep ==
  /\ Runs("close")
  /\ LET left == ac.fifo \o py.completions \o py.carry
     IN /\ spent' = Spend(Sweep)
        /\ leaked' = leaked \cup (Range(left) \ Range(Sweep))
  /\ fut' = Futures(py.inflight \cup Range(py.pending), "waiting", "error")
  /\ py' = Rebind([Popped EXCEPT !.pending = <<>>, !.inflight = {}, !.flushQ = FALSE,
                                 !.carry = <<>>, !.drainQ = FALSE, !.reader = FALSE,
                                 !.closing = "free", !.at = "free"])
  /\ ac' = BeginFree([ac EXCEPT !.fifo = <<>>])

\* The end of holytls_async_client_free.
Free ==
  /\ py.at = "free" /\ Between(ac) /\ ~ac.loop.busy
  /\ spent' = Spend(ac.fifo)
  /\ ac' = FreeRest(ac)
  /\ py' = [py EXCEPT !.closing = "done", !.at = "idle"]
  /\ UNCHANGED <<fut, leaked>>

-----------------------------------------------------------------------------
Init ==
  /\ ac = NewClient
  /\ \E watch \in Watchable : py = Fresh(watch)
  /\ fut = [i \in Ids |-> "none"]
  /\ spent = [i \in Ids |-> 0]
  /\ leaked = {}

Loop == LoopThread /\ UNCHANGED <<py, fut, spent, leaked>>
Answer(i) == Respond(i) /\ UNCHANGED <<py, fut, spent, leaked>>
OnComplete == OnCompleteAppend \/ OnCompleteEnd
Asyncio == Flush \/ Send \/ DrainClear \/ DrainSwap \/ DrainReady \/ DrainBatch
           \/ Joined \/ CloseSweep \/ Free

Next == \/ Request \/ Close \/ Loop \/ OnComplete \/ Asyncio
        \/ \E i \in Ids : Cancel(i) \/ CancelledRuns(i) \/ Answer(i)

Spec == Init /\ [][Next]_asyncVars

\* Both threads keep running, and the client answers what it was given.
Fairness ==
  /\ WF_asyncVars(Loop) /\ WF_asyncVars(OnComplete) /\ WF_asyncVars(Asyncio)
  /\ \A i \in Ids : WF_asyncVars(Answer(i)) /\ WF_asyncVars(CancelledRuns(i))
FairSpec == Spec /\ Fairness

\* The same with a thread switch inside the append.
Torn == OnCompleteLoad \/ OnCompleteAstray
TornSpec == Init /\ [][Next \/ Torn]_asyncVars /\ Fairness /\ WF_asyncVars(OnComplete \/ Torn)

-----------------------------------------------------------------------------
TypeOK ==
  /\ ac.queue \in Seq(Ids) /\ ac.fifo \in Seq(Ids) /\ ac.inflight \subseteq Ids
  /\ ac.loop.at \in {"new", "poll", "straggle", "exited", "cleanup", "freed"}
  /\ py.at \in {"idle", "send", "swap", "batch", "free"}
  /\ py.inflight \subseteq Ids /\ py.completions \in Seq(Ids) /\ py.carry \in Seq(Ids)
  /\ fut \in [Ids -> {"none", "waiting", "cancelled", "result", "error"}]
  /\ spent \in [Ids -> 0..1]  \* a response is handed out or freed once
  /\ leaked \subseteq Ids

\* While the pipe is watched, a completion in the FIFO has someone coming for it: a
\* byte in the pipe, the producer about to write it, or a drain under way.
NoLostSignal ==
  py.reader /\ ac.fifo # <<>> =>
    ac.pipe > 0 \/ ac.loop.owes \/ py.at = "batch" \/ Contains(py.ready, "batch")

\* A response parked by the callback has a drain coming for it.
NoStranded ==
  py.completions \o py.carry # <<>> =>
    py.at = "swap" \/ py.cbAt = "parked" \/ Contains(py.ready, "drain")

\* On the callback path no response is dropped: one that nobody awaits any more, or
\* that is parked when the client closes, is freed.
NothingLeaks == ~py.queueMode => leaked = {}

\* Every awaited request is settled, whether it is answered, refused, still queued
\* when the client is closed, or in flight and abandoned then.
EveryAwaitEnds == \A i \in Ids : fut[i] = "waiting" ~> fut[i] # "waiting"

=============================================================================
