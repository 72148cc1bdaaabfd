---------------------------- MODULE AsyncClient ----------------------------
(* The C half of the asynchronous client: a submission queue filled by any     *)
(* thread, the one thread that runs the event loop and the client, and a FIFO  *)
(* of completions with a self-pipe that a foreign thread drains.               *)
(*                                                                             *)
(* Every section under qlock or clock is one step.  What happens outside them  *)
(* is a step of its own: uv_async_send after the enqueue, the byte written to  *)
(* the pipe after the push, each item of a detached batch.  A callback into    *)
(* the foreign runtime is left pending in loop.cb until that runtime's module  *)
(* (PyAsync, PyClient) has run it; the loop thread does nothing meanwhile.     *)
EXTENDS Naturals, Sequences, FiniteSets, SequencesExt

VARIABLE ac  \* the holytls_async_client and the thread that runs its loop

Nobody == 0  \* no request: ids start at 1

\* holytls_async_client_new_named.
NewClient ==
  [queue |-> <<>>, stopping |-> FALSE, wake |-> FALSE, inflight |-> {},
   fifo |-> <<>>, pipe |-> 0, useQueue |-> FALSE,
   loop |-> [at |-> "new", busy |-> FALSE, batch |-> <<>>, sees |-> FALSE,
             uvStop |-> FALSE, cb |-> Nobody, owes |-> FALSE]]

Alive(a) == a.loop.at # "freed"

\* The loop thread is in none of its callbacks, or at one item of a batch.
Between(a) == a.loop.cb = Nobody /\ ~a.loop.owes
InLoop(a) == a.loop.at \in {"poll", "straggle", "cleanup"}

-----------------------------------------------------------------------------
(* What other threads call.                                                    *)

\* The locked half of submit, submit_many and session_submit: all of ids or none.
Enqueue(a, ids) == IF a.stopping THEN a ELSE [a EXCEPT !.queue = @ \o ids]
Accepts(a) == ~a.stopping

\* uv_async_send: any number of sends before the loop looks are one wake-up.
AsyncSend(a) == [a EXCEPT !.wake = TRUE]

\* The locked half of holytls_async_stop.
SetStopping(a) == [a EXCEPT !.stopping = TRUE]

UseCompletionQueue(a) == [a EXCEPT !.useQueue = TRUE]

\* holytls_async_drain: up to max nodes leave the head of the FIFO.
DrainTakes(a, max) == SubSeq(a.fifo, 1, IF Len(a.fifo) < max THEN Len(a.fifo) ELSE max)
Drain(a, max) == [a EXCEPT !.fifo = SubSeq(@, Len(DrainTakes(a, max)) + 1, Len(@))]

\* The foreign side reads the pipe until it would block.
ReadPipe(a) == [a EXCEPT !.pipe = 0]

-----------------------------------------------------------------------------
(* The loop thread.                                                            *)

\* Mutant: the byte is owed when the FIFO already held something.
OnAsyncResponseSignalsLate(a, id) ==
  IF a.useQueue
    THEN [a EXCEPT !.inflight = @ \ {id}, !.fifo = Append(@, id),
                   !.loop.owes = (a.fifo # <<>>)]
    ELSE [a EXCEPT !.inflight = @ \ {id}, !.loop.cb = id]

\* on_async_response: off the in-flight list first, then onto the FIFO (the byte
\* is written after the unlock, and only if the FIFO was empty) or to the callback.
OnAsyncResponse(a, id) ==
  IF a.useQueue
    THEN [a EXCEPT !.inflight = @ \ {id}, !.fifo = Append(@, id),
                   !.loop.owes = (a.fifo = <<>>)]
    ELSE [a EXCEPT !.inflight = @ \ {id}, !.loop.cb = id]

\* holytls_async_run enters uv_run.
RunLoop ==
  /\ ac.loop.at = "new"
  /\ ac' = [ac EXCEPT !.loop.at = "poll"]

\* on_async, its locked part: the whole queue and the stop flag at one instant.
OnAsync ==
  /\ InLoop(ac) /\ Between(ac) /\ ~ac.loop.busy /\ ac.wake
  /\ ac' = [ac EXCEPT !.wake = FALSE, !.queue = <<>>, !.loop.busy = TRUE,
                      !.loop.batch = ac.queue, !.loop.sees = ac.stopping]

\* One item of the batch.  A client that is closing answers it through the
\* callback, queue or not; so does one that has no memory for the context.
\* Otherwise the context is linked before the dispatch, which may answer at once.
OnAsyncItem ==
  /\ ac.loop.busy /\ Between(ac) /\ ac.loop.batch # <<>>
  /\ LET s == Head(ac.loop.batch)
         a == [ac EXCEPT !.loop.batch = Tail(@)]
         linked == [a EXCEPT !.inflight = @ \cup {s}]
     IN IF ac.loop.sees
          THEN ac' = [a EXCEPT !.loop.cb = s]
          ELSE \/ ac' = [a EXCEPT !.loop.cb = s]
               \/ ac' = linked
               \/ ac' = OnAsyncResponse(linked, s)

OnAsyncEnd ==
  /\ ac.loop.busy /\ Between(ac) /\ ac.loop.batch = <<>>
  /\ ac' = [ac EXCEPT !.loop.busy = FALSE, !.loop.uvStop = @ \/ ac.loop.sees]

\* A request in flight completes.  client_cleanup can still deliver one that the
\* pool held.
Respond(id) ==
  /\ InLoop(ac) /\ Between(ac) /\ ~ac.loop.busy /\ id \in ac.inflight
  /\ ac' = OnAsyncResponse(ac, id)

\* async_completion_signal, outside the lock.
Signal ==
  /\ ac.loop.owes
  /\ ac' = [ac EXCEPT !.loop.owes = FALSE, !.pipe = @ + 1]

\* uv_run returns on uv_stop, once more without waiting, and the thread ends.
LeaveLoop ==
  /\ Between(ac) /\ ~ac.loop.busy
  /\ \/ /\ ac.loop.at = "poll" /\ ac.loop.uvStop
        /\ ac' = [ac EXCEPT !.loop.at = "straggle", !.loop.uvStop = FALSE]
     \/ /\ ac.loop.at = "straggle"
        /\ ac' = [ac EXCEPT !.loop.at = "exited", !.loop.uvStop = FALSE]

LoopThread == RunLoop \/ OnAsync \/ OnAsyncItem \/ OnAsyncEnd \/ Signal \/ LeaveLoop

\* holytls_async_client_free, on the closing thread: client_cleanup pumps the loop
\* (Respond, OnAsync), then every list is freed with what it still holds.
BeginFree(a) == [a EXCEPT !.loop.at = "cleanup"]
FreeRest(a) ==
  [a EXCEPT !.loop.at = "freed", !.queue = <<>>, !.inflight = {}, !.fifo = <<>>,
            !.pipe = 0, !.wake = FALSE]

-----------------------------------------------------------------------------
\* A submission is on at most one of the four lists at any instant (the queue, the
\* detached batch, the in-flight list, the FIFO) and once, so the walks of the two
\* teardown loops free each node once (holytls_capi.c:568-573).
OnOneList ==
  LET chain == ac.queue \o ac.loop.batch \o ac.fifo
  IN /\ IsInjective(chain)
     /\ ac.inflight \cap Range(chain) = {}
=============================================================================
