------------------------------- MODULE PyClient -------------------------------
(* The blocking Python Client on top of the C asynchronous one.  Any number of *)
(* threads call request or request_many: each registers its slots, submits     *)
(* them as one batch and waits for all.  The loop thread is started by the     *)
(* first caller; close stops it, joins it, wakes whoever is left, and frees.   *)
(*                                                                             *)
(* A step ends where another thread may run and matters: at a lock, at a C     *)
(* call (the interpreter lock is released there), at a read of shared state.   *)
EXTENDS AsyncClient

CONSTANTS Callers,  \* threads that make one call each
          BatchOf   \* caller -> the ids of its requests, in order; no two share one

VARIABLES bc,      \* the Client object
          caller,  \* caller -> where its call is
          slot,    \* id -> "none", "open", "resp" or "null": its _Pending
          closer,  \* where the thread in close is
          misused  \* a call was made on a native client already freed, or it was
                   \* freed under its running loop thread
bridgeVars == <<ac, bc, caller, slot, closer, misused>>

Ids == UNION {Range(BatchOf[c]) : c \in Callers}

NewBridge ==
  [started |-> FALSE, thread |-> FALSE, startLock |-> FALSE, closed |-> FALSE,
   inflight |-> {}, null |-> FALSE]

Goto(c, pc) == caller' = [caller EXCEPT ![c] = pc]

-----------------------------------------------------------------------------
(* A caller.                                                                   *)

\* _check and the unlocked look at _started.
Call(c) ==
  /\ caller[c] = "idle" /\ ~bc.closed
  /\ Goto(c, IF bc.started THEN "register" ELSE "start")
  /\ UNCHANGED <<ac, bc, slot, closer, misused>>

CallRefused(c) ==
  /\ caller[c] = "idle" /\ bc.closed
  /\ Goto(c, "raised")
  /\ UNCHANGED <<ac, bc, slot, closer, misused>>

\* Mutant: the second look at _started is left out.
StartsAlways == TRUE
\* The looks under the lock: somebody else started it, or it is closed.
Starts == ~bc.started /\ ~bc.closed

\* _ensure_started, under _start_lock, up to the start of the thread.
EnsureStarted(c) ==
  /\ caller[c] = "start" /\ ~bc.startLock
  /\ IF Starts
       THEN /\ bc' = [bc EXCEPT !.startLock = TRUE]
            /\ Goto(c, "starting")
       ELSE UNCHANGED bc /\ Goto(c, "register")
  /\ UNCHANGED <<ac, slot, closer, misused>>

ThreadStart(c) ==
  /\ caller[c] = "starting"
  /\ bc' = [bc EXCEPT !.thread = TRUE]
  /\ Goto(c, "started")
  /\ misused' = (misused \/ ~Alive(ac) \/ bc.thread)
  /\ UNCHANGED <<ac, slot, closer>>

Started(c) ==
  /\ caller[c] = "started"
  /\ bc' = [bc EXCEPT !.started = TRUE, !.startLock = FALSE]
  /\ Goto(c, "register")
  /\ UNCHANGED <<ac, slot, closer, misused>>

\* _run, its slots registered under _inflight_lock.
Register(c) ==
  /\ caller[c] = "register"
  /\ IF bc.closed THEN Goto(c, "raised") /\ UNCHANGED <<bc, slot>>
     ELSE /\ bc' = [bc EXCEPT !.inflight = @ \cup Range(BatchOf[c])]
          /\ slot' = [i \in Ids |-> IF i \in Range(BatchOf[c]) THEN "open" ELSE slot[i]]
          /\ Goto(c, "submit")
  /\ UNCHANGED <<ac, closer, misused>>

Refused(c) ==
  /\ bc' = [bc EXCEPT !.inflight = @ \ Range(BatchOf[c])]
  /\ Goto(c, "raised")

\* The argument self._ac is evaluated before the call runs.
Submit(c) ==
  /\ caller[c] = "submit"
  /\ IF bc.null THEN Refused(c) ELSE Goto(c, "calling") /\ UNCHANGED bc
  /\ UNCHANGED <<ac, slot, closer, misused>>

\* holytls_async_submit_many or _session_submit: refused, or all of the batch queued.
SubmitMany(c) ==
  /\ caller[c] = "calling"
  /\ misused' = (misused \/ ~Alive(ac))
  /\ \/ UNCHANGED ac /\ Refused(c)
     \/ /\ Accepts(ac) /\ ac' = Enqueue(ac, BatchOf[c])
        /\ Goto(c, "send") /\ UNCHANGED bc
  /\ UNCHANGED <<slot, closer>>

Send(c) ==
  /\ caller[c] = "send"
  /\ misused' = (misused \/ ~Alive(ac))
  /\ ac' = AsyncSend(ac)
  /\ Goto(c, "wait")
  /\ UNCHANGED <<bc, slot, closer>>

\* Every event of the batch is set.
Wake(c) ==
  /\ caller[c] = "wait"
  /\ \A i \in Range(BatchOf[c]) : slot[i] # "open"
  /\ Goto(c, "returned")
  /\ UNCHANGED <<ac, bc, slot, closer, misused>>

\* _on_complete: the waiter's slot is filled and its event set, or the response freed.
OnComplete ==
  /\ ac.loop.cb # Nobody
  /\ LET id == ac.loop.cb
     IN /\ bc' = [bc EXCEPT !.inflight = @ \ {id}]
        /\ slot' = IF id \in bc.inflight THEN [slot EXCEPT ![id] = "resp"] ELSE slot
  /\ ac' = [ac EXCEPT !.loop.cb = Nobody]
  /\ UNCHANGED <<caller, closer, misused>>

-----------------------------------------------------------------------------
(* close, on a thread of its own.                                              *)

Close ==
  /\ closer = "no"
  /\ bc' = [bc EXCEPT !.closed = TRUE]
  /\ closer' = "closed"
  /\ UNCHANGED <<ac, caller, slot, misused>>

\* A client never started is freed at once.
CloseStop ==
  /\ closer = "closed"
  /\ IF bc.started THEN ac' = SetStopping(ac) /\ closer' = "send"
     ELSE UNCHANGED ac /\ closer' = "free"
  /\ UNCHANGED <<bc, caller, slot, misused>>

CloseSend ==
  /\ closer = "send"
  /\ ac' = AsyncSend(ac)
  /\ closer' = "join"
  /\ UNCHANGED <<bc, caller, slot, misused>>

Joined == ac.loop.at = "exited"

\* Whoever is still registered is woken with no response.
Strand == [i \in Ids |-> IF i \in bc.inflight /\ slot[i] = "open" THEN "null" ELSE slot[i]]

CloseJoin ==
  /\ closer = "join" /\ Joined
  /\ slot' = Strand
  /\ bc' = [bc EXCEPT !.inflight = {}]
  /\ closer' = "free"
  /\ UNCHANGED <<ac, caller, misused>>

\* holytls_async_client_free: the loop thread must be gone.
CloseFree ==
  /\ closer = "free"
  /\ misused' = (misused \/ (bc.thread /\ ac.loop.at # "exited"))
  /\ ac' = BeginFree(ac)
  /\ closer' = "freeing"
  /\ UNCHANGED <<bc, caller, slot>>

CloseFreed ==
  /\ closer = "freeing" /\ Between(ac) /\ ~ac.loop.busy
  /\ ac' = FreeRest(ac)
  /\ closer' = "freed"
  /\ UNCHANGED <<bc, caller, slot, misused>>

CloseNull ==
  /\ closer = "freed"
  /\ bc' = [bc EXCEPT !.null = TRUE]
  /\ closer' = "done"
  /\ UNCHANGED <<ac, caller, slot, misused>>

-----------------------------------------------------------------------------
Init ==
  /\ ac = NewClient
  /\ bc = NewBridge
  /\ caller = [c \in Callers |-> "idle"]
  /\ slot = [i \in Ids |-> "none"]
  /\ closer = "no"
  /\ misused = FALSE

Rest == <<bc, caller, slot, closer, misused>>
Loop == (ac.loop.at = "new" => bc.thread) /\ LoopThread /\ UNCHANGED Rest
Answer(i) == Respond(i) /\ UNCHANGED Rest
Proceed(c) == EnsureStarted(c) \/ ThreadStart(c) \/ Started(c) \/ Register(c) \/ Submit(c)
              \/ SubmitMany(c) \/ Send(c) \/ Wake(c)
Closing == CloseStop \/ CloseSend \/ CloseJoin \/ CloseFree \/ CloseFreed \/ CloseNull

Others == \/ Loop \/ OnComplete \/ Closing
          \/ \E c \in Callers : Call(c) \/ CallRefused(c) \/ Proceed(c)
          \/ \E i \in Ids : Answer(i)

\* No thread is inside the start of the loop thread, or between registering its slots
\* and the end of its submit.
Settled == \A c \in Callers : caller[c] \notin {"starting", "started", "submit", "calling", "send"}

\* close comes when no other call is in those windows, or at any time.
Next == Others \/ (Settled /\ Close)
RudeNext == Others \/ Close

\* Every thread keeps running, and the client answers what it was given.
Fairness ==
  /\ WF_bridgeVars(Loop) /\ WF_bridgeVars(OnComplete) /\ WF_bridgeVars(Closing)
  /\ \A c \in Callers : WF_bridgeVars(Proceed(c))
  /\ \A i \in Ids : WF_bridgeVars(Answer(i))

Spec == Init /\ [][Next]_bridgeVars /\ Fairness
RudeSpec == Init /\ [][RudeNext]_bridgeVars /\ Fairness

-----------------------------------------------------------------------------
\* The native client is called only while it exists, its loop has one thread, and it
\* is freed after that thread has ended.
UsedAlive == ~misused

\* A filled slot is not emptied: a response that reached its waiter stays the waiter's,
\* whatever close does afterwards.
ResponsesKept == \A i \in Ids : slot[i] = "resp" => slot'[i] = "resp"

\* The registered ids are exactly the open slots of calls that were not refused: a
\* thread never waits on a slot that neither a completion nor close would find.
SlotsMatch ==
  bc.inflight = UNION {{i \in Range(BatchOf[c]) : slot[i] = "open"} :
                         c \in {d \in Callers : caller[d] # "raised"}}

\* Every call returns or raises, also one that is in flight when the client closes.
EveryCallEnds == \A c \in Callers : caller[c] = "wait" ~> caller[c] = "returned"
=============================================================================
