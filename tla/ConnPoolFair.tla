----------------------------- MODULE ConnPoolFair -----------------------------
(* The pool on a loop that runs and over a network that responds: what it        *)
(* eventually does, and the service it implements.                               *)
EXTENDS ConnPool

\* The loop thread finishes every handler it starts, and a due deadline timer
\* fires in some later turn of the loop.
LoopFairness ==
  /\ WF_vars(Handler)
  /\ SF_vars(\E r \in Reqs : ReqTimeout(r))

\* A responsive network: every conn keeps seeing events until it is released
\* (its resolution, its handshake's end, bytes, its close callback), peers finish
\* handshakes and send what they owe, and the sweep finds idle conns due.
ConnEvent(c) ==
  \/ Resolved(c) \/ TcpReady(c) \/ ReadyFailed(c) \/ FallbackLegacy(c)
  \/ Readable(c) \/ FullyClosed(c)
NetworkFairness ==
  /\ \A c \in Conns : SF_vars(ConnEvent(c))
  /\ SF_vars(H3Ready \/ \E r \in Reqs : Receive(r))
  /\ SF_vars(SweepExpired({c \in Conns : conn[c].st = "Ready"}))

FairSpec == Spec /\ LoopFairness

-----------------------------------------------------------------------------
Settled(r) == rst[r] \in {"done", "legacy"}

\* A request with a deadline is settled whatever the network and the server do:
\* a running loop is all it takes.
DeadlineHonoured == \A r \in Deadline : rst[r] = "live" ~> Settled(r)

\* Once the application stops issuing requests, and over a responsive network, the
\* pool closes every conn.
PoolEmpties == NetworkFairness => <>[](\A c \in Conns : conn[c].st = "Free")

\* What the caller of pool_dispatch can tell about a request.
Status(r) ==
  CASE rst[r] = "new" -> "idle"
    [] rst[r] = "legacy" -> "elsewhere"
    [] OTHER -> IF calls[r] = 0 THEN "pending" ELSE "answered"
Service == INSTANCE PoolService WITH status <- [r \in Reqs |-> Status(r)], reply <- by

\* The pool implements PoolService: every request it is given is settled at most
\* once, by its own response, by an error, or by the non-pooled path.
ImplementsService == Service!Safety

\* Over a responsive network every request is settled, deadline or not.
EveryRequestSettles == NetworkFairness => \A r \in Reqs : rst[r] = "live" ~> Settled(r)
===============================================================================
