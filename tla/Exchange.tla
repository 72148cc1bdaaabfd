------------------------------ MODULE Exchange ------------------------------
(* What every non-pooled request promises the client, whichever transport it   *)
(* uses: its callback runs exactly once, and only then is its arena recycled.  *)
EXTENDS Naturals

CONSTANT Reqs

VARIABLES status,  \* Reqs -> "idle", "pending", "answered", "released"
          calls    \* Reqs -> how often the response callback has run
vars == <<status, calls>>

Init ==
  /\ status = [r \in Reqs |-> "idle"]
  /\ calls = [r \in Reqs |-> 0]

Begin(r) ==
  /\ status[r] = "idle"
  /\ status' = [status EXCEPT ![r] = "pending"]
  /\ UNCHANGED calls

\* The one callback.  A request may fail inside the call that starts it, and one
\* with no handle to close is answered and released in one call.
Answer(r) ==
  /\ status[r] \in {"idle", "pending"}
  /\ \E next \in {"answered", "released"} : status' = [status EXCEPT ![r] = next]
  /\ calls' = [calls EXCEPT ![r] = @ + 1]

Release(r) ==
  /\ status[r] = "answered"
  /\ status' = [status EXCEPT ![r] = "released"]
  /\ UNCHANGED calls

Next == \E r \in Reqs : Begin(r) \/ Answer(r) \/ Release(r)
Spec == Init /\ [][Next]_vars
=============================================================================
