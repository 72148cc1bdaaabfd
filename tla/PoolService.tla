----------------------------- MODULE PoolService -----------------------------
(* What the connection pool promises its caller, with no connection in sight:  *)
(* every request issued is settled once and for all, by one answer or by being *)
(* handed to the non-pooled path, and an answer is the request's own response  *)
(* or an error (None).                                                         *)
CONSTANTS Reqs, None

VARIABLES status,  \* Reqs -> "idle", "pending", "answered", "elsewhere"
          reply    \* Reqs -> the request whose response was delivered, or None
vars == <<status, reply>>

Init ==
  /\ status = [r \in Reqs |-> "idle"]
  /\ reply = [r \in Reqs |-> None]

Issue(r) ==
  /\ status[r] = "idle"
  /\ status' = [status EXCEPT ![r] = "pending"]
  /\ UNCHANGED reply

\* An unusable URL is answered, with an error, in the call that issues it.
Reject(r) ==
  /\ status[r] = "idle"
  /\ status' = [status EXCEPT ![r] = "answered"]
  /\ UNCHANGED reply

Answer(r) ==
  /\ status[r] = "pending"
  /\ status' = [status EXCEPT ![r] = "answered"]
  /\ reply' \in {reply, [reply EXCEPT ![r] = r]}

HandOff(r) ==
  /\ status[r] = "pending"
  /\ status' = [status EXCEPT ![r] = "elsewhere"]
  /\ UNCHANGED reply

Next == \E r \in Reqs : Issue(r) \/ Reject(r) \/ Answer(r) \/ HandOff(r)

Safety == Init /\ [][Next]_vars
Spec == Safety /\ \A r \in Reqs : WF_vars(Answer(r) \/ HandOff(r))
=============================================================================
