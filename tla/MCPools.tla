------------------------------ MODULE MCPools ------------------------------
(* Two small pools, one of them per behaviour, for the protocols whose load on *)
(* a conn the pool itself bounds: HTTP/1.1 and HTTP/3.                         *)
EXTENDS Naturals, TLC

CONSTANTS r1, r2, r3, c1, c2, None, Freed

VARIABLES pool,
          conn, inflight, active, waiting, owed, rst, pc, retries, responded, calls, by, strm,
          stack, sweep, fault

Reqs == {r1, r2, r3}
Conns == {c1, c2}
Origins == {"o1", "o2"}
MaxRetries == 1
H2Max == 1
H3Max == 1
AppOps == {}
SyncFail == FALSE
Interim == FALSE
On(proto, origin) == [proto |-> proto, origin |-> origin]

H1 == INSTANCE ConnPool WITH
  Key <- [r \in Reqs |-> On("H1", "o1")], Deadline <- {}, MaxPerOrigin <- 2
H3 == INSTANCE ConnPool WITH
  Key <- [r \in Reqs |-> On("H3", "o1")], Deadline <- {r1}, MaxPerOrigin <- 1

Init ==
  \/ pool = "h1" /\ H1!Init
  \/ pool = "h3" /\ H3!Init
Next ==
  \/ pool = "h1" /\ H1!Next /\ UNCHANGED pool
  \/ pool = "h3" /\ H3!Next /\ UNCHANGED pool
poolVars == <<pool, H1!vars>>
Spec == Init /\ [][Next]_poolVars

SymmetricSlots == Permutations(Conns)

\* No request the pool has accepted is left on a conn that nothing will flush, retry or
\* close any more (ConnPool; pool_update_idle, pool_conn_fail_all).
NoneStranded == H1!NoneStranded

\* A conn with work holds the loop: loop_run cannot return under a pending request
\* (ConnPool; pool_conn_ref and pool_conn_unref).
WorkHoldsLoop == H1!WorkHoldsLoop

\* On an H1 conn a request is answered with its own response, through keep-alive, retries
\* and bodies that end with the connection (ConnPool; pool_h1_on_response).
ResponseIsOwn == pool = "h1" => H1!ResponseIsOwn

\* No callback, sweep or close touches a conn or a request after its release (ConnPool;
\* pool_h3_on_fully_closed runs inside the call that closes a conn without handles); and
\* the sweep removes no conn from the table it walks: "close is async; no removal mid-loop"
\* (pool_sweep_cb).
SweepSafe == [][H1!NoFault' /\ H1!SweepRemovesNothing]_poolVars
=============================================================================
