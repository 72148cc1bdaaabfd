------------------------------ MODULE MCBindings ------------------------------
(* The two Python clients over the C async client, one of them per behaviour.    *)
EXTENDS Naturals, Sequences

CONSTANTS MaxReqs, DrainMax, Watchable,  \* PyAsync
          Callers                        \* PyClient

VARIABLES part,
          ac, py, fut, spent, leaked,
          native, bc, caller, slot, closer, misused

\* One thread in request_many, the others in request.
BatchOf == [c \in Callers |-> IF c = 1 THEN <<1, 2>> ELSE <<c + 1>>]

Async == INSTANCE PyAsync
Bridge == INSTANCE PyClient WITH ac <- native

asyncVars == <<ac, py, fut, spent, leaked>>
bridgeVars == <<native, bc, caller, slot, closer, misused>>
allVars == <<part, asyncVars, bridgeVars>>

Init ==
  /\ part \in {"async", "bridge"}
  /\ Async!Init /\ Bridge!Init
  /\ part # "async" => py = Async!Fresh(TRUE)

Next ==
  \/ part = "async" /\ Async!Next /\ UNCHANGED <<part, bridgeVars>>
  \/ part = "bridge" /\ Bridge!Next /\ UNCHANGED <<part, asyncVars>>

FairSpec ==
  /\ Init /\ [][Next]_allVars
  /\ part = "async" => Async!Fairness
  /\ part = "bridge" => Bridge!Fairness

\* A completion on its way from the loop thread to the awaiting task is on exactly one
\* list, and someone is coming for it: a byte in the pipe or about to be written, a drain
\* scheduled or under way (async_completion_signal, AsyncClient._drain).
NothingLost == Async!TypeOK /\ Async!OnOneList /\ Async!NoLostSignal /\ Async!NoStranded

\* No response is dropped: on the callback path of AsyncClient one that nobody awaits is
\* freed, and Client.close never overwrites the response of a caller already answered.
ResponsesKept == [][Async!NothingLeaks' /\ Bridge!ResponsesKept]_allVars

\* The native client is never used before it exists or after it is freed, and a thread
\* waits only for a request that is registered under its token (Client._ensure_started,
\* Client._run against Client.close).
CallersSafe == Bridge!UsedAlive /\ Bridge!SlotsMatch

\* Every awaited request and every blocked caller is settled, whether it is answered,
\* refused, still queued when the client is closed, or abandoned in flight then.
CallsEnd == Async!EveryAwaitEnds /\ Bridge!EveryCallEnds
=============================================================================
