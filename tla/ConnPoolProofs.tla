---------------------------- MODULE ConnPoolProofs ----------------------------
(* The accounting of the pool, proved for any number of requests and conns,   *)
(* any limits, any mix of protocols and any behaviour of the network: IInv is *)
(* inductive (Invariance), and the properties follow from it.                 *)
EXTENDS ConnPoolMoves, ConnPoolConns, ConnPoolRequests, FiniteSetTheorems

\* Requests are finite in number, so Cardinality counts them.
LEMMA CountingHolds == Counting
<1>1. \A S \in SUBSET Reqs : IsFiniteSet(S)
  BY ReqsAssumption, FS_Subset
<1>2. Cardinality({}) = 0
  BY FS_EmptySet
<1>3. ASSUME NEW S \in SUBSET Reqs, NEW r \in Reqs \ S
      PROVE Cardinality(S \cup {r}) = Cardinality(S) + 1
  BY Zenon, <1>1, FS_AddElement
<1>4. ASSUME NEW S \in SUBSET Reqs, NEW r \in S
      PROVE Cardinality(S \ {r}) = Cardinality(S) - 1 /\ Cardinality(S) # 0
  <2>1. Cardinality(S \ {r}) = Cardinality(S) - 1
    BY Zenon, <1>1, FS_RemoveElement
  <2>2. Cardinality(S) # 0
    BY <1>1, FS_EmptySet
  <2>3. QED
    BY <2>1, <2>2
<1>5. QED
  BY <1>2, <1>3, <1>4 DEF Counting

\* pool_req_timeout, second half.
LEMMA TimeoutTailKeeps == ASSUME IInv, TimeoutTail PROVE IInv'
<1>1. PICK f, t, c : f = Top /\ t = Below /\ c = f.c
  OBVIOUS
<1>2. At("timeout") /\ UNCHANGED <<retries, answers>>
  BY DEF TimeoutTail
<1>3. Popped(f, t) /\ f.op = "timeout"
  BY Zenon, <1>1, <1>2, PopTop DEF At, Top
<1>4. PICK r \in f.rs :
        \/ /\ rst' = [rst EXCEPT ![r] = "done"]
           /\ fault' = (fault \/ pc[r] = Freed \/ rst[r] # "live")
           /\ IF c # None /\ r \in active[c]
              THEN /\ active' = ActiveRemove(c, r)
                   /\ inflight' = [inflight EXCEPT ![c] = IF @ > 0 THEN @ - 1 ELSE 0]
                   /\ UNCHANGED waiting
              ELSE /\ waiting' = [d \in Conns |-> IF d = c THEN Unlink(waiting[d], r) ELSE waiting[d]]
                   /\ UNCHANGED <<active, inflight>>
           /\ stack' = IF c # None /\ Live(c)
                       THEN Cons(F("flush", c, {}), Cons(F("idle", c, {}), t)) ELSE t
           /\ UNCHANGED <<conn, owed, pc, sweep>>
        \/ /\ c # None /\ r \in active[c] /\ Live(c) /\ FailAll(conn, waiting, c, t)
           /\ fault' = TRUE /\ UNCHANGED rst
  BY Zenon, <1>1 DEF TimeoutTail
<1>5. /\ Core(waiting) /\ TypeOK /\ Frames(waiting, t) /\ t = <<>> /\ f.rs = {r} /\ r \in Reqs
      /\ c \in Conns \cup {None} /\ responded[r] /\ rst[r] \in {"live", "done"}
      /\ \A d \in Conns : r \in ListedIn(waiting, d) => c = d
  BY Zenon, <1>1, <1>3, <1>4 DEF Popped, Sound, Core, Frame, FrameOK
<1>6. CASE /\ c # None /\ r \in active[c] /\ Live(c) /\ FailAll(conn, waiting, c, t)
           /\ fault' = TRUE /\ UNCHANGED rst
  <2>1. /\ r \in Top.rs /\ Live(Top.c) /\ Top.c # None /\ r \in active[Top.c]
        /\ FailAll(conn, waiting, Top.c, Below) /\ fault' = TRUE /\ UNCHANGED <<rst, retries, answers>>
    BY Zenon, <1>1, <1>2, <1>4, <1>6
  <2>2. QED
    BY Zenon, <1>2, <2>1, TimeoutFailsAll, CountingHolds
<1>7. CASE /\ rst' = [rst EXCEPT ![r] = "done"]
           /\ fault' = (fault \/ pc[r] = Freed \/ rst[r] # "live")
           /\ IF c # None /\ r \in active[c]
              THEN /\ active' = ActiveRemove(c, r)
                   /\ inflight' = [inflight EXCEPT ![c] = IF @ > 0 THEN @ - 1 ELSE 0]
                   /\ UNCHANGED waiting
              ELSE /\ waiting' = [d \in Conns |-> IF d = c THEN Unlink(waiting[d], r) ELSE waiting[d]]
                   /\ UNCHANGED <<active, inflight>>
           /\ stack' = IF c # None /\ Live(c)
                       THEN Cons(F("flush", c, {}), Cons(F("idle", c, {}), t)) ELSE t
           /\ UNCHANGED <<conn, owed, pc, sweep>>
  <2>1. /\ active' \in [Conns -> SUBSET Reqs] /\ inflight' \in [Conns -> Nat] /\ Shrinks
        /\ waiting' \in [Conns -> Seq(Reqs)]
    <3>1. pc' = pc
      BY <1>7
    <3>2. QED
      BY Zenon, <1>5, <1>7, <3>1, TimedOutLists, CountingHolds
  <2>2. UNCHANGED <<responded, calls, by, strm, retries>>
    BY Zenon, <1>2 DEF answers, delivery
  <2>3. rst'[r] = "done" /\ \A q \in Reqs : q # r => rst'[q] = rst[q]
    BY Zenon, <1>5, <1>7 DEF TypeOK
  <2>4. Frames(waiting, t)' /\ \A g \in Range(t) : g.op # "timeout"
    BY ZenonT(30), <1>5, NoFrames DEF Frames, HeldOK, FramesOK
  <2>5. PICK s : s = IF c # None /\ Live(c) THEN Cons(F("flush", c, {}), Cons(F("idle", c, {}), t)) ELSE t
    OBVIOUS
  <2>6. Frames(waiting, s)'
    <3>1. CASE c # None /\ Live(c)
      <4>1. PICK op, op2, u : op = "idle" /\ op2 = "flush" /\ u = Cons(F(op, c, {}), t)
        OBVIOUS
      <4>2. c \in Conns
        BY Zenon, <1>5, <3>1
      <4>3. Frames(waiting, u)' /\ \A g \in Range(u) : g.op # "timeout"
        BY Zenon, <2>4, <4>1, <4>2, PushPlain
      <4>4. Frames(waiting, Cons(F(op2, c, {}), u))'
        BY Zenon, <4>1, <4>2, <4>3, PushPlain
      <4>5. QED
        BY Zenon, <2>5, <3>1, <4>1, <4>4
    <3>2. CASE ~(c # None /\ Live(c))
      BY Zenon, <2>4, <2>5, <3>2
    <3>3. QED
      BY Zenon, <3>1, <3>2
  <2>7. stack' = s
    BY Zenon, <1>7, <2>5
  <2>8. TypeOK'
    <3>1. rst' \in [Reqs -> {"new", "live", "done", "legacy"}]
      BY Zenon, <1>5, <1>7 DEF TypeOK
    <3>2. fault' \in BOOLEAN
      BY Zenon, <1>7
    <3>3. QED
      BY ZenonT(30), <1>5, <1>7, <2>1, <2>2, <2>6, <2>7, <3>1, <3>2 DEF TypeOK, Frames
  <2>9. conn' \in [Conns -> ConnState] /\ Advances
    BY Zenon, <1>5, <1>7, SameConn DEF TypeOK
  <2>10. Counted'
    BY Zenon, <1>5, <2>2, <2>3 DEF Core, Counted
  <2>11. Owing(s)'
    <3>1. \A q \in Reqs : rst[q] = "live" /\ responded[q] => q = r
      BY Zenon, <1>3, <1>5, NoFrames DEF Popped, Tears
    <3>2. QED
      BY Zenon, <2>2, <2>3, <3>1 DEF Owing
  <2>12. QED
    BY Zenon, <1>5, <2>1, <2>6, <2>7, <2>8, <2>9, <2>10, <2>11, ShrinkStep
<1>8. QED
  BY Zenon, <1>4, <1>6, <1>7

-----------------------------------------------------------------------------
(* IInv is inductive.                                                         *)

\* IInv holds initially.
LEMMA InitIInv == Init => IInv
<1> SUFFICES ASSUME Init PROVE IInv
  OBVIOUS
<1>1. NoConn \in ConnState /\ <<>> \in Seq(Reqs) /\ MaxRetries \in 0 .. MaxRetries
  BY BoundAssumption DEF NoConn, ConnState
<1>2. /\ conn \in [Conns -> ConnState] /\ inflight \in [Conns -> Nat]
      /\ active \in [Conns -> SUBSET Reqs] /\ waiting \in [Conns -> Seq(Reqs)]
      /\ owed \in [Conns -> Seq(Reqs)]
  BY Zenon, <1>1 DEF Init
<1>3. /\ rst \in [Reqs -> {"new", "live", "done", "legacy"}]
      /\ pc \in [Reqs -> Conns \cup {None, Freed}] /\ retries \in [Reqs -> 0 .. MaxRetries]
      /\ responded \in [Reqs -> BOOLEAN] /\ calls \in [Reqs -> Nat]
      /\ by \in [Reqs -> Reqs \cup {None}] /\ strm \in [Reqs -> {"new", "fin", "dead"}]
  BY <1>1 DEF Init
<1>4. stack = <<>> /\ stack \in Seq(Frame) /\ sweep = "none" /\ fault \in BOOLEAN
  BY ZenonT(30), NoFrames DEF Init
<1>5. TypeOK
  BY Zenon, <1>2, <1>3, <1>4 DEF TypeOK
<1>6. ConnOK
  BY DEF Init, ConnOK, NoConn
<1>7. Counted
  BY DEF Init, Counted
<1>8. CapacityRespected
  <2>1. Cardinality({}) = 0
    BY Zenon, CountingHolds DEF Counting
  <2>2. \A c \in Conns : inflight[c] = 0 /\ active[c] = {} /\ ~Live(c)
    BY DEF Init, Live, NoConn
  <2>3. QED
    BY Zenon, <2>1, <2>2 DEF CapacityRespected
<1>9. ListsOK(waiting)
  <2>1. \A c \in Conns : ListedIn(waiting, c) = {} /\ active[c] = {} /\ waiting[c] = <<>>
    BY Zenon, QueueEmpty DEF Init, ListedIn
  <2>2. QED
    BY Zenon, <2>1, QueueEmpty DEF ListsOK
<1>10. Frames(waiting, stack)
  BY Zenon, <1>4, NoFrames DEF Frames, HeldOK, FramesOK
<1>11. Owing(stack)
  BY Zenon, <1>3 DEF Init, Owing
<1>12. QED
  BY Zenon, <1>2, <1>5, <1>6, <1>7, <1>8, <1>9, <1>10, <1>11 DEF IInv, Sound, Core

\* Every step of a running handler keeps it.
LEMMA HandlerKeeps == IInv /\ Handler => IInv'
<1> SUFFICES ASSUME IInv, Handler PROVE IInv'
  OBVIOUS
<1>1. CASE CallbackReturn
  BY Zenon, <1>1, ReturnKeeps DEF CallbackReturn
<1>2. CASE FlushWaiting
  <2>1. CASE waiting[Top.c] # <<>> /\ HasCapacity(Top.c)
    BY Zenon, <1>2, <2>1, FlushSubmits, CountingHolds
  <2>2. CASE ~(waiting[Top.c] # <<>> /\ HasCapacity(Top.c))
    BY Zenon, <1>2, <2>2, ReturnKeeps DEF FlushWaiting
  <2>3. QED
    BY Zenon, <2>1, <2>2
<1>3. CASE \E r \in Reqs : Receive(r)
  BY Zenon, <1>3, ReceiveKeeps, CountingHolds
<1>4. CASE GoAway \/ StrayBytes \/ \E r \in Reqs : H3ResetIgnored(r)
  BY Zenon, <1>4, QuietStepKeeps
<1>5. QED
  BY Zenon, <1>1, <1>2, <1>3, <1>4, ReqDoneKeeps, AcquireKeeps, RetryOrFailKeeps, UpdateIdleKeeps, CountingHolds,
     CloseDrainedKeeps, LateBookingKeeps, FallbackNextKeeps, FallbackEndKeeps, DrainStartKeeps,
     H3ReadyKeeps, LoopErrorKeeps, LoopEndKeeps, FailAfterEofKeeps, TimeoutTailKeeps DEF Handler

\* So does every call of the application.
LEMMA AppKeeps == IInv /\ App => IInv'
BY Zenon, DispatchKeeps, EvictAllKeeps, PoolDrainKeeps, CountingHolds DEF App

\* And every event of the loop.
LEMMA EventKeeps == IInv /\ Event => IInv'
<1> SUFFICES ASSUME IInv, Event PROVE IInv'
  OBVIOUS
<1>1. ASSUME NEW c \in Conns,
             \/ Resolved(c) \/ TcpReady(c) \/ ReadyFailed(c) \/ FallbackLegacy(c)
             \/ Readable(c) \/ FullyClosed(c) \/ TransportClosed(c)
             \/ \E r \in Reqs : H1Eof(c, r)
      PROVE  IInv'
  BY Zenon, <1>1, ResolvedKeeps, TcpReadyKeeps, ConnLostKeeps, FallbackLegacyKeeps, ReadableKeeps, CountingHolds,
     FullyClosedKeeps, H1EofKeeps
<1>2. CASE SweepTimerClosed
  BY Zenon, <1>2, QuietStepKeeps
<1>3. QED
  BY Zenon, <1>1, <1>2, ReqTimeoutKeeps, SweepKeeps, CountingHolds DEF Event

\* Stuttering changes nothing.
LEMMA StutterKeeps == IInv /\ UNCHANGED vars => IInv'
<1> SUFFICES ASSUME IInv, UNCHANGED vars PROVE IInv'
  OBVIOUS
<1>1. TypeOK
  BY DEF IInv, Sound, Core
<1>2. conn' \in [Conns -> ConnState] /\ Advances
  BY Zenon, <1>1, SameConn DEF TypeOK, vars
<1>3. SameLists /\ UNCHANGED <<rst, responded, calls, stack>>
  BY Zenon, <1>1, <1>2 DEF SameLists, TypeOK, vars, lists, answers, delivery
<1>4. QED
  BY Zenon, <1>2, <1>3, StayPlain

-----------------------------------------------------------------------------
(* The theorems.                                                              *)

\* IInv is an invariant of the pool.
THEOREM Invariance == Spec => []IInv
<1>1. IInv /\ [Next]_vars => IInv'
  BY Zenon, HandlerKeeps, AppKeeps, EventKeeps, StutterKeeps DEF Next
<1>2. QED
  BY <1>1, InitIInv, PTL DEF Spec

\* The variables keep their types.
THEOREM TypeCorrect == Spec => []TypeOK
<1>1. IInv => TypeOK
  BY Zenon DEF IInv, Sound, Core
<1>2. QED
  BY <1>1, Invariance, PTL

\* A request is on one list of one conn at most, or in the hands of one frame, and
\* never both: pool_conn_fail_all, pool_flush_waiting and pool_req_timeout may unlink
\* and free it without leaving a second pointer to it behind.
THEOREM EachInOnePlace == Spec => []OnePlace
<1>1. IInv => OnePlace
  <2> SUFFICES ASSUME IInv PROVE OnePlace
    OBVIOUS
  <2>1. ListsOK(waiting) /\ HeldOK(waiting, stack) /\ Apart(stack)
    BY DEF IInv, Sound, Core, Frames
  <2>2. Held = HeldIn(stack) /\ \A c : Listed(c) = ListedIn(waiting, c)
    BY Zenon DEF Held, HeldIn, Listed, ListedIn
  <2>3. QED
    BY Zenon, <2>1, <2>2 DEF OnePlace, ListsOK, HeldOK, Apart
<1>2. QED
  BY <1>1, Invariance, PTL

\* A request is only ever on a conn of its own origin: pool_acquire compares the keys
\* before it hands a conn out, and a conn keeps its key until its slot is freed.
THEOREM NeverAstray == Spec => []RightOrigin
<1>1. IInv => RightOrigin
  BY Zenon DEF IInv, Sound, Core, ListsOK, RightOrigin, Listed, ListedIn
<1>2. QED
  BY <1>1, Invariance, PTL

\* The callback of a request runs once if the request ends and never twice, through
\* retries, time outs, resets and the failure of its conn (pool_req_done, pool_req_fail).
THEOREM AnsweredOnce == Spec => []CalledOnce
<1>1. IInv => CalledOnce
  <2> SUFFICES ASSUME IInv, NEW r \in Reqs
               PROVE  /\ calls[r] <= 1 /\ (rst[r] = "done" => calls[r] = 1)
                      /\ (rst[r] = "new" => calls[r] = 0)
    BY DEF CalledOnce
  <2>1. Counted
    BY Zenon DEF IInv, Sound, Core
  <2>2. QED
    BY <2>1 DEF Counted
<1>2. QED
  BY <1>1, Invariance, PTL

\* No conn carries more exchanges than its protocol and its slots allow, however often
\* pool_flush_waiting and pool_submit are re-entered from callbacks.
THEOREM WithinCapacity == Spec => []CapacityRespected
<1>1. IInv => CapacityRespected
  BY DEF IInv, Sound, Core
<1>2. QED
  BY <1>1, Invariance, PTL

-----------------------------------------------------------------------------
(* What follows from the way conns age (ConnPoolConns): no conn becomes usable *)
(* but by being opened, and a broken one takes nothing.                       *)

\* The conns that pool_acquire counts against the cap.
Counts(k) == {c \in Conns : Live(c) /\ ~conn[c].broken /\ conn[c].key = k}

\* And their number stays within the cap.
LEMMA CapStays == ASSUME OriginCap, Ages PROVE OriginCap'
<1> SUFFICES ASSUME NEW k \in Keys PROVE Cardinality(Counts(k)') <= MaxPerOrigin
  BY DEF OriginCap, Counts
<1>1. IsFiniteSet(Counts(k)) /\ Cardinality(Counts(k)) \in Nat /\ Cardinality(Counts(k)) <= MaxPerOrigin
  <2>1. Counts(k) \in SUBSET Conns
    BY DEF Counts
  <2>2. IsFiniteSet(Counts(k))
    BY <2>1, ReqsAssumption, FS_Subset
  <2>3. QED
    BY <2>2, FS_CardinalityType DEF OriginCap, Counts
<1>2. ASSUME NEW c \in Conns, Worn(c), c \in Counts(k)' PROVE c \in Counts(k)
  BY <1>2 DEF Counts, Live, Worn, Wears
<1>3. ASSUME Counts(k)' \subseteq Counts(k)
      PROVE  Cardinality(Counts(k)') <= MaxPerOrigin
  <2>1. PICK S, T : S = Counts(k) /\ T = Counts(k)'
    OBVIOUS
  <2>2. IsFiniteSet(S) /\ T \in SUBSET S
    BY Zenon, <1>1, <1>3, <2>1
  <2>3. Cardinality(T) <= Cardinality(S) /\ Cardinality(T) \in Nat
    BY <2>2, FS_Subset, FS_CardinalityType
  <2>4. QED
    BY <1>1, <2>1, <2>3, BoundAssumption
<1>4. CASE AllWorn
  <2>1. Counts(k)' \subseteq Conns
    BY DEF Counts
  <2>2. QED
    BY <1>2, <1>3, <1>4, <2>1 DEF AllWorn
<1>5. ASSUME NEW r \in Reqs, NEW o \in Conns, Opens(o, r)
      PROVE  Cardinality(Counts(k)') <= MaxPerOrigin
  <2>1. Counts(k)' \subseteq Counts(k) \cup {o}
    <3>1. Counts(k)' \subseteq Conns
      BY DEF Counts
    <3>2. QED
      BY <1>2, <1>5, <3>1 DEF Opens
  <2>2. CASE o \notin Counts(k)'
    BY <1>3, <2>1, <2>2
  <2>3. CASE o \in Counts(k)'
    <3>1. Key[r] = k
      BY <1>5, <2>3 DEF Opens, Counts, Live
    <3>2. Cardinality(Counts(k)) < MaxPerOrigin
      BY Zenon, <1>5, <3>1 DEF Opens, MayOpen, Usable, Counts
    <3>3. PICK S, T : S = Counts(k) /\ T = Counts(k)'
      OBVIOUS
    <3>4. /\ IsFiniteSet(S \cup {o}) /\ T \in SUBSET (S \cup {o})
          /\ Cardinality(S \cup {o}) = IF o \in S THEN Cardinality(S) ELSE Cardinality(S) + 1
      BY Zenon, <1>1, <2>1, <3>3, FS_AddElement
    <3>5. /\ Cardinality(T) <= Cardinality(S \cup {o})
          /\ Cardinality(T) \in Nat /\ Cardinality(S \cup {o}) \in Nat
      BY <3>4, FS_Subset, FS_CardinalityType
    <3>6. QED
      BY <1>1, <3>2, <3>3, <3>4, <3>5, BoundAssumption
  <2>4. QED
    BY <2>2, <2>3
<1>6. QED
  BY Zenon, <1>4, <1>5 DEF Ages

\* The conns of the pool are young while they shake hands, and within the cap.
LEMMA AgesInvariance == Spec => [](IInv /\ Young /\ OriginCap)
<1>1. Init => Young /\ OriginCap
  <2> SUFFICES ASSUME Init PROVE Young /\ OriginCap
    OBVIOUS
  <2>1. \A c \in Conns : conn[c].st = "Free"
    BY DEF Init, NoConn
  <2>2. Young
    BY <2>1 DEF Young
  <2>3. \A k : Counts(k) = {}
    BY <2>1 DEF Counts, Live
  <2>4. OriginCap
    <3>1. Cardinality({}) = 0
      BY FS_EmptySet
    <3>2. 0 <= MaxPerOrigin
      BY BoundAssumption
    <3>3. QED
      BY Zenon, <2>3, <3>1, <3>2 DEF OriginCap, Counts
  <2>5. QED
    BY <2>2, <2>4
<1>2. IInv /\ Young /\ OriginCap /\ [Next]_vars => (Young /\ OriginCap)'
  BY Zenon, NextAges, YoungStays, CapStays, CountingHolds
<1>3. QED
  BY <1>1, <1>2, Invariance, PTL DEF Spec

\* There are never more usable conns to an origin than max_conns_per_origin: nothing
\* but PATH 3 of pool_acquire adds one, and no conn comes back from broken or closing.
THEOREM WithinOriginCap == Spec => []OriginCap
BY AgesInvariance, PTL

\* A broken conn (GOAWAY, Connection: close, proxy switch) takes no request any more:
\* neither pool_acquire nor pool_flush_waiting nor a submit that was under way when it
\* broke adds to its lists.
THEOREM BrokenStaysShut == Spec => BrokenTakesNoMore
<1>1. IInv /\ Young /\ [Next]_vars =>
        [\A c \in Conns : (Live(c) /\ conn[c].broken /\ conn'[c].broken) =>
           active'[c] \subseteq active[c] /\ Range(waiting'[c]) \subseteq Range(waiting[c])]_vars
  <2> SUFFICES ASSUME IInv, Young, [Next]_vars, NEW c \in Conns, Live(c), conn[c].broken
               PROVE  active'[c] \subseteq active[c] /\ Range(waiting'[c]) \subseteq Range(waiting[c])
    OBVIOUS
  <2>1. CASE Worn(c)
    BY Zenon, <2>1 DEF Worn, Lightens
  <2>2. CASE ~Worn(c)
    <3>1. Ages
      BY Zenon, NextAges, CountingHolds
    <3>2. conn[c].st = "Free"
      BY <2>2, <3>1 DEF Ages, AllWorn, Opens
    <3>3. QED
      BY <3>2 DEF Live
  <2>3. QED
    BY <2>1, <2>2
<1>2. QED
  BY <1>1, AgesInvariance, PTL DEF Spec, BrokenTakesNoMore

\* pool_sweep_cb frees no conn while it walks conns[]: whatever it closes has a handle,
\* so its slot is kept until the close callback.
THEOREM SweepWalksSafely == Spec => [][SweepRemovesNothing]_vars
<1>1. IInv /\ Young => SweepRemovesNothing
  <2> SUFFICES ASSUME IInv, Young, NEW due \in SUBSET Conns, SweepExpired(due), NEW c \in Conns,
                      conn[c].st # "Free"
               PROVE  conn'[c].st # "Free"
    BY Zenon DEF SweepRemovesNothing
  <2>1. TypeOK /\ ConnOK
    BY DEF IInv, Sound, Core
  <2>2. conn[c] \in ConnState
    BY <2>1 DEF TypeOK
  <2>3. conn' = Closed(conn, Sweeps(due)) /\ due \subseteq {d \in Conns : conn[d].st = "Ready"}
    BY Zenon DEF SweepExpired, Released
  <2>4. conn'[c] = IF c \notin Sweeps(due) \/ ~Live(c) THEN conn[c]
                   ELSE IF conn[c].open THEN [conn[c] EXCEPT !.st = "Closing"] ELSE NoConn
    BY Zenon, <2>3 DEF Closed
  <2>5. c \in Sweeps(due) /\ Live(c) => conn[c].open
    BY <2>1, <2>3 DEF Sweeps, Live, ConnOK, Young
  <2>6. QED
    BY <2>2, <2>4, <2>5 DEF ConnState
<1>2. QED
  BY <1>1, AgesInvariance, PTL
===============================================================================
