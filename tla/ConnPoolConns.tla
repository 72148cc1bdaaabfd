---------------------------- MODULE ConnPoolConns -----------------------------
(* The actions that change conns: those that close and release them, and      *)
(* those of their receive paths that touch no list; then how every action     *)
(* lets conns age.                                                            *)
EXTENDS ConnPoolLemmas

-----------------------------------------------------------------------------
(* Closing and releasing.                                                     *)

\* What may become of the conns while the frames t are to be returned to.
LetGo(conns, t) ==
  /\ conns \in [Conns -> ConnState]
  /\ \A c \in Conns :
       \/ /\ conns[c].st = conn[c].st \/ (Live(c) /\ conns[c].st = "Closing")
          /\ conns[c].key = conn[c].key /\ conns[c].open = conn[c].open
       \/ conns[c] = NoConn /\ (t = <<>> \/ (~conn[c].open /\ conn[c].st # "Closing"))

\* arena_release of some conns: their lists go with them.
LEMMA ReleasedStep ==
  ASSUME Counting, NEW conns, NEW timer, NEW t, Sound(waiting, t), Owing(t), LetGo(conns, t),
         Released(conns, timer), timer \in {"none", "stopped", "armed", "closing"},
         stack' = t, UNCHANGED <<rst, retries, answers>>, fault' \in BOOLEAN
  PROVE  IInv'
<1> DEFINE gone == {c \in Conns : conn[c].st # "Free" /\ conns[c].st = "Free"}
<1>1. Core(waiting) /\ TypeOK /\ ConnOK /\ Frames(waiting, t) /\ t \in Seq(Frame)
  BY DEF Sound, Core, Frames
<1>2. UNCHANGED <<responded, calls, by, strm>>
  BY DEF answers, delivery
<1>3. /\ conn' = conns /\ sweep' = timer
      /\ inflight' = Upd(inflight, gone, 0) /\ active' = Upd(active, gone, {})
      /\ waiting' = Upd(waiting, gone, <<>>) /\ owed' = Upd(owed, gone, <<>>)
      /\ pc' = [r \in Reqs |-> IF pc[r] \in gone THEN Freed ELSE pc[r]]
  BY DEF Released
<1>4. gone \subseteq Conns /\ <<>> \in Seq(Reqs)
  OBVIOUS
<1>5. \A c \in Conns : c \in gone \/ conn[c].st = "Free" \/ conns[c].st # "Free"
  OBVIOUS
<1>6. \A c \in gone : conns[c] = NoConn /\ (t = <<>> \/ (~conn[c].open /\ conn[c].st # "Closing"))
  BY DEF LetGo, Live
<1>7. \A c \in Conns \ gone :
        /\ conns[c].st = conn[c].st \/ (Live(c) /\ conns[c].st = "Closing")
        /\ conns[c].key = conn[c].key
        /\ conn[c].st # "Free" => conns[c].open = conn[c].open
  BY <1>1, <1>5 DEF LetGo, NoConn, ConnOK
<1> HIDE DEF gone
<1>8. /\ inflight' \in [Conns -> Nat] /\ active' \in [Conns -> SUBSET Reqs]
      /\ waiting' \in [Conns -> Seq(Reqs)] /\ owed' \in [Conns -> Seq(Reqs)]
  BY <1>1, <1>3, <1>4 DEF Upd, TypeOK
<1>9. /\ \A c \in gone : inflight'[c] = 0 /\ active'[c] = {} /\ waiting'[c] = <<>>
      /\ \A c \in Conns \ gone : inflight'[c] = inflight[c] /\ active'[c] = active[c]
                                 /\ waiting'[c] = waiting[c]
  BY <1>1, <1>3, <1>4 DEF Upd, TypeOK
<1>10. /\ \A c \in gone : ListedIn(waiting, c)' = {}
       /\ \A c \in Conns \ gone : ListedIn(waiting, c)' = ListedIn(waiting, c)
  BY <1>9, QueueEmpty DEF ListedIn
<1>11. Frames(waiting, t)'
  <2>1. CASE t = <<>>
    BY <2>1, NoFrames DEF Frames, HeldOK, FramesOK
  <2>2. CASE t # <<>>
    <3>1. \A c \in gone : ~conn[c].open /\ conn[c].st # "Closing"
      BY <1>6, <2>2
    <3>2. \A c \in Conns :
            /\ conn[c].st # "Free" /\ conn[c].open => conn'[c].st # "Free" /\ conn'[c].open
            /\ conn[c].st = "Closing" => conn'[c].st = "Closing" /\ conn'[c].key = conn[c].key
      BY <1>3, <1>7, <3>1 DEF Live
    <3>3. \A r, c : c \in Conns /\ r \in ListedIn(waiting, c)' => r \in ListedIn(waiting, c)
      BY <1>10
    <3>4. Undisturbed(waiting, t)
      BY Zenon, <1>2, <3>2, <3>3 DEF Undisturbed
    <3>5. QED
      BY <1>1, <3>4, FramesStay
  <2>3. QED
    BY <2>1, <2>2
<1>12. TypeOK'
  <2>1. conn' \in [Conns -> ConnState] /\ pc' \in [Reqs -> Conns \cup {None, Freed}]
    BY Zenon, <1>1, <1>3 DEF TypeOK, LetGo
  <2>2. QED
    BY Zenon, <1>1, <1>2, <1>3, <1>8, <2>1 DEF TypeOK
<1>13. ConnOK'
  <2>1. \A c \in gone : conn'[c] = NoConn
    BY <1>3, <1>6
  <2>2. QED
    BY <1>1, <1>3, <1>4, <1>7, <2>1 DEF ConnOK, NoConn, Proto, Live
<1>14. Counted'
  BY <1>1, <1>2 DEF Core, Counted
<1>15. CapacityRespected'
  <2>1. \A c \in gone : ~Live(c)' /\ inflight'[c] = Cardinality(active'[c])
    <3>1. \A c \in gone : ~Live(c)'
      BY <1>3, <1>6 DEF Live, NoConn
    <3>2. Cardinality({}) = 0
      BY DEF Counting
    <3>3. QED
      BY ZenonT(30), <1>9, <3>1, <3>2
  <2>2. \A c \in Conns \ gone : (Live(c)' => Live(c)) /\ Proto(c)' = Proto(c)
    BY <1>3, <1>7 DEF Live, Proto
  <2>3. QED
    BY Zenon, <1>1, <1>9, <2>1, <2>2 DEF Core, CapacityRespected
<1>16. ListsOK(waiting)'
  <2> SUFFICES ASSUME NEW c \in Conns
               PROVE  /\ \A q \in ListedIn(waiting, c)' :
                           rst'[q] = "live" /\ pc'[q] = c /\ conn'[c].key = Key[q]
                      /\ active'[c] \cap Range(waiting'[c]) = {} /\ IsInjective(waiting'[c])
    BY DEF ListsOK
  <2>1. CASE c \in gone
    BY Zenon, <1>9, <1>10, <2>1, QueueEmpty
  <2>2. CASE c \notin gone
    <3>1. \A q \in ListedIn(waiting, c) : q \in Reqs
      BY <1>1 DEF ListedIn, TypeOK, Range
    <3>2. \A q \in ListedIn(waiting, c) : pc'[q] = c
      BY Zenon, <1>1, <1>3, <2>2, <3>1 DEF Core, ListsOK
    <3>3. \A q \in ListedIn(waiting, c) : pc'[q] = pc[q] /\ rst'[q] = rst[q]
      BY Zenon, <1>1, <1>2, <3>2 DEF Core, ListsOK
    <3>4. ListsOK(waiting) /\ active'[c] = active[c] /\ waiting'[c] = waiting[c]
          /\ conn'[c].key = conn[c].key
      BY Zenon, <1>1, <1>3, <1>7, <1>9, <2>2 DEF Core
    <3>5. QED
      BY Zenon, <3>3, <3>4, ListStays
  <2>3. QED
    BY <2>1, <2>2
<1>17. Owing(t)'
  BY <1>2 DEF Owing
<1>18. QED
  BY <1>11, <1>12, <1>13, <1>14, <1>15, <1>16, <1>17, Assemble

\* pool_close_conn, of conns whose flags alone may differ from conn.
LEMMA ClosedLetsGo ==
  ASSUME NEW base \in [Conns -> ConnState], NEW cs, NEW t, TypeOK,
         \A c \in Conns : /\ base[c].st = conn[c].st /\ base[c].key = conn[c].key
                          /\ base[c].open = conn[c].open
  PROVE  LetGo(Closed(base, cs), t)
<1> DEFINE k == Closed(base, cs)
<1>1. NoConn \in ConnState
  BY DEF NoConn, ConnState
<1>2. ASSUME NEW c \in Conns
      PROVE  /\ [base[c] EXCEPT !.st = "Closing"] \in ConnState
             /\ [base[c] EXCEPT !.st = "Closing"].st = "Closing"
             /\ [base[c] EXCEPT !.st = "Closing"].key = base[c].key
             /\ [base[c] EXCEPT !.st = "Closing"].open = base[c].open
  <2>1. base[c] \in ConnState
    OBVIOUS
  <2>2. QED
    BY <2>1 DEF ConnState
<1>3. \A c \in Conns : k[c] = IF c \notin cs \/ ~Live(c) THEN base[c]
                              ELSE IF conn[c].open THEN [base[c] EXCEPT !.st = "Closing"] ELSE NoConn
  BY DEF Closed
<1>4. k \in [Conns -> ConnState]
  <2>1. k = [c \in Conns |-> k[c]]
    BY DEF Closed
  <2>2. \A c \in Conns : k[c] \in ConnState
    BY ZenonT(30), <1>1, <1>2, <1>3
  <2> HIDE DEF k
  <2>3. QED
    BY <2>1, <2>2
<1> HIDE DEF k
<1>5. ASSUME NEW c \in Conns
      PROVE  \/ /\ k[c].st = conn[c].st \/ (Live(c) /\ k[c].st = "Closing")
                /\ k[c].key = conn[c].key /\ k[c].open = conn[c].open
             \/ k[c] = NoConn /\ (~conn[c].open /\ conn[c].st # "Closing")
  <2>1. CASE c \notin cs \/ ~Live(c)
    BY Zenon, <1>3, <2>1
  <2>2. CASE ~(c \notin cs \/ ~Live(c)) /\ conn[c].open
    BY Zenon, <1>2, <1>3, <2>2
  <2>3. CASE ~(c \notin cs \/ ~Live(c)) /\ ~conn[c].open
    BY ZenonT(30), <1>3, <2>3 DEF Live
  <2>4. QED
    BY <2>1, <2>2, <2>3
<1>6. LetGo(k, t)
  BY <1>4, <1>5 DEF LetGo
<1>7. QED
  BY <1>6 DEF k

\* The sweep timer after pool_remove_conn.
LEMMA SweepType ==
  ASSUME TypeOK, NEW conns
  PROVE  SweepAfter(conns) \in {"none", "stopped", "armed", "closing"}
BY DEF TypeOK, SweepAfter

\* The end of pool_update_idle and of pool_conn_fallback_legacy.
LEMMA CloseDrainedKeeps == ASSUME Counting, IInv, CloseDrained PROVE IInv'
<1>1. PICK f, t : f = Top /\ t = Below
  OBVIOUS
<1>2. Popped(f, t) /\ f.op = "close"
  BY <1>1, PopTop DEF CloseDrained, At, Top
<1>3. /\ Sound(waiting, t) /\ TypeOK /\ f.c \in Conns /\ Tears(f) = {}
  BY <1>2 DEF Popped, Sound, Core, FrameOK, ConnOps, Tears
<1>4. Owing(t)
  BY <1>2, <1>3 DEF Popped, Owing
<1>5. conn \in [Conns -> ConnState]
  BY <1>3 DEF TypeOK
<1>6. LetGo(Closed(conn, {f.c}), t)
  BY <1>3, <1>5, ClosedLetsGo
<1>7. LetGo(conn, t)
  BY <1>5 DEF LetGo
<1>8. PICK k : k = IF inflight[f.c] = 0 THEN Closed(conn, {f.c}) ELSE conn
  OBVIOUS
<1>9. LetGo(k, t) /\ SweepAfter(k) \in {"none", "stopped", "armed", "closing"}
  BY Zenon, <1>3, <1>6, <1>7, <1>8, SweepType
<1>10. Released(k, SweepAfter(k)) /\ stack' = t /\ UNCHANGED <<rst, retries, answers>> /\ fault' = fault
  BY <1>1, <1>8 DEF CloseDrained
<1>11. PICK timer : timer = SweepAfter(k)
  OBVIOUS
<1>12. fault' \in BOOLEAN
  BY Zenon, <1>3, <1>10 DEF TypeOK
<1>13. QED
  BY <1>3, <1>4, <1>9, <1>10, <1>11, <1>12, ReleasedStep

\* Closing the conn whose queue pool_conn_fallback_legacy has emptied keeps it.
LEMMA FallbackEndKeeps == ASSUME Counting, IInv, FallbackEnd PROVE IInv'
<1>1. PICK f, t : f = Top /\ t = Below
  OBVIOUS
<1>2. Popped(f, t) /\ f.op = "fallback"
  BY Zenon, <1>1, PopTop DEF FallbackEnd, At, Top
<1>3. /\ Sound(waiting, t) /\ TypeOK /\ f.c \in Conns /\ Tears(f) = {}
  BY <1>2 DEF Popped, Sound, Core, FrameOK, ConnOps, Tears
<1>4. Owing(t)
  BY <1>2, <1>3 DEF Popped, Owing
<1>5. PICK base : base = [conn EXCEPT ![f.c].broken = TRUE]
  BY Zenon
<1>6. conn \in [Conns -> ConnState] /\ [conn[f.c] EXCEPT !.broken = TRUE] \in ConnState
  BY Zenon, <1>3, FlagSet DEF TypeOK
<1>7. base \in [Conns -> ConnState]
  BY ZenonT(30), <1>5, <1>6
<1>8. \A c \in Conns : /\ base[c].st = conn[c].st /\ base[c].key = conn[c].key
                       /\ base[c].open = conn[c].open
  BY <1>5, <1>6 DEF ConnState
<1>9. PICK k : k = Closed(base, {f.c})
  BY Zenon
<1>10. LetGo(k, t) /\ SweepAfter(k) \in {"none", "stopped", "armed", "closing"}
  BY <1>3, <1>7, <1>8, <1>9, ClosedLetsGo, SweepType
<1>11. Released(k, SweepAfter(k)) /\ stack' = t /\ UNCHANGED <<rst, retries, answers>> /\ fault' = fault
  BY <1>1, <1>5, <1>9 DEF FallbackEnd
<1>12. PICK timer : timer = SweepAfter(k)
  OBVIOUS
<1>13. fault' \in BOOLEAN
  BY <1>3, <1>11 DEF TypeOK
<1>14. QED
  BY <1>3, <1>4, <1>10, <1>11, <1>12, <1>13, ReleasedStep

\* pool_evict_all.
LEMMA EvictAllKeeps == ASSUME Counting, IInv, EvictAll PROVE IInv'
<1>1. PICK t : t = stack
  OBVIOUS
<1>2. Sound(waiting, t) /\ Owing(t) /\ TypeOK /\ conn \in [Conns -> ConnState]
  BY <1>1 DEF IInv, Sound, Core, TypeOK
<1>3. PICK base : base = [c \in Conns |-> IF Live(c) THEN [conn[c] EXCEPT !.broken = TRUE] ELSE conn[c]]
  BY Zenon
<1>4. ASSUME NEW c \in Conns
      PROVE  /\ base[c] \in ConnState
             /\ base[c].st = conn[c].st /\ base[c].key = conn[c].key /\ base[c].open = conn[c].open
  <2>1. conn[c] \in ConnState
    BY <1>2
  <2>2. /\ [conn[c] EXCEPT !.broken = TRUE] \in ConnState
        /\ [conn[c] EXCEPT !.broken = TRUE].st = conn[c].st
        /\ [conn[c] EXCEPT !.broken = TRUE].key = conn[c].key
        /\ [conn[c] EXCEPT !.broken = TRUE].open = conn[c].open
    BY Zenon, <2>1 DEF ConnState
  <2>3. QED
    BY <1>3, <2>1, <2>2
<1>5. base \in [Conns -> ConnState]
  <2>1. base = [c \in Conns |-> base[c]]
    BY <1>3
  <2>2. QED
    BY <1>4, <2>1
<1>6. PICK k : k = Closed(base, {c \in Conns : inflight[c] = 0})
  OBVIOUS
<1>7. LetGo(k, t) /\ SweepAfter(k) \in {"none", "stopped", "armed", "closing"}
  BY <1>2, <1>4, <1>5, <1>6, ClosedLetsGo, SweepType
<1>8. /\ Released(k, SweepAfter(k)) /\ stack' = t /\ UNCHANGED <<rst, retries, answers>>
      /\ fault' = (fault \/ Dangling(k))
  BY <1>1, <1>3, <1>6 DEF EvictAll
<1>9. PICK timer : timer = SweepAfter(k)
  OBVIOUS
<1>10. fault' \in BOOLEAN
  BY <1>8
<1>11. QED
  BY <1>2, <1>7, <1>8, <1>9, <1>10, ReleasedStep

\* pool_drain.
LEMMA PoolDrainKeeps == ASSUME Counting, IInv, PoolDrain PROVE IInv'
<1>1. PICK t : t = stack
  OBVIOUS
<1>2. Sound(waiting, t) /\ Owing(t) /\ TypeOK /\ conn \in [Conns -> ConnState]
  BY <1>1 DEF IInv, Sound, Core, TypeOK
<1>3. PICK k, timer : k = Closed(conn, Conns) /\ timer = IF sweep = "none" THEN "none" ELSE "closing"
  OBVIOUS
<1>4. LetGo(k, t) /\ timer \in {"none", "stopped", "armed", "closing"}
  BY <1>2, <1>3, ClosedLetsGo
<1>5. /\ Released(k, timer) /\ stack' = t /\ UNCHANGED <<rst, retries, answers>>
      /\ fault' = (fault \/ Dangling(k))
  BY <1>1, <1>3 DEF PoolDrain
<1>6. fault' \in BOOLEAN
  BY <1>5
<1>7. QED
  BY <1>2, <1>4, <1>5, <1>6, ReleasedStep

\* pool_sweep_cb.
LEMMA SweepKeeps == ASSUME Counting, IInv, NEW due, SweepExpired(due) PROVE IInv'
<1>1. PICK t : t = stack
  OBVIOUS
<1>2. Sound(waiting, t) /\ Owing(t) /\ TypeOK /\ conn \in [Conns -> ConnState]
  BY <1>1 DEF IInv, Sound, Core, TypeOK
<1>3. PICK k : k = Closed(conn, Sweeps(due))
  OBVIOUS
<1>4. LetGo(k, t) /\ SweepAfter(k) \in {"none", "stopped", "armed", "closing"}
  BY <1>2, <1>3, ClosedLetsGo, SweepType
<1>5. Released(k, SweepAfter(k)) /\ stack' = t /\ UNCHANGED <<rst, retries, answers>> /\ fault' = fault
  BY <1>1, <1>3 DEF SweepExpired
<1>6. PICK timer : timer = SweepAfter(k)
  OBVIOUS
<1>7. fault' \in BOOLEAN
  BY <1>2, <1>5 DEF TypeOK
<1>8. QED
  BY <1>2, <1>4, <1>5, <1>6, <1>7, ReleasedStep

\* The close callback of a conn.
LEMMA FullyClosedKeeps == ASSUME Counting, IInv, NEW c \in Conns, FullyClosed(c) PROVE IInv'
<1>1. PICK t : t = stack
  OBVIOUS
<1>2. Sound(waiting, t) /\ Owing(t) /\ TypeOK /\ conn \in [Conns -> ConnState] /\ t = <<>>
  BY <1>1 DEF IInv, Sound, Core, TypeOK, FullyClosed, Quiet
<1>3. PICK k : k = [conn EXCEPT ![c] = NoConn]
  BY Zenon
<1>4. NoConn \in ConnState
  BY DEF NoConn, ConnState
<1>5. LetGo(k, t)
  BY <1>2, <1>3, <1>4 DEF LetGo
<1>6. SweepAfter(k) \in {"none", "stopped", "armed", "closing"}
  BY <1>2, SweepType
<1>7. Released(k, SweepAfter(k)) /\ stack' = t /\ UNCHANGED <<rst, retries, answers>> /\ fault' = fault
  BY <1>1, <1>3 DEF FullyClosed
<1>8. PICK timer : timer = SweepAfter(k)
  OBVIOUS
<1>9. fault' \in BOOLEAN
  BY <1>2, <1>7 DEF TypeOK
<1>10. QED
  BY <1>2, <1>5, <1>6, <1>7, <1>8, <1>9, ReleasedStep

-----------------------------------------------------------------------------
(* Flags and frames only.                                                     *)

\* client_cb_exit, and the end of pool_flush_waiting.
LEMMA ReturnKeeps ==
  ASSUME IInv, At("cb") \/ At("flush"), stack' = Below,
         UNCHANGED <<conn, lists, rst, pc, retries, answers, sweep, fault>>
  PROVE  IInv'
<1>1. PICK f, t : f = Top /\ t = Below
  OBVIOUS
<1>2. Popped(f, t) /\ f.op \in {"cb", "flush"}
  BY <1>1, PopTop DEF At, Top
<1>3. TypeOK /\ Tears(f) = {}
  BY <1>2 DEF IInv, Sound, Core, Tears
<1>4. Advances
  BY Zenon, <1>3, SameConn DEF TypeOK
<1>5. SameLists /\ UNCHANGED <<rst, responded, calls>>
  BY <1>3 DEF SameLists, TypeOK, lists, answers, delivery
<1>6. QED
  BY Zenon, <1>1, <1>2, <1>3, <1>4, <1>5, PopPlain

\* GOAWAY, stray bytes, an ignored reset, and the end of the timer's close.
LEMMA QuietStepKeeps ==
  ASSUME IInv, GoAway \/ StrayBytes \/ SweepTimerClosed \/ \E r \in Reqs : H3ResetIgnored(r)
  PROVE  IInv'
<1>1. TypeOK
  BY DEF IInv, Sound, Core
<1>2. CASE GoAway
  <2>1. PICK c : c = Top.c
    OBVIOUS
  <2>2. c \in Conns
    BY <1>2, <2>1, PopTop DEF GoAway, At, Top, Popped, FrameOK, ConnOps
  <2>3. PICK k : k = [conn[c] EXCEPT !.goaway = TRUE]
    BY Zenon
  <2>4. k \in ConnState /\ k.key = conn[c].key /\ k.open = conn[c].open /\ k.st = conn[c].st
    <3>1. conn[c] \in ConnState
      BY <1>1, <2>2 DEF TypeOK
    <3>2. QED
      BY ZenonT(30), <2>3, <3>1 DEF ConnState
  <2>5. conn \in [Conns -> ConnState] /\ conn' = [conn EXCEPT ![c] = k]
    BY <1>1, <1>2, <2>1, <2>3 DEF TypeOK, GoAway
  <2>6. conn' \in [Conns -> ConnState] /\ Advances
    BY ZenonT(30), <2>2, <2>4, <2>5, SetConn
  <2>7. SameLists /\ UNCHANGED <<rst, responded, calls, stack>>
    BY Zenon, <1>1, <1>2, <2>6 DEF SameLists, TypeOK, GoAway, lists, answers, delivery
  <2>8. QED
    BY <2>6, <2>7, StayPlain
<1>3. CASE StrayBytes
  <2>1. conn' \in [Conns -> ConnState] /\ Advances
    BY ZenonT(30), <1>1, <1>3, SameConn DEF TypeOK, StrayBytes
  <2>2. PICK c : c = Top.c
    OBVIOUS
  <2>3. c \in Conns
    BY <1>3, <2>2, PopTop DEF StrayBytes, At, Top, Popped, FrameOK, ConnOps
  <2>4. owed' \in [Conns -> Seq(Reqs)]
    <3>1. owed[c] \in Seq(Reqs) /\ owed[c] # <<>> /\ owed' = [owed EXCEPT ![c] = Tail(owed[c])]
      BY <1>1, <1>3, <2>2, <2>3 DEF TypeOK, StrayBytes
    <3>2. Tail(owed[c]) \in Seq(Reqs)
      BY Zenon, <3>1, QueuePop
    <3>3. QED
      BY ZenonT(30), <1>1, <3>1, <3>2 DEF TypeOK
  <2>5. SameLists /\ UNCHANGED <<rst, responded, calls, stack>>
    BY Zenon, <1>1, <1>3, <2>1, <2>4 DEF SameLists, TypeOK, StrayBytes, answers, delivery
  <2>6. QED
    BY <2>1, <2>5, StayPlain
<1>4. CASE SweepTimerClosed
  <2>1. conn' \in [Conns -> ConnState] /\ Advances
    BY Zenon, <1>1, <1>4, SameConn DEF TypeOK, SweepTimerClosed
  <2>2. SameLists /\ UNCHANGED <<rst, responded, calls, stack>>
    BY <1>1, <1>4, <2>1 DEF SameLists, TypeOK, SweepTimerClosed, lists, answers, delivery
  <2>3. QED
    BY <2>1, <2>2, StayPlain
<1>5. ASSUME NEW r \in Reqs, H3ResetIgnored(r) PROVE IInv'
  <2>1. conn' \in [Conns -> ConnState] /\ Advances
    BY Zenon, <1>1, <1>5, SameConn DEF TypeOK, H3ResetIgnored
  <2>2. strm' \in [Reqs -> {"new", "fin", "dead"}]
    BY Zenon, <1>1, <1>5 DEF TypeOK, H3ResetIgnored
  <2>3. SameLists /\ UNCHANGED <<rst, responded, calls, stack>>
    BY <1>1, <1>5, <2>1, <2>2 DEF SameLists, TypeOK, H3ResetIgnored, lists, delivery
  <2>4. QED
    BY Zenon, <2>1, <2>3, StayPlain
<1>6. QED
  BY <1>2, <1>3, <1>4, <1>5

\* A drain begins.
LEMMA DrainStartKeeps == ASSUME IInv, DrainStart PROVE IInv'
<1>1. PICK f, t, c : f = Top /\ t = Below /\ c = f.c
  OBVIOUS
<1>2. Popped(f, t) /\ f.op = "recv"
  BY Zenon, <1>1, PopTop DEF DrainStart, At, Top
<1>3. /\ Tears(f) = {} /\ c \in Conns /\ conn[c].st # "Free" /\ conn[c].open
      /\ \A g \in Range(t) : g.op # "timeout"
  BY Zenon, <1>1, <1>2 DEF Popped, FrameOK, ConnOps, Tears, Nested
<1>4. Core(waiting) /\ TypeOK /\ Frames(waiting, t) /\ Owing(t)
  BY <1>2, <1>3 DEF Popped, Sound, Core, Owing
<1>5. conn \in [Conns -> ConnState] /\ conn[c] \in ConnState
  BY <1>3, <1>4 DEF TypeOK
<1>6. UNCHANGED <<rst, responded, calls>>
  BY DEF DrainStart, answers, delivery
<1>7. CASE Live(c)
  <2>1. PICK k : k = [conn[c] EXCEPT !.inRecv = TRUE]
    BY Zenon
  <2>2. k \in ConnState /\ k.key = conn[c].key /\ k.open = conn[c].open /\ k.st = conn[c].st
    BY ZenonT(30), <1>5, <2>1 DEF ConnState
  <2>3. conn' = [conn EXCEPT ![c] = k] /\ stack' = Cons(F("loop", c, {}), t)
    BY <1>1, <1>7, <2>1 DEF DrainStart
  <2>4. conn' \in [Conns -> ConnState] /\ Advances /\ conn'[c] = k
    BY Zenon, <1>3, <1>5, <2>2, <2>3, SetConn
  <2>5. SameLists
    BY <1>4, <2>4 DEF SameLists, TypeOK, DrainStart, lists, answers, delivery
  <2>6. Frames(waiting, t)'
    BY Zenon, <1>4, <1>6, <2>4, <2>5, FlagsFrames
  <2>7. PICK op, s : op = "loop" /\ s = Cons(F(op, c, {}), t)
    OBVIOUS
  <2>8. Frames(waiting, s)' /\ Torn(s) = Torn(t)
    BY ZenonT(30), <1>3, <2>2, <2>4, <2>6, <2>7, PushPlain
  <2>9. Owing(s) /\ stack' = s
    BY Zenon, <1>4, <2>3, <2>7, <2>8 DEF Owing
  <2>10. QED
    BY Zenon, <1>4, <1>6, <2>4, <2>5, <2>8, <2>9, FlagsStep
<1>8. CASE ~Live(c)
  <2>1. conn' = conn /\ stack' = t
    BY <1>1, <1>8 DEF DrainStart
  <2>2. conn' \in [Conns -> ConnState] /\ Advances
    BY <1>5, <2>1, SameConn
  <2>3. SameLists
    BY <1>4, <2>2 DEF SameLists, TypeOK, DrainStart, lists, answers, delivery
  <2>4. QED
    BY Zenon, <1>2, <1>3, <1>6, <2>1, <2>2, <2>3, PopPlain
<1>9. QED
  BY <1>7, <1>8

\* A drain ends.
LEMMA LoopEndKeeps == ASSUME IInv, LoopEnd PROVE IInv'
<1>1. PICK f, t, c : f = Top /\ t = Below /\ c = f.c
  OBVIOUS
<1>2. Popped(f, t) /\ f.op = "loop"
  BY Zenon, <1>1, PopTop DEF LoopEnd, At, Top
<1>3. Tears(f) = {} /\ c \in Conns /\ \A g \in Range(t) : g.op # "timeout"
  BY Zenon, <1>1, <1>2 DEF Popped, FrameOK, ConnOps, Tears, Nested
<1>4. Core(waiting) /\ TypeOK /\ Frames(waiting, t) /\ Owing(t)
  BY Zenon, <1>2, <1>3 DEF Popped, Sound, Core, Owing
<1>5. conn \in [Conns -> ConnState] /\ conn[c] \in ConnState
  BY <1>3, <1>4 DEF TypeOK
<1>6. UNCHANGED <<rst, responded, calls>>
  BY DEF LoopEnd, answers, delivery
<1>7. PICK k : k = [conn[c] EXCEPT !.inRecv = FALSE, !.broken = @ \/ conn[c].goaway]
  OBVIOUS
<1>8. k \in ConnState /\ k.key = conn[c].key /\ k.open = conn[c].open /\ k.st = conn[c].st
  <2>1. (conn[c].broken \/ conn[c].goaway) \in BOOLEAN
    OBVIOUS
  <2>2. k = [conn[c] EXCEPT !.inRecv = FALSE, !.broken = conn[c].broken \/ conn[c].goaway]
    BY <1>5, <1>7 DEF ConnState
  <2>3. QED
    BY Zenon, <1>5, <2>1, <2>2 DEF ConnState
<1>9. /\ conn' = [conn EXCEPT ![c] = k]
      /\ stack' = Cons(F("flush", c, {}), Cons(F("idle", c, {}), t))
  <2>1. conn' = [conn EXCEPT ![c].inRecv = FALSE, ![c].broken = @ \/ conn[c].goaway]
    BY <1>1 DEF LoopEnd
  <2>2. QED
    BY Zenon, <1>1, <1>3, <1>5, <1>7, <2>1 DEF LoopEnd
<1>10. conn' \in [Conns -> ConnState] /\ Advances
  BY ZenonT(30), <1>3, <1>5, <1>8, <1>9, SetConn
<1>11. SameLists
  BY <1>4, <1>10 DEF SameLists, TypeOK, LoopEnd, lists, answers, delivery
<1>12. Frames(waiting, t)'
  BY <1>4, <1>6, <1>10, <1>11, FlagsFrames
<1>13. PICK op, s : op = "idle" /\ s = Cons(F(op, c, {}), t)
  BY Zenon
<1>14. Frames(waiting, s)' /\ Torn(s) = Torn(t) /\ \A g \in Range(s) : g.op # "timeout"
  <2>1. op \in {"flush", "idle", "close", "failall"} /\ \A g \in Range(t) : g.op # "timeout"
    BY Zenon, <1>3, <1>13
  <2>2. QED
    BY ZenonT(30), <1>3, <1>12, <1>13, <2>1, PushCall
<1>15. PICK op2, u : op2 = "flush" /\ u = Cons(F(op2, c, {}), s)
  OBVIOUS
<1>16. Frames(waiting, u)' /\ Torn(u) = Torn(s)
  BY <1>3, <1>14, <1>15, PushPlain
<1>17. Owing(u) /\ stack' = u
  BY Zenon, <1>4, <1>9, <1>13, <1>14, <1>15, <1>16 DEF Owing
<1>18. QED
  BY Zenon, <1>4, <1>6, <1>10, <1>11, <1>16, <1>17, FlagsStep

\* A QUIC conn gets its socket.
LEMMA ResolvedKeeps == ASSUME IInv, NEW c \in Conns, Resolved(c) PROVE IInv'
<1>1. TypeOK
  BY DEF IInv, Sound, Core
<1>2. conn \in [Conns -> ConnState] /\ conn[c] \in ConnState
  BY <1>1 DEF TypeOK
<1>3. PICK k : k = [conn[c] EXCEPT !.open = TRUE]
  BY Zenon
<1>4. k \in ConnState /\ k.key = conn[c].key /\ k.open /\ k.st = conn[c].st
  BY Zenon, <1>2, <1>3 DEF ConnState
<1>5. conn' = [conn EXCEPT ![c] = k]
  BY <1>3 DEF Resolved
<1>6. conn' \in [Conns -> ConnState] /\ Advances
  BY ZenonT(30), <1>2, <1>4, <1>5, SetConn
<1>7. SameLists /\ UNCHANGED <<rst, responded, calls, stack>>
  BY <1>1, <1>6 DEF SameLists, TypeOK, Resolved, lists, answers, delivery
<1>8. QED
  BY <1>6, <1>7, StayPlain

\* Bytes arrive.
LEMMA ReadableKeeps == ASSUME IInv, NEW c \in Conns, Readable(c) PROVE IInv'
<1>1. PICK t : t = stack
  OBVIOUS
<1>2. /\ Core(waiting) /\ TypeOK /\ Frames(waiting, t) /\ Owing(t)
      /\ \A g \in Range(t) : g.op # "timeout"
  BY <1>1, QuietStack DEF Readable
<1>3. conn \in [Conns -> ConnState] /\ conn[c] \in ConnState /\ conn[c].open /\ conn[c].st # "Free"
  BY <1>2 DEF TypeOK, Readable, Live
<1>4. PICK k : k = [conn[c] EXCEPT !.inRecv = TRUE]
  BY Zenon
<1>5. k \in ConnState /\ k.key = conn[c].key /\ k.open = conn[c].open /\ k.st = conn[c].st
  BY Zenon, <1>3, <1>4 DEF ConnState
<1>6. conn' = [conn EXCEPT ![c] = k] /\ stack' = Cons(F("loop", c, {}), t)
  BY <1>1, <1>4 DEF Readable
<1>7. conn' \in [Conns -> ConnState] /\ Advances /\ conn'[c] = k
  BY ZenonT(30), <1>3, <1>5, <1>6, SetConn
<1>8. SameLists /\ UNCHANGED <<rst, responded, calls>>
  BY <1>2, <1>7 DEF SameLists, TypeOK, Readable, lists, answers, delivery
<1>9. Frames(waiting, t)'
  BY <1>2, <1>7, <1>8, FlagsFrames
<1>10. PICK op, s : op = "loop" /\ s = Cons(F(op, c, {}), t)
  OBVIOUS
<1>11. Frames(waiting, s)' /\ Torn(s) = Torn(t)
  BY ZenonT(30), <1>2, <1>3, <1>5, <1>7, <1>9, <1>10, PushPlain
<1>12. Owing(s) /\ stack' = s
  BY Zenon, <1>2, <1>6, <1>10, <1>11 DEF Owing
<1>13. QED
  BY Zenon, <1>2, <1>7, <1>8, <1>11, <1>12, FlagsStep

\* A TCP conn is ready: its queue is served, and an H2 conn is drained.
LEMMA TcpReadyKeeps == ASSUME IInv, NEW c \in Conns, TcpReady(c) PROVE IInv'
<1>1. PICK t : t = stack
  OBVIOUS
<1>2. /\ Core(waiting) /\ TypeOK /\ Frames(waiting, t) /\ Owing(t)
      /\ \A g \in Range(t) : g.op # "timeout"
  BY <1>1, QuietStack DEF TcpReady
<1>3. conn \in [Conns -> ConnState] /\ conn[c] \in ConnState /\ conn[c].open
  BY <1>2 DEF TypeOK, TcpReady, Core, ConnOK
<1>4. PICK k : k = [conn[c] EXCEPT !.st = "Ready"]
  BY Zenon
<1>5. k \in ConnState /\ k.key = conn[c].key /\ k.open = conn[c].open /\ k.st = "Ready"
  BY Zenon, <1>3, <1>4 DEF ConnState
<1>6. conn' = [conn EXCEPT ![c] = k] /\ conn[c].st = "Handshaking"
  BY <1>4 DEF TcpReady
<1>7. conn' \in [Conns -> ConnState] /\ Advances /\ conn'[c] = k
  BY ZenonT(30), <1>3, <1>5, <1>6, SetConn
<1>8. SameLists /\ UNCHANGED <<rst, responded, calls>>
  BY Zenon, <1>2, <1>7 DEF SameLists, TypeOK, TcpReady, lists, answers, delivery
<1>9. Frames(waiting, t)'
  BY <1>2, <1>7, <1>8, FlagsFrames
<1>10. PICK op, s : op = "recv" /\ s = Cons(F(op, c, {}), t)
  OBVIOUS
<1>11. Frames(waiting, s)' /\ Torn(s) = Torn(t) /\ \A g \in Range(s) : g.op # "timeout"
  BY ZenonT(30), <1>2, <1>3, <1>5, <1>7, <1>9, <1>10, PushPlain
<1>12. PICK v : v = IF Proto(c) = "H2" THEN s ELSE t
  OBVIOUS
<1>13. Frames(waiting, v)' /\ Torn(v) = Torn(t) /\ \A g \in Range(v) : g.op # "timeout"
  <2>1. CASE Proto(c) = "H2"
    BY <1>11, <1>12, <2>1
  <2>2. CASE Proto(c) # "H2"
    BY <1>2, <1>9, <1>12, <2>2
  <2>3. QED
    BY <2>1, <2>2
<1>14. PICK op2, u : op2 = "flush" /\ u = Cons(F(op2, c, {}), v)
  OBVIOUS
<1>15. Frames(waiting, u)' /\ Torn(u) = Torn(v)
  <2>1. op2 \in {"flush", "idle", "close", "failall"}
    BY Zenon, <1>14
  <2>2. QED
    BY ZenonT(30), <1>13, <1>14, <2>1, PushCall
<1>16. stack' = u
  BY <1>1, <1>10, <1>12, <1>14 DEF TcpReady
<1>17. Owing(u)
  BY Zenon, <1>2, <1>13, <1>15 DEF Owing
<1>18. QED
  BY Zenon, <1>2, <1>7, <1>8, <1>15, <1>16, <1>17, FlagsStep

-----------------------------------------------------------------------------
(* How conns age.  pool_acquire opens a conn, within the cap; from then on a  *)
(* conn only wears: it never comes back from broken or closing, and a broken  *)
(* one takes no request.                                                      *)

\* A conn that is still handshaking has nothing in flight, and it is not broken
\* before it has a handle that can be closed.
Young ==
  \A c \in Conns : conn[c].st = "Handshaking" =>
    active[c] = {} /\ (conn[c].broken => conn[c].open)

\* x may follow conn[c] without the conn being opened anew.
Wears(x, c) ==
  /\ x.st \in {"Handshaking", "Ready"} =>
       Live(c) /\ x.key = conn[c].key /\ (conn[c].broken => x.broken)
  /\ x.st = "Handshaking" =>
       conn[c].st = "Handshaking" /\ (x.broken /\ ~x.open => conn[c].broken /\ ~conn[c].open)

\* The lists of c do not grow while it is broken, nor its active list while it shakes hands.
Lightens(c) ==
  /\ Live(c) /\ conn[c].broken =>
       active'[c] \subseteq active[c] /\ Range(waiting'[c]) \subseteq Range(waiting[c])
  /\ conn'[c].st = "Handshaking" => active'[c] \subseteq active[c]
Worn(c) == Wears(conn'[c], c) /\ Lightens(c)
AllWorn == \A c \in Conns : Worn(c)

\* The free slot o gets a new conn for r.
Opens(o, r) ==
  /\ MayOpen(r) /\ conn[o].st = "Free" /\ active'[o] = active[o]
  /\ conn'[o].st # "Ready"
  /\ conn'[o].st = "Handshaking" => conn'[o].key = Key[r] /\ ~conn'[o].broken
  /\ \A c \in Conns \ {o} : Worn(c)
Ages == AllWorn \/ \E r \in Reqs, o \in Conns : Opens(o, r)

\* No list grows.
Lighter ==
  \A c \in Conns : active'[c] \subseteq active[c] /\ Range(waiting'[c]) \subseteq Range(waiting[c])

\* A step that lets no list grow ages the conns if it does nothing worse to them.
LEMMA LighterWears ==
  ASSUME Lighter, \A c \in Conns : Wears(conn'[c], c)
  PROVE  AllWorn
BY Zenon DEF AllWorn, Worn, Lighter, Lightens

\* Flags that wear no conn.
LEMMA SameWears ==
  ASSUME NEW c, NEW x, x.st = conn[c].st, x.key = conn[c].key, x.broken = conn[c].broken,
         x.open = conn[c].open
  PROVE  Wears(x, c)
BY DEF Wears, Live

\* A conn with a handle may break or get ready.
LEMMA OpenWears ==
  ASSUME NEW c, NEW x, x.st = conn[c].st \/ (x.st = "Ready" /\ Live(c)), x.key = conn[c].key,
         conn[c].broken => x.broken, x.open
  PROVE  Wears(x, c)
BY DEF Wears, Live

\* A conn that is gone or going.
LEMMA GoneWears ==
  ASSUME NEW c, NEW x, x.st \in {"Free", "Closing"}
  PROVE  Wears(x, c)
BY DEF Wears

\* Nothing happens to the conns or their lists.
LEMMA StillWorn == ASSUME UNCHANGED <<conn, active, waiting>> PROVE AllWorn
<1>1. Lighter
  BY Zenon DEF Lighter
<1>2. \A c \in Conns : Wears(conn'[c], c)
  BY Zenon, SameWears
<1>3. QED
  BY <1>1, <1>2, LighterWears

\* One conn changes, and no list does.
LEMMA OneWorn ==
  ASSUME TypeOK, NEW c \in Conns, NEW x, conn' = [conn EXCEPT ![c] = x], Wears(x, c),
         UNCHANGED <<active, waiting>>
  PROVE  AllWorn
<1>1. Lighter
  BY Zenon DEF Lighter
<1>2. \A d \in Conns : conn'[d] = IF d = c THEN x ELSE conn[d]
  BY Zenon DEF TypeOK
<1>3. \A d \in Conns : Wears(conn[d], d)
  BY Zenon, SameWears
<1>4. \A d \in Conns : Wears(conn'[d], d)
  BY Zenon, <1>2, <1>3
<1>5. QED
  BY <1>1, <1>4, LighterWears

\* pool_conn_fail_all, with waiting queues from which at most something was taken.
LEMMA FailAllWears ==
  ASSUME TypeOK, NEW base \in [Conns -> ConnState], NEW w \in [Conns -> Seq(Reqs)], NEW c \in Conns,
         NEW t, FailAll(base, w, c, t),
         \A d \in Conns : /\ base[d].st = conn[d].st /\ base[d].key = conn[d].key
                          /\ base[d].broken = conn[d].broken /\ base[d].open = conn[d].open
                          /\ Range(w[d]) \subseteq Range(waiting[d])
  PROVE  AllWorn
<1>1. \A d \in Conns : Wears(base[d], d)
  BY Zenon, SameWears
<1>2. CASE ~Live(c)
  <2>1. conn' = base /\ waiting' = w /\ active' = active
    BY <1>2 DEF FailAll
  <2>2. QED
    BY Zenon, <1>1, <2>1, LighterWears DEF Lighter
<1>3. CASE Live(c)
  <2>1. /\ conn' = Closed([base EXCEPT ![c].broken = TRUE], {c})
        /\ active' = [active EXCEPT ![c] = {}] /\ waiting' = [w EXCEPT ![c] = <<>>]
    BY Zenon, <1>3 DEF FailAll
  <2>2. active'[c] = {} /\ waiting'[c] = <<>>
    BY <2>1 DEF TypeOK
  <2>3. \A d \in Conns : d # c => active'[d] = active[d] /\ waiting'[d] = w[d]
    BY <2>1 DEF TypeOK
  <2>4. Lighter
    BY Zenon, <2>2, <2>3, QueueEmpty DEF Lighter
  <2>5. \A d \in Conns : d # c => conn'[d] = base[d]
    BY <2>1 DEF Closed
  <2>6. conn'[c].st \in {"Free", "Closing"}
    <3>1. PICK b : b = [base EXCEPT ![c].broken = TRUE]
      BY ZenonT(20)
    <3>2. base[c] \in ConnState /\ b[c] = [base[c] EXCEPT !.broken = TRUE]
      BY <3>1
    <3>3. b[c] \in ConnState
      BY Zenon, <3>2 DEF ConnState
    <3>4. conn'[c] = IF conn[c].open THEN [b[c] EXCEPT !.st = "Closing"] ELSE NoConn
      BY Zenon, <1>3, <2>1, <3>1 DEF Closed
    <3>5. QED
      BY <3>3, <3>4 DEF NoConn, ConnState
  <2>7. \A d \in Conns : Wears(conn'[d], d)
    BY <1>1, <2>5, <2>6, GoneWears
  <2>8. QED
    BY <2>4, <2>7, LighterWears
<1>4. QED
  BY <1>2, <1>3

\* The same from the conns as they are.
LEMMA FailWears ==
  ASSUME TypeOK, NEW c \in Conns, NEW t, FailAll(conn, waiting, c, t)
  PROVE  AllWorn
BY Zenon, FailAllWears DEF TypeOK

\* Conns are closed and released.
LEMMA ReleasedWears ==
  ASSUME TypeOK, NEW conns, NEW timer, Released(conns, timer), \A c \in Conns : Wears(conns[c], c)
  PROVE  AllWorn
<1>1. PICK gone : active' = Upd(active, gone, {}) /\ waiting' = Upd(waiting, gone, <<>>) /\ conn' = conns
  BY Zenon DEF Released
<1>2. \A c \in Conns : /\ active'[c] = IF c \in gone THEN {} ELSE active[c]
                       /\ waiting'[c] = IF c \in gone THEN <<>> ELSE waiting[c]
  BY Zenon, <1>1 DEF Upd, TypeOK
<1>3. Lighter
  BY Zenon, <1>2, QueueEmpty DEF Lighter
<1>4. QED
  BY Zenon, <1>1, <1>3, LighterWears

\* pool_close_conn on the conns cs.
LEMMA ClosedWears ==
  ASSUME TypeOK, NEW base \in [Conns -> ConnState], NEW cs, \A c \in Conns \ cs : Wears(base[c], c),
         \A c \in Conns : base[c].st = conn[c].st
  PROVE  \A c \in Conns : Wears(Closed(base, cs)[c], c)
<1> SUFFICES ASSUME NEW c \in Conns PROVE Wears(Closed(base, cs)[c], c)
  OBVIOUS
<1>1. PICK x : x = Closed(base, cs)[c]
  OBVIOUS
<1>2. x = IF c \notin cs \/ ~Live(c) THEN base[c]
          ELSE IF conn[c].open THEN [base[c] EXCEPT !.st = "Closing"] ELSE NoConn
  BY Zenon, <1>1 DEF Closed
<1>3. CASE c \notin cs
  BY Zenon, <1>1, <1>2, <1>3
<1>4. CASE c \in cs
  <2>1. base[c] \in ConnState /\ conn[c] \in ConnState
    BY DEF TypeOK
  <2>2. x.st \in {"Free", "Closing"}
    BY <1>2, <1>4, <2>1 DEF NoConn, ConnState, Live
  <2>3. QED
    BY <1>1, <2>2, GoneWears
<1>5. QED
  BY <1>3, <1>4

-----------------------------------------------------------------------------
(* The handlers, one by one.                                                  *)

\* A request is parked on a conn that is not broken, or submitted to a Ready one.
LEMMA TakesWorn ==
  ASSUME TypeOK, NEW c \in Conns, NEW w \in [Conns -> Seq(Reqs)], ~conn[c].broken,
         \A d \in Conns : d # c =>
           active'[d] = active[d] /\ waiting'[d] = waiting[d] /\ conn'[d] = conn[d],
         Wears(conn'[c], c), conn'[c].st = "Handshaking" => active'[c] = active[c]
  PROVE  AllWorn
<1>1. \A d \in Conns : d # c => Worn(d)
  BY SameWears DEF Worn, Lightens
<1>2. Worn(c)
  BY DEF Worn, Lightens
<1>3. QED
  BY Zenon, <1>1, <1>2 DEF AllWorn

\* pool_waiting_push on a conn that is not broken.
LEMMA ParkWorn ==
  ASSUME TypeOK, NEW c \in Conns, NEW r, NEW w \in [Conns -> Seq(Reqs)], NEW t, ~conn[c].broken,
         \A d \in Conns : d # c => w[d] = waiting[d], Park(c, r, w, t)
  PROVE  AllWorn
<1>1. conn' = conn /\ active' = active /\ waiting' = [w EXCEPT ![c] = Append(@, r)]
  BY Zenon DEF Park
<1>2. \A d \in Conns : d # c => waiting'[d] = waiting[d]
  BY Zenon, <1>1
<1>3. Wears(conn'[c], c)
  BY Zenon, <1>1, SameWears
<1>4. QED
  BY <1>1, <1>2, <1>3, TakesWorn

\* pool_submit on a Ready conn that is not broken.
LEMMA SubmitWorn ==
  ASSUME TypeOK, NEW c \in Conns, NEW r, NEW w \in [Conns -> Seq(Reqs)], NEW t,
         ~conn[c].broken, conn[c].st = "Ready", Range(w[c]) \subseteq Range(waiting[c]),
         \A d \in Conns : d # c => w[d] = waiting[d], PoolSubmit(c, r, w, t)
  PROVE  AllWorn
<1>1. CASE Park(c, r, w, t)
  BY <1>1, ParkWorn
<1>2. CASE SubmitStream(c, r, w, t)
  <2>1. waiting' = w
    BY Zenon, <1>2 DEF SubmitStream
  <2>2. \/ conn' = Ref(c) /\ active' = [active EXCEPT ![c] = @ \cup {r}]
        \/ UNCHANGED <<conn, active>>
    BY Zenon, <1>2 DEF SubmitStream, AfterSubmit
  <2>3. /\ \A d \in Conns : d # c => conn'[d] = conn[d] /\ active'[d] = active[d]
        /\ conn'[c].st = "Ready" /\ conn'[c].key = conn[c].key
        /\ conn'[c].broken = conn[c].broken /\ conn'[c].open = conn[c].open
    <3>1. CASE UNCHANGED <<conn, active>>
      BY <3>1
    <3>2. CASE conn' = Ref(c) /\ active' = [active EXCEPT ![c] = @ \cup {r}]
      <4>1. \A d \in Conns : d # c => conn'[d] = conn[d] /\ active'[d] = active[d]
        BY Zenon, <3>2 DEF Ref, TypeOK
      <4>2. PICK v : conn' = [conn EXCEPT ![c].idle = v]
        BY Zenon, <3>2 DEF Ref
      <4>3. conn[c] \in ConnState /\ conn'[c] = [conn[c] EXCEPT !.idle = v]
        BY <4>2 DEF TypeOK
      <4>4. QED
        BY <4>1, <4>3 DEF ConnState
    <3>3. QED
      BY Zenon, <2>2, <3>1, <3>2
  <2>4. Wears(conn'[c], c)
    BY <2>3, SameWears
  <2>5. QED
    BY <2>1, <2>3, <2>4, TakesWorn
<1>3. CASE SubmitIntoDeadConn(c, r, w, t)
  <2>1. PICK s : FailAll(conn, w, c, s)
    BY Zenon, <1>3 DEF SubmitIntoDeadConn
  <2>2. \A d \in Conns : Range(w[d]) \subseteq Range(waiting[d])
    BY Zenon
  <2>3. QED
    BY Zenon, <2>1, <2>2, FailAllWears DEF TypeOK
<1>4. QED
  BY Zenon, <1>1, <1>2, <1>3 DEF PoolSubmit

\* pool_conn_open.
LEMMA OpenAges ==
  ASSUME IInv, NEW r \in Reqs, NEW o \in Conns, NEW t, MayOpen(r), PoolConnOpen(o, r, t)
  PROVE  Ages
<1>1. TypeOK /\ Key[r] \in Keys
  BY KeyAssumption DEF IInv, Sound, Core
<1>2. PICK open \in BOOLEAN, ok \in BOOLEAN :
        conn' = [conn EXCEPT ![o] =
             IF ok THEN NewConn(Key[r], open)
             ELSE IF open THEN [NewConn(Key[r], TRUE) EXCEPT !.st = "Closing", !.broken = TRUE]
             ELSE NoConn]
  BY Zenon DEF PoolConnOpen
<1>3. PICK v, k : /\ k = Key[r]
                  /\ v = IF ok THEN NewConn(k, open)
                         ELSE IF open THEN [NewConn(k, TRUE) EXCEPT !.st = "Closing", !.broken = TRUE]
                         ELSE NoConn
  BY Zenon
<1>4. conn' = [conn EXCEPT ![o] = v]
  BY Zenon, <1>2, <1>3
<1>5. conn'[o] = v /\ \A d \in Conns : d # o => conn'[d] = conn[d]
  BY <1>1, <1>4 DEF TypeOK
<1>6. v.st # "Ready" /\ (v.st = "Handshaking" => v.key = k /\ ~v.broken)
  BY <1>3 DEF NewConn, NoConn
<1>7. PICK x : waiting' = [waiting EXCEPT ![o] = x]
  BY Zenon DEF PoolConnOpen
<1>8. active' = active /\ \A d \in Conns : d # o => waiting'[d] = waiting[d]
  BY <1>1, <1>7 DEF PoolConnOpen, TypeOK
<1>9. \A d \in Conns \ {o} : Worn(d)
  BY <1>5, <1>8, SameWears DEF Worn, Lightens
<1>10. Opens(o, r)
  <2>1. conn[o].st = "Free" /\ active'[o] = active[o]
    BY Zenon, <1>8 DEF PoolConnOpen
  <2>2. conn'[o].st # "Ready" /\ (conn'[o].st = "Handshaking" => conn'[o].key = Key[r] /\ ~conn'[o].broken)
    BY ZenonT(20), <1>3, <1>5, <1>6
  <2>3. QED
    BY <1>9, <2>1, <2>2 DEF Opens
<1>11. QED
  BY <1>10 DEF Ages

\* pool_acquire.
LEMMA PoolAcquireAges ==
  ASSUME IInv, NEW r \in Reqs, NEW t, PoolAcquire(r, t)
  PROVE  Ages
<1>1. TypeOK /\ waiting \in [Conns -> Seq(Reqs)]
  BY DEF IInv, Sound, Core, TypeOK
<1> DEFINE shaking == {c \in Usable(r) : conn[c].st = "Handshaking"}
           ready == Usable(r) \ shaking
<1>2. \A c \in Usable(r) : c \in Conns /\ ~conn[c].broken
  BY Zenon DEF Usable
<1>3. \A c \in ready : c \in Conns /\ ~conn[c].broken /\ conn[c].st = "Ready"
  BY Zenon DEF Usable, Live
<1>4. ASSUME NEW c \in ready, PoolSubmit(c, r, waiting, t) PROVE Ages
  BY Zenon, <1>1, <1>3, <1>4, SubmitWorn DEF Ages
<1>5. ASSUME NEW c \in Usable(r), Park(c, r, waiting, t) PROVE Ages
  BY Zenon, <1>1, <1>2, <1>5, ParkWorn DEF Ages
<1>6. ASSUME MayOpen(r), NEW c \in FreeSlots, PoolConnOpen(c, r, t) PROVE Ages
  BY Zenon, <1>6, OpenAges DEF FreeSlots
<1>7. ASSUME UNCHANGED <<conn, lists, rst, pc, retries, sweep, fault>> PROVE Ages
  BY Zenon, <1>7, StillWorn DEF Ages, lists
<1>8. QED
  BY ZenonT(30), <1>4, <1>5, <1>6, <1>7 DEF PoolAcquire

\* pool_acquire for the top frame.
LEMMA AcquireAges == ASSUME IInv, Acquire PROVE Ages
<1>1. PICK r \in Top.rs : PoolAcquire(r, Push("acquire", Top.rs \ {r}, Below))
  BY Zenon DEF Acquire
<1>2. Top \in Frame
  BY Zenon, PopTop DEF Acquire, At, Popped
<1>3. r \in Reqs
  BY <1>2 DEF Frame
<1>4. QED
  BY <1>1, <1>3, PoolAcquireAges

\* The loop of pool_flush_waiting.
LEMMA FlushWorn == ASSUME IInv, FlushWaiting PROVE AllWorn
<1>1. PICK f, c : f = Top /\ c = f.c
  OBVIOUS
<1>2. f.op = "flush" /\ FrameOK(waiting, f)
  BY Zenon, <1>1, PopTop DEF FlushWaiting, At, Top, Popped
<1>3. c \in Conns /\ TypeOK
  BY <1>1, <1>2 DEF FrameOK, ConnOps, IInv, Sound, Core
<1>4. CASE waiting[c] # <<>> /\ HasCapacity(c)
  <2>1. PICK r, w : /\ r = Head(waiting[c]) /\ w = [waiting EXCEPT ![c] = Tail(waiting[c])]
                    /\ PoolSubmit(c, r, w, stack)
    BY Zenon, <1>1, <1>4 DEF FlushWaiting
  <2>2. waiting[c] \in Seq(Reqs)
    BY <1>3 DEF TypeOK
  <2>3. Tail(waiting[c]) \in Seq(Reqs) /\ Range(Tail(waiting[c])) \subseteq Range(waiting[c])
    BY <1>4, <2>2, QueuePop
  <2>4. /\ w \in [Conns -> Seq(Reqs)] /\ w[c] = Tail(waiting[c])
        /\ \A d \in Conns : d # c => w[d] = waiting[d]
    BY Zenon, <1>3, <2>1, <2>3 DEF TypeOK
  <2>5. conn[c].st = "Ready" /\ ~conn[c].broken
    BY Zenon, <1>4 DEF HasCapacity
  <2>6. QED
    BY Zenon, <1>3, <2>1, <2>3, <2>4, <2>5, SubmitWorn
<1>5. CASE ~(waiting[c] # <<>> /\ HasCapacity(c))
  BY Zenon, <1>1, <1>5, StillWorn DEF FlushWaiting, lists
<1>6. QED
  BY <1>4, <1>5

-----------------------------------------------------------------------------

\* pool_req_done; dropping an H1 conn breaks it, and it has a handle.
LEMMA ReqDoneWorn == ASSUME IInv, ReqDone PROVE AllWorn
<1>1. PICK f, c : f = Top /\ c = f.c
  OBVIOUS
<1>2. FrameOK(waiting, f) /\ f.op \in {"done", "drop"}
  BY <1>1, PopTop DEF ReqDone, At, Top, Popped
<1>3. /\ conn' = IF f.op = "drop" THEN [conn EXCEPT ![c].broken = TRUE] ELSE conn
      /\ UNCHANGED <<active, waiting>>
  BY Zenon, <1>1 DEF ReqDone, lists
<1>4. TypeOK
  BY DEF IInv, Sound, Core
<1>5. CASE f.op = "drop"
  <2>1. c \in Conns /\ conn[c].open
    BY <1>1, <1>5, <1>2 DEF FrameOK, ConnOps
  <2>2. PICK x : x = [conn[c] EXCEPT !.broken = TRUE]
    BY Zenon
  <2>3. conn[c] \in ConnState
    BY <1>4, <2>1 DEF TypeOK
  <2>4. x.st = conn[c].st /\ x.key = conn[c].key /\ x.broken /\ x.open
    BY <2>1, <2>2, <2>3 DEF ConnState
  <2>5. Wears(x, c)
    BY <2>4, OpenWears
  <2>6. QED
    BY Zenon, <1>3, <1>4, <1>5, <2>1, <2>2, <2>5, OneWorn
<1>6. CASE f.op # "drop"
  BY Zenon, <1>3, <1>6, StillWorn
<1>7. QED
  BY <1>5, <1>6

\* Steps that set flags of the conn the top frame names, or let its handshake succeed.
LEMMA LoopStepWorn ==
  ASSUME IInv, GoAway \/ LoopEnd \/ DrainStart \/ (H3Ready /\ conn' = [conn EXCEPT ![Top.c].st = "Ready"]),
         UNCHANGED <<active, waiting>>
  PROVE  AllWorn
<1>1. PICK f, c : f = Top /\ c = f.c
  OBVIOUS
<1>2. FrameOK(waiting, f) /\ f.op \in {"loop", "recv"}
  BY Zenon, <1>1, PopTop DEF GoAway, LoopEnd, DrainStart, H3Ready, At, Top, Popped
<1>3. c \in Conns /\ conn[c].open /\ TypeOK
  BY <1>1, <1>2 DEF FrameOK, ConnOps, IInv, Sound, Core
<1>4. conn[c] \in ConnState
  BY <1>3 DEF TypeOK
<1>5. \/ conn' = conn
      \/ \E v \in BOOLEAN : conn' = [conn EXCEPT ![c] = [conn[c] EXCEPT !.inRecv = v]]
      \/ conn' = [conn EXCEPT ![c] = [conn[c] EXCEPT !.goaway = TRUE]]
      \/ conn' = [conn EXCEPT ![c] = [conn[c] EXCEPT !.st = "Ready"]] /\ Live(c)
      \/ \E v \in BOOLEAN : /\ conn[c].broken => v
                            /\ conn' = [conn EXCEPT ![c] = [conn[c] EXCEPT !.inRecv = FALSE, !.broken = v]]
  <2>1. CASE GoAway
    BY Zenon, <1>1, <2>1 DEF GoAway
  <2>2. CASE LoopEnd
    <3>1. conn' = [conn EXCEPT ![c] = [conn[c] EXCEPT !.inRecv = FALSE, !.broken = conn[c].broken \/ conn[c].goaway]]
      BY Zenon, <1>1, <1>3, <1>4, <2>2 DEF LoopEnd, TypeOK, ConnState
    <3>2. conn[c].broken \/ conn[c].goaway \in BOOLEAN
      BY <1>4 DEF ConnState
    <3>3. QED
      BY Zenon, <3>1, <3>2
  <2>3. CASE DrainStart
    BY Zenon, <1>1, <2>3 DEF DrainStart
  <2>4. CASE H3Ready /\ conn' = [conn EXCEPT ![Top.c].st = "Ready"]
    BY Zenon, <1>1, <2>4 DEF H3Ready, Live
  <2>5. QED
    BY Zenon, <2>1, <2>2, <2>3, <2>4
<1>6. CASE conn' = conn
  BY Zenon, <1>6, StillWorn
<1>7. ASSUME NEW x, conn' = [conn EXCEPT ![c] = x], x.st = conn[c].st \/ (x.st = "Ready" /\ Live(c)),
             x.key = conn[c].key, conn[c].broken => x.broken, x.open
      PROVE  AllWorn
  BY ZenonT(20), <1>3, <1>7, OneWorn, OpenWears
<1>8. ASSUME NEW v \in BOOLEAN, conn' = [conn EXCEPT ![c] = [conn[c] EXCEPT !.inRecv = v]]
      PROVE  AllWorn
  <2>1. PICK x : x = [conn[c] EXCEPT !.inRecv = v]
    BY Zenon
  <2>2. /\ x.st = conn[c].st \/ (x.st = "Ready" /\ Live(c))
        /\ x.key = conn[c].key /\ (conn[c].broken => x.broken) /\ x.open
    BY <1>3, <1>4, <2>1 DEF ConnState
  <2>3. QED
    BY Zenon, <1>7, <1>8, <2>1, <2>2
<1>9. ASSUME conn' = [conn EXCEPT ![c] = [conn[c] EXCEPT !.goaway = TRUE]]
      PROVE  AllWorn
  <2>1. PICK x : x = [conn[c] EXCEPT !.goaway = TRUE]
    BY Zenon
  <2>2. /\ x.st = conn[c].st \/ (x.st = "Ready" /\ Live(c))
        /\ x.key = conn[c].key /\ (conn[c].broken => x.broken) /\ x.open
    BY <1>3, <1>4, <2>1 DEF ConnState
  <2>3. QED
    BY Zenon, <1>7, <1>9, <2>1, <2>2
<1>10. ASSUME conn' = [conn EXCEPT ![c] = [conn[c] EXCEPT !.st = "Ready"]], Live(c)
       PROVE  AllWorn
  <2>1. PICK x : x = [conn[c] EXCEPT !.st = "Ready"]
    BY Zenon
  <2>2. /\ x.st = conn[c].st \/ (x.st = "Ready" /\ Live(c))
        /\ x.key = conn[c].key /\ (conn[c].broken => x.broken) /\ x.open
    BY <1>3, <1>4, <1>10, <2>1 DEF ConnState
  <2>3. QED
    BY Zenon, <1>7, <1>10, <2>1, <2>2
<1>11. ASSUME NEW v \in BOOLEAN, conn[c].broken => v,
              conn' = [conn EXCEPT ![c] = [conn[c] EXCEPT !.inRecv = FALSE, !.broken = v]]
       PROVE  AllWorn
  <2>1. PICK x : x = [conn[c] EXCEPT !.inRecv = FALSE, !.broken = v]
    OBVIOUS
  <2>2. /\ x.st = conn[c].st \/ (x.st = "Ready" /\ Live(c))
        /\ x.key = conn[c].key /\ (conn[c].broken => x.broken) /\ x.open
    BY <1>3, <1>4, <1>11, <2>1 DEF ConnState
  <2>3. QED
    BY Zenon, <1>7, <1>11, <2>1, <2>2
<1>12. QED
  BY Zenon, <1>5, <1>6, <1>8, <1>9, <1>10, <1>11

\* A conn gets its handle, completes its handshake, or has something to read.
LEMMA EventWorn ==
  ASSUME IInv, NEW c \in Conns, Resolved(c) \/ TcpReady(c) \/ Readable(c)
  PROVE  AllWorn
<1>1. TypeOK /\ ConnOK
  BY DEF IInv, Sound, Core
<1>2. conn[c] \in ConnState
  BY <1>1 DEF TypeOK
<1>3. UNCHANGED <<active, waiting>>
  BY Zenon DEF Resolved, TcpReady, Readable, lists
<1>4. CASE Resolved(c)
  <2>1. PICK x : x = [conn[c] EXCEPT !.open = TRUE]
    BY ZenonT(20)
  <2>2. Wears(x, c)
    BY <1>2, <2>1, OpenWears DEF ConnState
  <2>3. QED
    BY Zenon, <1>1, <1>3, <1>4, <2>1, <2>2, OneWorn DEF Resolved
<1>5. CASE TcpReady(c)
  <2>1. PICK x : x = [conn[c] EXCEPT !.st = "Ready"]
    BY ZenonT(20)
  <2>2. Live(c) /\ conn[c].open
    BY <1>1, <1>5 DEF TcpReady, Live, ConnOK
  <2>3. Wears(x, c)
    BY <1>2, <2>1, <2>2, OpenWears DEF ConnState
  <2>4. QED
    BY Zenon, <1>1, <1>3, <1>5, <2>1, <2>3, OneWorn DEF TcpReady
<1>6. CASE Readable(c)
  <2>1. PICK x : x = [conn[c] EXCEPT !.inRecv = TRUE]
    BY ZenonT(20)
  <2>2. Wears(x, c)
    BY <1>2, <2>1, SameWears DEF ConnState
  <2>3. QED
    BY Zenon, <1>1, <1>3, <1>6, <2>1, <2>2, OneWorn DEF Readable
<1>7. QED
  BY <1>4, <1>5, <1>6

\* A response takes its request off the active list.
LEMMA ResponseWorn ==
  ASSUME TypeOK, NEW c \in Conns, NEW r, NEW keeps, NEW t, OnResponse(c, r, keeps, t)
  PROVE  AllWorn
<1>1. active' = [active EXCEPT ![c] = @ \ {r}] /\ UNCHANGED <<conn, waiting>>
  BY Zenon DEF OnResponse, ActiveRemove
<1>2. \A d \in Conns : active'[d] \subseteq active[d]
  BY <1>1 DEF TypeOK
<1>3. Lighter
  BY Zenon, <1>1, <1>2 DEF Lighter
<1>4. \A d \in Conns : Wears(conn'[d], d)
  BY Zenon, <1>1, SameWears
<1>5. QED
  BY <1>3, <1>4, LighterWears

\* pool_update_idle.
LEMMA UpdateIdleWorn == ASSUME IInv, UpdateIdle PROVE AllWorn
<1>1. PICK f, c : f = Top /\ c = f.c
  OBVIOUS
<1>2. FrameOK(waiting, f) /\ f.op = "idle"
  BY Zenon, <1>1, PopTop DEF UpdateIdle, At, Top, Popped
<1>3. c \in Conns /\ TypeOK
  BY <1>1, <1>2 DEF FrameOK, ConnOps, IInv, Sound, Core
<1>4. /\ waiting' = waiting \/ waiting' = [waiting EXCEPT ![c] = <<>>]
      /\ conn' = conn \/ conn' = [conn EXCEPT ![c].idle = TRUE]
      /\ active' = active
  BY Zenon, <1>1 DEF UpdateIdle
<1>5. \A d \in Conns : waiting'[d] = waiting[d] \/ waiting'[d] = <<>>
  BY <1>3, <1>4 DEF TypeOK
<1>6. Lighter
  BY Zenon, <1>4, <1>5, QueueEmpty DEF Lighter
<1>7. ASSUME NEW d \in Conns
      PROVE  Wears(conn'[d], d)
  <2>1. conn[d] \in ConnState
    BY <1>3 DEF TypeOK
  <2>2. conn'[d] = conn[d] \/ conn'[d] = [conn[d] EXCEPT !.idle = TRUE]
    <3>1. CASE conn' = conn
      BY <3>1
    <3>2. CASE conn' = [conn EXCEPT ![c].idle = TRUE]
      BY Zenon, <1>3, <3>2 DEF TypeOK
    <3>3. QED
      BY <1>4, <3>1, <3>2
  <2>3. QED
    BY <2>1, <2>2, SameWears DEF ConnState
<1>8. QED
  BY <1>6, <1>7, LighterWears

\* The tail of pool_h3_submit books its request on a conn that is closing.
LEMMA LateBookingWorn == ASSUME IInv, LateBooking PROVE AllWorn
<1>1. PICK f, c : f = Top /\ c = f.c
  OBVIOUS
<1>2. FrameOK(waiting, f) /\ f.op = "late"
  BY Zenon, <1>1, PopTop DEF LateBooking, At, Top, Popped
<1>3. c \in Conns /\ conn[c].st = "Closing" /\ TypeOK
  BY <1>1, <1>2 DEF FrameOK, ConnOps, IInv, Sound, Core
<1>4. PICK r : AfterSubmit(c, r, Below)
  BY Zenon, <1>1 DEF LateBooking
<1>5. waiting' = waiting /\ conn' = Ref(c) /\ active' = [active EXCEPT ![c] = @ \cup {r}]
  BY Zenon, <1>4 DEF LateBooking, AfterSubmit
<1>6. \A d \in Conns : d # c => active'[d] = active[d] /\ waiting'[d] = waiting[d] /\ conn'[d] = conn[d]
  BY Zenon, <1>3, <1>5 DEF Ref, TypeOK
<1>7. conn'[c].st = "Closing"
  <2>1. PICK v : conn' = [conn EXCEPT ![c].idle = v]
    BY Zenon, <1>5 DEF Ref
  <2>2. conn[c] \in ConnState /\ conn'[c] = [conn[c] EXCEPT !.idle = v]
    BY <1>3, <2>1 DEF TypeOK
  <2>3. QED
    BY <1>3, <2>2 DEF ConnState
<1>8. \A d \in Conns : d # c => Worn(d)
  BY <1>6, SameWears DEF Worn, Lightens
<1>9. Worn(c)
  BY <1>3, <1>7, GoneWears DEF Worn, Lightens, Live
<1>10. QED
  BY Zenon, <1>8, <1>9 DEF AllWorn

\* pool_conn_fail_all, wherever it is called from.
LEMMA FailingWorn ==
  ASSUME IInv, \/ LoopError \/ FailAfterEof
               \/ (H3Ready /\ FailAll(conn, waiting, Top.c, stack))
               \/ \E c \in Conns : ReadyFailed(c) \/ TransportClosed(c)
  PROVE  AllWorn
<1>1. TypeOK
  BY DEF IInv, Sound, Core
<1>2. stack # <<>> => FrameOK(waiting, Top)
  BY Zenon, PopTop DEF Popped
<1>3. CASE \E c \in Conns : ReadyFailed(c) \/ TransportClosed(c)
  BY Zenon, <1>1, <1>3, FailWears DEF ReadyFailed, TransportClosed
<1>4. CASE FailAfterEof \/ (H3Ready /\ FailAll(conn, waiting, Top.c, stack))
  <2>1. stack # <<>> /\ Top.op \in {"failall", "loop"} /\ \E t : FailAll(conn, waiting, Top.c, t)
    BY Zenon, <1>4 DEF FailAfterEof, H3Ready, At, Top
  <2>2. Top.c \in Conns
    BY <1>2, <2>1 DEF FrameOK, ConnOps
  <2>3. QED
    BY Zenon, <1>1, <2>1, <2>2, FailWears
<1>5. CASE LoopError
  <2>1. PICK c, t : c = Top.c /\ t = Below
    OBVIOUS
  <2>2. stack # <<>> /\ Top.op = "loop"
    BY Zenon, <1>5 DEF LoopError, At, Top
  <2>3. c \in Conns
    BY <1>2, <2>1, <2>2 DEF FrameOK, ConnOps
  <2>4. PICK base : base = [conn EXCEPT ![c].inRecv = FALSE]
    BY Zenon
  <2>5. base = [conn EXCEPT ![c] = [conn[c] EXCEPT !.inRecv = FALSE]] /\ conn[c] \in ConnState
    BY Zenon, <1>1, <2>3, <2>4 DEF TypeOK
  <2>6. PICK x : x = [conn[c] EXCEPT !.inRecv = FALSE]
    BY Zenon
  <2>7. /\ x \in ConnState /\ x.st = conn[c].st /\ x.key = conn[c].key
        /\ x.broken = conn[c].broken /\ x.open = conn[c].open
    BY ZenonT(20), <2>5, <2>6 DEF ConnState
  <2>8. base \in [Conns -> ConnState] /\ \A d \in Conns : base[d] = IF d = c THEN x ELSE conn[d]
    BY Zenon, <1>1, <2>5, <2>6, <2>7 DEF TypeOK
  <2>9. \A d \in Conns : /\ base[d].st = conn[d].st /\ base[d].key = conn[d].key
                         /\ base[d].broken = conn[d].broken /\ base[d].open = conn[d].open
    BY Zenon, <2>7, <2>8
  <2>10. FailAll(base, waiting, c, t)
    BY Zenon, <1>5, <2>1, <2>4 DEF LoopError
  <2>11. QED
    BY Zenon, <1>1, <2>3, <2>8, <2>9, <2>10, FailAllWears DEF TypeOK
<1>6. QED
  BY Zenon, <1>3, <1>4, <1>5

\* pool_req_timeout, second half.
LEMMA TimeoutWorn == ASSUME IInv, TimeoutTail PROVE AllWorn
<1>1. PICK f, c : f = Top /\ c = f.c
  OBVIOUS
<1>2. FrameOK(waiting, f) /\ f.op = "timeout" /\ f \in Frame
  BY Zenon, <1>1, PopTop DEF TimeoutTail, At, Top, Popped
<1>3. TypeOK /\ Core(waiting)
  BY DEF IInv, Sound, Core
<1>4. PICK r :
        \/ /\ conn' = conn
           /\ \/ c # None /\ active' = ActiveRemove(c, r) /\ UNCHANGED waiting
              \/ /\ waiting' = [d \in Conns |-> IF d = c THEN Unlink(waiting[d], r) ELSE waiting[d]]
                 /\ UNCHANGED active
        \/ c # None /\ \E t : FailAll(conn, waiting, c, t)
  <2>1. PICK r \in f.rs :
          \/ /\ rst' = [rst EXCEPT ![r] = "done"]
             /\ fault' = (fault \/ pc[r] = Freed \/ rst[r] # "live")
             /\ IF c # None /\ r \in active[c]
                THEN /\ active' = ActiveRemove(c, r)
                     /\ inflight' = [inflight EXCEPT ![c] = IF @ > 0 THEN @ - 1 ELSE 0]
                     /\ UNCHANGED waiting
                ELSE /\ waiting' = [d \in Conns |-> IF d = c THEN Unlink(waiting[d], r) ELSE waiting[d]]
                     /\ UNCHANGED <<active, inflight>>
             /\ UNCHANGED <<conn, owed, pc, sweep>>
          \/ c # None /\ FailAll(conn, waiting, c, Below)
    BY Zenon, <1>1 DEF TimeoutTail
  <2>2. QED
    BY Zenon, <2>1
<1>5. c # None => c \in Conns
  BY <1>1, <1>2 DEF Frame
<1>6. CASE c # None /\ \E t : FailAll(conn, waiting, c, t)
  BY Zenon, <1>3, <1>5, <1>6, FailWears
<1>7. CASE conn' = conn /\ c # None /\ active' = ActiveRemove(c, r) /\ UNCHANGED waiting
  <2>1. \A d \in Conns : active'[d] \subseteq active[d]
    BY <1>3, <1>5, <1>7 DEF ActiveRemove, TypeOK
  <2>2. Lighter /\ \A d \in Conns : Wears(conn'[d], d)
    BY Zenon, <1>7, <2>1, SameWears DEF Lighter
  <2>3. QED
    BY <2>2, LighterWears
<1>8. CASE /\ conn' = conn /\ UNCHANGED active
           /\ waiting' = [d \in Conns |-> IF d = c THEN Unlink(waiting[d], r) ELSE waiting[d]]
  <2>1. ASSUME NEW d \in Conns PROVE Range(waiting'[d]) \subseteq Range(waiting[d])
    <3>1. waiting[d] \in Seq(Reqs) /\ IsInjective(waiting[d])
      BY Zenon, <1>3 DEF TypeOK, Core, ListsOK
    <3>2. Range(Unlink(waiting[d], r)) = Range(waiting[d]) \ {r}
      BY Zenon, <3>1, QueueUnlink
    <3>3. waiting'[d] = waiting[d] \/ waiting'[d] = Unlink(waiting[d], r)
      BY Zenon, <1>8
    <3>4. QED
      BY Zenon, <3>2, <3>3
  <2>2. Lighter /\ \A d \in Conns : Wears(conn'[d], d)
    BY Zenon, <1>8, <2>1, SameWears DEF Lighter
  <2>3. QED
    BY <2>2, LighterWears
<1>9. QED
  BY Zenon, <1>4, <1>6, <1>7, <1>8

\* The queue of a conn leaves the pool.
LEMMA FallbackWorn == ASSUME IInv, NEW c \in Conns, FallbackLegacy(c) PROVE AllWorn
<1>1. TypeOK /\ waiting' = [waiting EXCEPT ![c] = <<>>] /\ UNCHANGED <<conn, active>>
  BY Zenon DEF IInv, Sound, Core, FallbackLegacy
<1>2. \A d \in Conns : waiting'[d] = waiting[d] \/ waiting'[d] = <<>>
  BY <1>1 DEF TypeOK
<1>3. Lighter /\ \A d \in Conns : Wears(conn'[d], d)
  BY Zenon, <1>1, <1>2, QueueEmpty, SameWears DEF Lighter
<1>4. QED
  BY <1>3, LighterWears

\* pool_close_conn at the end of pool_update_idle, in pool_drain and in pool_sweep_cb.
LEMMA ClosingWorn ==
  ASSUME IInv, CloseDrained \/ PoolDrain \/ \E due \in SUBSET Conns : SweepExpired(due)
  PROVE  AllWorn
<1>1. TypeOK /\ conn \in [Conns -> ConnState]
  BY DEF IInv, Sound, Core, TypeOK
<1>2. \A c \in Conns : Wears(conn[c], c)
  BY Zenon, SameWears
<1>3. PICK conns, timer : Released(conns, timer) /\ (conns = conn \/ \E cs : conns = Closed(conn, cs))
  BY Zenon DEF CloseDrained, PoolDrain, SweepExpired
<1>4. \A c \in Conns : Wears(conns[c], c)
  BY Zenon, <1>1, <1>2, <1>3, ClosedWears
<1>5. QED
  BY Zenon, <1>1, <1>3, <1>4, ReleasedWears

\* pool_conn_fallback_legacy breaks the conn it closes.
LEMMA FallbackEndWorn == ASSUME IInv, FallbackEnd PROVE AllWorn
<1>1. TypeOK /\ conn \in [Conns -> ConnState]
  BY DEF IInv, Sound, Core, TypeOK
<1>2. PICK c, base, timer : /\ c = Top.c /\ base = [conn EXCEPT ![c].broken = TRUE]
                            /\ Released(Closed(base, {c}), timer)
  BY Zenon DEF FallbackEnd
<1>3. c \in Conns
  <2>1. FrameOK(waiting, Top) /\ Top.op = "fallback"
    BY Zenon, PopTop DEF FallbackEnd, At, Top, Popped
  <2>2. QED
    BY <1>2, <2>1 DEF FrameOK, ConnOps
<1>4. PICK x : x = [conn[c] EXCEPT !.broken = TRUE]
  OBVIOUS
<1>5. conn[c] \in ConnState /\ base = [conn EXCEPT ![c] = x]
  BY Zenon, <1>1, <1>2, <1>3, <1>4
<1>6. x \in ConnState /\ x.st = conn[c].st
  BY ZenonT(20), <1>4, <1>5 DEF ConnState
<1>7. base \in [Conns -> ConnState] /\ \A d \in Conns : base[d] = IF d = c THEN x ELSE conn[d]
  BY Zenon, <1>1, <1>5, <1>6
<1>8. /\ \A d \in Conns : base[d].st = conn[d].st
      /\ \A d \in Conns \ {c} : Wears(base[d], d)
  BY Zenon, <1>6, <1>7, SameWears
<1>9. \A d \in Conns : Wears(Closed(base, {c})[d], d)
  BY Zenon, <1>1, <1>7, <1>8, ClosedWears
<1>10. QED
  BY Zenon, <1>1, <1>2, <1>9, ReleasedWears

\* pool_evict_all breaks every conn and closes those with nothing in flight, which
\* the ones still handshaking are.
LEMMA EvictAllWorn == ASSUME Counting, IInv, Young, EvictAll PROVE AllWorn
<1>1. TypeOK /\ CapacityRespected /\ ConnOK
  BY DEF IInv, Sound, Core
<1>2. PICK cs : cs = {c \in Conns : inflight[c] = 0}
  BY ZenonT(20)
<1>3. PICK base, timer :
        /\ base = [c \in Conns |-> IF Live(c) THEN [conn[c] EXCEPT !.broken = TRUE] ELSE conn[c]]
        /\ Released(Closed(base, cs), timer)
  BY Zenon, <1>2 DEF EvictAll
<1>4. ASSUME NEW c \in Conns
      PROVE  /\ base[c] \in ConnState /\ base[c].st = conn[c].st /\ base[c].key = conn[c].key
             /\ base[c].open = conn[c].open /\ (Live(c) => base[c].broken)
             /\ ~Live(c) => base[c] = conn[c]
  <2>1. conn[c] \in ConnState
    BY <1>1 DEF TypeOK
  <2>2. PICK x : x = [conn[c] EXCEPT !.broken = TRUE]
    BY Zenon
  <2>3. x \in ConnState /\ x.st = conn[c].st /\ x.key = conn[c].key /\ x.open = conn[c].open /\ x.broken
    BY Zenon, <2>1, <2>2 DEF ConnState
  <2>4. base[c] = IF Live(c) THEN x ELSE conn[c]
    BY <1>3, <2>2
  <2>5. QED
    BY <2>1, <2>3, <2>4
<1>5. base \in [Conns -> ConnState]
  <2>1. base = [c \in Conns |-> base[c]]
    BY <1>3
  <2>2. QED
    BY <1>4, <2>1
<1>6. ASSUME NEW c \in Conns \ cs
      PROVE  Wears(base[c], c)
  <2>1. inflight[c] # 0
    BY <1>2
  <2>2. conn[c].st # "Handshaking"
    <3>1. active[c] = {} => inflight[c] = 0
      BY Zenon, <1>1 DEF CapacityRespected, Counting
    <3>2. QED
      BY <2>1, <3>1 DEF Young
  <2>3. QED
    BY <1>4, <2>2 DEF Wears, Live
<1>7. \A c \in Conns : Wears(Closed(base, cs)[c], c)
  BY Zenon, <1>1, <1>4, <1>5, <1>6, ClosedWears
<1>8. QED
  BY Zenon, <1>1, <1>3, <1>7, ReleasedWears

\* The close callback releases the conn.
LEMMA FullyClosedWorn == ASSUME IInv, NEW c \in Conns, FullyClosed(c) PROVE AllWorn
<1>1. TypeOK
  BY DEF IInv, Sound, Core
<1>2. PICK conns, timer : conns = [conn EXCEPT ![c] = NoConn] /\ Released(conns, timer)
  BY Zenon DEF FullyClosed
<1>3. \A d \in Conns : conns[d] = IF d = c THEN NoConn ELSE conn[d]
  BY Zenon, <1>1, <1>2 DEF TypeOK
<1>4. Wears(NoConn, c) /\ \A d \in Conns : Wears(conn[d], d)
  BY GoneWears, SameWears DEF NoConn
<1>5. \A d \in Conns : Wears(conns[d], d)
  BY Zenon, <1>3, <1>4
<1>6. QED
  BY Zenon, <1>1, <1>2, <1>5, ReleasedWears

\* Every step ages the conns or opens one.
LEMMA NextAges == ASSUME Counting, IInv, Young, [Next]_vars PROVE Ages
<1>1. CASE UNCHANGED vars
  BY Zenon, <1>1, StillWorn DEF Ages, vars, lists
<1>2. CASE Handler
  <2>1. CASE \/ CallbackReturn \/ RetryOrFail \/ FallbackNext \/ StrayBytes
             \/ \E r \in Reqs : H3ResetIgnored(r)
    BY Zenon, <2>1, StillWorn DEF Ages, lists, CallbackReturn, RetryOrFail, FallbackNext, StrayBytes, H3ResetIgnored
  <2>2. CASE ReqDone \/ FlushWaiting \/ UpdateIdle \/ LateBooking
    BY Zenon, <2>2, ReqDoneWorn, FlushWorn, UpdateIdleWorn, LateBookingWorn DEF Ages
  <2>3. CASE CloseDrained \/ FallbackEnd \/ TimeoutTail \/ LoopError \/ FailAfterEof
    BY Zenon, <2>3, ClosingWorn, FallbackEndWorn, TimeoutWorn, FailingWorn DEF Ages
  <2>4. CASE GoAway \/ LoopEnd \/ DrainStart
    <3>1. UNCHANGED <<active, waiting>>
      BY Zenon, <2>4 DEF GoAway, LoopEnd, DrainStart, lists
    <3>2. QED
      BY Zenon, <2>4, <3>1, LoopStepWorn DEF Ages
  <2>5. CASE H3Ready
    <3>1. \/ conn' = [conn EXCEPT ![Top.c].st = "Ready"] /\ UNCHANGED <<active, waiting>>
          \/ FailAll(conn, waiting, Top.c, stack)
      BY Zenon, <2>5 DEF H3Ready, lists
    <3>2. QED
      BY Zenon, <2>5, <3>1, LoopStepWorn, FailingWorn DEF Ages
  <2>6. CASE \E r \in Reqs : Receive(r)
    <3>1. PICK r, keeps : stack # <<>> /\ Top.op = "loop" /\ OnResponse(Top.c, r, keeps, stack)
      BY Zenon, <2>6 DEF Receive, At, Top
    <3>2. FrameOK(waiting, Top) /\ TypeOK
      BY Zenon, <3>1, PopTop DEF Popped, IInv, Sound, Core
    <3>3. Top.c \in Conns
      BY <3>1, <3>2 DEF FrameOK, ConnOps
    <3>4. QED
      BY Zenon, <3>1, <3>2, <3>3, ResponseWorn DEF Ages
  <2>7. QED
    BY Zenon, <1>2, <2>1, <2>2, <2>3, <2>4, <2>5, <2>6, AcquireAges DEF Handler
<1>3. CASE App
  <2>1. CASE \E r \in Reqs : Dispatch(r)
    BY Zenon, <2>1, StillWorn DEF Ages, lists, Dispatch
  <2>2. QED
    BY Zenon, <1>3, <2>1, EvictAllWorn, ClosingWorn DEF App, Ages
<1>4. CASE Event
  <2>1. CASE SweepTimerClosed \/ \E r \in Reqs : ReqTimeout(r)
    BY Zenon, <2>1, StillWorn DEF Ages, lists, SweepTimerClosed, ReqTimeout
  <2>2. CASE \E c \in Conns : \E r \in Reqs : H1Eof(c, r)
    <3>1. PICK c \in Conns, r \in Reqs : H1Eof(c, r)
      BY <2>2
    <3>2. PICK keeps, t : OnResponse(c, r, keeps, t)
      BY Zenon, <3>1 DEF H1Eof
    <3>3. TypeOK
      BY DEF IInv, Sound, Core
    <3>4. QED
      BY Zenon, <3>2, <3>3, ResponseWorn DEF Ages
  <2>3. ASSUME NEW c \in Conns,
               \/ Resolved(c) \/ TcpReady(c) \/ ReadyFailed(c) \/ FallbackLegacy(c)
               \/ Readable(c) \/ FullyClosed(c) \/ TransportClosed(c)
        PROVE  Ages
    BY Zenon, <2>3, EventWorn, FailingWorn, FallbackWorn, FullyClosedWorn DEF Ages
  <2>4. QED
    BY Zenon, <1>4, <2>1, <2>2, <2>3, ClosingWorn DEF Event, Ages
<1>5. QED
  BY Zenon, <1>1, <1>2, <1>3, <1>4 DEF Next

\* So conns stay young while they shake hands.
LEMMA YoungStays == ASSUME Counting, IInv, Young, Ages PROVE Young'
<1>1. ASSUME NEW c \in Conns, Worn(c), conn'[c].st = "Handshaking"
      PROVE  active'[c] = {} /\ (conn'[c].broken => conn'[c].open)
  BY <1>1 DEF Worn, Wears, Lightens, Young
<1>2. CASE AllWorn
  BY Zenon, <1>1, <1>2 DEF AllWorn, Young
<1>3. ASSUME NEW r \in Reqs, NEW o \in Conns, Opens(o, r) PROVE Young'
  <2>1. active[o] = {}
    <3>1. Core(waiting) /\ conn[o].st = "Free"
      BY Zenon, <1>3 DEF IInv, Sound, Opens
    <3>2. QED
      BY Zenon, <3>1, FreeIsEmpty
  <2>2. conn'[o].st = "Handshaking" => active'[o] = {} /\ ~conn'[o].broken
    BY Zenon, <1>3, <2>1 DEF Opens
  <2>3. QED
    BY <1>1, <1>3, <2>2 DEF Opens, Young
<1>4. QED
  BY Zenon, <1>2, <1>3 DEF Ages
===============================================================================
