---------------------------- MODULE ConnPoolMoves -----------------------------
(* Requests on the move: put on a list, sent, failed or sent round again       *)
(* (pool_submit, pool_req_retry_or_fail), one by one or all those of a failing *)
(* conn (pool_conn_fail_all); then what the handlers do with a request in hand *)
(* (pool_submit, pool_conn_open, pool_acquire), and the actions made of these. *)
EXTENDS ConnPoolLemmas

-----------------------------------------------------------------------------
(* Putting it on a list; failing it; sending it round again.                  *)

\* From the queues w, r is added to a list of conn c.
PutOn(c, r, w) ==
  /\ \A d \in Conns : ListedIn(waiting, d)' = ListedIn(w, d) \cup (IF d = c THEN {r} ELSE {})
  /\ \A d \in Conns : active'[d] \cap Range(waiting'[d]) = {} /\ IsInjective(waiting'[d])
  /\ pc' = [pc EXCEPT ![r] = c] /\ rst' = rst /\ responded' = responded /\ Steady

\* A request in hand goes on a list of conn c.
LEMMA ListOn ==
  ASSUME NEW r, NEW w, NEW t, NEW c \in Conns,
         Loose(r, w, t), ~responded[r], conn[c].key = Key[r], PutOn(c, r, w)
  PROVE  ListsOK(waiting)' /\ Frames(waiting, t)' /\ Owing(t)'
<1>1. /\ r \in Reqs /\ rst[r] = "live" /\ r \notin HeldIn(t) /\ Frames(w, t)
      /\ \A d \in Conns : r \notin ListedIn(w, d)
      /\ pc \in [Reqs -> Conns \cup {None, Freed}] /\ ListsOK(w)
  BY DEF Loose, Sound, Core, TypeOK
<1>2. \A q : q # r => \A d \in Conns : q \in ListedIn(waiting, d)' => q \in ListedIn(w, d)
  BY DEF PutOn
<1>3. Undisturbed(w, t)
  BY <1>1, <1>2 DEF Undisturbed, Steady, PutOn
<1>4. Frames(waiting, t)'
  BY <1>1, <1>3, FramesStay
<1>5. ASSUME NEW d \in Conns, NEW q \in ListedIn(waiting, d)'
      PROVE  rst'[q] = "live" /\ pc'[q] = d /\ conn'[d].key = Key[q]
  <2>1. CASE q = r
    <3>1. d = c
      BY <1>1, <2>1, <1>5 DEF PutOn
    <3>2. QED
      BY <1>1, <2>1, <3>1 DEF Steady, PutOn
  <2>2. CASE q # r
    <3>1. q \in ListedIn(w, d)
      BY <1>2, <1>5, <2>2
    <3>2. rst[q] = "live" /\ pc[q] = d /\ conn[d].key = Key[q]
      BY <1>1, <3>1 DEF ListsOK
    <3>3. QED
      BY <1>1, <2>2, <3>2 DEF Steady, PutOn
  <2>3. QED
    BY <2>1, <2>2
<1>6. ListsOK(waiting)'
  BY <1>5 DEF ListsOK, PutOn
<1>7. Owing(t)'
  BY DEF Owing, Loose, PutOn
<1>8. QED
  BY <1>4, <1>6, <1>7

\* pool_waiting_push of a request in hand.
LEMMA ParkStep ==
  ASSUME NEW r, NEW w, NEW t, NEW c \in Conns,
         Loose(r, w, t), ~responded[r], conn[c].key = Key[r], Park(c, r, w, t)
  PROVE  IInv'
<1>1. /\ TypeOK /\ ConnOK /\ Counted /\ CapacityRespected /\ r \in Reqs
      /\ w \in [Conns -> Seq(Reqs)] /\ ListsOK(w) /\ t \in Seq(Frame)
      /\ \A d \in Conns : r \notin ListedIn(w, d)
  BY DEF Loose, Sound, Core, Frames
<1>2. /\ waiting' = [w EXCEPT ![c] = Append(@, r)] /\ pc' = [pc EXCEPT ![r] = c] /\ stack' = t
      /\ UNCHANGED <<conn, inflight, active, owed, rst, retries, responded, calls, by, strm,
                     sweep, fault>>
  BY DEF Park, answers, delivery
<1>3. w[c] \in Seq(Reqs) /\ r \notin Range(w[c]) /\ IsInjective(w[c])
  BY <1>1 DEF ListsOK, ListedIn
<1>4. /\ Append(w[c], r) \in Seq(Reqs) /\ Range(Append(w[c], r)) = Range(w[c]) \cup {r}
      /\ IsInjective(Append(w[c], r))
  BY <1>1, <1>3, QueuePush
<1>5. /\ waiting' \in [Conns -> Seq(Reqs)] /\ waiting'[c] = Append(w[c], r)
      /\ \A d \in Conns : d # c => waiting'[d] = w[d]
  BY <1>1, <1>2, <1>4
<1>6. TypeOK'
  BY <1>1, <1>2, <1>5 DEF TypeOK
<1>7. \A d \in Conns : ListedIn(waiting, d)' = ListedIn(w, d) \cup (IF d = c THEN {r} ELSE {})
  BY <1>2, <1>4, <1>5 DEF ListedIn
<1>8. ASSUME NEW d \in Conns
      PROVE  active'[d] \cap Range(waiting'[d]) = {} /\ IsInjective(waiting'[d])
  <2>1. active[d] \cap Range(w[d]) = {} /\ IsInjective(w[d]) /\ r \notin active[d]
    BY <1>1 DEF ListsOK, ListedIn
  <2>2. CASE d = c
    BY <1>2, <1>4, <1>5, <2>1, <2>2
  <2>3. CASE d # c
    BY <1>2, <1>5, <2>1, <2>3
  <2>4. QED
    BY <2>2, <2>3
<1>9. Steady
  BY <1>2 DEF Steady
<1>10. ConnOK' /\ CapacityRespected' /\ Counted'
  BY <1>1, <1>2, <1>9, SteadyConns DEF Counted
<1>11. PutOn(c, r, w)
  BY ZenonT(30), <1>2, <1>7, <1>8, <1>9 DEF PutOn
<1>12. QED
  BY Zenon, <1>2, <1>6, <1>10, <1>11, ListOn, Assemble

\* A request in hand is sent on conn c (pool_after_submit).
LEMMA SubmitStep ==
  ASSUME Counting, NEW r, NEW w, NEW t, NEW c \in Conns,
         Loose(r, w, t), ~responded[r], conn[c].key = Key[r],
         Live(c) /\ Proto(c) = "H1" => inflight[c] < 1,
         Live(c) /\ Proto(c) = "H3" => inflight[c] < H3Max,
         AfterSubmit(c, r, t), pc' = [pc EXCEPT ![r] = c], waiting' = w,
         UNCHANGED <<rst, retries, sweep, fault>>
  PROVE  IInv'
<1>1. /\ TypeOK /\ ConnOK /\ Counted /\ CapacityRespected /\ r \in Reqs
      /\ w \in [Conns -> Seq(Reqs)] /\ ListsOK(w) /\ t \in Seq(Frame)
      /\ \A d \in Conns : r \notin ListedIn(w, d)
  BY DEF Loose, Sound, Core, Frames
<1>2. /\ inflight' = [inflight EXCEPT ![c] = @ + 1]
      /\ active' = [active EXCEPT ![c] = @ \cup {r}]
      /\ stack' = t /\ UNCHANGED <<responded, calls, by>>
  BY DEF AfterSubmit, delivery
<1>3. conn' \in [Conns -> ConnState] /\ Steady
  <2>1. conn' = [conn EXCEPT ![c].idle = IF inflight[c] = 0 THEN FALSE ELSE @]
    BY DEF AfterSubmit, Ref
  <2>2. PICK b \in BOOLEAN : conn' = [conn EXCEPT ![c].idle = b]
    BY ZenonT(30), <1>1, <2>1 DEF TypeOK, ConnState
  <2>3. conn \in [Conns -> ConnState] /\ [conn[c] EXCEPT !.idle = b] \in ConnState
    BY ZenonT(30), <1>1, FlagSet DEF TypeOK
  <2>4. conn' \in [Conns -> ConnState]
    BY <2>2, <2>3
  <2>5. Steady
    BY <2>2, <2>3 DEF Steady, ConnState
  <2>6. QED
    BY <2>4, <2>5
<1>4. owed' \in [Conns -> Seq(Reqs)]
  <2>1. owed \in [Conns -> Seq(Reqs)] /\ Append(owed[c], r) \in Seq(Reqs)
    BY <1>1, QueuePush DEF TypeOK
  <2>2. QED
    BY <2>1 DEF AfterSubmit
<1>5. strm' \in [Reqs -> {"new", "fin", "dead"}]
  BY <1>1 DEF AfterSubmit, TypeOK
<1>6. /\ active \in [Conns -> SUBSET Reqs] /\ inflight \in [Conns -> Nat]
      /\ active' \in [Conns -> SUBSET Reqs] /\ inflight' \in [Conns -> Nat]
  BY <1>1, <1>2 DEF TypeOK
<1>7. TypeOK'
  BY ZenonT(30), <1>1, <1>2, <1>3, <1>4, <1>5, <1>6 DEF TypeOK
<1>8. \A d \in Conns : ListedIn(waiting, d)' = ListedIn(w, d) \cup (IF d = c THEN {r} ELSE {})
  BY <1>2, <1>6 DEF ListedIn
<1>9. ASSUME NEW d \in Conns
      PROVE  active'[d] \cap Range(waiting'[d]) = {} /\ IsInjective(waiting'[d])
  BY <1>1, <1>2, <1>6 DEF ListsOK, ListedIn
<1>10. PutOn(c, r, w)
  BY Zenon, <1>2, <1>3, <1>8, <1>9 DEF PutOn
<1>11. ConnOK' /\ Counted'
  BY Zenon, <1>1, <1>2, <1>3, SteadyConns DEF Counted
<1>12. ASSUME NEW d \in Conns
       PROVE  /\ inflight'[d] = Cardinality(active'[d])
              /\ (Live(d) /\ Proto(d) = "H1")' => inflight'[d] <= 1
              /\ (Live(d) /\ Proto(d) = "H3")' => inflight'[d] <= H3Max
  <2>1. /\ inflight[d] = Cardinality(active[d]) /\ inflight[d] \in Nat
        /\ Live(d)' <=> Live(d) /\ Proto(d)' = Proto(d)
        /\ Live(d) /\ Proto(d) = "H1" => inflight[d] <= 1
        /\ Live(d) /\ Proto(d) = "H3" => inflight[d] <= H3Max
    BY Zenon, <1>1, <1>3, <1>6 DEF CapacityRespected, Steady, Live, Proto
  <2>2. CASE d # c
    BY Zenon, <1>2, <1>6, <2>1, <2>2
  <2>3. CASE d = c
    <3>1. active[c] \in SUBSET Reqs /\ r \in Reqs \ active[c]
      BY Zenon, <1>1, <1>6 DEF ListedIn
    <3>2. Cardinality(active[c] \cup {r}) = Cardinality(active[c]) + 1
      BY <3>1 DEF Counting
    <3>3. inflight'[d] = inflight[d] + 1 /\ active'[d] = active[c] \cup {r}
      BY <1>2, <1>6, <2>3
    <3>4. H3Max \in Nat
      BY BoundAssumption
    <3>5. QED
      BY <2>1, <2>3, <3>2, <3>3, <3>4
  <2>4. QED
    BY Zenon, <2>2, <2>3
<1>13. CapacityRespected'
  BY Zenon, <1>12 DEF CapacityRespected
<1>14. QED
  BY Zenon, <1>2, <1>7, <1>10, <1>11, <1>13, ListOn, Assemble

\* A request in hand is failed (pool_req_fail).
LEMMA FailStep ==
  ASSUME NEW r, NEW w, NEW t, Loose(r, w, t), ReqFail(r, t), waiting' = w,
         UNCHANGED <<conn, inflight, active, owed, rst, retries, sweep, fault>>,
         pc' \in [Reqs -> Conns \cup {None, Freed}], \A q \in Reqs : q # r => pc'[q] = pc[q]
  PROVE  IInv'
<1>1. /\ TypeOK /\ ConnOK /\ Counted /\ CapacityRespected /\ r \in Reqs /\ rst[r] = "live"
      /\ w \in [Conns -> Seq(Reqs)] /\ ListsOK(w) /\ t \in Seq(Frame)
      /\ r \notin HeldIn(t) /\ \A d \in Conns : r \notin ListedIn(w, d)
      /\ Frames(w, t)
  BY DEF Loose, Sound, Core, Frames
<1>2. /\ responded \in [Reqs -> BOOLEAN] /\ calls \in [Reqs -> Nat]
      /\ responded' = [responded EXCEPT ![r] = TRUE] /\ by' = by /\ strm' = strm
      /\ calls' = [calls EXCEPT ![r] = IF responded[r] THEN @ ELSE @ + 1]
  BY <1>1 DEF ReqFail, TypeOK
<1>3. \A d : ListedIn(waiting, d)' = ListedIn(w, d)
  BY DEF ListedIn
<1>4. Frames(waiting, t)'
  <2>1. Undisturbed(w, t)
    <3>1. \A q \in Reqs : responded[q] => responded'[q]
      BY <1>2
    <3>2. \A q \in HeldIn(t) : responded'[q] = responded[q]
      <4>1. HeldIn(t) \subseteq Reqs
        BY Zenon, <1>1, HeldReqs
      <4>2. QED
        BY ZenonT(30), <1>1, <1>2, <4>1
    <3>3. QED
      BY <1>3, <3>1, <3>2 DEF Undisturbed
  <2>2. QED
    BY <1>1, <2>1, FramesStay
<1> DEFINE f == F("done", None, {r})
           g == F("cb", None, {r})
<1>5. /\ f \in Frame /\ Hold(f) = {r} /\ Tears(f) = {r} /\ f.op \in Nested
      /\ f.op # "timeout" /\ f.op = "done" /\ f.rs = {r}
      /\ g \in Frame /\ Hold(g) = {} /\ Tears(g) = {} /\ g.op \in Nested
      /\ g.op # "timeout" /\ g.op = "cb"
  BY <1>1 DEF F, Frame, Ops, Hold, Tears, Nested
<1>6. stack' = Cons(f, t) \/ stack' = Cons(g, Cons(f, t))
  BY Zenon DEF ReqFail
<1> HIDE DEF f, g
<1>7. Fits(waiting, f, t)'
  BY <1>1, <1>2, <1>3, <1>5 DEF Fits, FrameOK, ConnOps
<1>8. Frames(waiting, Cons(f, t))'
  BY Zenon, <1>4, <1>7, PushFrame
<1>9. Fits(waiting, g, Cons(f, t))'
  BY <1>5 DEF Fits, FrameOK, ConnOps
<1>10. Frames(waiting, Cons(g, Cons(f, t)))'
  BY <1>8, <1>9, PushFrame
<1>11. Cons(f, t) \in Seq(Frame) /\ Torn(Cons(f, t)) = {r} \cup Torn(t)
  BY ZenonT(30), <1>1, <1>5, ConsStack, ConsTorn
<1>12. Torn(Cons(g, Cons(f, t))) = {r} \cup Torn(t)
  BY <1>5, <1>11, ConsTorn
<1>13. \A q \in Reqs : rst'[q] = "live" /\ responded'[q] => q \in {r} \cup Torn(t)
  BY Zenon, <1>2 DEF Loose
<1>14. Owing(stack)' /\ Frames(waiting, stack)'
  BY Zenon, <1>6, <1>8, <1>10, <1>11, <1>12, <1>13 DEF Owing
<1>15. TypeOK'
  <2>1. stack' \in Seq(Frame)
    BY <1>14 DEF Frames
  <2>2. responded' \in [Reqs -> BOOLEAN]
    BY ZenonT(30), <1>2
  <2>3. calls' \in [Reqs -> Nat]
    <3>1. calls[r] \in Nat /\ calls[r] + 1 \in Nat
      BY <1>1, <1>2
    <3>2. QED
      BY ZenonT(30), <1>1, <1>2, <3>1
  <2>4. QED
    BY <1>1, <1>2, <2>1, <2>2, <2>3 DEF TypeOK
<1>16. Counted'
  BY <1>1, <1>2 DEF Counted
<1>17. ConnOK' /\ CapacityRespected'
  <2>1. Steady
    BY Zenon DEF Steady
  <2>2. QED
    BY Zenon, <1>1, <2>1, SteadyConns
<1>18. ListsOK(waiting)'
  <2> SUFFICES ASSUME NEW d \in Conns
               PROVE  /\ \A q \in ListedIn(waiting, d)' :
                           rst'[q] = "live" /\ pc'[q] = d /\ conn'[d].key = Key[q]
                      /\ active'[d] \cap Range(waiting'[d]) = {} /\ IsInjective(waiting'[d])
    BY Zenon DEF ListsOK
  <2>1. \A q \in ListedIn(w, d) : q \in Reqs /\ q # r
    BY Zenon, <1>1, ListedReqs
  <2>2. /\ active'[d] = active[d] /\ waiting'[d] = w[d] /\ conn'[d].key = conn[d].key
        /\ \A q \in ListedIn(w, d) : rst'[q] = rst[q] /\ pc'[q] = pc[q]
    BY Zenon, <2>1
  <2>3. QED
    BY Zenon, <1>1, <2>2, ListStays
<1>19. QED
  BY Zenon, <1>14, <1>15, <1>16, <1>17, <1>18 DEF IInv, Sound, Core, TypeOK

\* A request in hand goes to a frame of its own, to be acquired or retried.
LEMMA AgainStep ==
  ASSUME NEW r, NEW w, NEW t, NEW op \in {"acquire", "retry"}, Loose(r, w, t),
         op = "acquire" => ~responded[r], stack' = Cons(F(op, None, {r}), t), waiting' = w,
         UNCHANGED <<conn, inflight, active, owed, rst, answers, sweep, fault>>,
         retries' \in [Reqs -> 0 .. MaxRetries],
         pc' \in [Reqs -> Conns \cup {None, Freed}], \A q \in Reqs : q # r => pc'[q] = pc[q]
  PROVE  IInv'
<1>1. /\ TypeOK /\ ConnOK /\ Counted /\ CapacityRespected /\ r \in Reqs /\ rst[r] = "live"
      /\ w \in [Conns -> Seq(Reqs)] /\ ListsOK(w) /\ t \in Seq(Frame)
      /\ r \notin HeldIn(t) /\ \A d \in Conns : r \notin ListedIn(w, d)
      /\ Frames(w, t)
  BY Zenon DEF Loose, Sound, Core, Frames
<1>2. UNCHANGED <<responded, calls, by, strm>>
  BY Zenon DEF answers, delivery
<1>3. \A d : ListedIn(waiting, d)' = ListedIn(w, d)
  BY Zenon DEF ListedIn
<1>4. Frames(waiting, t)'
  <2>1. Undisturbed(w, t)
    BY Zenon, <1>2, <1>3 DEF Undisturbed
  <2>2. QED
    BY Zenon, <1>1, <2>1, FramesStay
<1> DEFINE f == F(op, None, {r})
<1>5. /\ f \in Frame /\ Hold(f) = {r} /\ (op = "retry" => Tears(f) = {r}) /\ f.op \in Nested
      /\ f.op # "timeout" /\ f.op = op /\ f.rs = {r}
  BY <1>1 DEF F, Frame, Ops, Hold, Tears, Nested
<1> HIDE DEF f
<1>6. Fits(waiting, f, t)'
  BY ZenonT(30), <1>1, <1>2, <1>3, <1>5 DEF Fits, FrameOK, ConnOps
<1>7. Frames(waiting, Cons(f, t))'
  BY Zenon, <1>4, <1>6, PushFrame
<1>8. Torn(Cons(f, t)) = Tears(f) \cup Torn(t)
  BY Zenon, <1>1, <1>5, ConsTorn
<1>9. Owing(Cons(f, t))'
  BY Zenon, <1>2, <1>5, <1>8 DEF Owing, Loose
<1>10. TypeOK'
  <2>1. Cons(f, t) \in Seq(Frame)
    BY ZenonT(30), <1>7 DEF Frames
  <2>2. QED
    BY Zenon, <1>1, <1>2, <2>1 DEF TypeOK, f
<1>11. ConnOK' /\ CapacityRespected' /\ Counted'
  <2>1. Steady
    BY DEF Steady
  <2>2. QED
    BY Zenon, <1>1, <1>2, <2>1, SteadyConns DEF Counted
<1>12. ListsOK(waiting)'
  <2> SUFFICES ASSUME NEW d \in Conns
               PROVE  /\ \A q \in ListedIn(waiting, d)' :
                           rst'[q] = "live" /\ pc'[q] = d /\ conn'[d].key = Key[q]
                      /\ active'[d] \cap Range(waiting'[d]) = {} /\ IsInjective(waiting'[d])
    BY Zenon DEF ListsOK
  <2>1. \A q \in ListedIn(w, d) : q \in Reqs /\ q # r
    BY Zenon, <1>1, ListedReqs
  <2>2. /\ active'[d] = active[d] /\ waiting'[d] = w[d] /\ conn'[d].key = conn[d].key
        /\ \A q \in ListedIn(w, d) : rst'[q] = rst[q] /\ pc'[q] = pc[q]
    BY Zenon, <2>1
  <2>3. QED
    BY Zenon, <1>1, <2>2, ListStays
<1>13. QED
  BY ZenonT(30), <1>7, <1>9, <1>10, <1>11, <1>12, Assemble DEF f

-----------------------------------------------------------------------------
(* pool_conn_fail_all.                                                        *)

\* What pool_conn_fail_all does to a conn that was still in use, one by one.
Failed(w, c) ==
  /\ \A d \in Conns : d # c => conn'[d] = conn[d]
  /\ conn'[c].st = "Free" => conn'[c] = NoConn /\ ~conn[c].open
  /\ conn'[c].st # "Free" =>
       conn'[c].st = "Closing" /\ conn'[c].key = conn[c].key /\ conn'[c].open = conn[c].open
  /\ conn' \in [Conns -> ConnState]
  /\ inflight' = [inflight EXCEPT ![c] = 0]
  /\ active' = [active EXCEPT ![c] = {}]
  /\ waiting' = [w EXCEPT ![c] = <<>>]
  /\ owed' = [owed EXCEPT ![c] = <<>>]
  /\ pc' = [r \in Reqs |-> IF r \in ListedIn(w, c) THEN None ELSE pc[r]]
  /\ sweep' \in {"none", "stopped", "armed", "closing"}

\* That it does so.
LEMMA FailAllFailed ==
  ASSUME NEW w, NEW t, NEW c \in Conns, NEW b \in BOOLEAN, TypeOK, Live(c),
         FailAll([conn EXCEPT ![c].inRecv = b], w, c, t)
  PROVE  /\ Failed(w, c)
         /\ stack' = Push("retry", active[c], Push("retry", Range(w[c]), t))
<1> DEFINE k == [[conn[c] EXCEPT !.inRecv = b] EXCEPT !.broken = TRUE]
<1>1. conn \in [Conns -> ConnState] /\ conn[c] \in ConnState
  BY DEF TypeOK
<1>2. k \in ConnState /\ k.key = conn[c].key /\ k.open = conn[c].open
  BY Zenon, <1>1 DEF ConnState
<1>3. [k EXCEPT !.st = "Closing"] \in ConnState /\ NoConn \in ConnState /\ NoConn.st = "Free"
  BY Zenon, <1>2 DEF ConnState, NoConn
<1>4. conn' = Closed([[conn EXCEPT ![c].inRecv = b] EXCEPT ![c].broken = TRUE], {c})
  BY DEF FailAll
<1>5. [[conn EXCEPT ![c].inRecv = b] EXCEPT ![c].broken = TRUE] = [conn EXCEPT ![c] = k]
  BY ZenonT(30), <1>1
<1> HIDE DEF k
<1>6. conn' = [d \in Conns |-> IF d # c THEN conn[d]
                               ELSE IF conn[c].open THEN [k EXCEPT !.st = "Closing"] ELSE NoConn]
  BY <1>1, <1>4, <1>5 DEF Closed
<1>7. /\ conn' \in [Conns -> ConnState] /\ \A d \in Conns : d # c => conn'[d] = conn[d]
      /\ conn[c].open => conn'[c] = [k EXCEPT !.st = "Closing"]
      /\ ~conn[c].open => conn'[c] = NoConn
  BY <1>1, <1>3, <1>6
<1>8. sweep' \in {"none", "stopped", "armed", "closing"}
  BY DEF FailAll, SweepAfter, TypeOK
<1>9. /\ conn'[c].st = "Free" => conn'[c] = NoConn /\ ~conn[c].open
      /\ conn'[c].st # "Free" =>
           conn'[c].st = "Closing" /\ conn'[c].key = conn[c].key /\ conn'[c].open = conn[c].open
  BY <1>2, <1>3, <1>7 DEF ConnState
<1>10. QED
  BY Zenon, <1>7, <1>8, <1>9 DEF FailAll, Failed, ListedIn

\* What becomes of the lists.
LEMMA FailedLists ==
  ASSUME NEW w, NEW c \in Conns, Core(w), Failed(w, c)
  PROVE  /\ ListedIn(waiting, c)' = {} /\ waiting' \in [Conns -> Seq(Reqs)]
         /\ \A d \in Conns : d # c => ListedIn(waiting, d)' = ListedIn(w, d)
         /\ \A d \in Conns : active'[d] \cap Range(waiting'[d]) = {} /\ IsInjective(waiting'[d])
<1>1. /\ w \in [Conns -> Seq(Reqs)] /\ active \in [Conns -> SUBSET Reqs] /\ ListsOK(w)
      /\ waiting' = [w EXCEPT ![c] = <<>>] /\ active' = [active EXCEPT ![c] = {}]
  BY DEF Core, TypeOK, Failed
<1>2. Range(<<>>) = {} /\ IsInjective(<<>>) /\ <<>> \in Seq(Reqs)
  BY QueueEmpty
<1>3. /\ waiting' \in [Conns -> Seq(Reqs)] /\ waiting'[c] = <<>> /\ active'[c] = {}
      /\ \A d \in Conns : d # c => waiting'[d] = w[d] /\ active'[d] = active[d]
  BY <1>1, <1>2
<1>4. ListedIn(waiting, c)' = {}
  BY <1>2, <1>3 DEF ListedIn
<1>5. \A d \in Conns : d # c => ListedIn(waiting, d)' = ListedIn(w, d)
  BY <1>3 DEF ListedIn
<1>6. \A d \in Conns : active'[d] \cap Range(waiting'[d]) = {} /\ IsInjective(waiting'[d])
  BY <1>1, <1>2, <1>3 DEF ListsOK
<1>7. QED
  BY Zenon, <1>3, <1>4, <1>5, <1>6

\* The frames below do not notice.
LEMMA FailedUndisturbed ==
  ASSUME NEW w, NEW t, NEW c \in Conns, Core(w), Live(c), Failed(w, c),
         UNCHANGED <<rst, responded>>
  PROVE  Undisturbed(w, t)
<1>1. \A d \in Conns : \A q : q \in ListedIn(waiting, d)' => q \in ListedIn(w, d)
  BY FailedLists
<1>2. QED
  BY ZenonT(30), <1>1 DEF Undisturbed, Failed, Live

\* pool_conn_fail_all: the requests of both lists go to frames that retry them.
LEMMA FailedStep ==
  ASSUME Counting, NEW w, NEW t \in Seq(Frame), NEW c \in Conns, Core(w), Live(c), Failed(w, c),
         stack' = Push("retry", active[c], Push("retry", Range(w[c]), t)),
         UNCHANGED <<rst, retries, answers>>, fault' \in BOOLEAN,
         HeldOK(w, t), Apart(t), Bottom(t), FramesOK(waiting, t)',
         \A q \in Reqs : rst[q] = "live" /\ responded[q] => q \in Torn(t) \/ q \in ListedIn(w, c)
  PROVE  IInv'
<1>1. /\ TypeOK /\ ConnOK /\ Counted /\ CapacityRespected
      /\ w \in [Conns -> Seq(Reqs)] /\ ListsOK(w)
  BY Zenon DEF Core
<1>2. UNCHANGED <<responded, calls, by, strm>>
  BY DEF answers, delivery
<1>3. /\ ListedIn(waiting, c)' = {} /\ waiting' \in [Conns -> Seq(Reqs)]
      /\ \A d \in Conns : d # c => ListedIn(waiting, d)' = ListedIn(w, d)
      /\ \A d \in Conns : active'[d] \cap Range(waiting'[d]) = {} /\ IsInjective(waiting'[d])
  BY ZenonT(30), FailedLists
<1>4. PICK A \in SUBSET Reqs, W \in SUBSET Reqs : A = active[c] /\ W = Range(w[c])
  <2>1. active[c] \in SUBSET Reqs /\ w[c] \in Seq(Reqs)
    BY <1>1 DEF TypeOK
  <2>2. Range(w[c]) \in SUBSET Reqs
    BY Zenon, <2>1, QueueRange
  <2>3. QED
    BY Zenon, <2>1, <2>2
<1>5. A \cup W = ListedIn(w, c) /\ A \cap W = {}
  BY ZenonT(30), <1>1, <1>4 DEF ListedIn, ListsOK
<1>6. \A q \in A \cup W : rst[q] = "live" /\ \A d \in Conns : d # c => q \notin ListedIn(w, d)
  BY Zenon, <1>1, <1>5 DEF ListsOK
<1>7. (A \cup W) \cap HeldIn(t) = {}
  BY Zenon, <1>5 DEF HeldOK
<1>8. Frames(waiting, t)'
  <2>1. HeldOK(waiting, t)'
    BY ZenonT(30), <1>3 DEF HeldOK
  <2>2. QED
    BY ZenonT(30), <2>1 DEF Frames
<1>9. \A q \in A \cup W : rst'[q] = "live" /\ \A d \in Conns : q \notin ListedIn(waiting, d)'
  BY ZenonT(30), <1>3, <1>6
<1> DEFINE u == Push("retry", W, t)
<1>10. Frames(waiting, u)'
  BY Zenon, <1>7, <1>8, <1>9, PushMany
<1>11. u \in Seq(Frame) /\ HeldIn(u) = W \cup HeldIn(t) /\ Torn(u) = W \cup Torn(t)
  BY ZenonT(30), PushType, PushHeld, PushTorn
<1> HIDE DEF u
<1>12. Frames(waiting, Push("retry", A, u))'
  BY Zenon, <1>5, <1>7, <1>9, <1>10, <1>11, PushMany
<1>13. /\ Push("retry", A, u) \in Seq(Frame)
       /\ Torn(Push("retry", A, u)) = A \cup Torn(u)
  BY ZenonT(30), <1>11, PushType, PushTorn
<1>14. Owing(Push("retry", A, u))'
  BY ZenonT(30), <1>2, <1>5, <1>11, <1>13 DEF Owing
<1>15. TypeOK'
  <2>1. pc' \in [Reqs -> Conns \cup {None, Freed}]
    BY Zenon, <1>1 DEF Failed, TypeOK
  <2>2. inflight' \in [Conns -> Nat] /\ active' \in [Conns -> SUBSET Reqs]
    BY Zenon, <1>1 DEF Failed, TypeOK
  <2>3. owed' \in [Conns -> Seq(Reqs)]
    BY <1>1 DEF Failed, TypeOK
  <2>4. conn' \in [Conns -> ConnState] /\ sweep' \in {"none", "stopped", "armed", "closing"}
    BY ZenonT(30) DEF Failed
  <2>5. stack' \in Seq(Frame)
    BY ZenonT(30), <1>4, <1>13 DEF u
  <2>6. QED
    BY ZenonT(30), <1>1, <1>2, <1>3, <2>1, <2>2, <2>3, <2>4, <2>5 DEF TypeOK
<1>16. ConnOK'
  <2>1. NoConn.st = "Free" /\ NoConn.key = None
    BY ZenonT(30) DEF NoConn
  <2>2. QED
    BY ZenonT(30), <1>1, <2>1 DEF ConnOK, Failed, Live, Proto
<1>17. Counted'
  BY ZenonT(30), <1>1, <1>2 DEF Counted
<1>18. CapacityRespected'
  <2>1. ASSUME NEW d \in Conns, d # c
        PROVE  /\ inflight'[d] = inflight[d] /\ active'[d] = active[d]
               /\ Live(d)' <=> Live(d) /\ Proto(d)' = Proto(d)
    BY ZenonT(30), <1>1, <2>1 DEF Failed, TypeOK, Live, Proto
  <2>2. inflight'[c] = 0 /\ active'[c] = {}
    BY <1>1 DEF Failed, TypeOK
  <2>3. Cardinality({}) = 0 /\ H3Max \in Nat
    BY ZenonT(30), BoundAssumption DEF Counting
  <2>4. ASSUME NEW d \in Conns
        PROVE  /\ inflight'[d] = Cardinality(active'[d])
               /\ (Live(d) /\ Proto(d) = "H1")' => inflight'[d] <= 1
               /\ (Live(d) /\ Proto(d) = "H3")' => inflight'[d] <= H3Max
    <3>1. CASE d = c
      <4>1. inflight'[d] = 0 /\ Cardinality(active'[d]) = 0
        BY ZenonT(30), <2>2, <2>3, <3>1
      <4>2. QED
        BY Zenon, <4>1, NoneFits
    <3>2. CASE d # c
      BY ZenonT(30), <1>1, <2>1, <3>2 DEF CapacityRespected
    <3>3. QED
      BY ZenonT(30), <3>1, <3>2
  <2>5. QED
    BY ZenonT(30), <2>4 DEF CapacityRespected
<1>19. ListsOK(waiting)'
  <2>1. ASSUME NEW d \in Conns, NEW q \in ListedIn(waiting, d)'
        PROVE  rst'[q] = "live" /\ pc'[q] = d /\ conn'[d].key = Key[q]
    <3>1. d # c /\ q \in ListedIn(w, d)
      BY ZenonT(30), <1>3, <2>1
    <3>2. q \in Reqs
      BY Zenon, <1>1, <3>1, ListedReqs
    <3>3. rst[q] = "live" /\ pc[q] = d /\ conn[d].key = Key[q] /\ q \notin ListedIn(w, c)
      BY Zenon, <1>1, <3>1 DEF ListsOK
    <3>4. pc'[q] = pc[q] /\ conn'[d] = conn[d]
      BY Zenon, <3>1, <3>2, <3>3 DEF Failed
    <3>5. QED
      BY Zenon, <3>3, <3>4
  <2>2. QED
    BY ZenonT(30), <1>3, <2>1 DEF ListsOK
<1>20. QED
  BY ZenonT(30), <1>4, <1>12, <1>14, <1>15, <1>16, <1>17, <1>18, <1>19, Assemble DEF u

-----------------------------------------------------------------------------
(* pool_conn_fail_all as its callers see it.                                  *)

\* The base of most calls of pool_conn_fail_all is conn itself.
LEMMA BaseSame ==
  ASSUME NEW c \in Conns, TypeOK
  PROVE  conn[c].inRecv \in BOOLEAN /\ conn = [conn EXCEPT ![c].inRecv = conn[c].inRecv]
<1>1. conn \in [Conns -> ConnState] /\ conn[c] \in ConnState
  BY DEF TypeOK
<1>2. conn[c].inRecv \in BOOLEAN /\ [conn[c] EXCEPT !.inRecv = conn[c].inRecv] = conn[c]
  BY <1>1 DEF ConnState
<1>3. QED
  BY <1>1, <1>2

\* pool_conn_fail_all called with the frames t to return to.
LEMMA FailAllStep ==
  ASSUME Counting, NEW t, NEW c \in Conns, NEW b \in BOOLEAN, Sound(waiting, t),
         FailAll([conn EXCEPT ![c].inRecv = b], waiting, c, t),
         UNCHANGED <<rst, retries, answers>>, fault' \in BOOLEAN,
         \A q \in Reqs : rst[q] = "live" /\ responded[q] =>
           q \in Torn(t) \/ (Live(c) /\ q \in ListedIn(waiting, c))
  PROVE  IInv'
<1>1. Core(waiting) /\ TypeOK /\ Frames(waiting, t)
  BY DEF Sound, Core
<1>2. UNCHANGED <<responded, calls, by, strm>>
  BY DEF answers, delivery
<1>3. CASE Live(c)
  <2>1. /\ Failed(waiting, c)
        /\ stack' = Push("retry", active[c], Push("retry", Range(waiting[c]), t))
    BY <1>1, <1>3, FailAllFailed
  <2>2. Undisturbed(waiting, t)
    BY <1>1, <1>2, <1>3, <2>1, FailedUndisturbed
  <2>3. Frames(waiting, t)'
    BY <1>1, <2>2, FramesStay
  <2>4. /\ t \in Seq(Frame) /\ HeldOK(waiting, t) /\ Apart(t) /\ Bottom(t)
        /\ FramesOK(waiting, t)'
    BY <1>1, <2>3 DEF Frames
  <2>5. \A q \in Reqs : rst[q] = "live" /\ responded[q] => q \in Torn(t) \/ q \in ListedIn(waiting, c)
    OBVIOUS
  <2>6. QED
    BY <1>1, <1>3, <2>1, <2>4, <2>5, FailedStep
<1>4. CASE ~Live(c)
  <2>1. /\ conn' = [conn EXCEPT ![c].inRecv = b] /\ waiting' = waiting /\ stack' = t
        /\ UNCHANGED <<inflight, active, owed, pc, sweep>>
    BY <1>4 DEF FailAll
  <2>2. conn \in [Conns -> ConnState] /\ [conn[c] EXCEPT !.inRecv = b] \in ConnState
    BY Zenon, <1>1, FlagSet DEF TypeOK
  <2>3. conn' \in [Conns -> ConnState] /\ Steady
    BY <2>1, <2>2 DEF Steady, ConnState
  <2>4. \A d : ListedIn(waiting, d)' = ListedIn(waiting, d)
    BY <2>1 DEF ListedIn
  <2>5. Undisturbed(waiting, t)
    BY Zenon, <1>2, <2>3, <2>4 DEF Undisturbed, Steady
  <2>6. Frames(waiting, t)'
    BY <1>1, <2>5, FramesStay
  <2>7. TypeOK'
    BY <1>1, <1>2, <2>1, <2>3, <2>6 DEF TypeOK, Frames
  <2>8. ConnOK' /\ CapacityRespected' /\ Counted'
    BY <1>1, <1>2, <2>1, <2>3, SteadyConns DEF Core, Counted
  <2>9. ListsOK(waiting)'
    BY <1>1, <2>1, <2>3, <2>4 DEF Core, ListsOK, Steady
  <2>10. Owing(t)'
    BY <1>2, <1>4 DEF Owing
  <2>11. QED
    BY <2>1, <2>6, <2>7, <2>8, <2>9, <2>10, Assemble
<1>5. QED
  BY <1>3, <1>4

\* The connection dies inside pool_h3_submit.
LEMMA DeadStep ==
  ASSUME Counting, NEW r, NEW w, NEW t, NEW c \in Conns, Loose(r, w, t), ~responded[r],
         conn[c].key = Key[r], Live(c), conn[c].open, SubmitIntoDeadConn(c, r, w, t)
  PROVE  IInv'
<1> DEFINE f == F("late", c, {r})
<1>1. /\ Core(w) /\ TypeOK /\ Frames(w, t) /\ t \in Seq(Frame) /\ r \in Reqs
      /\ rst[r] = "live" /\ r \notin HeldIn(t) /\ \A d \in Conns : r \notin ListedIn(w, d)
  BY Zenon DEF Loose, Sound, Core, Frames
<1>2. /\ FailAll(conn, w, c, Cons(f, t)) /\ UNCHANGED <<rst, retries, answers, fault>>
      /\ UNCHANGED responded
  BY Zenon DEF SubmitIntoDeadConn, answers, delivery
<1>3. /\ f \in Frame /\ Hold(f) = {r} /\ f.op = "late" /\ f.c = c /\ f.rs = {r}
      /\ f.op \in Nested /\ f.op # "timeout" /\ Tears(f) = {}
  BY Zenon, <1>1 DEF F, Frame, Ops, Hold, Nested, Tears
<1> HIDE DEF f
<1>4. /\ Failed(w, c)
      /\ stack' = Push("retry", active[c], Push("retry", Range(w[c]), Cons(f, t)))
  <2>1. conn[c].inRecv \in BOOLEAN /\ FailAll([conn EXCEPT ![c].inRecv = conn[c].inRecv], w, c, Cons(f, t))
    BY <1>1, <1>2, BaseSame
  <2>2. PICK b \in BOOLEAN : FailAll([conn EXCEPT ![c].inRecv = b], w, c, Cons(f, t))
    BY <2>1
  <2>3. QED
    BY <1>1, <2>2, FailAllFailed
<1>5. Frames(waiting, t)'
  <2>1. Undisturbed(w, t)
    BY ZenonT(30), <1>1, <1>2, <1>4, FailedUndisturbed
  <2>2. QED
    BY Zenon, <1>1, <2>1, FramesStay
<1>6. FrameOK(waiting, f)'
  <2>1. conn'[c].st = "Closing" /\ conn'[c].key = Key[r]
    BY ZenonT(30), <1>4 DEF Failed
  <2>2. QED
    BY <1>2, <1>3, <2>1 DEF FrameOK, ConnOps
<1>7. Cons(f, t) \in Seq(Frame) /\ Range(Cons(f, t)) = {f} \cup Range(t)
  BY Zenon, <1>1, <1>3, ConsStack
<1>8. FramesOK(waiting, Cons(f, t))'
  BY Zenon, <1>5, <1>6, <1>7 DEF Frames, FramesOK
<1>9. HeldIn(Cons(f, t)) = {r} \cup HeldIn(t)
  BY <1>1, <1>3, ConsHeld
<1>10. Torn(Cons(f, t)) = {} \cup Torn(t)
  BY ZenonT(30), <1>1, <1>3, ConsTorn
<1>11. HeldOK(w, Cons(f, t))
  BY Zenon, <1>1, <1>9 DEF Frames, HeldOK
<1>12. Apart(Cons(f, t))
  <2>1. Apart(t) /\ Hold(f) \cap HeldIn(t) = {}
    BY Zenon, <1>1, <1>3 DEF Frames
  <2>2. QED
    BY Zenon, <1>1, <1>3, <2>1, ConsApart
<1>13. Bottom(Cons(f, t))
  BY Zenon, <1>1, <1>3, ConsBottom DEF Frames
<1>14. \A q \in Reqs : rst[q] = "live" /\ responded[q] => q \in Torn(Cons(f, t)) \/ q \in ListedIn(w, c)
  BY Zenon, <1>10 DEF Loose
<1>15. fault' \in BOOLEAN
  BY Zenon, <1>1, <1>2 DEF TypeOK
<1>16. QED
  BY Zenon, <1>1, <1>2, <1>4, <1>7, <1>8, <1>11, <1>12, <1>13, <1>14, <1>15, FailedStep

-----------------------------------------------------------------------------
(* pool_submit, pool_conn_open and pool_acquire.                              *)

\* pool_submit of a request in hand to a conn that is ready.
LEMMA PoolSubmitStep ==
  ASSUME Counting, NEW r, NEW w, NEW t, NEW c \in Conns, Loose(r, w, t), ~responded[r],
         conn[c].key = Key[r], conn[c].st = "Ready", Proto(c) = "H1" => inflight[c] < 1,
         PoolSubmit(c, r, w, t)
  PROVE  IInv'
<1>1. TypeOK /\ ConnOK /\ r \in Reqs
  BY DEF Loose, Sound, Core
<1>2. Live(c) /\ conn[c].open
  BY <1>1 DEF Live, ConnOK
<1>3. CASE Park(c, r, w, t)
  BY <1>3, ParkStep
<1>4. CASE SubmitIntoDeadConn(c, r, w, t)
  BY Zenon, <1>2, <1>4, DeadStep
<1>5. CASE SubmitStream(c, r, w, t) /\ (Proto(c) = "H3" => HasCapacity(c))
  <2>1. /\ pc' = [pc EXCEPT ![r] = c] /\ waiting' = w /\ UNCHANGED <<rst, retries, sweep, fault>>
        /\ pc' \in [Reqs -> Conns \cup {None, Freed}] /\ \A q \in Reqs : q # r => pc'[q] = pc[q]
    BY Zenon, <1>1, <1>5 DEF SubmitStream, TypeOK
  <2>2. CASE AfterSubmit(c, r, t)
    <3>1. Proto(c) = "H3" => inflight[c] < H3Max
      BY ZenonT(30), <1>5 DEF HasCapacity
    <3>2. QED
      BY Zenon, <2>1, <2>2, <3>1, SubmitStep
  <2>3. CASE ReqFail(r, t) /\ UNCHANGED <<conn, inflight, active, owed>>
    BY <2>1, <2>3, FailStep
  <2>4. CASE stack' = Cons(F("retry", None, {r}), t)
             /\ UNCHANGED <<conn, inflight, active, owed, answers>>
    <3>1. retries' \in [Reqs -> 0 .. MaxRetries]
      BY ZenonT(30), <1>1, <2>1 DEF TypeOK
    <3>2. PICK op \in {"acquire", "retry"} : op = "retry"
      OBVIOUS
    <3>3. stack' = Cons(F(op, None, {r}), t) /\ (op = "acquire" => ~responded[r])
      BY Zenon, <2>4, <3>2
    <3>4. UNCHANGED <<conn, inflight, active, owed, rst, answers, sweep, fault>>
      BY Zenon, <2>1, <2>4
    <3>5. /\ waiting' = w /\ pc' \in [Reqs -> Conns \cup {None, Freed}]
          /\ \A q \in Reqs : q # r => pc'[q] = pc[q]
      BY Zenon, <2>1
    <3>6. QED
      BY Zenon, <3>1, <3>2, <3>3, <3>4, <3>5, AgainStep
  <2>5. QED
    BY Zenon, <1>5, <2>2, <2>3, <2>4 DEF SubmitStream
<1>6. QED
  BY <1>3, <1>4, <1>5 DEF PoolSubmit

\* The conn just opened for r, or what is left of it if its connect failed.
Opened(k, v) ==
  /\ v \in ConnState
  /\ v.st = "Free" => v.key = None
  /\ v.st # "Free" => v.key = k
  /\ v.st # "Ready"
  /\ v.st = "Handshaking" /\ k.proto # "H3" => v.open

\* The new conn is one of these.
LEMMA OpenedConn ==
  ASSUME NEW k \in Keys, NEW open \in BOOLEAN, NEW ok \in BOOLEAN, k.proto = "H3" \/ open
  PROVE  LET v == IF ok THEN NewConn(k, open)
                  ELSE IF open THEN [NewConn(k, TRUE) EXCEPT !.st = "Closing", !.broken = TRUE]
                  ELSE NoConn
         IN  Opened(k, v) /\ (v.st # "Free" <=> ok \/ open)
BY ZenonT(30) DEF Opened, NewConn, NoConn, ConnState

\* pool_conn_open for a request in hand.
LEMMA OpenStep ==
  ASSUME Counting, NEW r, NEW t, NEW c \in Conns, Loose(r, waiting, t), ~responded[r],
         PoolConnOpen(c, r, t)
  PROVE  IInv'
<1>1. /\ Core(waiting) /\ TypeOK /\ ConnOK /\ Frames(waiting, t) /\ r \in Reqs
      /\ Key[r] \in Keys /\ rst[r] = "live" /\ r \notin HeldIn(t)
      /\ \A d \in Conns : r \notin ListedIn(waiting, d)
  BY KeyAssumption DEF Loose, Sound, Core
<1>2. /\ conn[c].st = "Free" /\ ListedIn(waiting, c) = {} /\ inflight[c] = 0
      /\ active[c] = {} /\ waiting[c] = <<>>
  BY <1>1, FreeIsEmpty DEF PoolConnOpen
<1>3. PICK v :
        /\ Opened(Key[r], v) /\ conn' = [conn EXCEPT ![c] = v]
        /\ pc' = [pc EXCEPT ![r] = IF v.st # "Free" THEN c ELSE Freed]
        /\ waiting' = [waiting EXCEPT ![c] = IF v.st # "Free" THEN <<r>> ELSE <<>>]
  <2>1. PICK open \in (IF Key[r].proto = "H3" THEN BOOLEAN ELSE {TRUE}), ok \in BOOLEAN :
          /\ conn' = [conn EXCEPT ![c] =
               IF ok THEN NewConn(Key[r], open)
               ELSE IF open THEN [NewConn(Key[r], TRUE) EXCEPT !.st = "Closing", !.broken = TRUE]
               ELSE NoConn]
          /\ pc' = [pc EXCEPT ![r] = IF ok \/ open THEN c ELSE Freed]
          /\ waiting' = [waiting EXCEPT ![c] = IF ok \/ open THEN <<r>> ELSE <<>>]
    BY Zenon DEF PoolConnOpen
  <2>2. open \in BOOLEAN /\ (Key[r].proto = "H3" \/ open)
    BY ZenonT(30), <2>1
  <2> DEFINE v == IF ok THEN NewConn(Key[r], open)
                  ELSE IF open THEN [NewConn(Key[r], TRUE) EXCEPT !.st = "Closing", !.broken = TRUE]
                  ELSE NoConn
  <2>3. Opened(Key[r], v) /\ (v.st # "Free" <=> ok \/ open)
    BY Zenon, <1>1, <2>1, <2>2, OpenedConn
  <2>4. conn' = [conn EXCEPT ![c] = v]
    BY <2>1
  <2> HIDE DEF v
  <2>5. /\ pc' = [pc EXCEPT ![r] = IF v.st # "Free" THEN c ELSE Freed]
        /\ waiting' = [waiting EXCEPT ![c] = IF v.st # "Free" THEN <<r>> ELSE <<>>]
    BY ZenonT(30), <2>1, <2>3
  <2>6. QED
    BY Zenon, <2>3, <2>4, <2>5
<1>4. /\ stack' = t /\ UNCHANGED <<inflight, active, owed, rst, retries, responded, calls, by, strm>>
      /\ sweep' \in {"none", "stopped", "armed", "closing"}
  BY DEF PoolConnOpen, answers, delivery
<1>5. fault' \in BOOLEAN
  BY Zenon, <1>1 DEF PoolConnOpen, TypeOK
<1>6. /\ \A d \in Conns : d # c => conn'[d] = conn[d] /\ waiting'[d] = waiting[d]
      /\ conn'[c] = v /\ waiting'[c] = IF v.st # "Free" THEN <<r>> ELSE <<>>
  BY <1>1, <1>3 DEF TypeOK
<1>7. /\ <<r>> \in Seq(Reqs) /\ <<>> \in Seq(Reqs) /\ Range(<<r>>) = {r} /\ Range(<<>>) = {}
      /\ IsInjective(<<r>>) /\ IsInjective(<<>>)
  <2>1. <<>> \in Seq(Reqs)
    OBVIOUS
  <2>2. QED
    BY Zenon, <1>1, <2>1, QueueOne, QueueEmpty
<1>8. /\ \A d \in Conns : d # c => ListedIn(waiting, d)' = ListedIn(waiting, d)
      /\ ListedIn(waiting, c)' = IF v.st # "Free" THEN {r} ELSE {}
  BY Zenon, <1>2, <1>4, <1>6, <1>7 DEF ListedIn
<1>9. Frames(waiting, t)'
  <2>1. Undisturbed(waiting, t)
    BY Zenon, <1>1, <1>2, <1>4, <1>6, <1>8 DEF Undisturbed
  <2>2. QED
    BY Zenon, <1>1, <2>1, FramesStay
<1>10. TypeOK'
  <2>1. conn' \in [Conns -> ConnState] /\ waiting' \in [Conns -> Seq(Reqs)]
    BY Zenon, <1>1, <1>3, <1>7 DEF TypeOK, Opened
  <2>2. pc' \in [Reqs -> Conns \cup {None, Freed}]
    BY <1>1, <1>3 DEF TypeOK
  <2>3. stack' \in Seq(Frame)
    BY Zenon, <1>4, <1>9 DEF Frames
  <2>4. QED
    BY Zenon, <1>1, <1>4, <1>5, <2>1, <2>2, <2>3 DEF TypeOK
<1>11. ConnOK'
  <2>1. ASSUME NEW d \in Conns, d # c
        PROVE  /\ conn'[d].st = "Free" => conn'[d].key = None
               /\ conn'[d].st # "Free" => conn'[d].key \in Keys
               /\ conn'[d].st = "Ready" => conn'[d].open
               /\ conn'[d].st = "Handshaking" /\ conn'[d].key.proto # "H3" => conn'[d].open
    <3>1. conn'[d] = conn[d] /\ ConnOK
      BY Zenon, <1>1, <1>6, <2>1 DEF Core
    <3>2. QED
      BY Zenon, <3>1 DEF ConnOK, Proto
  <2>2. /\ conn'[c].st = "Free" => conn'[c].key = None
        /\ conn'[c].st # "Free" => conn'[c].key = Key[r] /\ Key[r] \in Keys
        /\ conn'[c].st # "Ready"
        /\ conn'[c].st = "Handshaking" /\ conn'[c].key.proto # "H3" => conn'[c].open
    BY Zenon, <1>1, <1>3, <1>6 DEF Opened
  <2>3. QED
    BY Zenon, <2>1, <2>2 DEF ConnOK, Proto
<1>12. Counted'
  BY Zenon, <1>1, <1>4 DEF Core, Counted
<1>13. CapacityRespected'
  <2>1. \A d \in Conns : d # c => (Live(d)' <=> Live(d)) /\ Proto(d)' = Proto(d)
    BY Zenon, <1>6 DEF Live, Proto
  <2>2. inflight'[c] = 0 /\ 0 <= 1 /\ 0 <= H3Max /\ inflight'[c] = Cardinality(active'[c])
    BY Zenon, <1>1, <1>2, <1>4, NoneFits DEF Core, CapacityRespected
  <2>3. QED
    BY ZenonT(30), <1>1, <1>4, <2>1, <2>2 DEF Core, CapacityRespected
<1>14. ListsOK(waiting)'
  <2> SUFFICES ASSUME NEW d \in Conns
               PROVE  /\ \A q \in ListedIn(waiting, d)' :
                           rst'[q] = "live" /\ pc'[q] = d /\ conn'[d].key = Key[q]
                      /\ active'[d] \cap Range(waiting'[d]) = {} /\ IsInjective(waiting'[d])
    BY DEF ListsOK
  <2>1. CASE d = c
    <3>1. active'[c] = {} /\ IsInjective(waiting'[c])
      BY Zenon, <1>2, <1>4, <1>6, <1>7
    <3>2. v.st # "Free" => pc'[r] = c /\ conn'[c].key = Key[r]
      BY Zenon, <1>1, <1>3, <1>6 DEF TypeOK, Opened
    <3>3. QED
      BY Zenon, <1>1, <1>4, <1>8, <2>1, <3>1, <3>2
  <2>2. CASE d # c
    <3>1. \A q \in ListedIn(waiting, d) : q \in Reqs /\ q # r
      BY <1>1 DEF ListedIn, TypeOK, Range
    <3>2. \A q \in Reqs : q # r => pc'[q] = pc[q]
      BY Zenon, <1>1, <1>3 DEF TypeOK
    <3>3. QED
      BY ZenonT(30), <1>1, <1>4, <1>6, <2>2, <3>1, <3>2, ListStays DEF Core
  <2>3. QED
    BY Zenon, <2>1, <2>2
<1>15. Owing(t)'
  BY Zenon, <1>4 DEF Owing, Loose
<1>16. QED
  BY Zenon, <1>4, <1>9, <1>10, <1>11, <1>12, <1>13, <1>14, <1>15, Assemble

\* pool_acquire of a request in hand.
LEMMA AcquireStep ==
  ASSUME Counting, NEW r, NEW t, Loose(r, waiting, t), ~responded[r], PoolAcquire(r, t)
  PROVE  IInv'
<1> DEFINE shaking == {c \in Usable(r) : conn[c].st = "Handshaking"}
           ready == Usable(r) \ shaking
<1>1. \A c \in Usable(r) : c \in Conns /\ conn[c].key = Key[r]
  BY Zenon DEF Usable
<1>2. \A c \in ready : c \in Conns /\ conn[c].key = Key[r] /\ conn[c].st = "Ready"
  BY Zenon DEF Usable, Live
<1>3. ASSUME NEW c \in ready, HasCapacity(c), PoolSubmit(c, r, waiting, t) PROVE IInv'
  BY Zenon, <1>2, <1>3, PoolSubmitStep DEF HasCapacity
<1>4. ASSUME NEW c \in Usable(r), Park(c, r, waiting, t) PROVE IInv'
  BY <1>1, <1>4, ParkStep
<1>5. ASSUME NEW c \in FreeSlots, PoolConnOpen(c, r, t) PROVE IInv'
  BY Zenon, <1>5, OpenStep DEF FreeSlots
<1>6. ASSUME Key[r].proto # "H1", NEW c \in ready, PoolSubmit(c, r, waiting, t) PROVE IInv'
  BY Zenon, <1>2, <1>6, PoolSubmitStep DEF Proto
<1>7. ASSUME ReqFail(r, t), UNCHANGED <<conn, lists, rst, pc, retries, sweep, fault>> PROVE IInv'
  <2>1. /\ waiting' = waiting
        /\ UNCHANGED <<conn, inflight, active, owed, rst, pc, retries, sweep, fault>>
    BY Zenon, <1>7 DEF lists
  <2>2. pc' \in [Reqs -> Conns \cup {None, Freed}] /\ \A q \in Reqs : q # r => pc'[q] = pc[q]
    BY <2>1 DEF Loose, Sound, Core, TypeOK
  <2>3. QED
    BY Zenon, <1>7, <2>1, <2>2, FailStep
<1>8. QED
  BY Zenon, <1>3, <1>4, <1>5, <1>6, <1>7 DEF PoolAcquire

-----------------------------------------------------------------------------
(* The actions made of these.                                                 *)

\* pool_acquire for the top frame.
LEMMA AcquireKeeps == ASSUME Counting, IInv, Acquire PROVE IInv'
<1>1. PICK r \in Top.rs : PoolAcquire(r, Push("acquire", Top.rs \ {r}, Below))
  BY DEF Acquire
<1>2. PICK t : t = Push("acquire", Top.rs \ {r}, Below)
  OBVIOUS
<1>3. At("acquire")
  BY Zenon DEF Acquire
<1>4. Loose(r, waiting, t) /\ ~responded[r]
  BY Zenon, <1>1, <1>2, <1>3, TakeTop
<1>5. PoolAcquire(r, t)
  BY <1>1, <1>2
<1>6. QED
  BY <1>4, <1>5, AcquireStep

\* pool_req_retry_or_fail for the top frame.
LEMMA RetryOrFailKeeps == ASSUME IInv, RetryOrFail PROVE IInv'
<1>1. PICK r \in Top.rs :
        IF MayRetry(r)
        THEN /\ retries' = [retries EXCEPT ![r] = @ - 1]
             /\ pc' = [pc EXCEPT ![r] = None]
             /\ stack' = Cons(F("acquire", None, {r}), Push("retry", Top.rs \ {r}, Below))
             /\ UNCHANGED answers
        ELSE ReqFail(r, Push("retry", Top.rs \ {r}, Below)) /\ UNCHANGED <<pc, retries>>
  BY ZenonT(30) DEF RetryOrFail
<1>2. PICK t : t = Push("retry", Top.rs \ {r}, Below)
  OBVIOUS
<1>3. At("retry")
  BY Zenon DEF RetryOrFail
<1>4. Loose(r, waiting, t)
  BY Zenon, <1>1, <1>2, <1>3, TakeTop
<1>5. TypeOK /\ r \in Reqs
  BY Zenon, <1>4 DEF Loose, Sound, Core
<1>6. waiting' = waiting /\ UNCHANGED <<conn, inflight, active, owed, rst, sweep, fault>>
  BY DEF RetryOrFail, lists
<1>7. CASE MayRetry(r)
  <2>1. ~responded[r] /\ retries[r] > 0
    BY <1>7 DEF MayRetry
  <2>2. retries' \in [Reqs -> 0 .. MaxRetries]
    <3>1. retries[r] - 1 \in 0 .. MaxRetries
      <4>1. PICK n : n = retries[r] /\ n \in 0 .. MaxRetries /\ n > 0
        BY Zenon, <1>5, <2>1 DEF TypeOK
      <4>2. n - 1 \in 0 .. MaxRetries
        BY <4>1, BoundAssumption
      <4>3. QED
        BY Zenon, <4>1, <4>2
    <3>2. retries' = [retries EXCEPT ![r] = retries[r] - 1]
      BY <1>1, <1>7
    <3>3. QED
      BY Zenon, <1>5, <3>1, <3>2 DEF TypeOK
  <2>3. pc' \in [Reqs -> Conns \cup {None, Freed}] /\ \A q \in Reqs : q # r => pc'[q] = pc[q]
    BY ZenonT(30), <1>1, <1>5, <1>7 DEF TypeOK
  <2>4. PICK op \in {"acquire", "retry"} : op = "acquire"
    OBVIOUS
  <2>5. stack' = Cons(F(op, None, {r}), t)
    BY Zenon, <1>1, <1>2, <1>7, <2>4
  <2>6. UNCHANGED <<conn, inflight, active, owed, rst, answers, sweep, fault>>
    BY <1>1, <1>6, <1>7
  <2>7. waiting' = waiting
    BY <1>6
  <2>8. PICK w : w = waiting
    OBVIOUS
  <2>9. Loose(r, w, t) /\ waiting' = w
    BY Zenon, <1>4, <2>7, <2>8
  <2>10. QED
    BY Zenon, <2>1, <2>2, <2>3, <2>4, <2>5, <2>6, <2>9, AgainStep
<1>8. CASE ~MayRetry(r)
  <2>1. ReqFail(r, t) /\ UNCHANGED <<pc, retries>>
    BY Zenon, <1>1, <1>2, <1>8
  <2>2. pc' \in [Reqs -> Conns \cup {None, Freed}] /\ \A q \in Reqs : q # r => pc'[q] = pc[q]
    BY <1>5, <2>1 DEF TypeOK
  <2>3. PICK w : w = waiting
    OBVIOUS
  <2>4. Loose(r, w, t) /\ waiting' = w
    BY Zenon, <1>4, <1>6, <2>3
  <2>5. QED
    BY Zenon, <1>6, <2>1, <2>2, <2>4, FailStep
<1>9. QED
  BY <1>7, <1>8

\* pool_flush_waiting, while there is something to send.
LEMMA FlushSubmits ==
  ASSUME Counting, IInv, FlushWaiting, waiting[Top.c] # <<>>, HasCapacity(Top.c)
  PROVE  IInv'
<1>1. At("flush")
  BY DEF FlushWaiting
<1>2. PICK c, r, w, t : /\ c = Top.c /\ r = Head(waiting[c]) /\ t = stack
                        /\ w = [waiting EXCEPT ![c] = Tail(@)]
  BY ZenonT(30)
<1>3. c \in Conns /\ Loose(r, w, t) /\ ~responded[r] /\ conn[c].key = Key[r]
  BY <1>1, <1>2, TakeWaiting
<1>4. PoolSubmit(c, r, w, t)
  BY <1>2 DEF FlushWaiting
<1>5. conn[c].st = "Ready" /\ (Proto(c) = "H1" => inflight[c] < 1)
  BY <1>2 DEF HasCapacity
<1>6. QED
  BY Zenon, <1>3, <1>4, <1>5, PoolSubmitStep

\* The tail of pool_h3_submit after the connection died under it.
LEMMA LateBookingKeeps == ASSUME Counting, IInv, LateBooking PROVE IInv'
<1>1. PICK f, t : f = Top /\ t = Below
  OBVIOUS
<1>2. Popped(f, t) /\ f.op = "late"
  BY <1>1, PopTop DEF LateBooking, At, Top
<1>3. PICK r \in f.rs : pc' = [pc EXCEPT ![r] = f.c] /\ AfterSubmit(f.c, r, t)
  BY ZenonT(30), <1>1 DEF LateBooking
<1>4. /\ f.c \in Conns /\ conn[f.c].st = "Closing" /\ conn[f.c].key = Key[r] /\ ~responded[r]
      /\ Tears(f) = {} /\ r \in Hold(f)
  BY Zenon, <1>2, <1>3 DEF Popped, FrameOK, ConnOps, Tears, Hold
<1>5. Loose(r, waiting, t)
  BY Zenon, <1>2, <1>4 DEF Popped, Loose
<1>6. PICK c, w : c = f.c /\ w = waiting
  BY Zenon
<1>7. /\ c \in Conns /\ ~Live(c) /\ conn[c].key = Key[r] /\ Loose(r, w, t)
      /\ AfterSubmit(c, r, t) /\ pc' = [pc EXCEPT ![r] = c]
  BY Zenon, <1>3, <1>4, <1>5, <1>6 DEF Live
<1>8. waiting' = w /\ UNCHANGED <<rst, retries, sweep, fault>>
  BY <1>6 DEF LateBooking
<1>9. QED
  BY ZenonT(30), <1>4, <1>7, <1>8, SubmitStep

\* pool_conn_fail_all from the frames t, without the conn's receive path ending.
LEMMA FailAllHere ==
  ASSUME Counting, NEW t, NEW c \in Conns, Sound(waiting, t), Owing(t), FailAll(conn, waiting, c, t),
         UNCHANGED <<rst, retries, answers, fault>>
  PROVE  IInv'
<1>1. TypeOK
  BY DEF Sound, Core
<1>2. PICK b \in BOOLEAN : conn = [conn EXCEPT ![c].inRecv = b]
  BY <1>1, BaseSame
<1>3. FailAll([conn EXCEPT ![c].inRecv = b], waiting, c, t)
  BY <1>2
<1>4. fault' \in BOOLEAN
  BY <1>1 DEF TypeOK
<1>5. \A q \in Reqs : rst[q] = "live" /\ responded[q] => q \in Torn(t)
  BY DEF Owing
<1>6. QED
  BY Zenon, <1>2, <1>3, <1>4, <1>5, FailAllStep

\* on_ready(0), and the end of an established conn.
LEMMA ConnLostKeeps ==
  ASSUME Counting, IInv, NEW c \in Conns, ReadyFailed(c) \/ TransportClosed(c)
  PROVE  IInv'
<1>1. PICK t : t = stack
  OBVIOUS
<1>2. Sound(waiting, t) /\ Owing(t)
  BY <1>1 DEF IInv
<1>3. FailAll(conn, waiting, c, t) /\ UNCHANGED <<rst, retries, answers, fault>>
  BY <1>1 DEF ReadyFailed, TransportClosed
<1>4. QED
  BY <1>2, <1>3, FailAllHere

\* The second half of pool_h1_on_closed.
LEMMA FailAfterEofKeeps == ASSUME Counting, IInv, FailAfterEof PROVE IInv'
<1>1. PICK f, t : f = Top /\ t = Below
  OBVIOUS
<1>2. Popped(f, t) /\ f.op = "failall"
  BY Zenon, <1>1, PopTop DEF FailAfterEof, At, Top
<1>3. Sound(waiting, t) /\ f.c \in Conns /\ Tears(f) = {}
  BY Zenon, <1>2 DEF Popped, FrameOK, ConnOps, Tears
<1>4. Owing(t)
  BY <1>2, <1>3 DEF Popped, Owing
<1>5. FailAll(conn, waiting, f.c, t) /\ UNCHANGED <<rst, retries, answers, fault>>
  BY <1>1 DEF FailAfterEof
<1>6. PICK c : c = f.c
  OBVIOUS
<1>7. QED
  BY <1>3, <1>4, <1>5, <1>6, FailAllHere

\* A parse or protocol error in the receive loop.
LEMMA LoopErrorKeeps == ASSUME Counting, IInv, LoopError PROVE IInv'
<1>1. PICK f, t : f = Top /\ t = Below
  OBVIOUS
<1>2. Popped(f, t) /\ f.op = "loop"
  BY ZenonT(30), <1>1, PopTop DEF LoopError, At, Top
<1>3. Sound(waiting, t) /\ f.c \in Conns /\ Tears(f) = {} /\ TypeOK
  BY Zenon, <1>2 DEF Popped, FrameOK, ConnOps, Tears, Sound, Core
<1>4. PICK c, b : c = f.c /\ b = FALSE
  BY Zenon
<1>5. /\ FailAll([conn EXCEPT ![c].inRecv = b], waiting, c, t)
      /\ UNCHANGED <<rst, retries, answers, fault>>
  BY ZenonT(30), <1>1, <1>4 DEF LoopError
<1>6. \A q \in Reqs : rst[q] = "live" /\ responded[q] => q \in Torn(t)
  BY Zenon, <1>2, <1>3 DEF Popped
<1>7. c \in Conns /\ b \in BOOLEAN /\ fault' \in BOOLEAN /\ UNCHANGED <<rst, retries, answers>>
  BY Zenon, <1>3, <1>4, <1>5 DEF TypeOK
<1>8. QED
  BY <1>3, <1>5, <1>6, <1>7, FailAllStep

\* Cancelling the stream of a request that timed out finds the conn dead.
LEMMA TimeoutFailsAll ==
  ASSUME Counting, IInv, At("timeout"), NEW r \in Top.rs, Live(Top.c), Top.c # None, r \in active[Top.c],
         FailAll(conn, waiting, Top.c, Below), fault' = TRUE, UNCHANGED <<rst, retries, answers>>
  PROVE  IInv'
<1>1. PICK f, t : f = Top /\ t = Below
  OBVIOUS
<1>2. Popped(f, t) /\ f.op = "timeout"
  BY ZenonT(30), <1>1, PopTop DEF At, Top
<1>3. Sound(waiting, t) /\ Tears(f) = {r} /\ TypeOK /\ f.c \in Conns
  BY ZenonT(30), <1>1, <1>2 DEF Popped, FrameOK, Tears, Sound, Core, Frame
<1>4. PICK c : c = f.c
  OBVIOUS
<1>5. c \in Conns /\ Live(c) /\ r \in ListedIn(waiting, c)
  BY Zenon, <1>1, <1>3, <1>4 DEF ListedIn
<1>6. PICK b \in BOOLEAN : conn = [conn EXCEPT ![c].inRecv = b]
  BY <1>3, <1>5, BaseSame
<1>7. FailAll([conn EXCEPT ![c].inRecv = b], waiting, c, t)
  BY <1>1, <1>4, <1>6
<1>8. \A q \in Reqs : rst[q] = "live" /\ responded[q] =>
        q \in Torn(t) \/ (Live(c) /\ q \in ListedIn(waiting, c))
  BY ZenonT(30), <1>2, <1>3, <1>5 DEF Popped
<1>9. fault' \in BOOLEAN
  OBVIOUS
<1>10. QED
  BY Zenon, <1>3, <1>5, <1>6, <1>7, <1>8, <1>9, FailAllStep

\* pool_h3_on_ready.
LEMMA H3ReadyKeeps == ASSUME Counting, IInv, H3Ready PROVE IInv'
<1>1. PICK f, t, c : f = Top /\ t = stack /\ c = f.c
  OBVIOUS
<1>2. Popped(f, Below) /\ f.op = "loop"
  BY ZenonT(30), <1>1, PopTop DEF H3Ready, At, Top
<1>3. c \in Conns /\ conn[c].open
  BY Zenon, <1>1, <1>2 DEF Popped, FrameOK, ConnOps
<1>4. TypeOK /\ Sound(waiting, t) /\ Owing(t)
  BY <1>1 DEF IInv, Sound, Core
<1>5. CASE conn' = [conn EXCEPT ![c].st = "Ready"] /\ UNCHANGED <<lists, pc, stack, sweep>>
  <2>1. conn \in [Conns -> ConnState] /\ conn[c] \in ConnState
    BY <1>3, <1>4 DEF TypeOK
  <2>2. PICK k : k = [conn[c] EXCEPT !.st = "Ready"]
    BY ZenonT(30)
  <2>3. k \in ConnState /\ k.key = conn[c].key /\ k.open = conn[c].open /\ k.st = "Ready"
    BY <2>1, <2>2 DEF ConnState
  <2>4. conn' = [conn EXCEPT ![c] = k] /\ conn[c].st = "Handshaking"
    BY <1>1, <1>5, <2>2 DEF H3Ready
  <2>5. conn' \in [Conns -> ConnState] /\ Advances
    BY Zenon, <1>3, <2>1, <2>3, <2>4, SetConn
  <2>6. SameLists /\ UNCHANGED <<rst, responded, calls, stack>>
    BY Zenon, <1>4, <1>5, <2>5 DEF SameLists, TypeOK, H3Ready, lists, answers, delivery
  <2>7. QED
    BY Zenon, <2>5, <2>6, StayPlain
<1>6. CASE FailAll(conn, waiting, c, t)
  <2>1. UNCHANGED <<rst, retries, answers, fault>>
    BY DEF H3Ready
  <2>2. QED
    BY <1>3, <1>4, <1>6, <2>1, FailAllHere
<1>7. QED
  BY <1>1, <1>5, <1>6 DEF H3Ready
===============================================================================
