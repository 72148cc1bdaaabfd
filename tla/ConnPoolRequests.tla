--------------------------- MODULE ConnPoolRequests ---------------------------
(* The actions that start requests, hand them over, time them out or tear     *)
(* them down; then those that move a whole queue, answer a request, or take   *)
(* one that has timed out off its list.                                       *)
EXTENDS ConnPoolLemmas

-----------------------------------------------------------------------------
(* Lists that only lose requests.                                             *)

\* Requests leave lists, and no list grows.
Shrinks ==
  \A c \in Conns :
    /\ active'[c] \subseteq active[c] /\ Range(waiting'[c]) \subseteq Range(waiting[c])
    /\ IsInjective(waiting'[c])
    /\ inflight'[c] = Cardinality(active'[c]) /\ inflight'[c] <= inflight[c]
    /\ \A q \in ListedIn(waiting, c)' : rst'[q] = "live" /\ pc'[q] = pc[q]

\* A step that only takes requests off lists.
LEMMA ShrinkStep ==
  ASSUME NEW s, Core(waiting), TypeOK', Advances, Shrinks, Counted', stack' = s,
         Frames(waiting, s)', Owing(s)'
  PROVE  IInv'
<1>1. ConnOK'
  BY DEF Core, ConnOK, Advances, Proto
<1>2. CapacityRespected'
  <2>1. \A c \in Conns : (Live(c)' <=> Live(c)) /\ Proto(c)' = Proto(c)
    BY DEF Advances, Live, Proto
  <2>2. \A c \in Conns : inflight[c] \in Nat /\ inflight'[c] \in Nat /\ inflight'[c] <= inflight[c]
    BY DEF Core, TypeOK, Shrinks
  <2>3. \A c \in Conns : inflight'[c] = Cardinality(active'[c])
    BY DEF Shrinks
  <2>4. \A c \in Conns : /\ (Live(c) /\ Proto(c) = "H1") => inflight[c] <= 1
                         /\ (Live(c) /\ Proto(c) = "H3") => inflight[c] <= H3Max
    BY DEF Core, CapacityRespected
  <2>5. H3Max \in Nat
    BY BoundAssumption
  <2>6. \A c \in Conns : /\ (Live(c)' /\ Proto(c)' = "H1") => inflight'[c] <= 1
                         /\ (Live(c)' /\ Proto(c)' = "H3") => inflight'[c] <= H3Max
    BY <2>1, <2>2, <2>4, <2>5
  <2>7. QED
    BY <2>3, <2>6 DEF CapacityRespected
<1>3. ListsOK(waiting)'
  <2>1. \A c \in Conns : \A q : q \in ListedIn(waiting, c)' => q \in ListedIn(waiting, c)
    BY DEF Shrinks, ListedIn
  <2>2. \A c \in Conns : active'[c] \cap Range(waiting'[c]) = {} /\ IsInjective(waiting'[c])
    BY DEF Core, ListsOK, Shrinks
  <2>3. \A c \in Conns : \A q \in ListedIn(waiting, c)' :
          rst'[q] = "live" /\ pc'[q] = c /\ conn'[c].key = Key[q]
    BY <2>1 DEF Core, ListsOK, Shrinks, Advances
  <2>4. QED
    BY <2>2, <2>3 DEF ListsOK
<1>4. QED
  BY <1>1, <1>2, <1>3, Assemble

\* The lists that a step leaves alone.
LEMMA SameShrinks ==
  ASSUME Core(waiting), UNCHANGED <<inflight, active, waiting, pc>>,
         \A c \in Conns : \A q \in ListedIn(waiting, c) : rst'[q] = "live"
  PROVE  Shrinks
<1>1. \A c : ListedIn(waiting, c)' = ListedIn(waiting, c)
  BY DEF ListedIn
<1>2. \A c \in Conns : inflight[c] \in Nat
  BY DEF Core, TypeOK
<1>3. QED
  BY <1>1, <1>2 DEF Shrinks, Core, ListsOK, CapacityRespected

\* Without a timeout frame, what is to be torn down is held.
LEMMA TornHeld ==
  ASSUME NEW t \in Seq(Frame), \A g \in Range(t) : g.op # "timeout"
  PROVE  Torn(t) \subseteq HeldIn(t)
<1>1. \A g \in Range(t) : Tears(g) \subseteq Hold(g)
  BY DEF Tears, Hold
<1>2. QED
  BY <1>1, Zenon DEF Torn, HeldIn

\* A user callback may be pushed anywhere.
LEMMA CallbackFits ==
  ASSUME NEW r \in Reqs, NEW t, Frames(waiting, t)'
  PROVE  /\ Frames(waiting, Cons(F("cb", None, {r}), t))'
         /\ Torn(Cons(F("cb", None, {r}), t)) = Torn(t)
<1>1. PICK f : f = F("cb", None, {r})
  OBVIOUS
<1>2. f \in Frame /\ f.op = "cb" /\ Hold(f) = {} /\ Tears(f) = {}
  BY <1>1 DEF F, Frame, Ops, Hold, Tears
<1>3. Fits(waiting, f, t)'
  BY <1>2 DEF Fits, FrameOK, ConnOps, Nested
<1>4. t \in Seq(Frame)
  BY DEF Frames
<1>5. QED
  BY ZenonT(30), <1>1, <1>2, <1>3, <1>4, PushFrame, ConsTorn

\* The answered request r is left to a frame that tears it down.
LEMMA DoneFits ==
  ASSUME NEW r \in Reqs, NEW t, NEW c \in Conns \cup {None}, NEW op \in {"done", "drop"},
         Frames(waiting, t)', r \notin HeldIn(t), rst'[r] = "live", responded'[r],
         \A d \in Conns : r \notin ListedIn(waiting, d)',
         op = "drop" => /\ c \in Conns /\ \A g \in Range(t) : g.op # "timeout"
                        /\ conn'[c].st # "Free" /\ conn'[c].open
  PROVE  /\ Frames(waiting, Cons(F("cb", None, {r}), Cons(F(op, c, {r}), t)))'
         /\ Torn(Cons(F("cb", None, {r}), Cons(F(op, c, {r}), t))) = {r} \cup Torn(t)
<1>1. PICK f, s : f = F(op, c, {r}) /\ s = Cons(f, t)
  OBVIOUS
<1>2. f \in Frame /\ f.op = op /\ f.c = c /\ f.rs = {r} /\ Hold(f) = {r} /\ Tears(f) = {r}
  BY <1>1 DEF F, Frame, Ops, Hold, Tears
<1>3. FrameOK(waiting, f)'
  BY <1>2 DEF FrameOK, ConnOps
<1>4. Fits(waiting, f, t)'
  BY <1>2, <1>3 DEF Fits, Nested
<1>5. Frames(waiting, s)' /\ t \in Seq(Frame)
  BY <1>1, <1>4, PushFrame DEF Frames
<1>6. Torn(s) = {r} \cup Torn(t)
  BY ZenonT(30), <1>1, <1>2, <1>5, ConsTorn
<1>7. QED
  BY ZenonT(30), <1>1, <1>5, <1>6, CallbackFits

-----------------------------------------------------------------------------
(* Tearing down, starting, handing over, timing out.                          *)

\* pool_req_done.
LEMMA ReqDoneKeeps == ASSUME IInv, ReqDone PROVE IInv'
<1>1. PICK f, t : f = Top /\ t = Below
  OBVIOUS
<1>2. Popped(f, t) /\ f.op \in {"done", "drop"}
  BY <1>1, PopTop DEF ReqDone, At, Top
<1>3. /\ Core(waiting) /\ TypeOK /\ Frames(waiting, t) /\ Hold(f) = f.rs /\ Tears(f) = f.rs
      /\ f.rs \subseteq Reqs /\ (f.op = "drop" => f.c \in Conns)
      /\ \A r \in f.rs : responded[r] /\ rst[r] = "live" /\ r \notin HeldIn(t)
                         /\ \A c \in Conns : r \notin ListedIn(waiting, c)
  BY <1>2 DEF Popped, Sound, Core, Hold, Tears, Frame, FrameOK, ConnOps
<1>4. /\ rst' = [r \in Reqs |-> IF r \in f.rs THEN "done" ELSE rst[r]] /\ stack' = t
      /\ conn' = IF f.op = "drop" THEN [conn EXCEPT ![f.c].broken = TRUE] ELSE conn
      /\ UNCHANGED <<inflight, active, waiting, owed, pc, retries, responded, calls, by, strm, sweep, fault>>
  BY <1>1 DEF ReqDone, lists, answers, delivery
<1>5. conn' \in [Conns -> ConnState] /\ Advances
  <2>1. conn \in [Conns -> ConnState]
    BY <1>3 DEF TypeOK
  <2>2. CASE f.op # "drop"
    BY <1>4, <2>1, <2>2, SameConn
  <2>3. CASE f.op = "drop"
    <3>1. PICK c, k : c = f.c /\ k = [conn[c] EXCEPT !.broken = TRUE]
      BY Zenon
    <3>2. c \in Conns /\ k \in ConnState /\ k.key = conn[c].key /\ k.open = conn[c].open /\ k.st = conn[c].st
      <4>1. c \in Conns /\ conn[c] \in ConnState
        BY <1>3, <2>1, <2>3, <3>1
      <4>2. QED
        BY Zenon, <3>1, <4>1 DEF ConnState
    <3>3. conn' = [conn EXCEPT ![c] = k]
      BY <1>4, <2>3, <3>1
    <3>4. QED
      BY Zenon, <2>1, <3>2, <3>3, SetConn
  <2>4. QED
    BY <2>2, <2>3
<1>6. \A r \in HeldIn(t) : r \in Reqs
  BY <1>3, HeldReqs DEF Frames
<1>7. \A c : ListedIn(waiting, c)' = ListedIn(waiting, c)
  BY <1>4 DEF ListedIn
<1>8. Frames(waiting, t)'
  <2>1. \A r \in Reqs : rst[r] \in {"live", "done"} => rst'[r] \in {"live", "done"}
    BY <1>4
  <2>2. \A r \in HeldIn(t) : rst'[r] = rst[r]
    BY Zenon, <1>3, <1>4, <1>6
  <2>3. Undisturbed(waiting, t)
    BY <1>4, <1>5, <1>7, <2>1, <2>2 DEF Undisturbed, Advances
  <2>4. QED
    BY <1>3, <2>3, FramesStay
<1>9. Shrinks
  <2>1. \A c \in Conns : \A q \in ListedIn(waiting, c) : q \in Reqs /\ rst[q] = "live" /\ q \notin f.rs
    <3>1. \A c \in Conns : \A q \in ListedIn(waiting, c) : q \in Reqs /\ rst[q] = "live"
      BY Zenon, <1>3, ListedReqs DEF Core, TypeOK
    <3>2. QED
      BY Zenon, <1>3, <3>1
  <2>2. \A c \in Conns : \A q \in ListedIn(waiting, c) : rst'[q] = "live"
    BY <1>4, <2>1
  <2>3. QED
    BY Zenon, <1>3, <1>4, <2>2, SameShrinks
<1>10. TypeOK'
  <2>1. rst' \in [Reqs -> {"new", "live", "done", "legacy"}]
    BY <1>3, <1>4 DEF TypeOK
  <2>2. QED
    BY Zenon, <1>3, <1>4, <1>5, <1>8, <2>1 DEF TypeOK, Frames
<1>11. Counted'
  BY <1>3, <1>4 DEF Core, Counted
<1>12. Owing(t)'
  BY Zenon, <1>2, <1>3, <1>4 DEF Owing, Popped
<1>13. QED
  BY <1>3, <1>4, <1>5, <1>8, <1>9, <1>10, <1>11, <1>12, ShrinkStep

\* pool_conn_fallback_legacy hands over one request.
LEMMA FallbackNextKeeps == ASSUME IInv, FallbackNext PROVE IInv'
<1>1. PICK f, t : f = Top /\ t = Below
  OBVIOUS
<1>2. Popped(f, t) /\ f.op = "fallback"
  BY <1>1, PopTop DEF FallbackNext, At, Top
<1>3. PICK r \in f.rs, failed \in {FALSE, SyncFail} :
        /\ rst' = [rst EXCEPT ![r] = "legacy"]
        /\ calls' = [calls EXCEPT ![r] = IF failed THEN @ + 1 ELSE @]
        /\ LET rest == Cons(F("fallback", f.c, f.rs \ {r}), t)
           IN  stack' = IF failed THEN Cons(F("cb", None, {r}), rest) ELSE rest
  BY ZenonT(30), <1>1 DEF FallbackNext
<1>4. /\ Core(waiting) /\ TypeOK /\ Frames(waiting, t) /\ t \in Seq(Frame)
      /\ f.c \in Conns /\ f.rs \subseteq Reqs /\ r \in Reqs /\ Tears(f) = {}
      /\ \A q \in f.rs : /\ ~responded[q] /\ rst[q] = "live" /\ q \notin HeldIn(t)
                         /\ \A c \in Conns : q \notin ListedIn(waiting, c)
      /\ \A g \in Range(t) : g.op # "timeout"
  BY Zenon, <1>2, <1>3 DEF Popped, Sound, Core, Frames, FrameOK, ConnOps, Hold, Tears, Frame, Nested
<1>5. UNCHANGED <<conn, inflight, active, waiting, owed, pc, retries, responded, by, strm, sweep, fault>>
  BY Zenon DEF FallbackNext, lists
<1>6. \A q \in Reqs : q # r => rst'[q] = rst[q] /\ calls'[q] = calls[q]
  BY <1>3, <1>4 DEF TypeOK
<1>7. \A c : ListedIn(waiting, c)' = ListedIn(waiting, c)
  BY Zenon, <1>5 DEF ListedIn
<1>8. conn' \in [Conns -> ConnState] /\ Advances
  BY Zenon, <1>4, <1>5, SameConn DEF TypeOK
<1>9. Frames(waiting, t)'
  <2>1. \A q \in HeldIn(t) : q \in Reqs /\ q # r
    BY Zenon, <1>3, <1>4, HeldReqs
  <2>2. \A q \in Reqs : responded[q] => q # r
    BY <1>3, <1>4
  <2>3. Undisturbed(waiting, t)
    BY Zenon, <1>5, <1>6, <1>7, <2>1, <2>2 DEF Undisturbed
  <2>4. QED
    BY Zenon, <1>4, <2>3, FramesStay
<1>10. PICK g, s : g = F("fallback", f.c, f.rs \ {r}) /\ s = Cons(g, t)
  OBVIOUS
<1>11. /\ g \in Frame /\ Hold(g) = f.rs \ {r} /\ Tears(g) = {} /\ g.op = "fallback" /\ g.c = f.c
       /\ g.rs = f.rs \ {r}
  BY <1>4, <1>10 DEF F, Frame, Ops, Hold, Tears
<1>12. Frames(waiting, s)' /\ Torn(s) = {} \cup Torn(t)
  <2>1. FrameOK(waiting, g)'
    BY Zenon, <1>4, <1>5, <1>11 DEF FrameOK, ConnOps
  <2>2. \A q \in Hold(g) : rst'[q] = "live" /\ \A c \in Conns : q \notin ListedIn(waiting, c)'
    <3>1. \A q \in Hold(g) : q \in f.rs /\ q # r
      BY Zenon, <1>11
    <3>2. QED
      BY ZenonT(30), <1>4, <1>6, <1>7, <3>1
  <2>3. Fits(waiting, g, t)'
    BY Zenon, <1>4, <1>11, <2>1, <2>2 DEF Fits
  <2>4. QED
    BY ZenonT(30), <1>4, <1>9, <1>10, <1>11, <2>3, PushFrame, ConsTorn
<1>13. PICK u : u = IF failed THEN Cons(F("cb", None, {r}), s) ELSE s
  OBVIOUS
<1>14. Frames(waiting, u)' /\ Torn(u) = Torn(t)
  <2>1. CASE failed
    BY Zenon, <1>4, <1>12, <1>13, <2>1, CallbackFits
  <2>2. CASE ~failed
    BY <1>12, <1>13, <2>2
  <2>3. QED
    BY Zenon, <2>1, <2>2
<1>15. stack' = u
  BY Zenon, <1>3, <1>10, <1>13
<1>16. Shrinks
  <2>1. \A c \in Conns : \A q \in ListedIn(waiting, c) : q \in Reqs /\ rst[q] = "live" /\ q # r
    <3>1. \A c \in Conns : \A q \in ListedIn(waiting, c) : q \in Reqs /\ rst[q] = "live"
      BY Zenon, <1>4, ListedReqs DEF Core, TypeOK
    <3>2. QED
      BY Zenon, <1>3, <1>4, <3>1
  <2>2. \A c \in Conns : \A q \in ListedIn(waiting, c) : rst'[q] = "live"
    BY <1>6, <2>1
  <2>3. QED
    BY <1>4, <1>5, <2>2, SameShrinks
<1>17. calls[r] = 0 /\ rst'[r] = "legacy" /\ calls'[r] \in Nat /\ calls'[r] <= 1
  <2>1. calls[r] = 0
    BY Zenon, <1>3, <1>4 DEF Core, Counted
  <2>2. calls'[r] = IF failed THEN calls[r] + 1 ELSE calls[r]
    BY ZenonT(30), <1>3, <1>4 DEF TypeOK
  <2>3. QED
    <3>1. rst'[r] = "legacy"
      BY ZenonT(30), <1>3, <1>4 DEF TypeOK
    <3>2. calls'[r] = 0 \/ calls'[r] = 1
      BY <2>1, <2>2
    <3>3. QED
      BY <2>1, <3>1, <3>2
<1>18. TypeOK'
  <2>1. rst' \in [Reqs -> {"new", "live", "done", "legacy"}]
    BY Zenon, <1>3, <1>4 DEF TypeOK
  <2>2. calls' \in [Reqs -> Nat]
    BY Zenon, <1>3, <1>4, <1>17 DEF TypeOK
  <2>3. QED
    BY ZenonT(30), <1>4, <1>5, <1>14, <1>15, <2>1, <2>2 DEF TypeOK, Frames
<1>19. Counted'
  BY Zenon, <1>4, <1>5, <1>6, <1>17 DEF Core, Counted
<1>20. Owing(u)'
  <2>1. \A q \in Reqs : rst'[q] = "live" /\ responded'[q] => q # r /\ rst[q] = "live" /\ responded[q]
    BY <1>5, <1>6, <1>17
  <2>2. QED
    BY Zenon, <1>2, <1>4, <1>14, <2>1 DEF Owing, Popped
<1>21. QED
  BY Zenon, <1>4, <1>8, <1>14, <1>15, <1>16, <1>18, <1>19, <1>20, ShrinkStep

\* pool_dispatch.
LEMMA DispatchKeeps == ASSUME IInv, NEW r \in Reqs, Dispatch(r) PROVE IInv'
<1>1. PICK t : t = stack
  OBVIOUS
<1>2. Core(waiting) /\ TypeOK /\ Frames(waiting, t) /\ t \in Seq(Frame) /\ Owing(t)
  BY <1>1 DEF IInv, Sound, Core, Frames
<1>3. /\ rst[r] = "new" /\ rst' = [rst EXCEPT ![r] = "live"]
      /\ UNCHANGED <<conn, inflight, active, waiting, owed, pc, retries, sweep, fault>>
  BY DEF Dispatch, lists
<1>4. ~responded[r] /\ calls[r] = 0
  BY <1>2, <1>3 DEF Core, Counted
<1>5. r \notin HeldIn(t) /\ \A c \in Conns : r \notin ListedIn(waiting, c)
  BY ZenonT(30), <1>2, <1>3 DEF Frames, HeldOK, Core, ListsOK
<1>6. rst'[r] = "live" /\ \A q \in Reqs : q # r => rst'[q] = rst[q]
  BY <1>2, <1>3 DEF TypeOK
<1>7. \A c : ListedIn(waiting, c)' = ListedIn(waiting, c)
  BY <1>3 DEF ListedIn
<1>8. conn' \in [Conns -> ConnState] /\ Advances
  BY <1>2, <1>3, SameConn DEF TypeOK
<1>9. Shrinks
  <2>1. \A c \in Conns : \A q \in ListedIn(waiting, c) : q \in Reqs /\ rst[q] = "live" /\ q # r
    <3>1. \A c \in Conns : \A q \in ListedIn(waiting, c) : q \in Reqs /\ rst[q] = "live"
      BY Zenon, <1>2, ListedReqs DEF Core, TypeOK
    <3>2. QED
      BY Zenon, <1>5, <3>1
  <2>2. \A c \in Conns : \A q \in ListedIn(waiting, c) : rst'[q] = "live"
    BY Zenon, <1>6, <2>1
  <2>3. QED
    BY <1>2, <1>3, <2>2, SameShrinks
<1>10. \A q \in HeldIn(t) : q \in Reqs /\ q # r
  BY <1>2, <1>5, HeldReqs
<1>11. rst' \in [Reqs -> {"new", "live", "done", "legacy"}]
  BY <1>2, <1>3 DEF TypeOK
<1>12. CASE stack' = Cons(F("acquire", None, {r}), t) /\ UNCHANGED answers
  <2>1. UNCHANGED <<responded, calls, by, strm>>
    BY <1>12 DEF answers, delivery
  <2>2. Undisturbed(waiting, t)
    BY ZenonT(30), <1>3, <1>4, <1>6, <1>7, <1>10, <2>1 DEF Undisturbed
  <2>3. Frames(waiting, t)'
    BY <1>2, <2>2, FramesStay
  <2>4. PICK f, s : f = F("acquire", None, {r}) /\ s = Cons(f, t)
    OBVIOUS
  <2>5. /\ f \in Frame /\ Hold(f) = {r} /\ Tears(f) = {} /\ f.op = "acquire" /\ f.rs = {r}
    BY <2>4 DEF F, Frame, Ops, Hold, Tears
  <2>6. Fits(waiting, f, t)'
    BY Zenon, <1>4, <1>5, <1>6, <1>7, <2>1, <2>5 DEF Fits, FrameOK, ConnOps, Nested
  <2>7. Frames(waiting, s)' /\ Torn(s) = {} \cup Torn(t)
    BY ZenonT(30), <1>2, <2>3, <2>4, <2>5, <2>6, PushFrame, ConsTorn
  <2>8. stack' = s
    BY Zenon, <1>12, <2>4
  <2>9. TypeOK'
    BY Zenon, <1>2, <1>3, <1>11, <2>1, <2>7, <2>8 DEF TypeOK, Frames
  <2>10. Counted'
    BY Zenon, <1>2, <1>4, <1>6, <2>1 DEF Core, Counted
  <2>11. Owing(s)'
    BY Zenon, <1>2, <1>4, <1>6, <2>1, <2>7 DEF Owing
  <2>12. QED
    BY Zenon, <1>2, <1>8, <1>9, <2>7, <2>8, <2>9, <2>10, <2>11, ShrinkStep
<1>13. CASE ReqFail(r, t)
  <2>1. /\ stack' = Cons(F("cb", None, {r}), Cons(F("done", None, {r}), t))
        /\ responded' = [responded EXCEPT ![r] = TRUE] /\ calls' = [calls EXCEPT ![r] = calls[r] + 1]
        /\ UNCHANGED <<by, strm>>
    BY Zenon, <1>4, <1>13 DEF ReqFail
  <2>2. responded'[r] /\ calls'[r] = 1 /\ \A q \in Reqs : q # r => responded'[q] = responded[q] /\ calls'[q] = calls[q]
    BY <1>2, <1>4, <2>1 DEF TypeOK
  <2>3. Undisturbed(waiting, t)
    BY ZenonT(30), <1>3, <1>4, <1>6, <1>7, <1>10, <2>2 DEF Undisturbed
  <2>4. Frames(waiting, t)'
    BY <1>2, <2>3, FramesStay
  <2>5. PICK op, c, s : /\ op = "done" /\ c = None
                        /\ s = Cons(F("cb", None, {r}), Cons(F(op, c, {r}), t))
    OBVIOUS
  <2>6. /\ op \in {"done", "drop"} /\ c \in Conns \cup {None} /\ op # "drop"
        /\ \A d \in Conns : r \notin ListedIn(waiting, d)'
    BY <1>5, <1>7, <2>5
  <2>7. Frames(waiting, s)' /\ Torn(s) = {r} \cup Torn(t)
    BY ZenonT(30), <1>5, <1>6, <2>2, <2>4, <2>5, <2>6, DoneFits
  <2>8. stack' = s
    BY Zenon, <2>1, <2>5
  <2>9. TypeOK'
    <3>1. responded' \in [Reqs -> BOOLEAN]
      BY <1>2, <2>1 DEF TypeOK
    <3>2. calls' \in [Reqs -> Nat]
      BY <1>2, <1>4, <2>1 DEF TypeOK
    <3>3. QED
      BY Zenon, <1>2, <1>3, <1>11, <2>1, <2>7, <2>8, <3>1, <3>2 DEF TypeOK, Frames
  <2>10. Counted'
    BY ZenonT(30), <1>2, <1>6, <2>2 DEF Core, Counted
  <2>11. Owing(s)'
    BY Zenon, <1>2, <1>6, <2>2, <2>7 DEF Owing
  <2>12. QED
    BY Zenon, <1>2, <1>8, <1>9, <2>7, <2>8, <2>9, <2>10, <2>11, ShrinkStep
<1>14. QED
  BY <1>1, <1>12, <1>13 DEF Dispatch

\* pool_req_timeout, first half.
LEMMA ReqTimeoutKeeps == ASSUME IInv, NEW r \in Reqs, ReqTimeout(r) PROVE IInv'
<1>1. PICK t : t = stack
  OBVIOUS
<1>2. /\ Core(waiting) /\ TypeOK /\ Frames(waiting, t) /\ Owing(t) /\ t = <<>>
      /\ t \in Seq(Frame) /\ HeldIn(t) = {} /\ Torn(t) = {}
  BY <1>1, QuietStack DEF ReqTimeout
<1>3. PICK c : c = IF pc[r] \in Conns THEN pc[r] ELSE None
  OBVIOUS
<1>4. /\ rst[r] = "live" /\ ~responded[r]
      /\ responded' = [responded EXCEPT ![r] = TRUE] /\ calls' = [calls EXCEPT ![r] = calls[r] + 1]
      /\ stack' = Cons(F("cb", None, {r}), Cons(F("timeout", c, {r}), t))
      /\ UNCHANGED <<conn, inflight, active, waiting, owed, rst, pc, retries, by, strm, sweep, fault>>
  BY ZenonT(30), <1>1, <1>3 DEF ReqTimeout, TimerFires, lists
<1>5. calls[r] = 0
  BY Zenon, <1>2, <1>4 DEF Core, Counted
<1>6. responded'[r] /\ calls'[r] = 1 /\ \A q \in Reqs : q # r => responded'[q] = responded[q] /\ calls'[q] = calls[q]
  BY <1>2, <1>4, <1>5 DEF TypeOK
<1>7. \A d : ListedIn(waiting, d)' = ListedIn(waiting, d)
  BY ZenonT(30), <1>4 DEF ListedIn
<1>8. Undisturbed(waiting, t)
  BY Zenon, <1>2, <1>4, <1>6, <1>7 DEF Undisturbed
<1>9. Frames(waiting, t)'
  BY <1>2, <1>8, FramesStay
<1>10. PICK f, s, u : f = F("timeout", c, {r}) /\ s = Cons(f, t) /\ u = Cons(F("cb", None, {r}), s)
  OBVIOUS
<1>11. /\ f \in Frame /\ f.op = "timeout" /\ f.c = c /\ f.rs = {r} /\ Hold(f) = {} /\ Tears(f) = {r}
  BY ZenonT(30), <1>3, <1>10 DEF F, Frame, Ops, Hold, Tears
<1>12. \A d \in Conns : r \in ListedIn(waiting, d) => c = d
  BY <1>2, <1>3 DEF Core, ListsOK
<1>13. Frames(waiting, s)' /\ Torn(s) = {r} \cup Torn(t)
  <2>1. FrameOK(waiting, f)'
    BY ZenonT(30), <1>4, <1>6, <1>7, <1>11, <1>12 DEF FrameOK, ConnOps
  <2>2. \A g \in Range(t) : g.op # "timeout"
    BY <1>2, NoFrames
  <2>3. Fits(waiting, f, t)'
    BY ZenonT(30), <1>2, <1>11, <2>1, <2>2 DEF Fits
  <2>4. QED
    BY ZenonT(30), <1>2, <1>9, <1>10, <1>11, <2>3, PushFrame, ConsTorn
<1>14. Frames(waiting, u)' /\ Torn(u) = Torn(s)
  BY Zenon, <1>10, <1>13, CallbackFits
<1>15. stack' = u
  BY Zenon, <1>4, <1>10
<1>16. TypeOK'
  <2>1. responded' \in [Reqs -> BOOLEAN]
    BY Zenon, <1>2, <1>4 DEF TypeOK
  <2>2. calls' \in [Reqs -> Nat]
    BY <1>2, <1>4, <1>5 DEF TypeOK
  <2>3. QED
    BY Zenon, <1>2, <1>4, <1>14, <1>15, <2>1, <2>2 DEF TypeOK, Frames
<1>17. conn' \in [Conns -> ConnState] /\ Advances
  BY Zenon, <1>2, <1>4, SameConn DEF TypeOK
<1>18. Shrinks
  <2>1. \A d \in Conns : \A q \in ListedIn(waiting, d) : rst'[q] = "live"
    BY ZenonT(30), <1>2, <1>4 DEF Core, ListsOK
  <2>2. QED
    BY <1>2, <1>4, <2>1, SameShrinks
<1>19. Counted'
  BY Zenon, <1>2, <1>4, <1>6 DEF Core, Counted
<1>20. Owing(u)'
  BY <1>2, <1>4, <1>6, <1>13, <1>14 DEF Owing
<1>21. QED
  BY Zenon, <1>2, <1>14, <1>15, <1>16, <1>17, <1>18, <1>19, <1>20, ShrinkStep

-----------------------------------------------------------------------------
(* Moving a whole queue.                                                      *)

\* The queue of c is emptied: every list stays as it was, or loses its waiters.
LEMMA Emptied ==
  ASSUME Core(waiting), NEW c \in Conns, waiting' = [waiting EXCEPT ![c] = <<>>],
         UNCHANGED <<inflight, active, rst>>,
         \A q \in Reqs : q \notin Range(waiting[c]) => pc'[q] = pc[q]
  PROVE  /\ waiting' \in [Conns -> Seq(Reqs)] /\ Shrinks
         /\ \A d \in Conns : \A q : q \in ListedIn(waiting, d)' => q \in ListedIn(waiting, d)
         /\ \A q \in Range(waiting[c]) : q \in Reqs /\ rst[q] = "live" /\ \A d \in Conns : q \notin ListedIn(waiting, d)'
<1>1. TypeOK /\ <<>> \in Seq(Reqs)
  BY DEF Core
<1>2. /\ waiting' \in [Conns -> Seq(Reqs)] /\ waiting'[c] = <<>>
      /\ \A d \in Conns : d # c => waiting'[d] = waiting[d]
  BY <1>1 DEF TypeOK
<1>3. /\ ListedIn(waiting, c)' = active[c]
      /\ \A d \in Conns : d # c => ListedIn(waiting, d)' = ListedIn(waiting, d)
  BY <1>2, QueueEmpty DEF ListedIn
<1>4. \A d \in Conns : active[d] \subseteq ListedIn(waiting, d)
  BY DEF ListedIn
<1>5. \A d \in Conns : \A q : q \in ListedIn(waiting, d)' => q \in ListedIn(waiting, d)
  BY <1>3, <1>4
<1>6. \A d \in Conns : \A q \in ListedIn(waiting, d) : q \in Reqs /\ rst[q] = "live" /\ pc[q] = d
  BY Zenon, <1>1, ListedReqs DEF Core, TypeOK
<1>7. \A q \in Range(waiting[c]) : q \in ListedIn(waiting, c) /\ q \notin active[c]
  BY DEF ListedIn, Core, ListsOK
<1>8. \A q \in Range(waiting[c]) : q \in Reqs /\ rst[q] = "live" /\ \A d \in Conns : q \notin ListedIn(waiting, d)'
  BY ZenonT(30), <1>3, <1>6, <1>7
<1>9. Shrinks
  <2>1. \A d \in Conns : /\ Range(waiting'[d]) \subseteq Range(waiting[d]) /\ IsInjective(waiting'[d])
    BY <1>2, QueueEmpty DEF Core, ListsOK
  <2>2. \A d \in Conns : \A q \in ListedIn(waiting, d)' : rst'[q] = "live" /\ pc'[q] = pc[q]
    BY ZenonT(30), <1>5, <1>6, <1>8
  <2>3. \A d \in Conns : inflight'[d] = Cardinality(active'[d]) /\ inflight'[d] <= inflight[d]
    <3>1. \A d \in Conns : inflight[d] \in Nat /\ inflight[d] = Cardinality(active[d])
      BY <1>1 DEF TypeOK, Core, CapacityRespected
    <3>2. QED
      BY <3>1
  <2>4. QED
    BY Zenon, <2>1, <2>2, <2>3 DEF Shrinks
<1>10. QED
  BY Zenon, <1>2, <1>5, <1>8, <1>9

\* pool_conn_fallback_legacy begins.
LEMMA FallbackLegacyKeeps == ASSUME IInv, NEW c \in Conns, FallbackLegacy(c) PROVE IInv'
<1>1. PICK t, rs : t = stack /\ rs = Range(waiting[c])
  OBVIOUS
<1>2. /\ Core(waiting) /\ TypeOK /\ Frames(waiting, t) /\ Owing(t) /\ t = <<>>
      /\ t \in Seq(Frame) /\ HeldIn(t) = {} /\ Torn(t) = {}
  BY <1>1, QuietStack DEF FallbackLegacy
<1>3. /\ waiting' = [waiting EXCEPT ![c] = <<>>] /\ stack' = Cons(F("fallback", c, rs), t)
      /\ UNCHANGED <<conn, inflight, active, owed, rst, pc, retries, responded, calls, by, strm, sweep, fault>>
  BY <1>1 DEF FallbackLegacy, answers, delivery
<1>4. /\ waiting' \in [Conns -> Seq(Reqs)] /\ Shrinks
      /\ \A d \in Conns : \A q : q \in ListedIn(waiting, d)' => q \in ListedIn(waiting, d)
      /\ \A q \in rs : q \in Reqs /\ rst[q] = "live" /\ \A d \in Conns : q \notin ListedIn(waiting, d)'
  BY Zenon, <1>1, <1>2, <1>3, Emptied
<1>5. \A q \in rs : ~responded[q]
  BY <1>2, <1>4 DEF Owing
<1>6. Undisturbed(waiting, t)
  BY Zenon, <1>3, <1>4 DEF Undisturbed
<1>7. Frames(waiting, t)'
  BY <1>2, <1>6, FramesStay
<1>8. PICK f, s : f = F("fallback", c, rs) /\ s = Cons(f, t)
  OBVIOUS
<1>9. /\ f \in Frame /\ f.op = "fallback" /\ f.c = c /\ f.rs = rs /\ Hold(f) = rs /\ Tears(f) = {}
  BY <1>4, <1>8 DEF F, Frame, Ops, Hold, Tears
<1>10. Frames(waiting, s)' /\ Torn(s) = {} \cup Torn(t)
  <2>1. FrameOK(waiting, f)'
    BY Zenon, <1>3, <1>5, <1>9 DEF FrameOK, ConnOps
  <2>2. \A g \in Range(t) : g.op # "timeout"
    BY <1>2, NoFrames
  <2>3. Fits(waiting, f, t)'
    BY ZenonT(30), <1>2, <1>3, <1>4, <1>9, <2>1, <2>2 DEF Fits
  <2>4. QED
    BY Zenon, <1>2, <1>7, <1>8, <1>9, <2>3, PushFrame, ConsTorn
<1>11. stack' = s
  BY <1>3, <1>8
<1>12. TypeOK'
  BY <1>2, <1>3, <1>4, <1>10, <1>11 DEF TypeOK, Frames
<1>13. conn' \in [Conns -> ConnState] /\ Advances
  BY Zenon, <1>2, <1>3, SameConn DEF TypeOK
<1>14. Counted' /\ Owing(s)'
  BY Zenon, <1>2, <1>3, <1>10 DEF Core, Counted, Owing
<1>15. QED
  BY Zenon, <1>2, <1>4, <1>10, <1>11, <1>12, <1>13, <1>14, ShrinkStep

\* pool_update_idle on a broken conn.
LEMMA RehomeKeeps == ASSUME IInv, UpdateIdle, Rehomes(Top.c) PROVE IInv'
<1>1. PICK f, t, c, rs : f = Top /\ t = Below /\ c = f.c /\ rs = Range(waiting[c])
  OBVIOUS
<1>2. Popped(f, t) /\ f.op = "idle"
  BY <1>1, PopTop DEF UpdateIdle, At, Top
<1>3. Tears(f) = {} /\ c \in Conns /\ \A g \in Range(t) : g.op # "timeout"
  BY ZenonT(30), <1>1, <1>2 DEF Popped, FrameOK, ConnOps, Tears, Nested
<1>4. Core(waiting) /\ TypeOK /\ Frames(waiting, t) /\ t \in Seq(Frame) /\ Owing(t)
  BY <1>2, <1>3 DEF Popped, Sound, Core, Owing, Frames
<1>5. /\ waiting' = [waiting EXCEPT ![c] = <<>>]
      /\ pc' = [r \in Reqs |-> IF r \in rs THEN None ELSE pc[r]]
      /\ stack' = Push("acquire", rs, Cons(F("close", c, {}), t))
      /\ UNCHANGED <<conn, inflight, active, owed, rst, retries, responded, calls, by, strm, sweep, fault>>
  BY <1>1 DEF UpdateIdle, answers, delivery
<1>6. \A q \in Reqs : q \notin Range(waiting[c]) => pc'[q] = pc[q]
  BY <1>1, <1>5
<1>7. /\ waiting' \in [Conns -> Seq(Reqs)] /\ Shrinks
      /\ \A d \in Conns : \A q : q \in ListedIn(waiting, d)' => q \in ListedIn(waiting, d)
      /\ \A q \in rs : q \in Reqs /\ rst[q] = "live" /\ \A d \in Conns : q \notin ListedIn(waiting, d)'
  BY ZenonT(30), <1>1, <1>3, <1>4, <1>5, <1>6, Emptied
<1>8. \A q \in rs : q \notin HeldIn(t) /\ ~responded[q]
  <2>1. \A q \in rs : q \in ListedIn(waiting, c)
    BY <1>1 DEF ListedIn
  <2>2. \A q \in rs : q \notin HeldIn(t)
    BY <1>3, <1>4, <2>1 DEF Frames, HeldOK
  <2>3. Torn(t) \subseteq HeldIn(t)
    BY <1>3, <1>4, TornHeld
  <2>4. QED
    BY Zenon, <1>4, <1>7, <2>2, <2>3 DEF Owing
<1>9. Undisturbed(waiting, t)
  BY ZenonT(30), <1>5, <1>7 DEF Undisturbed
<1>10. Frames(waiting, t)'
  BY <1>4, <1>9, FramesStay
<1>11. PICK op, s : op = "close" /\ s = Cons(F(op, c, {}), t)
  BY Zenon
<1>12. Frames(waiting, s)' /\ Torn(s) = Torn(t) /\ s \in Seq(Frame)
  <2>1. op \in {"flush", "idle", "close", "failall"}
    BY Zenon, <1>11
  <2>2. Frames(waiting, s)' /\ Torn(s) = Torn(t)
    BY ZenonT(30), <1>3, <1>10, <1>11, <2>1, PushCall
  <2>3. QED
    BY Zenon, <2>2 DEF Frames
<1>13. HeldIn(s) = {} \cup HeldIn(t)
  <2>1. PICK g : g = F("close", c, {})
    OBVIOUS
  <2>2. g \in Frame /\ Hold(g) = {}
    BY <1>3, <2>1 DEF F, Frame, Ops, Hold
  <2>3. QED
    BY Zenon, <1>4, <1>11, <2>1, <2>2, ConsHeld
<1>14. PICK op2, u : op2 = "acquire" /\ u = Push(op2, rs, s)
  BY Zenon
<1>15. rs \in SUBSET Reqs /\ rs \cap HeldIn(s) = {} /\ \A q \in rs : ~responded'[q]
  BY <1>5, <1>7, <1>8, <1>13
<1>16. Frames(waiting, u)'
  BY Zenon, <1>5, <1>7, <1>12, <1>14, <1>15, PushMany
<1>17. Torn(u) = Torn(s) /\ stack' = u
  BY ZenonT(30), <1>5, <1>11, <1>12, <1>14, <1>15, PushTorn
<1>18. TypeOK'
  <2>1. pc' \in [Reqs -> Conns \cup {None, Freed}]
    BY <1>4, <1>5 DEF TypeOK
  <2>2. QED
    BY Zenon, <1>4, <1>5, <1>7, <1>16, <1>17, <2>1 DEF TypeOK, Frames
<1>19. conn' \in [Conns -> ConnState] /\ Advances
  BY Zenon, <1>4, <1>5, SameConn DEF TypeOK
<1>20. Counted' /\ Owing(u)'
  BY Zenon, <1>4, <1>5, <1>12, <1>17 DEF Core, Counted, Owing
<1>21. QED
  BY <1>4, <1>7, <1>16, <1>17, <1>18, <1>19, <1>20, ShrinkStep

\* pool_update_idle.
LEMMA UpdateIdleKeeps == ASSUME IInv, UpdateIdle PROVE IInv'
<1>1. CASE Rehomes(Top.c)
  BY <1>1, RehomeKeeps
<1>2. CASE ~Rehomes(Top.c)
  <2>1. PICK f, t, c : f = Top /\ t = Below /\ c = f.c
    OBVIOUS
  <2>2. Popped(f, t) /\ f.op = "idle"
    BY Zenon, <2>1, PopTop DEF UpdateIdle, At, Top
  <2>3. Tears(f) = {} /\ c \in Conns /\ TypeOK
    BY <2>1, <2>2 DEF Popped, FrameOK, ConnOps, Tears, Sound, Core
  <2>4. conn \in [Conns -> ConnState] /\ conn[c] \in ConnState
    BY <2>3 DEF TypeOK
  <2>5. PICK k : k = IF conn[c].st = "Ready" /\ inflight[c] = 0 THEN [conn[c] EXCEPT !.idle = TRUE] ELSE conn[c]
    BY Zenon
  <2>6. k \in ConnState /\ k.key = conn[c].key /\ k.open = conn[c].open /\ k.st = conn[c].st
    <3>1. /\ [conn[c] EXCEPT !.idle = TRUE] \in ConnState
          /\ [conn[c] EXCEPT !.idle = TRUE].key = conn[c].key
          /\ [conn[c] EXCEPT !.idle = TRUE].open = conn[c].open
          /\ [conn[c] EXCEPT !.idle = TRUE].st = conn[c].st
      BY Zenon, <2>4 DEF ConnState
    <3>2. QED
      BY <2>4, <2>5, <3>1
  <2>7. conn' = [conn EXCEPT ![c] = k]
    <3>1. conn' = IF conn[c].st = "Ready" /\ inflight[c] = 0 THEN [conn EXCEPT ![c].idle = TRUE] ELSE conn
      BY <1>2, <2>1 DEF UpdateIdle
    <3>2. QED
      BY ZenonT(30), <2>3, <2>4, <2>5, <3>1
  <2>8. conn' \in [Conns -> ConnState] /\ Advances
    BY Zenon, <2>3, <2>4, <2>6, <2>7, SetConn
  <2>9. UNCHANGED <<waiting, pc>> /\ stack' = t
    BY <1>2, <2>1 DEF UpdateIdle
  <2>10. SameLists /\ UNCHANGED <<rst, responded, calls>>
    BY Zenon, <2>3, <2>8, <2>9 DEF SameLists, TypeOK, UpdateIdle, answers, delivery
  <2>11. QED
    BY <2>2, <2>3, <2>8, <2>9, <2>10, PopPlain
<1>3. QED
  BY <1>1, <1>2

-----------------------------------------------------------------------------
(* Responses, and the list a timed-out request was on.                        *)

\* r leaves the active list of c.
LEMMA Unlinked ==
  ASSUME Counting, Core(waiting), NEW c \in Conns, NEW r \in active[c], active' = ActiveRemove(c, r),
         inflight' = [inflight EXCEPT ![c] = IF @ > 0 THEN @ - 1 ELSE 0], UNCHANGED <<waiting, pc>>,
         rst' \in [Reqs -> {"new", "live", "done", "legacy"}], \A q \in Reqs : q # r => rst'[q] = rst[q]
  PROVE  /\ active' \in [Conns -> SUBSET Reqs] /\ inflight' \in [Conns -> Nat] /\ Shrinks
         /\ \A d \in Conns : \A q : q \in ListedIn(waiting, d)' => q \in ListedIn(waiting, d)
         /\ r \in Reqs /\ rst[r] = "live" /\ \A d \in Conns : r \notin ListedIn(waiting, d)'
<1>1. TypeOK /\ r \in Reqs
  BY DEF Core, TypeOK
<1>2. /\ active' \in [Conns -> SUBSET Reqs] /\ active'[c] = active[c] \ {r}
      /\ \A d \in Conns : d # c => active'[d] = active[d]
  BY <1>1 DEF TypeOK, ActiveRemove
<1>3. inflight[c] \in Nat /\ inflight[c] = Cardinality(active[c])
  BY <1>1 DEF TypeOK, Core, CapacityRespected
<1>4. active[c] \in SUBSET Reqs
  BY Zenon, <1>1 DEF TypeOK
<1>5. Cardinality(active[c] \ {r}) = Cardinality(active[c]) - 1 /\ Cardinality(active[c]) # 0
  BY Zenon, <1>4 DEF Counting
<1>6. /\ inflight' \in [Conns -> Nat] /\ inflight'[c] = inflight[c] - 1
      /\ \A d \in Conns : d # c => inflight'[d] = inflight[d]
  <2>1. inflight[c] > 0 /\ inflight[c] - 1 \in Nat
    BY Zenon, <1>3, <1>5, OneLess
  <2>2. inflight \in [Conns -> Nat] /\ inflight' = [inflight EXCEPT ![c] = inflight[c] - 1]
    BY Zenon, <1>1, <2>1 DEF TypeOK
  <2>3. QED
    BY Zenon, <2>1, <2>2
<1>7. \A d \in Conns : inflight'[d] = Cardinality(active'[d]) /\ inflight'[d] <= inflight[d]
  <2>1. \A d \in Conns : inflight[d] \in Nat /\ inflight[d] = Cardinality(active[d])
    BY Zenon, <1>1 DEF TypeOK, Core, CapacityRespected
  <2>2. inflight'[c] = Cardinality(active'[c]) /\ inflight'[c] <= inflight[c]
    BY <1>2, <1>3, <1>5, <1>6
  <2>3. ASSUME NEW d \in Conns, d # c
        PROVE  inflight'[d] = Cardinality(active'[d]) /\ inflight'[d] <= inflight[d]
    <3>1. active'[d] = active[d] /\ inflight'[d] = inflight[d]
      BY <1>2, <1>6, <2>3
    <3>2. inflight'[d] = Cardinality(active'[d])
      BY <2>1, <3>1, Zenon
    <3>3. inflight'[d] <= inflight[d]
      BY <2>1, <3>1
    <3>4. QED
      BY <3>2, <3>3
  <2>4. QED
    BY <2>2, <2>3
<1>8. \A d \in Conns : \A q : q \in ListedIn(waiting, d)' => q \in ListedIn(waiting, d)
  BY Zenon, <1>2 DEF ListedIn
<1>9. \A d \in Conns : \A q \in ListedIn(waiting, d) : q \in Reqs /\ rst[q] = "live" /\ pc[q] = d
  BY Zenon, <1>1, ListedReqs DEF Core, TypeOK
<1>10. r \in ListedIn(waiting, c) /\ r \notin Range(waiting[c])
  BY DEF ListedIn, Core, ListsOK
<1>11. \A d \in Conns : r \notin ListedIn(waiting, d)'
  <2>1. r \notin ListedIn(waiting, c)'
    BY Zenon, <1>2, <1>10 DEF ListedIn
  <2>2. QED
    BY <1>8, <1>9, <1>10, <2>1
<1>12. Shrinks
  <2>1. \A d \in Conns : active'[d] \subseteq active[d]
    BY Zenon, <1>2
  <2>2. \A d \in Conns : \A q \in ListedIn(waiting, d)' : rst'[q] = "live" /\ pc'[q] = pc[q]
    BY <1>8, <1>9, <1>11
  <2>3. \A d \in Conns : IsInjective(waiting'[d])
    BY DEF Core, ListsOK
  <2>4. QED
    BY Zenon, <1>7, <2>1, <2>2, <2>3 DEF Shrinks
<1>13. QED
  BY Zenon, <1>1, <1>2, <1>6, <1>8, <1>9, <1>10, <1>11, <1>12

\* A response to r arrives on conn c, while the frames t wait.
LEMMA OnResponseStep ==
  ASSUME Counting, NEW t, NEW c \in Conns, NEW r, NEW keeps \in SUBSET BOOLEAN, Core(waiting),
         Frames(waiting, t)', r \notin HeldIn(t), Owing(t), \A g \in Range(t) : g.op # "timeout",
         conn[c].st # "Free", conn[c].open, OnResponse(c, r, keeps, t)
  PROVE  IInv'
<1>1. /\ TypeOK /\ r \in active[c] /\ ~responded[r] /\ t \in Seq(Frame)
  BY Zenon DEF Core, OnResponse, Frames
<1>2. /\ active' = ActiveRemove(c, r)
      /\ inflight' = [inflight EXCEPT ![c] = IF @ > 0 THEN @ - 1 ELSE 0]
      /\ UNCHANGED <<conn, waiting, rst, pc, retries, sweep, fault>>
  BY Zenon DEF OnResponse
<1>3. rst' \in [Reqs -> {"new", "live", "done", "legacy"}] /\ \A q \in Reqs : q # r => rst'[q] = rst[q]
  BY <1>1, <1>2 DEF TypeOK
<1>4. /\ active' \in [Conns -> SUBSET Reqs] /\ inflight' \in [Conns -> Nat] /\ Shrinks
      /\ r \in Reqs /\ rst[r] = "live" /\ \A d \in Conns : r \notin ListedIn(waiting, d)'
  BY Zenon, <1>1, <1>2, <1>3, Unlinked
<1>5. r \notin HeldIn(t)
  OBVIOUS
<1>6. conn' \in [Conns -> ConnState] /\ Advances
  BY Zenon, <1>1, <1>2, SameConn DEF TypeOK
<1>7. strm' \in [Reqs -> {"new", "fin", "dead"}]
  BY <1>1, <1>4 DEF TypeOK, OnResponse
<1>8. owed' \in [Conns -> Seq(Reqs)] /\ (Proto(c) = "H1" => Head(owed[c]) \in Reqs)
  <2>1. owed \in [Conns -> Seq(Reqs)] /\ owed[c] \in Seq(Reqs)
    BY <1>1 DEF TypeOK
  <2>2. \/ UNCHANGED owed /\ Proto(c) # "H1"
        \/ /\ Proto(c) = "H1" /\ owed[c] # <<>>
           /\ owed' = [owed EXCEPT ![c] = Tail(owed[c])] \/ UNCHANGED owed
    BY Zenon DEF OnResponse
  <2>3. owed[c] # <<>> => Head(owed[c]) \in Reqs /\ Tail(owed[c]) \in Seq(Reqs)
    BY Zenon, <2>1, QueuePop
  <2>4. QED
    BY ZenonT(30), <2>1, <2>2, <2>3
<1>9. calls[r] = 0
  BY Zenon, <1>1, <1>4 DEF Core, Counted
<1>10. CASE stack' = Cons(F("retry", None, {r}), t) /\ UNCHANGED delivery
  <2>1. UNCHANGED <<responded, calls, by>>
    BY <1>10 DEF delivery
  <2>2. PICK f, s : f = F("retry", None, {r}) /\ s = Cons(f, t)
    OBVIOUS
  <2>3. f \in Frame /\ f.op = "retry" /\ f.rs = {r} /\ Hold(f) = {r} /\ Tears(f) = {r}
    BY Zenon, <1>4, <2>2 DEF F, Frame, Ops, Hold, Tears
  <2>4. Fits(waiting, f, t)'
    BY Zenon, <1>2, <1>4, <1>5, <2>3 DEF Fits, FrameOK, ConnOps, Nested
  <2>5. Frames(waiting, s)' /\ Torn(s) = {r} \cup Torn(t)
    BY ZenonT(30), <1>1, <2>2, <2>3, <2>4, PushFrame, ConsTorn
  <2>6. stack' = s
    BY Zenon, <1>10, <2>2
  <2>7. TypeOK'
    BY Zenon, <1>1, <1>2, <1>3, <1>4, <1>6, <1>7, <1>8, <2>1, <2>5, <2>6 DEF TypeOK, Frames
  <2>8. Counted' /\ Owing(s)'
    BY Zenon, <1>2, <2>1, <2>5 DEF Core, Counted, Owing
  <2>9. QED
    BY Zenon, <1>4, <1>6, <2>5, <2>6, <2>7, <2>8, ShrinkStep
<1>11. ASSUME NEW keep \in keeps,
              responded' = [responded EXCEPT ![r] = TRUE], calls' = [calls EXCEPT ![r] = @ + 1],
              by' = [by EXCEPT ![r] = IF Proto(c) = "H1" THEN Head(owed[c]) ELSE r],
              stack' = Cons(F("cb", None, {r}), Cons(F(IF keep THEN "done" ELSE "drop", c, {r}), t))
       PROVE  IInv'
  <2>1. responded'[r] /\ calls'[r] = 1 /\ \A q \in Reqs : q # r => responded'[q] = responded[q] /\ calls'[q] = calls[q]
    BY <1>1, <1>4, <1>9, <1>11 DEF TypeOK
  <2>2. PICK op, s : /\ op = IF keep THEN "done" ELSE "drop"
                     /\ s = Cons(F("cb", None, {r}), Cons(F(op, c, {r}), t))
    OBVIOUS
  <2>3. /\ op \in {"done", "drop"} /\ c \in Conns \cup {None} /\ rst'[r] = "live"
        /\ conn'[c].st # "Free" /\ conn'[c].open
    BY <1>2, <1>4, <2>2
  <2>4. Frames(waiting, s)' /\ Torn(s) = {r} \cup Torn(t)
    BY ZenonT(30), <1>4, <1>5, <2>1, <2>2, <2>3, DoneFits
  <2>5. stack' = s
    BY Zenon, <1>11, <2>2
  <2>6. TypeOK'
    <3>1. responded' \in [Reqs -> BOOLEAN]
      BY Zenon, <1>1, <1>11 DEF TypeOK
    <3>2. calls' \in [Reqs -> Nat]
      <4>1. calls \in [Reqs -> Nat] /\ calls[r] + 1 \in Nat
        BY <1>1, <1>4 DEF TypeOK
      <4>2. QED
        BY Zenon, <1>11, <4>1
    <3>3. by' \in [Reqs -> Reqs \cup {None}]
      BY <1>1, <1>4, <1>8, <1>11 DEF TypeOK
    <3>4. QED
      BY Zenon, <1>1, <1>2, <1>3, <1>4, <1>6, <1>7, <1>8, <2>4, <2>5, <3>1, <3>2, <3>3 DEF TypeOK, Frames
  <2>7. Counted'
    BY ZenonT(30), <1>2, <1>4, <2>1 DEF Core, Counted
  <2>8. Owing(s)'
    BY Zenon, <1>2, <2>1, <2>4 DEF Owing
  <2>9. QED
    BY Zenon, <1>4, <1>6, <2>4, <2>5, <2>6, <2>7, <2>8, ShrinkStep
<1>12. QED
  BY ZenonT(30), <1>10, <1>11 DEF OnResponse

\* The frames of t do not notice that r leaves the active list.
LEMMA ResponseFrames ==
  ASSUME Counting, NEW t, NEW c \in Conns, NEW r, NEW keeps, Core(waiting), Frames(waiting, t),
         OnResponse(c, r, keeps, t)
  PROVE  Frames(waiting, t)' /\ r \notin HeldIn(t)
<1>1. /\ TypeOK /\ r \in active[c] /\ ~responded[r] /\ t \in Seq(Frame)
  BY ZenonT(30) DEF Core, OnResponse, Frames
<1>2. /\ active' = ActiveRemove(c, r)
      /\ inflight' = [inflight EXCEPT ![c] = IF @ > 0 THEN @ - 1 ELSE 0]
      /\ UNCHANGED <<conn, waiting, rst, pc, retries, sweep, fault>>
  BY Zenon DEF OnResponse
<1>3. rst' \in [Reqs -> {"new", "live", "done", "legacy"}] /\ \A q \in Reqs : q # r => rst'[q] = rst[q]
  BY <1>1, <1>2 DEF TypeOK
<1>4. /\ \A d \in Conns : \A q : q \in ListedIn(waiting, d)' => q \in ListedIn(waiting, d)
      /\ r \in Reqs
  BY ZenonT(30), <1>1, <1>2, <1>3, Unlinked
<1>5. r \in ListedIn(waiting, c)
  BY Zenon, <1>1 DEF ListedIn
<1>6. r \notin HeldIn(t)
  BY Zenon, <1>5 DEF Frames, HeldOK
<1>7. \A q \in Reqs : q # r => responded'[q] = responded[q]
  BY Zenon, <1>1, <1>4 DEF OnResponse, delivery, TypeOK
<1>8. \A q \in HeldIn(t) : q \in Reqs /\ q # r
  BY Zenon, <1>1, <1>6, HeldReqs
<1>9. \A q \in Reqs : responded[q] => q # r
  BY <1>1
<1>10. Undisturbed(waiting, t)
  BY Zenon, <1>2, <1>4, <1>7, <1>8, <1>9 DEF Undisturbed
<1>11. QED
  BY <1>6, <1>10, FramesStay

\* A response in the receive loop.
LEMMA ReceiveKeeps == ASSUME Counting, IInv, NEW r, Receive(r) PROVE IInv'
<1>1. PICK f, t, c, keeps : /\ f = Top /\ t = stack /\ c = f.c
                            /\ keeps = IF Proto(c) = "H1" THEN BOOLEAN ELSE {TRUE}
  BY ZenonT(30)
<1>2. Popped(f, Below) /\ f.op = "loop" /\ stack = Cons(f, Below)
  BY <1>1, PopTop DEF Receive, At, Top
<1>3. /\ c \in Conns /\ f \in Frame /\ Below \in Seq(Frame) /\ \A g \in Range(Below) : g.op # "timeout"
      /\ conn[c].st # "Free" /\ conn[c].open
  BY Zenon, <1>1, <1>2 DEF Popped, FrameOK, ConnOps, Nested, Sound, Frames
<1>4. \A g \in Range(t) : g.op # "timeout"
  <2>1. Range(t) = {f} \cup Range(Below)
    BY ZenonT(30), <1>1, <1>2, <1>3, ConsStack
  <2>2. QED
    BY <1>2, <1>3, <2>1
<1>5. Core(waiting) /\ Frames(waiting, t) /\ Owing(t)
  BY <1>1 DEF IInv, Sound
<1>6. OnResponse(c, r, keeps, t) /\ keeps \in SUBSET BOOLEAN
  BY <1>1 DEF Receive
<1>7. Frames(waiting, t)' /\ r \notin HeldIn(t)
  BY ZenonT(30), <1>3, <1>5, <1>6, ResponseFrames
<1>8. QED
  BY <1>3, <1>4, <1>5, <1>6, <1>7, OnResponseStep

\* The end of the stream completes a close-delimited body.
LEMMA H1EofKeeps == ASSUME Counting, IInv, NEW c \in Conns, NEW r, H1Eof(c, r) PROVE IInv'
<1>1. PICK t, op, s, keeps : /\ t = stack /\ op = "failall" /\ s = Cons(F(op, c, {}), t)
                             /\ keeps = {FALSE}
  BY ZenonT(30)
<1>2. /\ Core(waiting) /\ Frames(waiting, t) /\ Owing(t) /\ t = <<>> /\ t \in Seq(Frame)
      /\ HeldIn(t) = {} /\ \A g \in Range(t) : g.op # "timeout"
      /\ conn[c].st # "Free" /\ conn[c].open
  BY Zenon, <1>1, QuietStack DEF H1Eof, Core, ConnOK
<1>3. OnResponse(c, r, keeps, s) /\ keeps \in SUBSET BOOLEAN
  BY <1>1 DEF H1Eof
<1>4. Frames(waiting, t)'
  BY ZenonT(30), <1>2, NoFrames DEF Frames, HeldOK, FramesOK
<1>5. Frames(waiting, s)' /\ Torn(s) = Torn(t) /\ \A g \in Range(s) : g.op # "timeout"
  BY ZenonT(30), <1>1, <1>2, <1>4, PushPlain
<1>6. HeldIn(s) = {} \cup HeldIn(t)
  <2>1. PICK g : g = F("failall", c, {})
    BY Zenon
  <2>2. g \in Frame /\ Hold(g) = {}
    BY Zenon, <2>1 DEF F, Frame, Ops, Hold
  <2>3. QED
    BY ZenonT(30), <1>1, <1>2, <2>1, <2>2, ConsHeld
<1>7. Owing(s) /\ r \notin HeldIn(s)
  BY ZenonT(30), <1>2, <1>5, <1>6 DEF Owing
<1>8. QED
  BY <1>2, <1>3, <1>5, <1>7, OnResponseStep

\* The request r of a timeout frame leaves the list it is on.
LEMMA TimedOutLists ==
  ASSUME Counting, Core(waiting), NEW r \in Reqs, NEW c \in Conns \cup {None},
         \A d \in Conns : r \in ListedIn(waiting, d) => c = d,
         rst' = [rst EXCEPT ![r] = "done"], pc' = pc,
         IF c # None /\ r \in active[c]
         THEN /\ active' = ActiveRemove(c, r)
              /\ inflight' = [inflight EXCEPT ![c] = IF @ > 0 THEN @ - 1 ELSE 0]
              /\ UNCHANGED waiting
         ELSE /\ waiting' = [d \in Conns |-> IF d = c THEN Unlink(waiting[d], r) ELSE waiting[d]]
              /\ UNCHANGED <<active, inflight>>
  PROVE  /\ active' \in [Conns -> SUBSET Reqs] /\ inflight' \in [Conns -> Nat] /\ Shrinks
         /\ waiting' \in [Conns -> Seq(Reqs)]
         /\ \A d \in Conns : \A q : q \in ListedIn(waiting, d)' => q \in ListedIn(waiting, d)
<1>1. TypeOK
  BY Zenon DEF Core
<1>2. /\ rst' \in [Reqs -> {"new", "live", "done", "legacy"}] /\ \A q \in Reqs : q # r => rst'[q] = rst[q]
  BY <1>1 DEF TypeOK
<1>3. CASE c # None /\ r \in active[c]
  <2>1. /\ c \in Conns /\ active' = ActiveRemove(c, r)
        /\ inflight' = [inflight EXCEPT ![c] = IF @ > 0 THEN @ - 1 ELSE 0] /\ UNCHANGED <<waiting, pc>>
    BY <1>3
  <2>2. /\ active' \in [Conns -> SUBSET Reqs] /\ inflight' \in [Conns -> Nat] /\ Shrinks
        /\ \A d \in Conns : \A q : q \in ListedIn(waiting, d)' => q \in ListedIn(waiting, d)
    BY ZenonT(30), <1>2, <1>3, <2>1, Unlinked
  <2>3. waiting' \in [Conns -> Seq(Reqs)]
    BY Zenon, <1>1, <2>1 DEF TypeOK
  <2>4. QED
    BY Zenon, <2>2, <2>3
<1>4. CASE ~(c # None /\ r \in active[c])
  <2>1. /\ waiting' = [d \in Conns |-> IF d = c THEN Unlink(waiting[d], r) ELSE waiting[d]]
        /\ UNCHANGED <<active, inflight>>
    BY Zenon, <1>4
  <2>2. ASSUME NEW d \in Conns
        PROVE  /\ waiting'[d] \in Seq(Reqs) /\ IsInjective(waiting'[d])
               /\ Range(waiting'[d]) \subseteq Range(waiting[d])
               /\ r \notin ListedIn(waiting, d)'
    <3>1. waiting[d] \in Seq(Reqs) /\ IsInjective(waiting[d])
      BY ZenonT(30), <1>1 DEF TypeOK, Core, ListsOK
    <3>2. CASE d = c
      <4>1. waiting'[d] = Unlink(waiting[d], r) /\ active'[d] = active[d] /\ r \notin active[d]
        BY Zenon, <1>4, <2>1, <3>2, MarkAssumption
      <4>2. /\ Unlink(waiting[d], r) \in Seq(Reqs) /\ IsInjective(Unlink(waiting[d], r))
            /\ Range(Unlink(waiting[d], r)) = Range(waiting[d]) \ {r}
        BY Zenon, <3>1, QueueUnlink
      <4>3. QED
        BY ZenonT(30), <4>1, <4>2 DEF ListedIn
    <3>3. CASE d # c
      <4>1. waiting'[d] = waiting[d] /\ active'[d] = active[d] /\ r \notin ListedIn(waiting, d)
        BY Zenon, <2>1, <3>3
      <4>2. QED
        BY Zenon, <3>1, <4>1 DEF ListedIn
    <3>4. QED
      BY <3>2, <3>3
  <2>3. waiting' \in [Conns -> Seq(Reqs)]
    <3>1. waiting' = [d \in Conns |-> waiting'[d]]
      BY <2>1
    <3>2. QED
      BY <2>2, <3>1
  <2>4. \A d \in Conns : \A q : q \in ListedIn(waiting, d)' => q \in ListedIn(waiting, d) /\ q # r
    BY ZenonT(30), <2>1, <2>2 DEF ListedIn
  <2>5. active' \in [Conns -> SUBSET Reqs] /\ inflight' \in [Conns -> Nat]
    BY Zenon, <1>1, <2>1 DEF TypeOK
  <2>6. \A d \in Conns : inflight[d] = Cardinality(active[d]) /\ inflight[d] <= inflight[d]
    <3>1. \A d \in Conns : inflight[d] = Cardinality(active[d])
      BY Zenon DEF Core, CapacityRespected
    <3>2. \A d \in Conns : inflight[d] <= inflight[d]
      BY <1>1 DEF TypeOK
    <3>3. QED
      BY Zenon, <3>1, <3>2
  <2>7. \A d \in Conns : \A q \in ListedIn(waiting, d) : q \in Reqs /\ rst[q] = "live"
    BY Zenon, <1>1, ListedReqs DEF Core, TypeOK
  <2>8. Shrinks
    <3>1. \A d \in Conns : \A q \in ListedIn(waiting, d)' : rst'[q] = "live" /\ pc'[q] = pc[q]
      BY <1>2, <2>4, <2>7
    <3>2. QED
      BY Zenon, <2>1, <2>2, <2>6, <3>1 DEF Shrinks
  <2>9. QED
    BY Zenon, <2>3, <2>4, <2>5, <2>8
<1>5. QED
  BY Zenon, <1>3, <1>4
===============================================================================
