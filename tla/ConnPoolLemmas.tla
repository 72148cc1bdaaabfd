---------------------------- MODULE ConnPoolLemmas ----------------------------
(* The inductive invariant of ConnPool, and what the proofs that each action  *)
(* keeps it share: facts about the stack of frames and the waiting queues,    *)
(* and the lemmas that put the parts of the invariant together.               *)
EXTENDS ConnPool, TLAPS

-----------------------------------------------------------------------------
(* The stack: built by Cons, taken apart by Head and Tail.                    *)

\* The elements of a sequence with one more in front, by index.
ConsAt(f, t, u) ==
  /\ Len(t) \in Nat /\ Len(u) = Len(t) + 1
  /\ DOMAIN t = 1 .. Len(t) /\ DOMAIN u = 1 .. Len(t) + 1
  /\ u[1] = f
  /\ \A i \in DOMAIN t : i + 1 \in DOMAIN u /\ u[i + 1] = t[i]
  /\ \A i \in DOMAIN u : i # 1 => i - 1 \in DOMAIN t /\ u[i] = t[i - 1]

\* A count that is not zero can be lowered by one.
LEMMA OneLess == ASSUME NEW n \in Nat, n # 0 PROVE n > 0 /\ n - 1 \in Nat
  OBVIOUS

\* Cons, by index.
LEMMA ConsIndex ==
  ASSUME NEW S, NEW f \in S, NEW t \in Seq(S)
  PROVE  ConsAt(f, t, Cons(f, t))
BY DEF Cons, ConsAt

\* Pushing a frame and looking at the result: the only facts about sequences that
\* the step proofs need of the stack.
LEMMA ConsStack ==
  ASSUME NEW S, NEW f \in S, NEW t \in Seq(S)
  PROVE  /\ Cons(f, t) \in Seq(S)
         /\ Cons(f, t) # <<>>
         /\ Head(Cons(f, t)) = f
         /\ Tail(Cons(f, t)) = t
         /\ Range(Cons(f, t)) = {f} \cup Range(t)
<1> DEFINE u == Cons(f, t)
<1>1. ConsAt(f, t, u)
  BY ConsIndex
<1>2. u \in Seq(S)
  BY DEF Cons
<1>3. Head(u) = f /\ u # <<>>
  BY <1>1, <1>2 DEF ConsAt
<1>4. Tail(u) = t
  <2> HIDE DEF u
  <2>1. /\ Tail(u) \in Seq(S) /\ Len(Tail(u)) = Len(u) - 1
        /\ \A i \in 1 .. Len(Tail(u)) : Tail(u)[i] = u[i + 1]
    BY <1>2, <1>3
  <2>2. Len(Tail(u)) = Len(t)
    BY <1>1, <2>1 DEF ConsAt
  <2>3. \A i \in 1 .. Len(Tail(u)) : Tail(u)[i] = t[i]
    BY <1>1, <2>1, <2>2 DEF ConsAt
  <2>4. QED
    BY <2>1, <2>2, <2>3
<1> HIDE DEF u
<1>5. Range(u) = {f} \cup Range(t)
  <2>1. ASSUME NEW i \in DOMAIN u PROVE u[i] \in {f} \cup Range(t)
    BY <1>1 DEF ConsAt, Range
  <2>2. ASSUME NEW i \in DOMAIN t PROVE t[i] \in Range(u)
    <3>1. i + 1 \in DOMAIN u /\ u[i + 1] = t[i]
      BY <1>1 DEF ConsAt
    <3>2. QED
      BY <3>1 DEF Range
  <2>3. f \in Range(u)
    <3>1. 1 \in DOMAIN u /\ u[1] = f
      BY <1>1 DEF ConsAt
    <3>2. QED
      BY <3>1 DEF Range
  <2>4. QED
    BY <2>1, <2>2, <2>3 DEF Range
<1>6. QED
  BY <1>2, <1>3, <1>4, <1>5 DEF u

-----------------------------------------------------------------------------
(* The waiting queues.                                                        *)

\* The elements of a queue.
LEMMA QueueRange ==
  ASSUME NEW S, NEW q \in Seq(S)
  PROVE  Range(q) \subseteq S
BY DEF Range

\* An empty queue.
LEMMA QueueEmpty == Range(<<>>) = {} /\ IsInjective(<<>>)
BY DEF Range, IsInjective

\* A queue of one.
LEMMA QueueOne ==
  ASSUME NEW S, NEW r \in S
  PROVE  <<r>> \in Seq(S) /\ Range(<<r>>) = {r} /\ IsInjective(<<r>>)
<1>1. <<r>> \in Seq(S) /\ Len(<<r>>) = 1 /\ <<r>>[1] = r /\ DOMAIN <<r>> = {1}
  OBVIOUS
<1>2. QED
  BY <1>1 DEF Range, IsInjective

\* pool_waiting_pop: a queue without repetitions loses just its head.
LEMMA QueuePop ==
  ASSUME NEW S, NEW q \in Seq(S), q # <<>>
  PROVE  /\ Head(q) \in S /\ Tail(q) \in Seq(S)
         /\ Head(q) \in Range(q)
         /\ Range(Tail(q)) \subseteq Range(q)
         /\ IsInjective(q) => IsInjective(Tail(q)) /\ Head(q) \notin Range(Tail(q))
<1>1. /\ Head(q) = q[1] /\ Len(q) \in Nat \ {0}
      /\ DOMAIN q = 1 .. Len(q) /\ DOMAIN Tail(q) = 1 .. Len(q) - 1
      /\ \A i \in 1 .. Len(q) - 1 : Tail(q)[i] = q[i + 1]
  OBVIOUS
<1>2. Head(q) \in Range(q)
  <2>1. 1 \in DOMAIN q
    BY <1>1
  <2>2. QED
    BY <1>1, <2>1 DEF Range
<1>3. ASSUME NEW i \in DOMAIN Tail(q)
      PROVE  i + 1 \in DOMAIN q /\ Tail(q)[i] = q[i + 1]
  BY <1>1
<1>4. Range(Tail(q)) \subseteq Range(q)
  BY <1>3 DEF Range
<1>5. ASSUME IsInjective(q)
      PROVE  IsInjective(Tail(q)) /\ Head(q) \notin Range(Tail(q))
  <2>1. ASSUME NEW i \in DOMAIN Tail(q), NEW j \in DOMAIN Tail(q), Tail(q)[i] = Tail(q)[j]
        PROVE  i = j
    <3>1. i + 1 = j + 1
      BY <1>3, <1>5, <2>1 DEF IsInjective
    <3>2. i \in Int /\ j \in Int
      BY <1>1
    <3>3. QED
      BY <3>1, <3>2
  <2>2. ASSUME NEW i \in DOMAIN Tail(q) PROVE Tail(q)[i] # Head(q)
    <3>1. i + 1 # 1 /\ 1 \in DOMAIN q
      BY <1>1
    <3>2. QED
      BY <3>1, <1>1, <1>3, <1>5 DEF IsInjective
  <2>3. QED
    BY <2>1, <2>2 DEF IsInjective, Range
<1>6. QED
  BY <1>2, <1>4, <1>5

\* pool_waiting_push: a request that is not queued yet joins at the end.
LEMMA QueuePush ==
  ASSUME NEW S, NEW q \in Seq(S), NEW r \in S
  PROVE  /\ Append(q, r) \in Seq(S)
         /\ Range(Append(q, r)) = Range(q) \cup {r}
         /\ IsInjective(q) /\ r \notin Range(q) => IsInjective(Append(q, r))
<1> DEFINE u == Append(q, r)
<1>1. /\ u \in Seq(S) /\ Len(q) \in Nat
      /\ DOMAIN q = 1 .. Len(q) /\ DOMAIN u = 1 .. Len(q) + 1
      /\ u[Len(q) + 1] = r /\ \A i \in 1 .. Len(q) : u[i] = q[i]
  OBVIOUS
<1>2. ASSUME NEW i \in DOMAIN u
      PROVE  IF i = Len(q) + 1 THEN u[i] = r ELSE i \in DOMAIN q /\ u[i] = q[i]
  BY <1>1
<1>3. \A i \in DOMAIN q : i \in DOMAIN u /\ u[i] = q[i] /\ i # Len(q) + 1
  BY <1>1
<1>4. Len(q) + 1 \in DOMAIN u
  BY <1>1
<1> HIDE DEF u
<1>5. Range(u) = Range(q) \cup {r}
  BY <1>1, <1>2, <1>3, <1>4 DEF Range
<1>6. IsInjective(q) /\ r \notin Range(q) => IsInjective(u)
  BY <1>1, <1>2, <1>3, <1>4 DEF Range, IsInjective
<1>7. QED
  BY <1>1, <1>5, <1>6 DEF u

\* Two queues end to end.
LEMMA Joined ==
  ASSUME NEW S, NEW a \in Seq(S), NEW b \in Seq(S)
  PROVE  /\ a \o b \in Seq(S) /\ Len(a \o b) = Len(a) + Len(b)
         /\ \A i \in 1 .. Len(a) + Len(b) :
              (a \o b)[i] = IF i <= Len(a) THEN a[i] ELSE b[i - Len(a)]
<1>1. a \o b \in Seq(S)
  OBVIOUS
<1>2. Len(a \o b) = Len(a) + Len(b)
  OBVIOUS
<1>3. \A i \in 1 .. Len(a) + Len(b) :
        (a \o b)[i] = IF i <= Len(a) THEN a[i] ELSE b[i - Len(a)]
  OBVIOUS
<1>4. QED
  BY <1>1, <1>2, <1>3

\* Unlinking a request from a queue without repetitions (pool_req_timeout).
LEMMA QueueUnlink ==
  ASSUME NEW S, NEW q \in Seq(S), NEW r, IsInjective(q)
  PROVE  /\ Unlink(q, r) \in Seq(S)
         /\ Range(Unlink(q, r)) = Range(q) \ {r}
         /\ IsInjective(Unlink(q, r))
<1>1. CASE ~\E i \in DOMAIN q : q[i] = r
  BY <1>1 DEF Unlink, Range
<1>2. CASE \E i \in DOMAIN q : q[i] = r
  <2> DEFINE First(i) == q[i] = r /\ \A j \in 1 .. i - 1 : q[j] # r
             k == CHOOSE i \in DOMAIN q : First(i)
             u == SubSeq(q, 1, k - 1) \o SubSeq(q, k + 1, Len(q))
  <2>0. DOMAIN q = 1 .. Len(q) /\ Len(q) \in Nat
    OBVIOUS
  <2>1. k \in 1 .. Len(q) /\ q[k] = r
    <3>1. PICK i \in DOMAIN q : q[i] = r
      BY <1>2
    <3>2. \A j \in DOMAIN q : q[j] = r => j = i
      BY <3>1 DEF IsInjective
    <3>3. \A j \in 1 .. i - 1 : j \in DOMAIN q /\ j # i
      BY <2>0
    <3>4. First(i)
      BY <3>1, <3>2, <3>3
    <3> HIDE DEF First
    <3>5. k \in DOMAIN q /\ First(k)
      BY <3>1, <3>4
    <3>6. QED
      BY <3>5, <2>0 DEF First
  <2>5. Unlink(q, r) = u
    BY Zenon, <1>2 DEF Unlink
  <2> HIDE DEF k
  <2>6. /\ SubSeq(q, 1, k - 1) \in Seq(S) /\ Len(SubSeq(q, 1, k - 1)) = k - 1
        /\ \A i \in 1 .. k - 1 : SubSeq(q, 1, k - 1)[i] = q[i]
    BY <2>1
  <2>7. /\ SubSeq(q, k + 1, Len(q)) \in Seq(S)
        /\ Len(SubSeq(q, k + 1, Len(q))) = Len(q) - k
        /\ \A i \in 1 .. Len(q) - k : SubSeq(q, k + 1, Len(q))[i] = q[k + i]
    BY <2>1
  <2>8. /\ u \in Seq(S) /\ DOMAIN u = 1 .. Len(q) - 1 /\ DOMAIN q = 1 .. Len(q)
        /\ \A i \in 1 .. Len(q) - 1 : u[i] = IF i <= k - 1 THEN q[i] ELSE q[i + 1]
    <3> DEFINE a == SubSeq(q, 1, k - 1)
               b == SubSeq(q, k + 1, Len(q))
    <3> HIDE DEF a, b
    <3>1. /\ a \o b \in Seq(S) /\ Len(a \o b) = (k - 1) + (Len(q) - k)
          /\ \A i \in 1 .. (k - 1) + (Len(q) - k) :
               (a \o b)[i] = IF i <= k - 1 THEN a[i] ELSE b[i - (k - 1)]
      <4>1. a \in Seq(S) /\ b \in Seq(S) /\ Len(a) = k - 1 /\ Len(b) = Len(q) - k
        BY <2>6, <2>7 DEF a, b
      <4>2. /\ a \o b \in Seq(S) /\ Len(a \o b) = Len(a) + Len(b)
            /\ \A i \in 1 .. Len(a) + Len(b) :
                 (a \o b)[i] = IF i <= Len(a) THEN a[i] ELSE b[i - Len(a)]
        BY Zenon, <4>1, Joined
      <4>3. QED
        BY <4>1, <4>2
    <3>2. (k - 1) + (Len(q) - k) = Len(q) - 1
      BY <2>1
    <3>3. ASSUME NEW i \in 1 .. Len(q) - 1
          PROVE  (a \o b)[i] = IF i <= k - 1 THEN q[i] ELSE q[i + 1]
      <4>1. CASE i <= k - 1
        BY <4>1, <3>1, <3>2, <2>1, <2>6 DEF a
      <4>2. CASE ~(i <= k - 1)
        <5>1. i - (k - 1) \in 1 .. Len(q) - k /\ k + (i - (k - 1)) = i + 1
          BY <4>2, <2>1
        <5>2. (a \o b)[i] = b[i - (k - 1)]
          BY <4>2, <3>1, <3>2
        <5>3. QED
          BY Zenon, <5>1, <5>2, <4>2, <2>7 DEF b
      <4>3. QED
        BY Zenon, <4>1, <4>2
    <3>4. u = a \o b
      BY DEF a, b
    <3>5. DOMAIN (a \o b) = 1 .. Len(q) - 1
      BY <3>1, <3>2
    <3> HIDE DEF u
    <3>6. QED
      BY <3>1, <3>3, <3>4, <3>5
  <2> HIDE DEF u
  <2>9. ASSUME NEW i \in DOMAIN u
        PROVE  \E j \in DOMAIN q : j # k /\ u[i] = q[j] /\ j = IF i <= k - 1 THEN i ELSE i + 1
    BY <2>1, <2>8
  <2>10. ASSUME NEW j \in DOMAIN q, j # k PROVE \E i \in DOMAIN u : u[i] = q[j]
    <3>1. CASE j < k
      BY <2>1, <2>8, <3>1
    <3>2. CASE j > k
      <4>1. j - 1 \in DOMAIN u /\ ~(j - 1 <= k - 1) /\ (j - 1) + 1 = j
        BY <2>1, <2>8, <3>2
      <4>2. QED
        BY <2>8, <4>1
    <3>3. QED
      BY <2>1, <2>8, <2>10, <3>1, <3>2
  <2>11. Range(u) = Range(q) \ {r}
    <3>1. \A j \in DOMAIN q : q[j] = r <=> j = k
      BY <2>1, <2>8 DEF IsInjective
    <3>2. QED
      BY <3>1, <2>9, <2>10 DEF Range
  <2>12. IsInjective(u)
    <3>1. SUFFICES ASSUME NEW a \in DOMAIN u, NEW b \in DOMAIN u, u[a] = u[b] PROVE a = b
      BY DEF IsInjective
    <3>2. (IF a <= k - 1 THEN a ELSE a + 1) = (IF b <= k - 1 THEN b ELSE b + 1)
      BY <2>9, <3>1 DEF IsInjective
    <3>3. QED
      BY <3>2, <2>8, <2>1
  <2>13. QED
    BY <2>5, <2>8, <2>11, <2>12
<1>3. QED
  BY <1>1, <1>2

-----------------------------------------------------------------------------
(* The inductive invariant. Its parts take the waiting queues w and the stack *)
(* s as parameters: a handler that has popped a queue, or taken a request     *)
(* from the top frame, passes through states that differ from the current one *)
(* in these two only.                                                         *)

ListedIn(w, c) == active[c] \cup Range(w[c])
HeldIn(s) == UNION {Hold(f) : f \in Range(s)}
Apart(s) == \A i, j \in DOMAIN s : i # j => Hold(s[i]) \cap Hold(s[j]) = {}

\* OnePlace and RightOrigin are the conjunction of these two and Apart(stack).
ListsOK(w) ==
  \A c \in Conns :
    /\ \A r \in ListedIn(w, c) : rst[r] = "live" /\ pc[r] = c /\ conn[c].key = Key[r]
    /\ active[c] \cap Range(w[c]) = {}
    /\ IsInjective(w[c])
HeldOK(w, s) ==
  \A r \in HeldIn(s) : rst[r] = "live" /\ \A c \in Conns : r \notin ListedIn(w, c)

\* The frames that name a conn, and those that may lie above a "timeout" frame.
ConnOps == {"drop", "flush", "idle", "close", "recv", "loop", "failall", "late", "fallback"}
Nested == {"cb", "done", "acquire", "retry", "late"}

\* A timer fires with the stack empty, so its frame stays at the bottom, and what
\* its user callback starts never flushes or re-homes a queue.
Bottom(s) ==
  \A j \in DOMAIN s : s[j].op = "timeout" =>
    /\ j = Len(s)
    /\ \A i \in DOMAIN s : i # j => s[i].op \in Nested

\* What a frame's handler may rely on when its turn comes.
FrameOK(w, f) ==
  /\ f.op \in ConnOps => f.c \in Conns
  /\ f.op \in {"done", "drop", "timeout"} => \A r \in f.rs : responded[r]
  /\ f.op \in {"acquire", "late", "fallback"} => \A r \in f.rs : ~responded[r]
  /\ f.op \in {"loop", "recv", "drop"} => conn[f.c].st # "Free" /\ conn[f.c].open
  /\ f.op = "late" => conn[f.c].st = "Closing" /\ \A r \in f.rs : conn[f.c].key = Key[r]
  /\ f.op = "timeout" => \A r \in f.rs :
       /\ rst[r] \in {"live", "done"} /\ f.rs = {r}
       /\ \A c \in Conns : r \in ListedIn(w, c) => f.c = c
FramesOK(w, s) == \A f \in Range(s) : FrameOK(w, f)

\* A live request that was answered is about to be torn down by some frame.
Tears(f) == IF f.op \in {"done", "drop", "timeout", "retry"} THEN f.rs ELSE {}
Torn(s) == UNION {Tears(f) : f \in Range(s)}
Owing(s) == \A r \in Reqs : rst[r] = "live" /\ responded[r] => r \in Torn(s)

\* The callbacks made so far follow from rst and responded.
Counted ==
  \A r \in Reqs :
    /\ rst[r] = "new" => ~responded[r]
    /\ rst[r] = "done" => responded[r]
    /\ rst[r] # "legacy" => calls[r] = IF responded[r] THEN 1 ELSE 0
    /\ rst[r] = "legacy" => calls[r] <= 1

\* A slot without a conn has no key; a TCP conn always has its handle.
ConnOK ==
  \A c \in Conns :
    /\ conn[c].st = "Free" => conn[c].key = None
    /\ conn[c].st # "Free" => conn[c].key \in Keys
    /\ conn[c].st = "Ready" => conn[c].open
    /\ conn[c].st = "Handshaking" /\ Proto(c) # "H3" => conn[c].open
Core(w) ==
  /\ TypeOK /\ ConnOK /\ Counted /\ CapacityRespected
  /\ w \in [Conns -> Seq(Reqs)] /\ ListsOK(w)
Frames(w, s) == s \in Seq(Frame) /\ HeldOK(w, s) /\ Apart(s) /\ Bottom(s) /\ FramesOK(w, s)
Sound(w, s) == Core(w) /\ Frames(w, s)
IInv == Sound(waiting, stack) /\ Owing(stack)

\* What the proofs use of Cardinality.  The lemmas assume it; ConnPoolProofs proves it
\* from the library's theorems about finite sets, which the modules in between do
\* not have to carry along.
Counting ==
  /\ Cardinality({}) = 0
  /\ \A S \in SUBSET Reqs : \A r \in Reqs \ S : Cardinality(S \cup {r}) = Cardinality(S) + 1
  /\ \A S \in SUBSET Reqs : \A r \in S :
       Cardinality(S \ {r}) = Cardinality(S) - 1 /\ Cardinality(S) # 0

\* A conn without requests is within any capacity.
LEMMA NoneFits == 0 <= 1 /\ 0 <= H3Max
BY BoundAssumption

-----------------------------------------------------------------------------
(* How the parts of the invariant that speak of the whole stack change when   *)
(* frames are pushed and popped.                                              *)

\* The requests held below a new frame, and those it holds itself.
LEMMA ConsHeld ==
  ASSUME NEW f \in Frame, NEW t \in Seq(Frame)
  PROVE  HeldIn(Cons(f, t)) = Hold(f) \cup HeldIn(t)
<1>1. Range(Cons(f, t)) = {f} \cup Range(t)
  BY ConsStack
<1>2. \A x : x \in HeldIn(Cons(f, t)) <=> x \in Hold(f) \cup HeldIn(t)
  BY <1>1, Zenon DEF HeldIn
<1>3. QED
  BY <1>2

\* The requests some frame is to tear down.
LEMMA ConsTorn ==
  ASSUME NEW f \in Frame, NEW t \in Seq(Frame)
  PROVE  Torn(Cons(f, t)) = Tears(f) \cup Torn(t)
<1>1. Range(Cons(f, t)) = {f} \cup Range(t)
  BY ConsStack
<1>2. \A x : x \in Torn(Cons(f, t)) <=> x \in Tears(f) \cup Torn(t)
  BY <1>1, Zenon DEF Torn
<1>3. QED
  BY <1>2

\* Frames stay apart if the new one holds none of the requests held below.
LEMMA ConsApart ==
  ASSUME NEW f \in Frame, NEW t \in Seq(Frame)
  PROVE  Apart(Cons(f, t)) <=> Apart(t) /\ Hold(f) \cap HeldIn(t) = {}
<1> DEFINE u == Cons(f, t)
<1>1. ConsAt(f, t, u)
  BY ConsIndex DEF ConsAt
<1> HIDE DEF u
<1>2. ASSUME Apart(u) PROVE Apart(t)
  BY <1>1, <1>2 DEF Apart, ConsAt
<1>3. ASSUME Apart(u) PROVE Hold(f) \cap HeldIn(t) = {}
  <2>1. ASSUME NEW k \in DOMAIN t PROVE Hold(f) \cap Hold(t[k]) = {}
    BY <1>1, <1>3 DEF Apart, ConsAt
  <2>2. QED
    BY <2>1 DEF HeldIn, Range
<1>4. ASSUME Apart(t), Hold(f) \cap HeldIn(t) = {} PROVE Apart(u)
  <2>1. \A k \in DOMAIN t : Hold(f) \cap Hold(t[k]) = {}
    BY <1>4 DEF HeldIn, Range
  <2>2. ASSUME NEW i \in DOMAIN u, NEW j \in DOMAIN u, i # j
        PROVE  Hold(u[i]) \cap Hold(u[j]) = {}
    <3>1. CASE i = 1
      BY <1>1, <2>1, <2>2, <3>1 DEF ConsAt
    <3>2. CASE j = 1
      BY <1>1, <2>1, <2>2, <3>2 DEF ConsAt
    <3>3. CASE i # 1 /\ j # 1
      <4>1. /\ i - 1 \in DOMAIN t /\ j - 1 \in DOMAIN t /\ i - 1 # j - 1
            /\ u[i] = t[i - 1] /\ u[j] = t[j - 1]
        BY <1>1, <2>2, <3>3 DEF ConsAt
      <4>2. QED
        BY <1>4, <4>1 DEF Apart
    <3>4. QED
      BY <3>1, <3>2, <3>3
  <2>3. QED
    BY <2>2 DEF Apart
<1>5. QED
  BY <1>2, <1>3, <1>4 DEF u

\* A timeout frame is pushed first, and only nested frames go above it.
LEMMA ConsBottom ==
  ASSUME NEW f \in Frame, NEW t \in Seq(Frame)
  PROVE  Bottom(Cons(f, t)) <=>
           /\ Bottom(t)
           /\ f.op = "timeout" => t = <<>>
           /\ f.op \notin Nested => \A g \in Range(t) : g.op # "timeout"
<1> DEFINE u == Cons(f, t)
<1>1. ConsAt(f, t, u)
  BY ConsIndex DEF ConsAt
<1> HIDE DEF u
<1>2. ASSUME Bottom(u) PROVE Bottom(t)
  BY <1>1, <1>2 DEF Bottom, ConsAt
<1>3. ASSUME Bottom(u), f.op = "timeout" PROVE t = <<>>
  <2>1. 1 = Len(u)
    BY <1>1, <1>3 DEF Bottom, ConsAt
  <2>2. QED
    BY <1>1, <2>1 DEF ConsAt
<1>4. ASSUME Bottom(u), f.op \notin Nested PROVE \A g \in Range(t) : g.op # "timeout"
  BY <1>1, <1>4 DEF Bottom, ConsAt, Range
<1>5. ASSUME Bottom(t), f.op = "timeout" => t = <<>>,
             f.op \notin Nested => \A g \in Range(t) : g.op # "timeout"
      PROVE  Bottom(u)
  <2>1. CASE f.op = "timeout"
    <3>1. Len(u) = 1 /\ DOMAIN u = {1}
      BY <1>1, <1>5, <2>1 DEF ConsAt
    <3>2. QED
      BY <3>1 DEF Bottom
  <2>2. CASE f.op # "timeout"
    <3>1. \A k \in DOMAIN t : t[k].op = "timeout" => f.op \in Nested
      BY <1>5 DEF Range
    <3>2. QED
      BY <1>1, <1>5, <2>2, <3>1 DEF Bottom, ConsAt
  <2>3. QED
    BY <2>1, <2>2
<1>6. QED
  BY <1>2, <1>3, <1>4, <1>5 DEF u

\* The empty stack: what an event starts from.
LEMMA NoFrames ==
  /\ <<>> \in Seq(Frame) /\ Range(<<>>) = {} /\ HeldIn(<<>>) = {} /\ Torn(<<>>) = {}
  /\ Apart(<<>>) /\ Bottom(<<>>)
<1>1. Range(<<>>) = {}
  BY QueueEmpty
<1>2. \A x : x \notin HeldIn(<<>>) /\ x \notin Torn(<<>>)
  BY <1>1, Zenon DEF HeldIn, Torn
<1>3. Apart(<<>>) /\ Bottom(<<>>)
  BY DEF Apart, Bottom
<1>4. QED
  BY <1>1, <1>2, <1>3

\* A frame in front of a stack: everything the step proofs need to know.
LEMMA ConsAll ==
  ASSUME NEW f \in Frame, NEW t \in Seq(Frame)
  PROVE  /\ Cons(f, t) \in Seq(Frame) /\ Cons(f, t) # <<>>
         /\ Head(Cons(f, t)) = f /\ Tail(Cons(f, t)) = t
         /\ Range(Cons(f, t)) = {f} \cup Range(t)
         /\ HeldIn(Cons(f, t)) = Hold(f) \cup HeldIn(t)
         /\ Torn(Cons(f, t)) = Tears(f) \cup Torn(t)
         /\ Apart(Cons(f, t)) <=> Apart(t) /\ Hold(f) \cap HeldIn(t) = {}
         /\ Bottom(Cons(f, t)) <=>
              /\ Bottom(t)
              /\ f.op = "timeout" => t = <<>>
              /\ f.op \notin Nested => \A g \in Range(t) : g.op # "timeout"
<1>1. /\ Cons(f, t) \in Seq(Frame) /\ Cons(f, t) # <<>>
      /\ Head(Cons(f, t)) = f /\ Tail(Cons(f, t)) = t
      /\ Range(Cons(f, t)) = {f} \cup Range(t)
  BY ZenonT(30), ConsStack
<1>2. HeldIn(Cons(f, t)) = Hold(f) \cup HeldIn(t) /\ Torn(Cons(f, t)) = Tears(f) \cup Torn(t)
  BY ConsHeld, ConsTorn
<1>3. Apart(Cons(f, t)) <=> Apart(t) /\ Hold(f) \cap HeldIn(t) = {}
  BY ConsApart
<1>4. Bottom(Cons(f, t)) <=>
        /\ Bottom(t)
        /\ f.op = "timeout" => t = <<>>
        /\ f.op \notin Nested => \A g \in Range(t) : g.op # "timeout"
  BY ConsBottom
<1>5. QED
  BY <1>1, <1>2, <1>3, <1>4

\* A stack that is not empty is its top frame in front of the rest.
LEMMA TopBelow ==
  ASSUME NEW s \in Seq(Frame), s # <<>>
  PROVE  Head(s) \in Frame /\ Tail(s) \in Seq(Frame) /\ s = Cons(Head(s), Tail(s))
<1>1. /\ Head(s) \in Frame /\ Tail(s) \in Seq(Frame) /\ Head(s) = s[1]
      /\ Len(s) \in Nat \ {0} /\ Len(Tail(s)) = Len(s) - 1
      /\ \A i \in 1 .. Len(Tail(s)) : Tail(s)[i] = s[i + 1]
  OBVIOUS
<1> DEFINE u == Cons(Head(s), Tail(s))
<1>2. u \in Seq(Frame) /\ ConsAt(Head(s), Tail(s), u)
  BY Zenon, <1>1, ConsStack, ConsIndex
<1> HIDE DEF u
<1>3. Len(u) = Len(s)
  BY <1>1, <1>2 DEF ConsAt
<1>4. ASSUME NEW i \in 1 .. Len(s) PROVE s[i] = u[i]
  <2>1. CASE i = 1
    BY <1>1, <1>2, <2>1 DEF ConsAt
  <2>2. CASE i # 1
    <3>1. i - 1 \in 1 .. Len(Tail(s)) /\ (i - 1) + 1 = i /\ i \in DOMAIN u
      BY <1>1, <1>2, <2>2 DEF ConsAt
    <3>2. QED
      BY <1>1, <1>2, <2>2, <3>1 DEF ConsAt
  <2>3. QED
    BY <2>1, <2>2
<1>5. s = u
  BY <1>2, <1>3, <1>4
<1>6. QED
  BY <1>1, <1>5 DEF u

\* Push is Cons, unless there is nothing to hold.
LEMMA PushCons ==
  ASSUME NEW op \in {"acquire", "retry"}, NEW rs \in SUBSET Reqs, NEW t \in Seq(Frame)
  PROVE  /\ rs = {} => Push(op, rs, t) = t
         /\ rs # {} => Push(op, rs, t) = Cons(F(op, None, rs), t)
         /\ F(op, None, rs) \in Frame /\ Hold(F(op, None, rs)) = rs
         /\ Tears(F(op, None, rs)) = (IF op = "retry" THEN rs ELSE {})
         /\ F(op, None, rs).op \in Nested /\ F(op, None, rs).op # "timeout"
BY DEF Push, F, Frame, Ops, Hold, Tears, Nested

\* The frames after a Push.
LEMMA PushType ==
  ASSUME NEW op \in {"acquire", "retry"}, NEW rs \in SUBSET Reqs, NEW t \in Seq(Frame)
  PROVE  /\ Push(op, rs, t) \in Seq(Frame)
         /\ Range(t) \subseteq Range(Push(op, rs, t))
         /\ Range(Push(op, rs, t)) \subseteq Range(t) \cup {F(op, None, rs)}
<1>1. CASE rs = {}
  BY <1>1 DEF Push
<1>2. CASE rs # {}
  <2> DEFINE f == F(op, None, rs)
  <2>1. f \in Frame /\ Push(op, rs, t) = Cons(f, t)
    BY <1>2, PushCons
  <2> HIDE DEF f
  <2>2. Cons(f, t) \in Seq(Frame) /\ Range(Cons(f, t)) = {f} \cup Range(t)
    BY <2>1, ConsStack
  <2>3. QED
    BY <2>1, <2>2 DEF f
<1>3. QED
  BY <1>1, <1>2

\* What a pushed frame holds.
LEMMA PushHeld ==
  ASSUME NEW op \in {"acquire", "retry"}, NEW rs \in SUBSET Reqs, NEW t \in Seq(Frame)
  PROVE  HeldIn(Push(op, rs, t)) = rs \cup HeldIn(t)
<1>1. CASE rs = {}
  BY <1>1 DEF Push
<1>2. CASE rs # {}
  <2> DEFINE f == F(op, None, rs)
  <2>1. f \in Frame /\ Push(op, rs, t) = Cons(f, t) /\ Hold(f) = rs
    BY <1>2, PushCons
  <2> HIDE DEF f
  <2>2. HeldIn(Cons(f, t)) = Hold(f) \cup HeldIn(t)
    BY <2>1, ConsHeld
  <2>3. QED
    BY <2>1, <2>2
<1>3. QED
  BY <1>1, <1>2

\* Acquiring tears nothing down; retrying may.
LEMMA PushTorn ==
  ASSUME NEW rs \in SUBSET Reqs, NEW t \in Seq(Frame)
  PROVE  /\ Torn(Push("acquire", rs, t)) = Torn(t)
         /\ Torn(Push("retry", rs, t)) = rs \cup Torn(t)
<1>1. ASSUME NEW op \in {"acquire", "retry"}, rs # {}
      PROVE  Torn(Push(op, rs, t)) = (IF op = "retry" THEN rs ELSE {}) \cup Torn(t)
  <2> DEFINE f == F(op, None, rs)
  <2>1. f \in Frame /\ Push(op, rs, t) = Cons(f, t)
    BY <1>1, PushCons
  <2>2. Tears(f) = IF op = "retry" THEN rs ELSE {}
    BY PushCons
  <2> HIDE DEF f
  <2>3. Torn(Cons(f, t)) = Tears(f) \cup Torn(t)
    BY <2>1, ConsTorn
  <2>4. QED
    BY <2>1, <2>2, <2>3
<1>2. ASSUME NEW op \in {"acquire", "retry"}, rs = {} PROVE Push(op, rs, t) = t
  BY <1>2 DEF Push
<1>3. CASE rs = {}
  BY <1>2, <1>3
<1>4. CASE rs # {}
  <2>1. Torn(Push("acquire", rs, t)) = {} \cup Torn(t)
    BY <1>1, <1>4
  <2>2. Torn(Push("retry", rs, t)) = rs \cup Torn(t)
    BY <1>1, <1>4
  <2>3. QED
    BY <2>1, <2>2
<1>5. QED
  BY <1>3, <1>4

\* A pushed frame must hold nothing that is held below.
LEMMA PushApart ==
  ASSUME NEW op \in {"acquire", "retry"}, NEW rs \in SUBSET Reqs, NEW t \in Seq(Frame)
  PROVE  Apart(Push(op, rs, t)) <=> Apart(t) /\ rs \cap HeldIn(t) = {}
<1>1. CASE rs = {}
  BY <1>1 DEF Push
<1>2. CASE rs # {}
  <2> DEFINE f == F(op, None, rs)
  <2>1. f \in Frame /\ Hold(f) = rs
    BY PushCons
  <2>2. Push(op, rs, t) = Cons(f, t)
    BY <1>2 DEF Push
  <2> HIDE DEF f
  <2>3. Apart(Cons(f, t)) <=> Apart(t) /\ Hold(f) \cap HeldIn(t) = {}
    BY <2>1, ConsApart
  <2>4. QED
    BY <2>1, <2>2, <2>3
<1>3. QED
  BY <1>1, <1>2

\* Both kinds of pushed frames may lie above a timeout.
LEMMA PushBottom ==
  ASSUME NEW op \in {"acquire", "retry"}, NEW rs \in SUBSET Reqs, NEW t \in Seq(Frame)
  PROVE  Bottom(Push(op, rs, t)) <=> Bottom(t)
<1>1. CASE rs = {}
  BY <1>1 DEF Push
<1>2. CASE rs # {}
  <2> DEFINE f == F(op, None, rs)
  <2>1. f \in Frame /\ f.op \in Nested /\ f.op # "timeout"
    BY PushCons
  <2>2. Push(op, rs, t) = Cons(f, t)
    BY <1>2 DEF Push
  <2> HIDE DEF f
  <2>3. Bottom(Cons(f, t)) <=> Bottom(t)
    BY <2>1, ConsBottom
  <2>4. QED
    BY <2>1, <2>2, <2>3
<1>3. QED
  BY <1>1, <1>2

\* The lists of a conn hold requests that are live.
LEMMA ListedReqs ==
  ASSUME NEW w \in [Conns -> Seq(Reqs)], TypeOK, ListsOK(w), NEW c \in Conns, NEW q \in ListedIn(w, c)
  PROVE  q \in Reqs /\ rst[q] = "live" /\ pc[q] = c
<1>1. active[c] \subseteq Reqs /\ w[c] \in Seq(Reqs)
  BY DEF TypeOK
<1>2. Range(w[c]) \subseteq Reqs
  BY Zenon, <1>1, QueueRange
<1>3. q \in Reqs
  BY Zenon, <1>1, <1>2 DEF ListedIn
<1>4. QED
  BY Zenon, <1>3 DEF ListsOK

\* A conn whose lists a step leaves alone.
LEMMA ListStays ==
  ASSUME NEW w, NEW c \in Conns, ListsOK(w), active'[c] = active[c], waiting'[c] = w[c],
         conn'[c].key = conn[c].key,
         \A q \in ListedIn(w, c) : rst'[q] = rst[q] /\ pc'[q] = pc[q]
  PROVE  /\ \A q \in ListedIn(waiting, c)' :
              rst'[q] = "live" /\ pc'[q] = c /\ conn'[c].key = Key[q]
         /\ active'[c] \cap Range(waiting'[c]) = {} /\ IsInjective(waiting'[c])
<1>1. ListedIn(waiting, c)' = ListedIn(w, c)
  BY Zenon DEF ListedIn
<1>2. QED
  BY ZenonT(30), <1>1 DEF ListsOK

\* Frames hold requests.
LEMMA HeldReqs ==
  ASSUME NEW t \in Seq(Frame)
  PROVE  HeldIn(t) \subseteq Reqs
<1>1. ASSUME NEW f \in Range(t) PROVE Hold(f) \subseteq Reqs
  <2>1. f \in Frame
    BY DEF Range
  <2>2. QED
    BY <2>1 DEF Frame, Hold
<1>2. QED
  BY <1>1, Zenon DEF HeldIn

\* Setting a field of a PoolConn keeps its type and the other fields.
LEMMA FlagSet ==
  ASSUME NEW k \in ConnState, NEW b \in BOOLEAN
  PROVE  /\ [k EXCEPT !.idle = b] \in ConnState
         /\ [k EXCEPT !.broken = b] \in ConnState
         /\ [k EXCEPT !.inRecv = b] \in ConnState
         /\ [k EXCEPT !.goaway = b] \in ConnState
         /\ [k EXCEPT !.open = b] \in ConnState
<1>1. [k EXCEPT !.idle = b] \in ConnState
  BY DEF ConnState
<1>2. [k EXCEPT !.broken = b] \in ConnState
  BY DEF ConnState
<1>3. [k EXCEPT !.inRecv = b] \in ConnState
  BY DEF ConnState
<1>4. [k EXCEPT !.goaway = b] \in ConnState
  BY DEF ConnState
<1>5. [k EXCEPT !.open = b] \in ConnState
  BY Zenon DEF ConnState
<1>6. QED
  BY <1>1, <1>2, <1>3, <1>4, <1>5

-----------------------------------------------------------------------------
(* Putting the invariant together after a step.                               *)

\* A step from queues w that takes nothing from the frames of s they rely on.
Undisturbed(w, s) ==
  /\ \A c \in Conns :
       /\ conn[c].st # "Free" /\ conn[c].open => conn'[c].st # "Free" /\ conn'[c].open
       /\ conn[c].st = "Closing" => conn'[c].st = "Closing" /\ conn'[c].key = conn[c].key
  /\ \A r \in Reqs : responded[r] =>
       /\ responded'[r]
       /\ rst[r] \in {"live", "done"} => rst'[r] \in {"live", "done"}
       /\ \A c \in Conns : r \in ListedIn(waiting, c)' => r \in ListedIn(w, c)
  /\ \A r \in HeldIn(s) :
       /\ responded'[r] = responded[r] /\ rst'[r] = rst[r]
       /\ \A c \in Conns : r \in ListedIn(waiting, c)' => r \in ListedIn(w, c)

\* Such a step keeps the frames in order.
LEMMA FramesStay ==
  ASSUME NEW w, NEW s, Frames(w, s), Undisturbed(w, s)
  PROVE  Frames(waiting, s)'
<1>9. HeldOK(waiting, s)'
  BY DEF Frames, HeldOK, Undisturbed
<1> SUFFICES ASSUME NEW f \in Range(s) PROVE FrameOK(waiting, f)'
  BY <1>9 DEF Frames, FramesOK
<1>1. FrameOK(w, f) /\ f \in Frame
  BY DEF Frames, FramesOK, Range
<1>2. f.rs \subseteq Reqs /\ (f.c \in Conns \/ f.c = None)
  BY <1>1 DEF Frame
<1>3. \A r \in Hold(f) : r \in HeldIn(s)
  BY Zenon DEF HeldIn
<1>4. f.op \in {"done", "drop", "timeout"} => \A r \in f.rs : responded'[r]
  BY Zenon, <1>1, <1>2 DEF FrameOK, Undisturbed
<1>5. f.op \in {"acquire", "late", "fallback"} => \A r \in f.rs : ~responded'[r]
  BY <1>1, <1>2, <1>3 DEF FrameOK, Undisturbed, Hold
<1>6. /\ f.op \in ConnOps => f.c \in Conns
      /\ f.op \in {"loop", "recv", "drop"} => conn'[f.c].st # "Free" /\ conn'[f.c].open
      /\ f.op = "late" => conn'[f.c].st = "Closing" /\ \A r \in f.rs : conn'[f.c].key = Key[r]
  BY ZenonT(30), <1>1, <1>2 DEF FrameOK, Undisturbed, ConnOps
<1>7. f.op = "timeout" => \A r \in f.rs :
        /\ rst'[r] \in {"live", "done"} /\ f.rs = {r}
        /\ \A c \in Conns : r \in ListedIn(waiting, c)' => f.c = c
  BY ZenonT(30), <1>1, <1>2 DEF FrameOK, Undisturbed
<1>8. QED
  BY Zenon, <1>4, <1>5, <1>6, <1>7 DEF FrameOK

\* What the step of the top frame f may rely on; t are the frames below.
Popped(f, t) ==
  /\ f \in Frame /\ FrameOK(waiting, f)
  /\ Sound(waiting, t)
  /\ \A r \in Hold(f) : r \in Reqs /\ rst[r] = "live" /\ r \notin HeldIn(t)
                       /\ \A c \in Conns : r \notin ListedIn(waiting, c)
  /\ \A q \in Reqs : rst[q] = "live" /\ responded[q] => q \in Tears(f) \/ q \in Torn(t)
  /\ f.op = "timeout" => t = <<>>
  /\ f.op \notin Nested => \A g \in Range(t) : g.op # "timeout"

\* Taking the top frame off the stack.
LEMMA PopTop ==
  ASSUME IInv, stack # <<>>
  PROVE  stack = Cons(Top, Below) /\ Popped(Top, Below)
<1>1. Top \in Frame /\ Below \in Seq(Frame) /\ stack = Cons(Top, Below)
  BY TopBelow DEF IInv, Sound, Frames, Top, Below
<1>2. Apart(stack) /\ Bottom(stack)
  BY DEF IInv, Sound, Frames
<1>3. Apart(Below) /\ Hold(Top) \cap HeldIn(Below) = {}
  BY <1>1, <1>2, ConsApart
<1>4. /\ Bottom(Below) /\ (Top.op = "timeout" => Below = <<>>)
      /\ Top.op \notin Nested => \A g \in Range(Below) : g.op # "timeout"
  BY <1>1, <1>2, ConsBottom
<1>5. Range(stack) = {Top} \cup Range(Below)
  BY ZenonT(30), <1>1, ConsStack
<1>6. HeldIn(stack) = Hold(Top) \cup HeldIn(Below)
  BY <1>1, ConsHeld
<1>7. Torn(stack) = Tears(Top) \cup Torn(Below)
  BY <1>1, ConsTorn
<1>8. FrameOK(waiting, Top) /\ FramesOK(waiting, Below)
  BY <1>5 DEF IInv, Sound, Frames, FramesOK
<1>9. HeldOK(waiting, Below)
  BY <1>6 DEF IInv, Sound, Frames, HeldOK
<1>10. \A r \in Hold(Top) : r \in Reqs /\ rst[r] = "live" /\ r \notin HeldIn(Below)
                           /\ \A c \in Conns : r \notin ListedIn(waiting, c)
  BY <1>1, <1>3, <1>6 DEF IInv, Sound, Frames, HeldOK, Hold, Frame
<1>11. Sound(waiting, Below)
  BY <1>1, <1>3, <1>4, <1>8, <1>9 DEF IInv, Sound, Frames
<1>12. \A q \in Reqs : rst[q] = "live" /\ responded[q] => q \in Tears(Top) \/ q \in Torn(Below)
  BY Zenon, <1>7 DEF IInv, Owing
<1>13. QED
  BY <1>1, <1>4, <1>8, <1>10, <1>11, <1>12 DEF Popped

\* A step that changes at most the flags of the conns.
Steady ==
  \A c \in Conns : /\ conn'[c].st = conn[c].st /\ conn'[c].key = conn[c].key
                   /\ conn'[c].open = conn[c].open

\* Such a step keeps what only the states, keys and handles of the conns matter for.
LEMMA SteadyConns ==
  ASSUME Steady
  PROVE  /\ ConnOK => ConnOK'
         /\ CapacityRespected /\ UNCHANGED <<inflight, active>> => CapacityRespected'
BY DEF Steady, ConnOK, CapacityRespected, Proto, Live

\* The parts of IInv' put together.
LEMMA Assemble ==
  ASSUME TypeOK', ConnOK', Counted', CapacityRespected', ListsOK(waiting)',
         NEW s, stack' = s, Frames(waiting, s)', Owing(s)'
  PROVE  IInv'
BY DEF IInv, Sound, Core, TypeOK

\* A frame that may be pushed on the frames t.
Fits(w, f, t) ==
  /\ f \in Frame /\ FrameOK(w, f) /\ Hold(f) \cap HeldIn(t) = {}
  /\ \A q \in Hold(f) : rst[q] = "live" /\ \A c \in Conns : q \notin ListedIn(w, c)
  /\ f.op = "timeout" => t = <<>>
  /\ f.op \notin Nested => \A g \in Range(t) : g.op # "timeout"

\* Pushing it.
LEMMA PushFrame ==
  ASSUME NEW f, NEW t, Frames(waiting, t)', Fits(waiting, f, t)'
  PROVE  Frames(waiting, Cons(f, t))'
<1>1. f \in Frame /\ t \in Seq(Frame)
  BY DEF Frames, Fits
<1>2. Cons(f, t) \in Seq(Frame) /\ Range(Cons(f, t)) = {f} \cup Range(t)
  BY <1>1, ConsStack
<1>3. Apart(Cons(f, t))
  BY <1>1, ConsApart DEF Frames, Fits
<1>4. Bottom(Cons(f, t))
  BY <1>1, ConsBottom DEF Frames, Fits
<1>5. FramesOK(waiting, Cons(f, t))'
  BY <1>2 DEF Frames, Fits, FramesOK
<1>6. HeldIn(Cons(f, t)) = Hold(f) \cup HeldIn(t)
  BY <1>1, ConsHeld
<1>7. HeldOK(waiting, Cons(f, t))'
  BY <1>6 DEF Frames, Fits, HeldOK
<1>8. QED
  BY <1>2, <1>3, <1>4, <1>5, <1>7 DEF Frames

\* Several requests go to one frame, if there are any.
LEMMA PushMany ==
  ASSUME NEW op \in {"acquire", "retry"}, NEW rs \in SUBSET Reqs, NEW t, Frames(waiting, t)',
         rs \cap HeldIn(t) = {}, op = "acquire" => \A q \in rs : ~responded'[q],
         \A q \in rs : rst'[q] = "live" /\ \A c \in Conns : q \notin ListedIn(waiting, c)'
  PROVE  Frames(waiting, Push(op, rs, t))'
<1>1. CASE rs = {}
  BY <1>1 DEF Push
<1>2. CASE rs # {}
  <2> DEFINE f == F(op, None, rs)
  <2>1. f \in Frame /\ Hold(f) = rs /\ f.op \in Nested /\ f.op # "timeout"
    BY DEF F, Frame, Ops, Hold, Nested
  <2>2. f.op = op /\ f.rs = rs
    BY DEF F
  <2>3. Push(op, rs, t) = Cons(f, t)
    BY Zenon, <1>2 DEF Push
  <2> HIDE DEF f
  <2>4. Fits(waiting, f, t)'
    BY <2>1, <2>2 DEF Fits, FrameOK, ConnOps
  <2>5. QED
    BY Zenon, <2>3, <2>4, PushFrame
<1>3. QED
  BY <1>1, <1>2

-----------------------------------------------------------------------------
(* Steps that leave the lists alone.                                          *)

\* Nothing but flags of conns, frames and counters change, and the frames are in order.
SameLists ==
  /\ UNCHANGED <<inflight, active, waiting, pc, retries>>
  /\ conn' \in [Conns -> ConnState]
  /\ owed' \in [Conns -> Seq(Reqs)] /\ strm' \in [Reqs -> {"new", "fin", "dead"}]
  /\ sweep' \in {"none", "stopped", "armed", "closing"} /\ UNCHANGED <<by, fault>>

\* At most flags of the conns change, handles are opened, or handshakes end.
Advances ==
  \A c \in Conns :
    /\ conn'[c].key = conn[c].key /\ (conn[c].open => conn'[c].open)
    /\ \/ conn'[c].st = conn[c].st
       \/ conn[c].st = "Handshaking" /\ conn'[c].st = "Ready" /\ conn'[c].open

\* Such a step, when the requests do not change either.
LEMMA FlagsStep ==
  ASSUME NEW s, Core(waiting), SameLists, Advances, UNCHANGED <<rst, responded, calls>>,
         stack' = s, Frames(waiting, s)', Owing(s)
  PROVE  IInv'
<1>1. UNCHANGED <<inflight, active, waiting, pc>>
  BY DEF SameLists
<1>2. \A d : ListedIn(waiting, d)' = ListedIn(waiting, d)
  BY <1>1 DEF ListedIn
<1>3. TypeOK'
  BY Zenon DEF Core, TypeOK, SameLists, Frames
<1>4. ConnOK'
  BY Zenon DEF Core, ConnOK, Advances, Proto
<1>8. CapacityRespected'
  <2>1. \A c \in Conns : (Live(c)' <=> Live(c)) /\ Proto(c)' = Proto(c)
    BY DEF Advances, Live, Proto
  <2>2. QED
    BY Zenon, <1>1, <2>1 DEF Core, CapacityRespected
<1>5. Counted' /\ Owing(s)'
  BY Zenon DEF Core, Counted, Owing
<1>6. ListsOK(waiting)'
  BY <1>1, <1>2 DEF Core, ListsOK, Advances
<1>7. QED
  BY <1>3, <1>4, <1>5, <1>6, <1>8, Assemble

\* The frames of t do not notice it.
LEMMA FlagsFrames ==
  ASSUME NEW t, Frames(waiting, t), SameLists, Advances, UNCHANGED <<rst, responded>>
  PROVE  Frames(waiting, t)'
<1>1. UNCHANGED <<active, waiting>>
  BY DEF SameLists
<1>2. \A d : ListedIn(waiting, d)' = ListedIn(waiting, d)
  BY Zenon, <1>1 DEF ListedIn
<1>3. Undisturbed(waiting, t)
  BY <1>2 DEF Undisturbed, Advances
<1>4. QED
  BY <1>3, FramesStay

\* A frame that names a conn and holds no request may be pushed.
LEMMA PlainFits ==
  ASSUME NEW op \in {"flush", "idle", "close", "recv", "loop", "failall"}, NEW c \in Conns, NEW t,
         op \in {"loop", "recv"} => conn'[c].st # "Free" /\ conn'[c].open,
         \A g \in Range(t) : g.op # "timeout"
  PROVE  Fits(waiting, F(op, c, {}), t)'
BY Zenon DEF Fits, F, Frame, Ops, FrameOK, Hold, ConnOps

\* It tears nothing down.
LEMMA PlainTorn ==
  ASSUME NEW op \in {"flush", "idle", "close", "recv", "loop", "failall"}, NEW c \in Conns,
         NEW t \in Seq(Frame)
  PROVE  Torn(Cons(F(op, c, {}), t)) = Torn(t) /\ F(op, c, {}) \in Frame
<1>1. F(op, c, {}) \in Frame /\ Tears(F(op, c, {})) = {}
  BY DEF F, Frame, Ops, Tears
<1>2. QED
  BY Zenon, <1>1, ConsTorn

\* Changing one conn so.
LEMMA SetConn ==
  ASSUME NEW c \in Conns, NEW k \in ConnState, conn \in [Conns -> ConnState],
         conn' = [conn EXCEPT ![c] = k], k.key = conn[c].key, conn[c].open => k.open,
         \/ k.st = conn[c].st
         \/ conn[c].st = "Handshaking" /\ k.st = "Ready" /\ k.open
  PROVE  conn' \in [Conns -> ConnState] /\ Advances
BY DEF Advances

\* Changing nothing.
LEMMA SameConn ==
  ASSUME conn \in [Conns -> ConnState], conn' = conn
  PROVE  conn' \in [Conns -> ConnState] /\ Advances
BY DEF Advances

\* The top frame ends and its caller goes on.
LEMMA PopPlain ==
  ASSUME IInv, NEW f, NEW t, Popped(f, t), Tears(f) = {}, SameLists, Advances,
         UNCHANGED <<rst, responded, calls>>, stack' = t
  PROVE  IInv'
<1>1. Core(waiting) /\ Frames(waiting, t) /\ Owing(t)
  BY DEF Popped, Sound, Owing
<1>2. Frames(waiting, t)'
  BY <1>1, FlagsFrames
<1>3. QED
  BY Zenon, <1>1, <1>2, FlagsStep

\* The stack stays as it is.
LEMMA StayPlain ==
  ASSUME IInv, SameLists, Advances, UNCHANGED <<rst, responded, calls, stack>>
  PROVE  IInv'
<1>1. PICK s : s = stack
  OBVIOUS
<1>2. Core(waiting) /\ Frames(waiting, s) /\ Owing(s) /\ stack' = s
  BY <1>1 DEF IInv, Sound
<1>3. Frames(waiting, s)'
  BY Zenon, <1>2, FlagsFrames
<1>4. QED
  BY <1>2, <1>3, FlagsStep

\* A frame of a conn is pushed on t.
LEMMA PushPlain ==
  ASSUME NEW op \in {"flush", "idle", "close", "recv", "loop", "failall"}, NEW c \in Conns, NEW t,
         Frames(waiting, t)', op \in {"loop", "recv"} => conn'[c].st # "Free" /\ conn'[c].open,
         \A g \in Range(t) : g.op # "timeout"
  PROVE  /\ Frames(waiting, Cons(F(op, c, {}), t))'
         /\ Torn(Cons(F(op, c, {}), t)) = Torn(t)
         /\ \A g \in Range(Cons(F(op, c, {}), t)) : g.op # "timeout"
<1>1. t \in Seq(Frame)
  BY DEF Frames
<1>2. Torn(Cons(F(op, c, {}), t)) = Torn(t) /\ F(op, c, {}) \in Frame
  BY <1>1, PlainTorn
<1>3. PICK f : f = F(op, c, {})
  OBVIOUS
<1>4. Fits(waiting, f, t)'
  BY Zenon, <1>3, PlainFits
<1>5. Frames(waiting, Cons(f, t))'
  BY <1>4, PushFrame
<1>6. Range(Cons(f, t)) = {f} \cup Range(t)
  BY ZenonT(30), <1>1, <1>2, <1>3, ConsStack
<1>7. f.op # "timeout"
  BY <1>3 DEF F
<1>8. QED
  BY <1>2, <1>3, <1>5, <1>6, <1>7

\* A frame that may be pushed whatever the state of the conn.
LEMMA PushCall ==
  ASSUME NEW op \in {"flush", "idle", "close", "failall"}, NEW c \in Conns, NEW t,
         Frames(waiting, t)', \A g \in Range(t) : g.op # "timeout"
  PROVE  /\ Frames(waiting, Cons(F(op, c, {}), t))'
         /\ Torn(Cons(F(op, c, {}), t)) = Torn(t)
         /\ \A g \in Range(Cons(F(op, c, {}), t)) : g.op # "timeout"
<1>1. /\ op \in {"flush", "idle", "close", "recv", "loop", "failall"}
      /\ op \in {"loop", "recv"} => conn'[c].st # "Free" /\ conn'[c].open
  OBVIOUS
<1>2. QED
  BY ZenonT(30), <1>1, PushPlain

\* An event finds no frames.
LEMMA QuietStack ==
  ASSUME IInv, Quiet, NEW t, t = stack
  PROVE  /\ Core(waiting) /\ TypeOK /\ Frames(waiting, t) /\ Owing(t) /\ t = <<>>
         /\ t \in Seq(Frame) /\ HeldIn(t) = {} /\ Torn(t) = {}
         /\ \A g \in Range(t) : g.op # "timeout"
BY NoFrames DEF IInv, Sound, Core, Quiet

-----------------------------------------------------------------------------
(* A request in hand.                                                         *)

\* A request that the running code has taken off a list or a frame and that is in
\* nobody else's hands; w are the queues and t the frames without it.
Loose(r, w, t) ==
  /\ Sound(w, t)
  /\ r \in Reqs /\ rst[r] = "live" /\ r \notin HeldIn(t)
  /\ \A c \in Conns : r \notin ListedIn(w, c)
  /\ \A q \in Reqs \ {r} : rst[q] = "live" /\ responded[q] => q \in Torn(t)

\* Taking a request from the top frame.
LEMMA TakeTop ==
  ASSUME IInv, NEW op \in {"acquire", "retry"}, At(op), NEW r \in Top.rs
  PROVE  /\ Loose(r, waiting, Push(op, Top.rs \ {r}, Below))
         /\ op = "acquire" => ~responded[r]
<1> DEFINE rest == Push(op, Top.rs \ {r}, Below)
<1>1. /\ stack \in Seq(Frame) /\ stack # <<>> /\ Top.op = op
      /\ Top \in Frame /\ Below \in Seq(Frame) /\ stack = Cons(Top, Below)
  BY TopBelow DEF IInv, Sound, Core, Frames, TypeOK, At, Top, Below
<1>2. Top.rs \in SUBSET Reqs /\ r \in Reqs /\ Hold(Top) = Top.rs
      /\ Tears(Top) = (IF op = "retry" THEN Top.rs ELSE {})
  BY <1>1 DEF Frame, Hold, Tears
<1>3. /\ Range(stack) = {Top} \cup Range(Below)
      /\ HeldIn(stack) = Top.rs \cup HeldIn(Below)
      /\ Torn(stack) = Tears(Top) \cup Torn(Below)
      /\ Apart(Below) /\ Top.rs \cap HeldIn(Below) = {}
      /\ Bottom(Below)
  <2>1. Apart(stack) /\ Bottom(stack)
    BY DEF IInv, Sound, Core, Frames
  <2>2. /\ Range(stack) = {Top} \cup Range(Below)
        /\ HeldIn(stack) = Hold(Top) \cup HeldIn(Below)
        /\ Torn(stack) = Tears(Top) \cup Torn(Below)
    BY Zenon, <1>1, ConsAll
  <2>3. Apart(Below) /\ Hold(Top) \cap HeldIn(Below) = {}
    BY <1>1, <2>1, ConsApart
  <2>4. Bottom(Below)
    BY <1>1, <2>1, ConsBottom
  <2>5. QED
    BY <1>2, <2>2, <2>3, <2>4
<1>4. /\ rest \in Seq(Frame)
      /\ Range(rest) \subseteq Range(Below) \cup {F(op, None, Top.rs \ {r})}
      /\ HeldIn(rest) = (Top.rs \ {r}) \cup HeldIn(Below)
      /\ op = "acquire" => Torn(rest) = Torn(Below)
      /\ op = "retry" => Torn(rest) = (Top.rs \ {r}) \cup Torn(Below)
      /\ Apart(rest) /\ Bottom(rest)
  <2>1. Top.rs \ {r} \in SUBSET Reqs /\ (Top.rs \ {r}) \cap HeldIn(Below) = {}
    BY <1>2, <1>3
  <2>2. /\ rest \in Seq(Frame)
        /\ Range(rest) \subseteq Range(Below) \cup {F(op, None, Top.rs \ {r})}
        /\ HeldIn(rest) = (Top.rs \ {r}) \cup HeldIn(Below)
        /\ op = "acquire" => Torn(rest) = Torn(Below)
        /\ op = "retry" => Torn(rest) = (Top.rs \ {r}) \cup Torn(Below)
    <3> DEFINE left == Top.rs \ {r}
    <3>1. left \in SUBSET Reqs /\ Below \in Seq(Frame)
      BY <1>1, <2>1
    <3> HIDE DEF left
    <3>2. /\ Push(op, left, Below) \in Seq(Frame)
          /\ Range(Push(op, left, Below)) \subseteq Range(Below) \cup {F(op, None, left)}
      BY <3>1, PushType
    <3>3. HeldIn(Push(op, left, Below)) = left \cup HeldIn(Below)
      BY <3>1, PushHeld
    <3>4. /\ op = "acquire" => Torn(Push(op, left, Below)) = Torn(Below)
          /\ op = "retry" => Torn(Push(op, left, Below)) = left \cup Torn(Below)
      BY ZenonT(30), <3>1, PushTorn
    <3>5. QED
      BY ZenonT(30), <3>2, <3>3, <3>4 DEF left
  <2>3. Apart(rest)
    BY Zenon, <1>1, <1>3, <2>1, PushApart
  <2>4. Bottom(rest)
    BY Zenon, <1>1, <1>3, <2>1, PushBottom
  <2>5. QED
    BY Zenon, <2>2, <2>3, <2>4
<1> HIDE DEF rest
<1>5. FramesOK(waiting, rest)
  <2>1. FrameOK(waiting, F(op, None, Top.rs \ {r}))
    BY ZenonT(30), <1>1, <1>3 DEF IInv, Sound, Core, Frames, FramesOK, FrameOK, F, ConnOps
  <2>2. QED
    BY <1>3, <1>4, <2>1 DEF IInv, Sound, Core, Frames, FramesOK
<1>6. HeldOK(waiting, rest) /\ r \notin HeldIn(rest) /\ rst[r] = "live"
      /\ \A c \in Conns : r \notin ListedIn(waiting, c)
  BY ZenonT(30), <1>3, <1>4 DEF IInv, Sound, Core, Frames, HeldOK
<1>7. Sound(waiting, rest)
  BY ZenonT(30), <1>4, <1>5, <1>6 DEF IInv, Sound, Core, Frames, TypeOK
<1>8. \A q \in Reqs \ {r} : rst[q] = "live" /\ responded[q] => q \in Torn(rest)
  BY ZenonT(30), <1>2, <1>3, <1>4 DEF IInv, Owing
<1>9. op = "acquire" => ~responded[r]
  BY Zenon, <1>1, <1>3 DEF IInv, Sound, Core, Frames, FramesOK, FrameOK
<1>10. QED
  BY ZenonT(30), <1>2, <1>6, <1>7, <1>8, <1>9 DEF Loose, rest

\* Popping a waiting queue in pool_flush_waiting.
LEMMA TakeWaiting ==
  ASSUME IInv, At("flush"), waiting[Top.c] # <<>>
  PROVE  LET c == Top.c
             r == Head(waiting[c])
         IN  /\ c \in Conns
             /\ Loose(r, [waiting EXCEPT ![c] = Tail(@)], stack)
             /\ ~responded[r] /\ conn[c].key = Key[r]
<1> DEFINE c == Top.c
           r == Head(waiting[c])
           w == [waiting EXCEPT ![c] = Tail(@)]
<1>1. /\ stack \in Seq(Frame) /\ stack # <<>> /\ Top.op = "flush"
      /\ Top \in Frame /\ Below \in Seq(Frame) /\ stack = Cons(Top, Below)
  BY TopBelow DEF IInv, Sound, Core, Frames, TypeOK, At, Top, Below
<1>2. /\ Top \in Range(stack)
      /\ \A g \in Range(stack) : g.op # "timeout"
  <2>1. Bottom(stack)
    BY DEF IInv, Sound, Core, Frames
  <2>2. Top \in Range(stack) /\ Range(stack) = {Top} \cup Range(Below)
    <3>1. Range(stack) = {Top} \cup Range(Below)
      BY ZenonT(30), <1>1, ConsAll
    <3>2. QED
      BY <3>1
  <2>3. \A g \in Range(Below) : g.op # "timeout"
    BY Zenon, <1>1, <2>1, ConsBottom DEF Nested
  <2>4. QED
    BY <1>1, <2>2, <2>3
<1>3. c \in Conns
  BY <1>1, <1>2 DEF IInv, Sound, Core, Frames, FramesOK, FrameOK, ConnOps
<1>4. /\ waiting \in [Conns -> Seq(Reqs)] /\ waiting[c] \in Seq(Reqs)
      /\ IsInjective(waiting[c]) /\ active[c] \cap Range(waiting[c]) = {}
  BY ZenonT(30), <1>3 DEF IInv, Sound, Core, Frames, TypeOK, ListsOK
<1> HIDE DEF c
<1>5. /\ r \in Reqs /\ Tail(waiting[c]) \in Seq(Reqs)
      /\ r \in Range(waiting[c]) /\ r \notin Range(Tail(waiting[c]))
      /\ Range(Tail(waiting[c])) \subseteq Range(waiting[c])
      /\ IsInjective(Tail(waiting[c]))
  BY Zenon, <1>4, QueuePop DEF c
<1> HIDE DEF r
<1>6. /\ w \in [Conns -> Seq(Reqs)] /\ w[c] = Tail(waiting[c])
      /\ \A d \in Conns : d # c => w[d] = waiting[d]
  BY <1>3, <1>4, <1>5
<1> HIDE DEF w
<1>7. r \in ListedIn(waiting, c) /\ rst[r] = "live" /\ pc[r] = c /\ conn[c].key = Key[r]
  BY <1>3, <1>5 DEF IInv, Sound, Core, Frames, ListsOK, ListedIn
<1>8. \A d \in Conns : ListedIn(w, d) \subseteq ListedIn(waiting, d) /\ r \notin ListedIn(w, d)
  <2>1. \A d \in Conns : d # c => r \notin ListedIn(waiting, d)
    BY Zenon, <1>7 DEF IInv, Sound, Core, Frames, ListsOK
  <2>2. r \notin active[c]
    BY <1>4, <1>5
  <2>3. QED
    BY Zenon, <1>5, <1>6, <2>1, <2>2 DEF ListedIn
<1>9. ListsOK(w)
  <2>1. ASSUME NEW d \in Conns
        PROVE  active[d] \cap Range(w[d]) = {} /\ IsInjective(w[d])
    <3>1. active[d] \cap Range(waiting[d]) = {} /\ IsInjective(waiting[d])
      BY Zenon DEF IInv, Sound, Core, Frames, ListsOK
    <3>2. CASE d = c
      BY Zenon, <3>1, <3>2, <1>5, <1>6
    <3>3. CASE d # c
      BY Zenon, <3>1, <3>3, <1>6
    <3>4. QED
      BY Zenon, <3>2, <3>3
  <2>2. QED
    BY Zenon, <1>8, <2>1 DEF IInv, Sound, Core, Frames, ListsOK
<1>10. HeldOK(w, stack) /\ r \notin HeldIn(stack)
  BY <1>3, <1>7, <1>8 DEF IInv, Sound, Core, Frames, HeldOK
<1>11. FramesOK(w, stack)
  BY ZenonT(30), <1>8 DEF IInv, Sound, Core, Frames, FramesOK, FrameOK
<1>12. ~responded[r]
  <2>1. SUFFICES ASSUME responded[r] PROVE FALSE
    BY Zenon
  <2>2. r \in Torn(stack)
    BY <1>5, <1>7, <2>1 DEF IInv, Owing
  <2>3. PICK f \in Range(stack) : r \in Tears(f)
    BY <2>2, Zenon DEF Torn
  <2>4. f.op # "timeout"
    BY <1>2
  <2>5. r \in Hold(f)
    BY <2>3, <2>4 DEF Tears, Hold
  <2>6. r \in HeldIn(stack)
    BY <2>5, Zenon DEF HeldIn
  <2>7. QED
    BY ZenonT(30), <2>6, <1>10
<1>13. Loose(r, w, stack)
  BY Zenon, <1>1, <1>5, <1>6, <1>7, <1>8, <1>9, <1>10, <1>11
     DEF IInv, Sound, Core, Frames, Loose, Owing, TypeOK
<1>14. QED
  BY Zenon, <1>3, <1>7, <1>12, <1>13 DEF c, r, w

\* A slot without a conn has nothing listed.
LEMMA FreeIsEmpty ==
  ASSUME Counting, NEW w, NEW c \in Conns, Core(w), conn[c].st = "Free"
  PROVE  ListedIn(w, c) = {} /\ inflight[c] = 0 /\ active[c] = {} /\ w[c] = <<>>
<1>1. conn[c].key = None
  BY DEF Core, ConnOK
<1>2. \A r \in ListedIn(w, c) : r \in Reqs
  BY DEF ListedIn, Core, TypeOK, Range
<1>3. \A r \in ListedIn(w, c) : Key[r] = None /\ Key[r] \in Keys
  BY <1>1, <1>2, KeyAssumption DEF Core, ListsOK
<1>4. ListedIn(w, c) = {} /\ active[c] = {} /\ Range(w[c]) = {}
  BY <1>3, MarkAssumption DEF ListedIn
<1>5. w[c] = <<>>
  <2>1. w[c] \in Seq(Reqs)
    BY DEF Core
  <2>2. Len(w[c]) \in Nat /\ DOMAIN w[c] = 1 .. Len(w[c])
    BY <2>1
  <2>3. 1 \notin DOMAIN w[c]
    BY Zenon, <1>4 DEF Range
  <2>4. Len(w[c]) = 0
    BY <2>2, <2>3
  <2>5. QED
    BY <2>1, <2>4
<1>6. inflight[c] = Cardinality({})
  BY Zenon, <1>4 DEF Core, CapacityRespected
<1>7. QED
  BY Zenon, <1>4, <1>5, <1>6 DEF Counting
===============================================================================
