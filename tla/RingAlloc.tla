------------------------------ MODULE RingAlloc ------------------------------
(* The single-producer single-consumer ring allocator of base/ring_alloc.h, in *)
(* units of RA_ALIGN (16 bytes): a header is one unit, and a block's data is    *)
(* padded to whole units.  The producer and the consumer are two threads; each  *)
(* step touches one shared index at most once, and the bytes of the buffer are  *)
(* written and read in steps of their own, so a step of the other thread may    *)
(* fall between them.  Offsets only grow and are wrapped when indexing.         *)
EXTENDS Naturals, Sequences

CONSTANTS Cap,      \* the capacity in units, a power of two
          Tags,     \* what a block carries: its header tag, and its payload
          MaxHead   \* the bound on the offsets

VARIABLES buf,        \* 0 .. Cap-1 -> what the unit holds
          head,       \* committed units, published by the producer
          tail,       \* released units, published by the consumer
          tailCache,  \* the producer's last view of tail
          headCache,  \* the consumer's last view of head
          rsv,        \* the producer's reservation
          held        \* what the consumer has peeked and not yet released
vars == <<buf, head, tail, tailCache, headCache, rsv, held>>

Unit(off) == off % Cap
Skip(n) == [kind |-> "skip", size |-> n, tag |-> 0]
Header(n, tag) == [kind |-> "block", size |-> n, tag |-> tag]
Data(tag) == [kind |-> "data", size |-> 0, tag |-> tag]
Raw == [kind |-> "raw", size |-> 0, tag |-> 0]

NoRsv == [on |-> FALSE, hdr |-> 0, min |-> 0, max |-> 0, tag |-> 0, size |-> 0, filled |-> FALSE]
Nothing == [on |-> FALSE, at |-> 0, size |-> 0, tag |-> 0]

-----------------------------------------------------------------------------
(* Producer                                                                  *)

ToEnd == Cap - Unit(head)

\* The padding to the physical end, when header and data would straddle it.
SkipFor(need) == IF ToEnd < 1 + need THEN ToEnd ELSE 0

FreeUnits(seen) == Cap - (head - seen)

\* ra_reserve: trust the cached tail, refresh it only when the ring looks full.
View(need) ==
  IF FreeUnits(tailCache) < SkipFor(need) + 1 + need THEN tail ELSE tailCache

Fits(need) == need <= Cap /\ FreeUnits(View(need)) >= SkipFor(need) + 1 + need

Reserve(need) ==
  /\ ~rsv.on
  /\ head + Cap <= MaxHead
  /\ need <= Cap
  /\ tailCache' = View(need)
  /\ IF ~Fits(need) THEN UNCHANGED <<buf, rsv>>
     ELSE LET skip == SkipFor(need)
              end == IF skip > 0 THEN Cap ELSE ToEnd
              free == FreeUnits(View(need)) - skip
              max == (IF end < free THEN end ELSE free) - 1
          IN /\ buf' = IF skip > 0 THEN [buf EXCEPT ![Unit(head)] = Skip(skip - 1)] ELSE buf
             /\ rsv' = [NoRsv EXCEPT !.on = TRUE, !.hdr = head + skip, !.min = need, !.max = max]
  /\ UNCHANGED <<head, tail, headCache, held>>

\* The user writes the payload of a block of n units into the reserved span.
Fill(n, tag) ==
  /\ rsv.on /\ ~rsv.filled /\ n <= rsv.max
  /\ buf' = [u \in 0 .. Cap - 1 |->
               IF \E i \in 1 .. n : u = Unit(rsv.hdr + i) THEN Data(tag) ELSE buf[u]]
  /\ rsv' = [rsv EXCEPT !.filled = TRUE, !.size = n, !.tag = tag]
  /\ UNCHANGED <<head, tail, tailCache, headCache, held>>

\* Mutant: the skipped end of the buffer is left out of the published head.
CommitUnskipped ==
  /\ rsv.on /\ rsv.filled
  /\ buf' = [buf EXCEPT ![Unit(rsv.hdr)] = Header(rsv.size, rsv.tag)]
  /\ head' = head + 1 + rsv.size
  /\ rsv' = NoRsv
  /\ UNCHANGED <<tail, tailCache, headCache, held>>

\* ra_commit: the header, then the release store that publishes all of it.
Commit ==
  /\ rsv.on /\ rsv.filled
  /\ buf' = [buf EXCEPT ![Unit(rsv.hdr)] = Header(rsv.size, rsv.tag)]
  /\ head' = rsv.hdr + 1 + rsv.size
  /\ rsv' = NoRsv
  /\ UNCHANGED <<tail, tailCache, headCache, held>>

\* ra_abort: nothing was published, also not a skip marker.
Abort ==
  /\ rsv.on
  /\ rsv' = NoRsv
  /\ UNCHANGED <<buf, head, tail, tailCache, headCache, held>>

-----------------------------------------------------------------------------
(* Consumer                                                                  *)

\* The offset of the oldest block's header, past a skip marker.
Oldest == LET h == buf[Unit(tail)] IN IF h.kind = "skip" THEN tail + 1 + h.size ELSE tail

\* ra_peek: trust the cached head, refresh it when it proves nothing.
Peek ==
  /\ ~held.on
  /\ headCache' = IF tail >= headCache THEN head ELSE headCache
  /\ held' = IF tail = headCache' THEN held
             ELSE [on |-> TRUE, at |-> Oldest, size |-> buf[Unit(Oldest)].size,
                   tag |-> buf[Unit(Oldest)].tag]
  /\ UNCHANGED <<buf, head, tail, tailCache, rsv>>

\* ra_release, also without a peek: the ring must not be empty, which it checks against
\* the shared head and not the cached one.
Release ==
  /\ tail # head
  /\ tail' = Oldest + 1 + buf[Unit(Oldest)].size
  /\ held' = Nothing
  /\ UNCHANGED <<buf, head, tailCache, headCache, rsv>>

\* ra_reset, when neither thread is touching the ring.
Reset ==
  /\ ~rsv.on /\ ~held.on /\ head = tail
  /\ head' = 0 /\ tail' = 0 /\ tailCache' = 0 /\ headCache' = 0
  /\ UNCHANGED <<buf, rsv, held>>

Init ==
  /\ buf = [u \in 0 .. Cap - 1 |-> Raw]
  /\ head = 0 /\ tail = 0 /\ tailCache = 0 /\ headCache = 0
  /\ rsv = NoRsv /\ held = Nothing

Next ==
  \/ \E n \in 0 .. Cap : Reserve(n)
  \/ \E n \in 0 .. Cap, tag \in Tags : Fill(n, tag)
  \/ Commit \/ Abort \/ Peek \/ Release \/ Reset
Spec == Init /\ [][Next]_vars

-----------------------------------------------------------------------------
(* Properties                                                                *)

TypeOK ==
  /\ tailCache <= tail /\ tail <= head /\ headCache <= head
  /\ head - tail <= Cap
  /\ rsv.on => rsv.hdr >= head /\ Unit(rsv.hdr) + 1 + rsv.max <= Cap
  /\ held.on => held.at >= tail

\* The blocks between two offsets, read from the headers.
Walk[t \in 0 .. MaxHead + Cap] ==
  IF t >= head THEN <<>>
  ELSE LET h == buf[Unit(t)] IN
    (IF h.kind = "skip" THEN <<>> ELSE <<[size |-> h.size, tag |-> h.tag]>>)
      \o Walk[t + 1 + h.size]

\* Whatever the interleaving, what the headers describe is a FIFO of whole blocks:
\* no skip marker, stale cache or wrap loses, repeats or reorders one.
Queue == INSTANCE Fifo WITH queue <- Walk[tail],
                            Blocks <- [size : 0 .. Cap, tag : Tags]
ImplementsFifo == Queue!Spec

\* The block the consumer holds keeps its header and every unit of its payload until it
\* is released: the producer never recycles bytes the consumer is reading.
HeldIntact ==
  held.on =>
    /\ buf[Unit(held.at)] = Header(held.size, held.tag)
    /\ \A i \in 1 .. held.size : buf[Unit(held.at + i)] = Data(held.tag)

\* What ra_reserve promises: "A block of size <= capacity/2 - 16 always fits in an empty
\* ring, regardless of where head currently sits", a span is never smaller than asked
\* for, and never reaches into what the consumer has yet to release.
ReserveHonest ==
  /\ (head = tail /\ ~rsv.on) => \A n \in 0 .. Cap \div 2 - 1 : Fits(n)
  /\ rsv.on => rsv.min <= rsv.max /\ rsv.hdr + 1 + rsv.max <= tail + Cap
=============================================================================
