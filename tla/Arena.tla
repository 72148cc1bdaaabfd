-------------------------------- MODULE Arena --------------------------------
(* The arenas of one thread, base/arena.c: chains of blocks that are bumped and *)
(* rewound, two scratch arenas that nested calls share, and the list of         *)
(* recycled arenas.  Sizes are in units, and a frame is a call of a function    *)
(* that takes an output arena and a scratch temporary, as the code does.        *)
EXTENDS Naturals, FiniteSets, SequencesExt, FiniteSetsExt

CONSTANTS Arenas,     \* the addresses malloc gives out
          BlockSize,  \* ARENA_DEFAULT_BLOCK
          Sizes,      \* the sizes of allocations
          MaxBlocks,  \* the bound on the blocks of an arena
          MaxDepth,   \* the bound on nested calls
          MaxLive,    \* the bound on the live allocations
          PoolMax     \* ARENA_RECYCLE_MAX

VARIABLES chain,    \* Arenas -> the blocks of an allocated arena, <<>> for free memory
          current,  \* Arenas -> the block that is being filled
          scratch,  \* g_scratch: <<>> or both arenas
          pooled,   \* the recycle list, first in front
          mine,     \* the arenas the program has acquired
          frames,   \* the calls under way, innermost last
          allocs    \* what was pushed and is still needed
arenaVars == <<chain, current, scratch, pooled, mine, frames, allocs>>

Block(cap, base) == [cap |-> cap, used |-> 0, base |-> base]
NewArena == <<Block(BlockSize, 0)>>
Unused == {a \in Arenas : chain[a] = <<>>}

-----------------------------------------------------------------------------
(* arena.c                                                                   *)

\* arena_push: the first block from the current one on that has room, else a new one,
\* large enough for the alignment.  pad is what the address of the block costs.
Room(b, need) == b.used + need <= b.cap
Push(a, size, pad, owner) ==
  LET need == pad + size
      fits == {i \in current[a] .. Len(chain[a]) : Room(chain[a][i], need)}
      last == Last(chain[a])
      cap == IF BlockSize > size + 1 THEN BlockSize ELSE size + 1
      grown == IF fits # {} THEN chain[a] ELSE Append(chain[a], Block(cap, last.base + last.cap))
      at == IF fits # {} THEN Min(fits) ELSE Len(grown)
      lo == grown[at].used + pad
  IN /\ Len(grown) <= MaxBlocks
     /\ chain' = [chain EXCEPT ![a] = [grown EXCEPT ![at].used = @ + need]]
     /\ current' = [current EXCEPT ![a] = at]
     /\ allocs' = allocs \cup {[arena |-> a, blk |-> at, lo |-> lo, hi |-> lo + size, owner |-> owner]}

\* arena_pos
Pos(a) == chain[a][current[a]].base + chain[a][current[a]].used

\* arena_pop_to: the first block that reaches the position becomes the current one, and
\* the ones after it are empty.
PopTo(bs, pos) ==
  LET at == Min({i \in DOMAIN bs : i = Len(bs) \/ pos <= bs[i].base + bs[i].cap})
  IN [at |-> at, blocks |-> [i \in DOMAIN bs |->
        [bs[i] EXCEPT !.used = IF i < at THEN @ ELSE IF i = at THEN pos - bs[i].base ELSE 0]]]

\* Mutant: the output arena is not avoided.
PickScratchAny(ss, out) == ss[1]

\* scratch_begin: the first of the two that is not the output arena
PickScratch(ss, out) == IF ss[1] # out THEN ss[1] ELSE ss[2]

-----------------------------------------------------------------------------
(* Actions                                                                   *)

Depth == Len(frames)
Top == frames[Depth]

\* A function pushes a result into its output arena or something temporary into its
\* scratch arena; outside any call the program fills an arena it acquired.
PushOut(size, pad) ==
  /\ Cardinality(allocs) < MaxLive
  /\ \/ Depth > 0 /\ Top.out # 0 /\ Push(Top.out, size, pad, Top.outOwner)
     \/ Depth = 0 /\ \E a \in mine : Push(a, size, pad, 0)
  /\ UNCHANGED <<scratch, pooled, mine, frames>>

PushScratch(size, pad) ==
  /\ Cardinality(allocs) < MaxLive
  /\ Depth > 0 /\ Push(Top.scr, size, pad, Depth)
  /\ UNCHANGED <<scratch, pooled, mine, frames>>

\* scratch_begin on entry of a function whose results go to out: an arena the program
\* acquired, the caller's scratch or output arena, or none.  The scratch arenas are
\* allocated on first use.
ScratchBegin(out, outOwner) ==
  /\ Depth < MaxDepth
  /\ scratch = <<>> => Cardinality(Unused) > 1
  /\ LET one == Min(Unused)
         ss == IF scratch # <<>> THEN scratch ELSE <<one, Min(Unused \ {one})>> IN
       /\ scratch' = ss
       /\ chain' = IF scratch # <<>> THEN chain
                   ELSE [chain EXCEPT ![ss[1]] = NewArena, ![ss[2]] = NewArena]
       /\ current' = IF scratch # <<>> THEN current ELSE [current EXCEPT ![ss[1]] = 1, ![ss[2]] = 1]
       /\ LET scr == PickScratch(ss, out)
              pos == IF scratch # <<>> THEN Pos(scr) ELSE 0
          IN frames' = Append(frames, [out |-> out, outOwner |-> outOwner, scr |-> scr, pos |-> pos])
  /\ UNCHANGED <<pooled, mine, allocs>>
Enter ==
  \/ ScratchBegin(0, 0)
  \/ Depth = 0 /\ \E a \in mine : ScratchBegin(a, 0)
  \/ Depth > 0 /\ ScratchBegin(Top.scr, Depth)
  \/ Depth > 0 /\ Top.out # 0 /\ ScratchBegin(Top.out, Top.outOwner)

\* scratch_end: what the function pushed into its own scratch is not needed any more.
ScratchEnd ==
  /\ Depth > 0
  /\ LET popped == PopTo(chain[Top.scr], Top.pos)
     IN /\ chain' = [chain EXCEPT ![Top.scr] = popped.blocks]
        /\ current' = [current EXCEPT ![Top.scr] = popped.at]
  /\ allocs' = {x \in allocs : x.owner # Depth}
  /\ frames' = Front(frames)
  /\ UNCHANGED <<scratch, pooled, mine>>

\* arena_acquire
Acquire ==
  /\ IF pooled # <<>>
     THEN /\ mine' = mine \cup {Head(pooled)} /\ pooled' = Tail(pooled)
          /\ UNCHANGED <<chain, current>>
     ELSE \E a \in Unused : a = Min(Unused) /\
            /\ mine' = mine \cup {a}
            /\ chain' = [chain EXCEPT ![a] = NewArena] /\ current' = [current EXCEPT ![a] = 1]
            /\ UNCHANGED pooled
  /\ UNCHANGED <<scratch, frames, allocs>>

\* arena_recycle, by the owner, of an arena no call is writing to: back to the list,
\* unless it has grown or the list is full.
Recycle(a) ==
  /\ a \in mine /\ \A i \in DOMAIN frames : frames[i].out # a
  /\ mine' = mine \ {a}
  /\ allocs' = {x \in allocs : x.arena # a}
  /\ IF Len(chain[a]) > 1 \/ Len(pooled) >= PoolMax
     THEN chain' = [chain EXCEPT ![a] = <<>>] /\ UNCHANGED <<current, pooled>>
     ELSE LET popped == PopTo(chain[a], 0)
          IN /\ chain' = [chain EXCEPT ![a] = popped.blocks]
             /\ current' = [current EXCEPT ![a] = popped.at]
             /\ pooled' = <<a>> \o pooled
  /\ UNCHANGED <<scratch, frames>>

\* arena_thread_cleanup, called by hand or by the thread's destructor
ThreadCleanup ==
  /\ frames = <<>>
  /\ chain' = [a \in Arenas |-> IF a \in Range(pooled) \cup Range(scratch) THEN <<>> ELSE chain[a]]
  /\ pooled' = <<>> /\ scratch' = <<>>
  /\ UNCHANGED <<current, mine, frames, allocs>>

Init ==
  /\ chain = [a \in Arenas |-> <<>>] /\ current = [a \in Arenas |-> 1]
  /\ scratch = <<>> /\ pooled = <<>> /\ mine = {} /\ frames = <<>> /\ allocs = {}
Next ==
  \/ \E size \in Sizes, pad \in {0, 1} : PushOut(size, pad) \/ PushScratch(size, pad)
  \/ Enter \/ ScratchEnd
  \/ Acquire \/ (\E a \in mine : Recycle(a))
  \/ ThreadCleanup
Spec == Init /\ [][Next]_arenaVars

-----------------------------------------------------------------------------
(* Properties                                                                *)

\* What a function still needs stays its own: its allocations are inside the used part of
\* their block, so no later push hands them out again, and no two of them overlap, however
\* calls nest, blocks are added, and temporaries rewind past block boundaries.
Stable ==
  /\ \A x \in allocs : x.blk <= Len(chain[x.arena]) /\ x.hi <= chain[x.arena][x.blk].used
  /\ \A x, y \in allocs :
       x # y /\ x.arena = y.arena /\ x.blk = y.blk => x.hi <= y.lo \/ y.hi <= x.lo

\* An arena has one user: the program, the scratch pair or the recycle list, which holds
\* only cleared arenas of one block ("already cleared at recycle time").
OneUser ==
  /\ IsInjective(pooled \o scratch) /\ Range(pooled \o scratch) \cap mine = {}
  /\ \A a \in Range(pooled) : Len(chain[a]) = 1 /\ chain[a][1].used = 0
  /\ \A a \in Arenas : chain[a] # <<>> <=> a \in mine \cup Range(pooled \o scratch)
==============================================================================
