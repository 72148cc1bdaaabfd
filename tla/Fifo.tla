-------------------------------- MODULE Fifo --------------------------------
(* What the ring allocator promises its two threads: blocks come out whole, in *)
(* the order they were committed.                                              *)
EXTENDS Sequences

CONSTANT Blocks    \* the blocks that may be committed
VARIABLE queue

Init == queue = <<>>
Commit(b) == queue' = Append(queue, b)
Release == queue # <<>> /\ queue' = Tail(queue)
Next == Release \/ \E b \in Blocks : Commit(b)
Spec == Init /\ [][Next]_queue
=============================================================================
