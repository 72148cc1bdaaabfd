------------------------------ MODULE MCConnPool ------------------------------
(* Small instances of the pool for TLC.                                       *)
EXTENDS ConnPoolFair, TLC

CONSTANTS r1, r2, r3, c1, c2

On(proto, origin) == [proto |-> proto, origin |-> origin]
KeyH1 == [r \in Reqs |-> On("H1", "o1")]
KeyH2 == [r \in Reqs |-> On("H2", "o1")]
KeyH3 == [r \in Reqs |-> On("H3", "o1")]
\* Two requests that can share a conn and one that can share with neither.
KeyTwoOrigins == [r \in Reqs |-> On("H2", IF r = r3 THEN "o2" ELSE "o1")]
KeyTwoProtos == [r \in Reqs |-> On(IF r = r3 THEN "H1" ELSE "H3", "o1")]

SymmetricSlots == Permutations(Conns)
=============================================================================
