---------------------------- MODULE ManagerProofs ----------------------------
(* For any bounds, a session that some thread holds stays in the manager's      *)
(* table, and the count tested against the limit is the number of sessions.     *)
EXTENDS Manager, FiniteSetTheorems, TLAPS

(* What a step relies on: the ids in the table are distinct and already given   *)
(* out, a slot counts exactly the holders of its id, and every id held by       *)
(* somebody is in the table.                                                    *)
Counted ==
  \A i \in DOMAIN slots : slots[i].used =>
    slots[i].id \in Ids /\ slots[i].id < nextId /\ slots[i].refs = pins[slots[i].id]

Unique ==
  \A i, j \in DOMAIN slots : slots[i].used /\ slots[j].used /\ slots[i].id = slots[j].id => i = j

Found == \A id \in Ids : pins[id] > 0 => \E i \in DOMAIN slots : Finds(i, id)

Inv == TypeOK /\ Counted /\ Unique /\ Found

-----------------------------------------------------------------------------

Rebuilds(s, u, r, l) ==
  /\ Still(s, u, r, l) \in Slot
  /\ Still(s, u, r, l).used = u /\ Still(s, u, r, l).id = s.id
  /\ Still(s, u, r, l).refs = r /\ Still(s, u, r, l).last = l

(* A slot rebuilt with its id is a slot, with the fields it was given.           *)
LEMMA StillSlot ==
  ASSUME NEW s \in Slot, NEW r \in Nat, NEW l \in Nat
  PROVE  Rebuilds(s, TRUE, r, l) /\ Rebuilds(s, FALSE, r, l)
BY DEF Rebuilds, Still, Slot

(* A slot has its fields.                                                        *)
LEMMA SlotFields ==
  ASSUME NEW s \in Slot
  PROVE  s.used \in BOOLEAN /\ s.id \in Nat /\ s.refs \in Nat /\ s.last \in Nat
BY DEF Slot

(* Replacing one entry of a table.                                               *)
LEMMA Replaced ==
  ASSUME NEW ss \in Seq(Slot), NEW v \in DOMAIN ss, NEW e \in Slot
  PROVE  /\ [ss EXCEPT ![v] = e] \in Seq(Slot)
         /\ DOMAIN [ss EXCEPT ![v] = e] = DOMAIN ss
         /\ [ss EXCEPT ![v] = e][v] = e
         /\ \A i \in DOMAIN ss : i # v => [ss EXCEPT ![v] = e][i] = ss[i]
OBVIOUS

(* Rebuilding a table entry by entry.                                            *)
LEMMA Rebuilt ==
  ASSUME NEW ss \in Seq(Slot), NEW f, f = [i \in DOMAIN ss |-> f[i]],
         \A i \in DOMAIN ss : f[i] \in Slot
  PROVE  f \in Seq(Slot) /\ DOMAIN f = DOMAIN ss
<1>1. DOMAIN ss = 1 .. Len(ss) /\ Len(ss) \in Nat
  OBVIOUS
<1>2. f \in [1 .. Len(ss) -> Slot]
  BY <1>1
<1> QED
  BY <1>1, <1>2

Places(ss, k, s) ==
  /\ Placed(ss, k, s) \in Seq(Slot)
  /\ k \in DOMAIN ss => ~ss[k].used
  /\ DOMAIN Placed(ss, k, s) = DOMAIN ss \cup {k}
  /\ Placed(ss, k, s)[k] = s
  /\ \A i \in DOMAIN ss : i # k => Placed(ss, k, s)[i] = ss[i]

(* manager_alloc_slot puts the new session in one slot, which was free or is    *)
(* new, and leaves every other slot as it was.                                  *)
LEMMA PlacedIn ==
  ASSUME NEW ss \in Seq(Slot), NEW k \in FirstFree(ss), NEW s \in Slot
  PROVE  Places(ss, k, s)
<1>1. DOMAIN ss = 1 .. Len(ss) /\ Len(ss) \in Nat
  OBVIOUS
<1>2. CASE k \in DOMAIN ss
  BY <1>1, <1>2 DEF Places, Placed, FirstFree
<1>3. CASE k \notin DOMAIN ss
  <2>1. k = Len(ss) + 1
    BY <1>1, <1>3 DEF FirstFree
  <2>2. /\ Append(ss, s) \in Seq(Slot)
        /\ DOMAIN Append(ss, s) = 1 .. Len(ss) + 1
        /\ Append(ss, s)[Len(ss) + 1] = s
        /\ \A i \in DOMAIN ss : Append(ss, s)[i] = ss[i]
    BY <1>1
  <2> QED
    BY <1>1, <1>3, <2>1, <2>2 DEF Places, Placed
<1> QED
  BY <1>2, <1>3

(* Evicting a session frees its slot and touches nothing else.                  *)
LEMMA FreedOne ==
  ASSUME NEW ss \in Seq(Slot), NEW v \in DOMAIN ss
  PROVE  /\ Freed(ss, v) \in Seq(Slot)
         /\ DOMAIN Freed(ss, v) = DOMAIN ss
         /\ ~Freed(ss, v)[v].used
         /\ \A i \in DOMAIN ss : i # v => Freed(ss, v)[i] = ss[i]
<1>1. ss[v] \in Slot
  OBVIOUS
<1>2. Still(ss[v], FALSE, ss[v].refs, ss[v].last) \in Slot
      /\ ~Still(ss[v], FALSE, ss[v].refs, ss[v].last).used
  <2>1. Rebuilds(ss[v], FALSE, ss[v].refs, ss[v].last)
    BY Zenon, <1>1, SlotFields, StillSlot
  <2> QED
    BY Zenon, <2>1 DEF Rebuilds
<1> QED
  BY Zenon, <1>2, Replaced DEF Freed

(* The invariant only looks at the slots in use, so a table whose used slots     *)
(* are some of the old ones, but none that was pinned is missing, keeps it.      *)
LEMMA FreedKeeps ==
  ASSUME Inv, NEW v \in Victims
  PROVE  /\ v \in DOMAIN slots /\ slots[v].used
         /\ pins[slots[v].id] = 0
         /\ slots[v].id \in Ids
BY DEF Inv, TypeOK, Counted, Victims, Evictable

(* Putting a session with a fresh id into a table without disturbing the others  *)
(* keeps the invariant, whichever unpinned session was taken out before.         *)
LEMMA HostingKeeps ==
  ASSUME Inv, NEW ss \in Seq(Slot), nextId \in Ids,
         slots' \in Hosting(ss), nextId' = nextId + 1, pins' = pins,
         DOMAIN ss = DOMAIN slots,
         \A i \in DOMAIN ss : ss[i].used => ss[i] = slots[i],
         \A i \in DOMAIN slots : slots[i].used /\ pins[slots[i].id] > 0 => ss[i] = slots[i]
  PROVE  slots' \in Seq(Slot) /\ Counted' /\ Unique' /\ Found'
<1> DEFINE new == [used |-> TRUE, id |-> nextId, refs |-> 0, last |-> clock]
<1>1. new \in Slot
  BY DEF Inv, TypeOK, Slot
<1>2. PICK k \in FirstFree(ss) : slots' = Placed(ss, k, new)
  BY Zenon DEF Hosting
<1> HIDE DEF new
<1>3. /\ slots' \in Seq(Slot)
      /\ k \in DOMAIN ss => ~ss[k].used
      /\ DOMAIN slots' = DOMAIN ss \cup {k}
      /\ slots'[k] = new
      /\ \A i \in DOMAIN ss : i # k => slots'[i] = ss[i]
  <2>1. Places(ss, k, new)
    BY <1>1, PlacedIn
  <2> QED
    BY <1>2, <2>1 DEF Places
<1>4. pins[nextId] = 0
  <2>1. ~(pins[nextId] > 0)
    BY DEF Inv, TypeOK, Found, Finds, Counted
  <2> QED
    BY <2>1 DEF Inv, TypeOK
<1>5. new.used /\ new.id = nextId /\ new.refs = 0
  BY DEF new
<1>6. Counted'
  <2> SUFFICES ASSUME NEW i \in DOMAIN slots', slots'[i].used
               PROVE  slots'[i].id \in Ids /\ slots'[i].id < nextId + 1
                      /\ slots'[i].refs = pins[slots'[i].id]
    BY DEF Counted
  <2>1. CASE i = k
    BY <1>3, <1>4, <1>5, <2>1 DEF Inv, TypeOK
  <2>2. CASE i # k
    <3>1. i \in DOMAIN slots /\ slots'[i] = slots[i] /\ slots[i].used
      BY <1>3, <2>2
    <3>2. slots[i].id \in Ids /\ slots[i].id < nextId /\ slots[i].refs = pins[slots[i].id]
      BY <3>1 DEF Inv, Counted
    <3> QED
      BY <3>1, <3>2 DEF Inv, TypeOK, Ids
  <2> QED
    BY <2>1, <2>2
<1>7. Unique'
  <2> SUFFICES ASSUME NEW i \in DOMAIN slots', NEW j \in DOMAIN slots',
                      slots'[i].used, slots'[j].used, slots'[i].id = slots'[j].id
               PROVE  i = j
    BY DEF Unique
  <2>1. \A m \in DOMAIN slots' : m # k /\ slots'[m].used => slots'[m] = slots[m] /\ m \in DOMAIN slots /\ slots[m].id # nextId
    BY <1>3 DEF Inv, TypeOK, Counted
  <2> QED
    BY <1>3, <1>5, <2>1 DEF Inv, Unique
<1>8. Found'
  <2> SUFFICES ASSUME NEW id \in Ids, pins[id] > 0
               PROVE  \E i \in DOMAIN slots' : slots'[i].used /\ slots'[i].id = id
    BY DEF Found, Finds
  <2>1. PICK i \in DOMAIN slots : slots[i].used /\ slots[i].id = id
    BY DEF Inv, Found, Finds
  <2>2. ss[i] = slots[i] /\ i # k
    BY <1>3, <2>1
  <2> QED
    BY <1>3, <2>1, <2>2
<1> QED
  BY <1>3, <1>6, <1>7, <1>8

(* Every operation of the manager keeps the invariant.                           *)
LEMMA StepKeeps == Inv /\ [Next]_vars => Inv'
<1> SUFFICES ASSUME Inv, [Next]_vars PROVE Inv'
  OBVIOUS
<1> USE DEF Inv
<1>1. CASE UNCHANGED vars
  BY <1>1 DEF vars, TypeOK, Counted, Unique, Found, Finds
<1>2. ASSUME NEW n \in 0 .. 2, NEW t \in 0 .. 2, Configure(n, t) PROVE Inv'
  BY <1>2 DEF Configure, TypeOK, Counted, Unique, Found, Finds
<1>3. CASE Create
  <2>1. nextId \in Ids
    BY <1>3 DEF Create, TypeOK, Ids
  <2>2. slots' \in Seq(Slot) /\ Counted' /\ Unique' /\ Found'
    <3>1. CASE slots' \in Hosting(slots)
      BY <1>3, <2>1, <3>1, HostingKeeps DEF Create, TypeOK
    <3>2. ASSUME NEW v \in Victims, slots' \in Hosting(Freed(slots, v))
          PROVE  slots' \in Seq(Slot) /\ Counted' /\ Unique' /\ Found'
      <4>1. v \in DOMAIN slots /\ pins[slots[v].id] = 0
        BY FreedKeeps
      <4>2. /\ Freed(slots, v) \in Seq(Slot)
            /\ DOMAIN Freed(slots, v) = DOMAIN slots
            /\ ~Freed(slots, v)[v].used
            /\ \A i \in DOMAIN slots : i # v => Freed(slots, v)[i] = slots[i]
        BY <4>1, FreedOne DEF TypeOK
      <4>3. nextId' = nextId + 1 /\ pins' = pins
        BY <1>3 DEF Create
      <4> QED
        BY <2>1, <3>2, <4>1, <4>2, <4>3, HostingKeeps
    <3> QED
      BY <1>3, <3>1, <3>2 DEF Create
  <2>3. live' \in Nat /\ nextId' \in Nat \ {0}
    BY <1>3 DEF Create, TypeOK
  <2> QED
    BY <1>3, <2>2, <2>3 DEF Create, TypeOK
<1>4. CASE CreateFails
  <2>1. PICK v \in Victims : slots' = Freed(slots, v)
    BY <1>4 DEF CreateFails
  <2>2. v \in DOMAIN slots /\ pins[slots[v].id] = 0 /\ slots[v].used
    BY FreedKeeps
  <2>3. /\ slots' \in Seq(Slot)
        /\ DOMAIN slots' = DOMAIN slots
        /\ ~slots'[v].used
        /\ \A i \in DOMAIN slots : i # v => slots'[i] = slots[i]
    BY <2>1, <2>2, FreedOne DEF TypeOK
  <2>4. live' \in Nat
    BY <1>4 DEF CreateFails, Full, TypeOK
  <2>5. TypeOK'
    BY <1>4, <2>3, <2>4 DEF CreateFails, TypeOK
  <2>6. pins' = pins /\ nextId' = nextId
    BY <1>4 DEF CreateFails
  <2>7. Counted' /\ Unique'
    BY <2>3, <2>6 DEF Counted, Unique
  <2>8. Found'
    BY <2>2, <2>3, <2>6 DEF Found, Finds
  <2> QED
    BY <2>5, <2>7, <2>8
<1>5. CASE Shutdown
  <2>1. slots' = [i \in DOMAIN slots |-> Still(slots[i], FALSE, slots[i].refs, slots[i].last)]
        /\ live' = 0 /\ up' = FALSE
        /\ limit' = limit /\ timeout' = timeout /\ clock' = clock /\ nextId' = nextId
        /\ pins' = pins
        /\ \A id \in Ids : pins[id] = 0
    BY <1>5 DEF Shutdown
  <2>2. \A i \in DOMAIN slots : slots'[i] \in Slot /\ ~slots'[i].used
    <3> SUFFICES ASSUME NEW i \in DOMAIN slots PROVE slots'[i] \in Slot /\ ~slots'[i].used
      OBVIOUS
    <3>1. slots[i] \in Slot
      BY DEF TypeOK
    <3>2. slots'[i] = Still(slots[i], FALSE, slots[i].refs, slots[i].last)
      BY <2>1
    <3>3. slots[i].refs \in Nat /\ slots[i].last \in Nat
      BY <3>1, SlotFields
    <3>4. /\ Still(slots[i], FALSE, slots[i].refs, slots[i].last) \in Slot
          /\ Still(slots[i], FALSE, slots[i].refs, slots[i].last).used = FALSE
      <4>1. Rebuilds(slots[i], FALSE, slots[i].refs, slots[i].last)
        BY Zenon, <3>1, <3>3, StillSlot
      <4> QED
        BY Zenon, <4>1 DEF Rebuilds
    <3> QED
      BY Zenon, <3>2, <3>4
  <2>3. slots' \in Seq(Slot) /\ DOMAIN slots' = DOMAIN slots
    <3>1. slots' = [i \in DOMAIN slots |-> slots'[i]]
      BY <2>1
    <3> QED
      BY <2>2, <3>1, Rebuilt DEF TypeOK
  <2>4. TypeOK'
    BY Zenon, <2>1, <2>3 DEF TypeOK
  <2>5. Counted' /\ Unique'
    BY <2>2, <2>3 DEF Counted, Unique
  <2>6. Found'
    BY <2>1 DEF Found
  <2> QED
    BY <2>4, <2>5, <2>6
<1>6. CASE Tick
  BY <1>6 DEF Tick, TypeOK, Counted, Unique, Found, Finds
<1>7. ASSUME NEW id \in Ids, Get(id) PROVE Inv'
  <2>1. PICK i \in DOMAIN slots : Finds(i, id) /\ slots' = [slots EXCEPT ![i] = Still(@, TRUE, @.refs + 1, @.last)]
    BY Zenon, <1>7 DEF Get
  <2>2. pins' = [pins EXCEPT ![id] = @ + 1] /\ nextId' = nextId
    BY <1>7 DEF Get
  <2>3. /\ slots' \in Seq(Slot)
        /\ DOMAIN slots' = DOMAIN slots
        /\ \A j \in DOMAIN slots : slots'[j].used = slots[j].used /\ slots'[j].id = slots[j].id
        /\ \A j \in DOMAIN slots : slots'[j].refs = IF j = i THEN slots[j].refs + 1 ELSE slots[j].refs
    <3>1. slots[i] \in Slot /\ slots[i].used
      BY <2>1 DEF TypeOK, Finds
    <3> DEFINE e == Still(slots[i], TRUE, slots[i].refs + 1, slots[i].last)
    <3>2. e \in Slot /\ e.used = TRUE /\ e.id = slots[i].id /\ e.refs = slots[i].refs + 1
      <4>1. slots[i].refs + 1 \in Nat /\ slots[i].last \in Nat
        BY <3>1, SlotFields
      <4>2. Rebuilds(slots[i], TRUE, slots[i].refs + 1, slots[i].last)
        BY Zenon, <3>1, <4>1, StillSlot
      <4> QED
        BY Zenon, <4>2 DEF Rebuilds
    <3>3. slots' = [slots EXCEPT ![i] = e]
      BY <2>1
    <3> HIDE DEF e
    <3>4. slots \in Seq(Slot)
      BY DEF TypeOK
    <3>5. /\ slots' \in Seq(Slot) /\ DOMAIN slots' = DOMAIN slots /\ slots'[i] = e
          /\ \A j \in DOMAIN slots : j # i => slots'[j] = slots[j]
      BY <3>2, <3>3, <3>4, Replaced
    <3>6. \A j \in DOMAIN slots : j = i => slots'[j] = e
      BY <3>5
    <3>7. slots[i].used = TRUE
      BY <3>1, SlotFields
    <3> QED
      BY Zenon, <3>2, <3>5, <3>6, <3>7
  <2>4. TypeOK'
    <3>1. live' = live /\ limit' = limit /\ timeout' = timeout /\ clock' = clock /\ up' = up
      BY <1>7 DEF Get
    <3>2. pins' \in [Ids -> Nat]
      BY <2>2 DEF TypeOK
    <3> QED
      BY <2>2, <2>3, <3>1, <3>2 DEF TypeOK
  <2>5. \A j \in DOMAIN slots : slots[j].used /\ slots[j].id = id => j = i
    BY <2>1 DEF Unique, Finds
  <2>6. Counted'
    <3> SUFFICES ASSUME NEW j \in DOMAIN slots, slots[j].used
                 PROVE  /\ slots[j].id \in Ids /\ slots[j].id < nextId
                        /\ slots'[j].refs = pins'[slots[j].id]
      BY Zenon, <2>2, <2>3 DEF Counted
    <3>1. slots[j].id \in Ids /\ slots[j].id < nextId /\ slots[j].refs = pins[slots[j].id]
      BY Zenon DEF Counted
    <3>2. CASE j = i
      <4>1. slots[j].id = id
        BY Zenon, <2>1, <3>2 DEF Finds
      <4>2. pins'[id] = pins[id] + 1
        BY Zenon, <2>2 DEF TypeOK
      <4> QED
        BY Zenon, <2>3, <3>1, <3>2, <4>1, <4>2
    <3>3. CASE j # i
      <4>1. slots[j].id # id
        BY Zenon, <2>5, <3>3
      <4>2. pins'[slots[j].id] = pins[slots[j].id]
        BY Zenon, <2>2, <3>1, <4>1 DEF TypeOK
      <4> QED
        BY Zenon, <2>3, <3>1, <3>3, <4>2
    <3> QED
      BY Zenon, <3>2, <3>3
  <2>7. Unique'
    BY <2>3 DEF Unique
  <2>8. Found'
    <3> SUFFICES ASSUME NEW x \in Ids, pins'[x] > 0
                 PROVE  \E j \in DOMAIN slots' : slots'[j].used /\ slots'[j].id = x
      BY DEF Found, Finds
    <3>1. CASE x = id
      BY Zenon, <2>1, <2>3, <3>1 DEF Finds
    <3>2. CASE x # id
      BY Zenon, <2>2, <2>3, <3>2 DEF Found, Finds, TypeOK
    <3> QED
      BY <3>1, <3>2
  <2> QED
    BY <2>4, <2>6, <2>7, <2>8
<1>8. ASSUME NEW id \in Ids, Release(id) PROVE Inv'
  <2>1. pins' = [pins EXCEPT ![id] = @ - 1] /\ nextId' = nextId /\ pins[id] > 0
    BY <1>8 DEF Release
  <2>2. /\ slots' \in Seq(Slot)
        /\ DOMAIN slots' = DOMAIN slots
        /\ \A j \in DOMAIN slots : slots'[j].used = slots[j].used /\ slots'[j].id = slots[j].id
        /\ \A j \in DOMAIN slots : slots[j].used =>
             slots'[j].refs = IF slots[j].id = id THEN (IF slots[j].refs > 0 THEN slots[j].refs - 1 ELSE slots[j].refs)
                              ELSE slots[j].refs
    <3> DEFINE f(j) == IF Finds(j, id)
                       THEN Still(slots[j], TRUE, IF slots[j].refs > 0 THEN slots[j].refs - 1 ELSE 0, clock)
                       ELSE slots[j]
    <3>1. slots' = [j \in DOMAIN slots |-> f(j)]
      BY <1>8 DEF Release
    <3>2. \A j \in DOMAIN slots :
            /\ f(j) \in Slot /\ f(j).used = slots[j].used /\ f(j).id = slots[j].id
            /\ slots[j].used =>
                 f(j).refs = IF slots[j].id = id THEN (IF slots[j].refs > 0 THEN slots[j].refs - 1 ELSE slots[j].refs)
                             ELSE slots[j].refs
      <4> SUFFICES ASSUME NEW j \in DOMAIN slots
                   PROVE  /\ f(j) \in Slot /\ f(j).used = slots[j].used /\ f(j).id = slots[j].id
                          /\ slots[j].used =>
                               f(j).refs = IF slots[j].id = id
                                           THEN (IF slots[j].refs > 0 THEN slots[j].refs - 1 ELSE slots[j].refs)
                                           ELSE slots[j].refs
        OBVIOUS
      <4>1. slots[j] \in Slot /\ clock \in Nat
        BY DEF TypeOK
      <4>2. slots[j].used \in BOOLEAN /\ slots[j].refs \in Nat
        BY <4>1, SlotFields
      <4>3. CASE ~Finds(j, id)
        BY Zenon, <4>1, <4>3 DEF Finds
      <4>4. CASE Finds(j, id)
        <5> DEFINE r == IF slots[j].refs > 0 THEN slots[j].refs - 1 ELSE 0
        <5>1. r \in Nat /\ r = IF slots[j].refs > 0 THEN slots[j].refs - 1 ELSE slots[j].refs
          BY <4>2
        <5>2. f(j) = Still(slots[j], TRUE, r, clock)
          BY <4>4
        <5> HIDE DEF r, f
        <5>3. f(j) \in Slot /\ f(j).used = TRUE /\ f(j).id = slots[j].id /\ f(j).refs = r
          <6>1. /\ Still(slots[j], TRUE, r, clock) \in Slot
                /\ Still(slots[j], TRUE, r, clock).used = TRUE
                /\ Still(slots[j], TRUE, r, clock).id = slots[j].id
                /\ Still(slots[j], TRUE, r, clock).refs = r
            <7>1. Rebuilds(slots[j], TRUE, r, clock)
              BY <4>1, <5>1, StillSlot
            <7> QED
              BY <7>1 DEF Rebuilds
          <6> QED
            BY <5>2, <6>1
        <5>4. slots[j].used /\ slots[j].id = id
          BY <4>4 DEF Finds
        <5> QED
          BY Zenon, <4>2, <5>1, <5>3, <5>4
      <4> QED
        BY <4>3, <4>4
    <3> HIDE DEF f
    <3>3. slots' = [j \in DOMAIN slots |-> slots'[j]] /\ \A j \in DOMAIN slots : slots'[j] = f(j)
      BY <3>1
    <3>4. slots' \in Seq(Slot) /\ DOMAIN slots' = DOMAIN slots
      BY <3>2, <3>3, Rebuilt DEF TypeOK
    <3> QED
      BY <3>2, <3>3, <3>4
  <2>3. TypeOK'
    <3>1. live' = live /\ limit' = limit /\ timeout' = timeout /\ clock' = clock /\ up' = up
      BY <1>8 DEF Release
    <3>2. pins' \in [Ids -> Nat]
      BY <2>1 DEF TypeOK
    <3> QED
      BY <2>1, <2>2, <3>1, <3>2 DEF TypeOK
  <2>4. Counted'
    BY <2>1, <2>2 DEF Counted, TypeOK
  <2>5. Unique'
    BY <2>2 DEF Unique
  <2>6. Found'
    BY <2>1, <2>2 DEF Found, Finds, TypeOK
  <2> QED
    BY <2>3, <2>4, <2>5, <2>6
<1> QED
  BY <1>1, <1>2, <1>3, <1>4, <1>5, <1>6, <1>7, <1>8 DEF Next

(* Whatever the threads do and however small the limit, a session somebody holds *)
(* stays in the manager's table, with one reference per holder                   *)
(* (manager_create_session evicts only a session with no reference).             *)
THEOREM PinnedStay == Spec => []PinnedAlive
<1>1. Init => Inv
  BY DEF Init, Inv, TypeOK, Counted, Unique, Found, Slot, Ids
<1>2. Inv => PinnedAlive
  BY DEF Inv, TypeOK, Counted, Found, PinnedAlive, Finds
<1> QED
  BY <1>1, <1>2, StepKeeps, PTL DEF Spec

(* The manager's state stays well formed; in particular the count of live         *)
(* sessions, decremented on an eviction whose creation then fails, never wraps.   *)
THEOREM ManagerTyped == Spec => []TypeOK
<1>1. Init => Inv
  BY DEF Init, Inv, TypeOK, Counted, Unique, Found, Slot, Ids
<1>2. Inv => TypeOK
  BY DEF Inv
<1> QED
  BY <1>1, <1>2, StepKeeps, PTL DEF Spec

-----------------------------------------------------------------------------

(* The slots in use are finitely many.                                          *)
LEMMA UsedFinite ==
  ASSUME NEW ss \in Seq(Slot)
  PROVE  IsFiniteSet(Used(ss)) /\ Cardinality(Used(ss)) \in Nat
<1>1. Used(ss) \in SUBSET (1 .. Len(ss)) /\ Len(ss) \in Nat
  BY DEF Used
<1>2. IsFiniteSet(1 .. Len(ss))
  BY <1>1, FS_Interval
<1>3. IsFiniteSet(Used(ss))
  BY <1>1, <1>2, FS_Subset
<1> QED
  BY <1>3, FS_CardinalityType

(* Placing a session in the table makes one more slot used.                      *)
LEMMA HostingCounts ==
  ASSUME NEW ss \in Seq(Slot), nextId \in Nat, clock \in Nat, NEW after \in Hosting(ss)
  PROVE  Cardinality(Used(after)) = Cardinality(Used(ss)) + 1
<1> DEFINE new == [used |-> TRUE, id |-> nextId, refs |-> 0, last |-> clock]
<1>1. new \in Slot /\ new.used
  BY DEF Slot
<1>2. PICK k \in FirstFree(ss) : after = Placed(ss, k, new)
  BY DEF Hosting
<1> HIDE DEF new
<1>3. Places(ss, k, new)
  BY <1>1, PlacedIn
<1>4. Used(after) = Used(ss) \cup {k} /\ k \notin Used(ss)
  BY <1>1, <1>2, <1>3 DEF Places, Used
<1> QED
  BY <1>4, UsedFinite, FS_AddElement

(* Freeing a used slot makes one fewer.                                          *)
LEMMA FreedCounts ==
  ASSUME NEW ss \in Seq(Slot), NEW v \in DOMAIN ss, ss[v].used
  PROVE  Cardinality(Used(Freed(ss, v))) = Cardinality(Used(ss)) - 1
<1>1. Used(Freed(ss, v)) = Used(ss) \ {v} /\ v \in Used(ss)
  BY FreedOne DEF Used
<1> QED
  BY <1>1, UsedFinite, FS_RemoveElement

(* A step that keeps every slot's flag keeps the count.                          *)
LEMMA SameCounts ==
  ASSUME slots \in Seq(Slot), DOMAIN slots' = DOMAIN slots,
         \A i \in DOMAIN slots : slots'[i].used <=> slots[i].used
  PROVE  Used(slots)' = Used(slots)
BY DEF Used

(* The count that manager_create_session tests against the limit is the number   *)
(* of sessions in the table, through every eviction, failed creation and reuse   *)
(* of a slot.                                                                    *)
THEOREM LiveCounted == Spec => []LiveCounts
<1>1. Init => Inv /\ LiveCounts
  <2>1. Init => Inv
    BY DEF Init, Inv, TypeOK, Counted, Unique, Found, Slot, Ids
  <2>2. Init => Used(slots) = {} /\ live = 0
    BY DEF Init, Used
  <2> QED
    BY <2>1, <2>2, FS_EmptySet DEF LiveCounts
<1>2. Inv /\ LiveCounts /\ [Next]_vars => LiveCounts'
  <2> SUFFICES ASSUME Inv, LiveCounts, [Next]_vars PROVE live' = Cardinality(Used(slots)')
    BY DEF LiveCounts
  <2>0. slots \in Seq(Slot) /\ clock \in Nat /\ nextId \in Nat /\ live = Cardinality(Used(slots))
    BY DEF Inv, TypeOK, LiveCounts
  <2>1. CASE UNCHANGED slots /\ UNCHANGED live
    BY <2>0, <2>1 DEF Used
  <2>2. ASSUME NEW v \in Victims
        PROVE  /\ Freed(slots, v) \in Seq(Slot)
               /\ Cardinality(Used(Freed(slots, v))) = live - 1
    <3>1. v \in DOMAIN slots /\ slots[v].used
      BY FreedKeeps
    <3> QED
      BY <2>0, <3>1, FreedOne, FreedCounts
  <2>3. CASE Create
    <3>1. CASE slots' \in Hosting(slots) /\ live' = live + 1
      BY <2>0, <3>1, HostingCounts DEF Used
    <3>2. ASSUME NEW v \in Victims, slots' \in Hosting(Freed(slots, v)), live' = live
          PROVE  live' = Cardinality(Used(slots)')
      <4>1. Cardinality(Used(slots)') = Cardinality(Used(Freed(slots, v))) + 1
        BY <2>0, <2>2, <3>2, HostingCounts DEF Used
      <4>2. live \in Nat
        BY DEF Inv, TypeOK
      <4> QED
        BY <2>2, <3>2, <4>1, <4>2
    <3> QED
      BY <2>3, <3>1, <3>2 DEF Create
  <2>4. CASE CreateFails
    BY <2>2, <2>4 DEF CreateFails, Used
  <2>5. CASE Shutdown
    <3>1. \A i \in DOMAIN slots : slots'[i] = Still(slots[i], FALSE, slots[i].refs, slots[i].last)
      BY <2>5 DEF Shutdown
    <3>2. \A i \in DOMAIN slots : ~slots'[i].used
      <4> SUFFICES ASSUME NEW i \in DOMAIN slots PROVE ~slots'[i].used
        OBVIOUS
      <4>1. ~Still(slots[i], FALSE, slots[i].refs, slots[i].last).used
        BY DEF Still
      <4> QED
        BY <3>1, <4>1
    <3>3. Used(slots)' = {} /\ live' = 0
      BY <2>5, <3>2 DEF Shutdown, Used
    <3> QED
      BY <3>3, FS_EmptySet
  <2>6. ASSUME NEW id \in Ids, Get(id) \/ Release(id) PROVE live' = Cardinality(Used(slots)')
    <3>1. live' = live
      BY <2>6 DEF Get, Release
    <3>2. DOMAIN slots' = DOMAIN slots /\ \A i \in DOMAIN slots : slots'[i].used <=> slots[i].used
      <4>1. CASE Get(id)
        <5>1. PICK i \in DOMAIN slots : Finds(i, id) /\ slots' = [slots EXCEPT ![i] = Still(@, TRUE, @.refs + 1, @.last)]
          BY <4>1 DEF Get
        <5>2. Still(slots[i], TRUE, slots[i].refs + 1, slots[i].last).used
          BY DEF Still
        <5> QED
          BY <5>1, <5>2 DEF Finds
      <4>2. CASE Release(id)
        <5>1. DOMAIN slots' = DOMAIN slots
          BY <4>2 DEF Release
        <5>2. \A i \in DOMAIN slots : ~Finds(i, id) => slots'[i] = slots[i]
          BY <4>2 DEF Release
        <5>3. \A i \in DOMAIN slots : Finds(i, id) => slots'[i].used /\ slots[i].used
          BY <4>2 DEF Release, Still, Finds
        <5> QED
          BY <5>1, <5>2, <5>3
      <4> QED
        BY <2>6, <4>1, <4>2
    <3> QED
      BY <2>0, <3>1, <3>2, SameCounts
  <2> QED
    BY <2>1, <2>3, <2>4, <2>5, <2>6 DEF Next, vars, Configure, Tick
<1> QED
  BY <1>1, <1>2, StepKeeps, PTL DEF Spec
=============================================================================
