------------------------------- MODULE Manager -------------------------------
(* The session manager of core/manager.c: a table of sessions shared by several *)
(* threads, which pin a session by its id, use it, and release it.  Every       *)
(* operation holds the manager's mutex from end to end, so it is one step.      *)
(* Ids are random and redrawn on a clash; here they are numbered in order.      *)
EXTENDS Naturals, Sequences, FiniteSets

CONSTANTS MaxIds,    \* the bound on the sessions created
          MaxTime,   \* the bound on the clock
          MaxPins    \* the bound on the pins one id has at a time

VARIABLES slots,    \* the slots in use or freed, ManagerSlot
          live,     \* the count the limit is tested against
          limit,    \* max_sessions, 0 for none
          timeout,  \* session_timeout_ns, 0 for no eviction
          clock,    \* uv_hrtime
          nextId,   \* the next fresh id
          pins,     \* id -> how often threads hold it, by their own account
          up        \* before manager_shutdown
vars == <<slots, live, limit, timeout, clock, nextId, pins, up>>

Ids == 1 .. MaxIds
Slot == [used : BOOLEAN, id : Nat, refs : Nat, last : Nat]

\* A slot that keeps its id.
Still(s, used, refs, last) == [used |-> used, id |-> s.id, refs |-> refs, last |-> last]

\* manager_set_max_sessions and manager_set_session_timeout
Configure(n, t) ==
  /\ up
  /\ limit' = n /\ timeout' = t
  /\ UNCHANGED <<slots, live, clock, nextId, pins, up>>

\* Mutant: a session that a thread holds may be evicted.
EvictablePinned(s) == s.used /\ timeout # 0 /\ clock - s.last >= timeout

Evictable(s) == s.used /\ s.refs = 0 /\ timeout # 0 /\ clock - s.last >= timeout

\* The slot the scan settles on: the first of the oldest.
Victims ==
  {i \in DOMAIN slots :
     /\ Evictable(slots[i])
     /\ \A j \in DOMAIN slots : Evictable(slots[j]) =>
          slots[i].last < slots[j].last \/ (slots[i].last = slots[j].last /\ i <= j)}

Freed(ss, i) == [ss EXCEPT ![i] = Still(@, FALSE, @.refs, @.last)]

\* manager_alloc_slot: the first freed slot, else a new one at the end.
FirstFree(ss) ==
  {k \in 1 .. Len(ss) + 1 : (k \in DOMAIN ss => ~ss[k].used) /\ \A j \in 1 .. k - 1 : ss[j].used}

Placed(ss, k, s) == IF k \in DOMAIN ss THEN [ss EXCEPT ![k] = s] ELSE Append(ss, s)

\* The table with the new session in it.
Hosting(ss) ==
  {Placed(ss, k, [used |-> TRUE, id |-> nextId, refs |-> 0, last |-> clock]) : k \in FirstFree(ss)}

Full == limit # 0 /\ live >= limit

\* manager_create_session below the limit, and after evicting a victim at it.
Create ==
  /\ up /\ nextId <= MaxIds
  /\ \/ ~Full /\ slots' \in Hosting(slots) /\ live' = live + 1
     \/ Full /\ \E v \in Victims : slots' \in Hosting(Freed(slots, v)) /\ live' = live
  /\ nextId' = nextId + 1
  /\ UNCHANGED <<limit, timeout, clock, pins, up>>

\* The new session cannot be made, after room was made for it.
CreateFails ==
  /\ up /\ Full
  /\ \E v \in Victims : slots' = Freed(slots, v)
  /\ live' = live - 1
  /\ UNCHANGED <<limit, timeout, clock, nextId, pins, up>>

Finds(i, id) == slots[i].used /\ slots[i].id = id

\* manager_get_session: a thread asks for an id it was given; an evicted one is not found.
Get(id) ==
  /\ up /\ pins[id] < MaxPins
  /\ \E i \in DOMAIN slots : Finds(i, id) /\ slots' = [slots EXCEPT ![i] = Still(@, TRUE, @.refs + 1, @.last)]
  /\ pins' = [pins EXCEPT ![id] = @ + 1]
  /\ UNCHANGED <<live, limit, timeout, clock, nextId, up>>

\* manager_release_session, by a thread that holds the session.
Release(id) ==
  /\ up /\ pins[id] > 0
  /\ pins' = [pins EXCEPT ![id] = @ - 1]
  /\ slots' = [i \in DOMAIN slots |->
                 IF Finds(i, id)
                 THEN Still(slots[i], TRUE, IF slots[i].refs > 0 THEN slots[i].refs - 1 ELSE 0, clock)
                 ELSE slots[i]]
  /\ UNCHANGED <<live, limit, timeout, clock, nextId, up>>

\* manager_shutdown, once the threads have let go of their sessions.
Shutdown ==
  /\ up /\ \A id \in Ids : pins[id] = 0
  /\ slots' = [i \in DOMAIN slots |-> Still(slots[i], FALSE, slots[i].refs, slots[i].last)]
  /\ live' = 0
  /\ up' = FALSE
  /\ UNCHANGED <<limit, timeout, clock, nextId, pins>>

Tick ==
  /\ clock < MaxTime
  /\ clock' = clock + 1
  /\ UNCHANGED <<slots, live, limit, timeout, nextId, pins, up>>

Init ==
  /\ slots = <<>> /\ live = 0 /\ limit = 0 /\ timeout = 0 /\ clock = 0
  /\ nextId = 1 /\ pins = [id \in Ids |-> 0] /\ up = TRUE

Next ==
  \/ \E n, t \in 0 .. 2 : Configure(n, t)
  \/ Create \/ CreateFails \/ Shutdown \/ Tick
  \/ \E id \in Ids : Get(id) \/ Release(id)
Spec == Init /\ [][Next]_vars

-----------------------------------------------------------------------------
(* Properties                                                                *)

TypeOK ==
  /\ slots \in Seq(Slot)
  /\ live \in Nat /\ limit \in Nat /\ timeout \in Nat /\ clock \in Nat
  /\ nextId \in Nat \ {0}
  /\ pins \in [Ids -> Nat]
  /\ up \in BOOLEAN

\* A session some thread holds is in the table, with as many references as there are
\* holders: eviction at the limit never destroys a session in use.
PinnedAlive ==
  \A id \in Ids : pins[id] > 0 =>
    \E i \in DOMAIN slots : Finds(i, id) /\ slots[i].refs = pins[id]

\* The count the limit is tested against is the number of sessions in the table, however
\* often slots were freed and reused.
Used(ss) == {i \in DOMAIN ss : ss[i].used}
LiveCounts == live = Cardinality(Used(slots))

\* A session leaves the table only to make room at the limit, and then it is one that has
\* been idle at least the timeout and longer than any other that could have gone.
EvictsOldest ==
  [][up' => \A i \in DOMAIN slots :
       (slots[i].used /\ (~slots'[i].used \/ slots'[i].id # slots[i].id)) =>
         /\ limit # 0 /\ live >= limit /\ clock - slots[i].last >= timeout
         /\ \A j \in DOMAIN slots :
              slots[j].used /\ slots[j].refs = 0 => slots[i].last <= slots[j].last]_vars
=============================================================================
