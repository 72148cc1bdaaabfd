----------------------------- MODULE ClientCaches -----------------------------
(* The caches a client keeps per origin, core/client.c: TLS session tickets with  *)
(* the QUIC 0-RTT transport parameters, Alt-Svc advertisements and ECH configs.   *)
(* Each is an array of fixed capacity.                                            *)
EXTENDS Integers, SequencesExt, FiniteSetsExt

CONSTANTS Origins,
          CacheCap,    \* ArrayCount of the three arrays
          Lifetimes,   \* ma of an Alt-Svc value, and ECH_CACHE_TTL_MS
          MaxTickets,  \* the bound on the tickets servers issue
          MaxMono      \* the bound on the loop's clock

VARIABLES resume,  \* resume_cache: [origin, session, tp, used]
          alt,     \* alt_svc: [origin, expiry]
          ech,     \* ech_cache: [origin, config, expiry]
          mono,    \* uv_now
          issued,  \* ghost: how many sessions exist, numbered from 1
          freed    \* ghost: the sessions SSL_SESSION_free has been called on
cacheVars == <<resume, alt, ech, mono, issued, freed>>

\* A session is the ticket's number and the origin that issued it; early is whether it
\* allows 0-RTT.
NoSession == [id |-> 0, by |-> "none", early |-> FALSE]

At(entries, o) == SelectInSeq(entries, LAMBDA e : e.origin = o)
Ids(entries) == {entries[i].session.id : i \in DOMAIN entries} \ {0}

\* The first entry with the least stamp.
Least(stamps) == Min({i \in DOMAIN stamps : \A j \in DOMAIN stamps : stamps[i] <= stamps[j]})

-----------------------------------------------------------------------------
(* Tickets                                                                   *)

\* resume_cache_slot: the origin's entry, a free one, or the least recently used one
Slot(rc, o, now) ==
  LET victim == Least([i \in DOMAIN rc |-> rc[i].used])
      fresh == [origin |-> o, session |-> NoSession, tp |-> 0, used |-> now]
  IN CASE At(rc, o) # 0 -> [at |-> At(rc, o), rc |-> [rc EXCEPT ![At(rc, o)].used = now], free |-> {}]
       [] At(rc, o) = 0 /\ Len(rc) < CacheCap -> [at |-> Len(rc) + 1, rc |-> Append(rc, fresh), free |-> {}]
       [] OTHER -> [at |-> victim, rc |-> [rc EXCEPT ![victim] = fresh], free |-> {rc[victim].session.id} \ {0}]

\* resume_cache_put: the older ticket is freed; the transport parameters stay.
PutTicket(rc, o, s, now) ==
  LET slot == Slot(rc, o, now)
  IN [rc |-> [slot.rc EXCEPT ![slot.at].session = s],
      free |-> slot.free \cup ({slot.rc[slot.at].session.id} \ {0})]

\* resume_cache_put_tp: an origin without an entry takes nobody's place
PutTp(rc, o, tp, now) ==
  IF Len(rc) >= CacheCap /\ At(rc, o) = 0 THEN rc
  ELSE LET slot == Slot(rc, o, now) IN [slot.rc EXCEPT ![slot.at].tp = tp]

-----------------------------------------------------------------------------
(* Alt-Svc and ECH                                                           *)

\* client_note_alt_svc and ech_cache_put: the origin's entry, a free one, or the one
\* closest to expiry
Upsert(entries, e) ==
  CASE At(entries, e.origin) # 0 -> [entries EXCEPT ![At(entries, e.origin)] = e]
    [] At(entries, e.origin) = 0 /\ Len(entries) < CacheCap -> Append(entries, e)
    [] OTHER -> [entries EXCEPT ![Least([i \in DOMAIN entries |-> entries[i].expiry])] = e]

-----------------------------------------------------------------------------
(* Actions                                                                   *)

\* client_resume_new_cb: a server of origin o issues a ticket
NewTicket(o) ==
  /\ issued < MaxTickets
  /\ LET put == PutTicket(resume, o, [id |-> issued + 1, by |-> o, early |-> TRUE], mono)
     IN resume' = put.rc /\ freed' = freed \cup put.free
  /\ issued' = issued + 1
  /\ UNCHANGED <<alt, ech, mono>>

\* resume_cache_put_tp when a QUIC handshake has completed; tp stands for the origin's
\* parameters.
NewTp(o) ==
  /\ resume' = PutTp(resume, o, 1, mono)
  /\ UNCHANGED <<alt, ech, mono, issued, freed>>

\* resume_cache_get when a connection starts
OfferTicket(o) ==
  /\ At(resume, o) # 0
  /\ resume' = [resume EXCEPT ![At(resume, o)].used = mono]
  /\ UNCHANGED <<alt, ech, mono, issued, freed>>

\* resume_cache_strip_early after 0-RTT was refused: a copy without early data replaces
\* the ticket, unless there is no memory for the copy.
StripEarly(o, copied) ==
  /\ At(resume, o) # 0
  /\ LET i == At(resume, o)
         s == resume[i].session
     IN IF s.id # 0 /\ copied
        THEN /\ issued < MaxTickets
             /\ resume' = [resume EXCEPT ![i].session = [s EXCEPT !.id = issued + 1, !.early = FALSE], ![i].tp = 0]
             /\ issued' = issued + 1 /\ freed' = freed \cup {s.id}
        ELSE resume' = [resume EXCEPT ![i].tp = 0] /\ UNCHANGED <<issued, freed>>
  /\ UNCHANGED <<alt, ech, mono>>

NoteAltSvc(o, ma) ==
  /\ alt' = Upsert(alt, [origin |-> o, expiry |-> mono + ma])
  /\ UNCHANGED <<resume, ech, mono, issued, freed>>
EchPut(o, config, ttl) ==
  /\ ech' = Upsert(ech, [origin |-> o, config |-> config, expiry |-> mono + ttl])
  /\ UNCHANGED <<resume, alt, mono, issued, freed>>

CachesInit ==
  /\ resume = <<>> /\ alt = <<>> /\ ech = <<>>
  /\ mono = 0 /\ issued = 0 /\ freed = {}
CachesNext ==
  \/ \E o \in Origins : NewTicket(o) \/ NewTp(o) \/ OfferTicket(o)
  \/ \E o \in Origins, copied \in BOOLEAN : StripEarly(o, copied)
  \/ \E o \in Origins, n \in Lifetimes : NoteAltSvc(o, n)
  \/ \E o \in Origins, n \in Lifetimes : EchPut(o, o, n) \/ EchPut(o, "", n)

-----------------------------------------------------------------------------
(* Properties                                                                *)

\* Every ticket has one owner: it is in the cache once or it has been freed once, and an
\* origin is offered only tickets its own servers issued.
TicketsOwned ==
  /\ Ids(resume) \cap freed = {} /\ Ids(resume) \cup freed = 1 .. issued
  /\ \A i, j \in DOMAIN resume : i # j => resume[i].session.id # resume[j].session.id \/ resume[i].session.id = 0
  /\ \A i \in DOMAIN resume : resume[i].session.id # 0 => resume[i].session.by = resume[i].origin

\* A cache never grows past its array, and never holds two entries for an origin.
OneEntryEach ==
  \A entries \in {resume, alt, ech} :
    /\ Len(entries) <= CacheCap
    /\ \A i, j \in DOMAIN entries : entries[i].origin = entries[j].origin => i = j
===============================================================================
