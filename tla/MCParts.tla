------------------------------ MODULE MCParts ------------------------------
(* The parts that have no thread or callback of another part inside them, one  *)
(* of them per behaviour: part says which.                                     *)
EXTENDS Naturals, Sequences, FiniteSets

CONSTANTS Cap, Tags, MaxHead,                \* RingAlloc
          MaxIds, MaxTime, MaxPins,          \* Manager
          MaxStreams, MaxData, MaxOut, Window, \* H2Session
          Heads, MaxBody, HeaderCap,         \* H1Session
          MaxFrames, MaxMessage, MaxControl, \* WsFrame
          Arenas, BlockSize, Sizes, MaxBlocks, MaxDepth, MaxLive, PoolMax, \* Arena
          JarMax, MaxClock,                  \* CookieJar
          Origins, CacheCap, Lifetimes, MaxTickets, MaxMono, MaxCrashes, MaxChanges, \* Persist
          LastYear                           \* HttpDate

VARIABLES part,
          buf, head, tail, tailCache, headCache, rsv, held,
          slots, live, limit, timeout, clock, nextId, pins, up,
          h2, strm,
          resp, wire, h1,
          sent, taken, ws, events,
          chain, current, scratch, pooled, mine, frames, allocs,
          jar, wall, event,
          resume, alt, ech, mono, issued, freed, file, tmp, save, snap, crashes, changes,
          date, days

Frame(op, fin, len, n, rsv1, bits) ==
  [op |-> op, fin |-> fin, len |-> len, payload |-> n, rsv1 |-> rsv1, bits |-> bits]
Frames ==
  {Frame("text", TRUE, "short", 2, FALSE, "ok"), Frame("text", FALSE, "short", 1, TRUE, "ok"),
   Frame("binary", FALSE, "medium", 2, FALSE, "ok"), Frame("more", FALSE, "short", 0, FALSE, "ok"),
   Frame("more", TRUE, "long", 1, FALSE, "ok"), Frame("more", TRUE, "short", 0, TRUE, "ok"),
   Frame("ping", TRUE, "short", 1, FALSE, "ok"), Frame("ping", TRUE, "short", 3, FALSE, "ok"),
   Frame("close", TRUE, "medium", 2, FALSE, "ok"), Frame("pong", FALSE, "short", 0, FALSE, "ok"),
   Frame("text", TRUE, "short", 0, FALSE, "masked"), Frame("odd", TRUE, "short", 0, FALSE, "ok")}

\* Hosts with their labels: a site and a host of it, another site, a public suffix by a
\* wildcard rule, and an IP literal with its tail.
Com == <<"com">>
Acme == <<"acme", "com">>
WwwAcme == <<"www", "acme", "com">>
Beta == <<"beta", "com">>
ShopCk == <<"shop", "ck">>
Ip == <<"10", "0", "1">>
RawIdn == {<<"raw", "com">>}
JarUrls ==
  {[host |-> h, path |-> <<"/">>, https |-> TRUE] : h \in {ShopCk, Beta, Ip}}
  \cup {[host |-> Acme, path |-> <<"/", "a", "/", "b">>, https |-> FALSE],
        [host |-> WwwAcme, path |-> <<"/", "a", "?", "/">>, https |-> TRUE]}
Bare == [name |-> "sid", domain |-> <<>>, path |-> <<>>, ages |-> <<>>, secure |-> FALSE]
Expires(n) == [kind |-> "expires", at |-> n]
MaxAge(n) == [kind |-> "max-age", at |-> n]
JarSetCookies ==
  {[Bare EXCEPT !.domain = d] : d \in {<<>>, Com, Acme, ShopCk, Tail(Ip)} \cup RawIdn}
  \cup {[Bare EXCEPT !.path = <<"/", "a">>, !.secure = TRUE]}
  \cup {[Bare EXCEPT !.ages = a] :
          a \in {<<Expires(2)>>, <<Expires(1), MaxAge(1)>>, <<MaxAge(0), Expires(2)>>}}

Ring == INSTANCE RingAlloc
Mgr == INSTANCE Manager
H2 == INSTANCE H2Session
H1 == INSTANCE H1Session
WsIn == INSTANCE WsFrame
Mem == INSTANCE Arena
Jar == INSTANCE CookieJar WITH clock <- wall, Urls <- JarUrls, SetCookies <- JarSetCookies,
         IpHosts <- {Ip}, PslExact <- {Com}, PslWildcard <- {<<"ck">>}, PslExceptions <- {},
         MaxCookies <- JarMax
Store == INSTANCE Persist WITH clock <- wall, Urls <- {[host |-> Beta, path |-> <<"/">>, https |-> TRUE]},
           SetCookies <- {Bare}, IpHosts <- {Ip}, PslExact <- {Com}, PslWildcard <- {},
           PslExceptions <- {}, MaxCookies <- 1
Dates == INSTANCE HttpDate

ringVars == <<buf, head, tail, tailCache, headCache, rsv, held>>
mgrVars == <<slots, live, limit, timeout, clock, nextId, pins, up>>
h2Vars == <<h2, strm>>
h1Vars == <<resp, wire, h1>>
wsVars == <<sent, taken, ws, events>>
memVars == <<chain, current, scratch, pooled, mine, frames, allocs>>
jarVars == <<jar, wall, event>>
storeVars == <<resume, alt, ech, mono, issued, freed, file, tmp, save, snap, crashes, changes>>
dateVars == <<date, days>>
protocolVars == <<ringVars, mgrVars, h2Vars, h1Vars, wsVars>>
stateVars == <<memVars, jarVars, storeVars, dateVars>>
allVars == <<part, protocolVars, stateVars>>

Init ==
  /\ part \in {"ring", "manager", "h2", "h1", "frames", "memory", "jar", "store", "dates"}
  /\ Ring!Init /\ Mgr!Init /\ H2!Init /\ H1!Init /\ WsIn!Init
  /\ Mem!Init /\ Store!Init /\ Dates!DateInit

Next ==
  \/ part = "ring" /\ Ring!Next /\ UNCHANGED <<part, mgrVars, h2Vars, h1Vars, wsVars, stateVars>>
  \/ part = "manager" /\ Mgr!Next /\ UNCHANGED <<part, ringVars, h2Vars, h1Vars, wsVars, stateVars>>
  \/ part = "h2" /\ H2!Next /\ UNCHANGED <<part, ringVars, mgrVars, h1Vars, wsVars, stateVars>>
  \/ part = "h1" /\ H1!Next /\ UNCHANGED <<part, ringVars, mgrVars, h2Vars, wsVars, stateVars>>
  \/ part = "frames" /\ WsIn!Next /\ UNCHANGED <<part, ringVars, mgrVars, h2Vars, h1Vars, stateVars>>
  \/ part = "memory" /\ Mem!Next /\ UNCHANGED <<part, protocolVars, jarVars, storeVars, dateVars>>
  \/ part = "jar" /\ Jar!JarNext /\ UNCHANGED <<part, protocolVars, memVars, storeVars, dateVars>>
  \/ part = "store" /\ Store!Next /\ UNCHANGED <<part, protocolVars, memVars, dateVars>>
  \/ part = "dates" /\ Dates!NextDay /\ UNCHANGED <<part, protocolVars, memVars, jarVars, storeVars>>

Spec == Init /\ [][Next]_allVars

\* Whatever producer and consumer do, the ring is a FIFO of whole blocks: no skip marker,
\* stale cache or wrap loses, repeats or reorders one, the block the consumer holds keeps
\* every byte, and a reservation gets what ra_reserve promises.
RingIsFifo ==
  [](part = "ring" => Ring!TypeOK /\ Ring!HeldIntact /\ Ring!ReserveHonest) /\ Ring!ImplementsFifo

\* A session some thread holds stays in the manager's table with as many references as it
\* has holders, the count under the limit is exact, and what eviction takes is the session
\* longest idle, past the timeout, and only at the limit.
SessionsKept ==
  [](part = "manager" => Mgr!TypeOK /\ Mgr!PinnedAlive /\ Mgr!LiveCounts) /\ Mgr!EvictsOldest

\* The HTTP/2 session holds a request's arena and decoder exactly while it tracks the
\* stream, counts the streams that owe an answer, answers each once and truly, sends what
\* is written once and in order, and never leaves the peer without a window.
StreamsExact ==
  part = "h2" =>
    H2!ArenasBalanced /\ H2!OpenExact /\ H2!AnswersTrue /\ H2!SendsInOrder /\ H2!WindowsReopen

\* However the bytes are cut, the HTTP/1 parser delivers the response the server framed,
\* once, and calls a connection reusable only with nothing left to read; and the WebSocket
\* parser gives the events of the frames before the first illegal one, which it refuses.
ParsersExact ==
  /\ part = "h1" => H1!BodyExact /\ H1!ReuseIsClean /\ H1!WholeIsDelivered
  /\ part = "frames" => WsIn!EventsExact /\ WsIn!RefusedRightly

\* What a function pushed into an arena and still needs is never handed out again or
\* overlapped, whatever nests, grows and rewinds, and an arena has one user.
ArenaSafe == part = "memory" => Mem!Stable /\ Mem!OneUser

\* A Cookie header carries only what its own site set, in the clear nothing secure and
\* never anything expired, a response touches only cookies of its own domains, and every
\* form of a date is the day the calendar says.
CookiesGoHome ==
  []((part = "jar" => Jar!HomeOnly) /\ (part = "dates" => Dates!DatesExact)) /\ Jar!StoreIsLocal

\* A session file is one whole document whatever fails or dies, loading it gives back what
\* was saved with its remaining lifetimes, and every ticket has one owner and one origin.
StateSurvives ==
  /\ [](part = "store" => Store!FileWhole /\ Store!TicketsOwned /\ Store!OneEntryEach)
  /\ Store!LoadRestores
=============================================================================
