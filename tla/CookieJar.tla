------------------------------ MODULE CookieJar ------------------------------
(* The cookie jar, core/cookie.c.  A host is the sequence of its labels, a path  *)
(* the sequence of its characters; the value of a cookie is the host that set it.*)
EXTENDS Naturals, SequencesExt

CONSTANTS Urls,           \* the requests: [host, path, https]
          SetCookies,     \* the Set-Cookie values: [name, domain, path, ages, secure]
          IpHosts,        \* hosts that are IP literals
          PslExact, PslWildcard, PslExceptions,  \* the tables of psl_data.h
          RawIdn,         \* domains with bytes outside ASCII
          MaxCookies,     \* max_cookies
          MaxClock        \* the bound on the wall clock

VARIABLES jar,    \* jar->v, in order
          clock,  \* time(NULL)
          event   \* the last response absorbed or header built
jarVars == <<jar, clock, event>>

-----------------------------------------------------------------------------
(* Matching                                                                  *)

\* psl_is_public_suffix: an exception, a rule, a single label, or a child of a wildcard
PublicSuffix(dom) ==
  dom \notin PslExceptions /\ (dom \in PslExact \/ Len(dom) = 1 \/ Tail(dom) \in PslWildcard)

\* cookie_domain_match, at a label boundary
DomainMatch(host, dom) == IsSuffix(dom, host)

\* cookie_strip_query
StripQuery(path) ==
  LET q == SelectInSeq(path, LAMBDA ch : ch = "?") IN IF q = 0 THEN path ELSE SubSeq(path, 1, q - 1)

\* cookie_path_match
PathMatch(path, cp) ==
  LET req == IF StripQuery(path) = <<>> THEN <<"/">> ELSE StripQuery(path)
  IN \/ req = cp
     \/ cp # <<>> /\ IsStrictPrefix(cp, req) /\ (Last(cp) = "/" \/ req[Len(cp) + 1] = "/")

\* cookie_default_path
DefaultPath(path) ==
  LET bare == StripQuery(path)
      last == SelectLastInSeq(bare, LAMBDA ch : ch = "/")
  IN IF last <= 1 \/ bare[1] # "/" THEN <<"/">> ELSE SubSeq(bare, 1, last - 1)

-----------------------------------------------------------------------------
(* The jar                                                                   *)

\* cookie_jar_evict_expired
EvictExpired(j, now) == SelectSeq(j, LAMBDA c : c.expires = 0 \/ c.expires > now)

\* cookie_jar_remove
RemoveNamed(j, name) == SelectSeq(j, LAMBDA c : c.name # name)

\* cookie_jar_find
Find(j, c) == SelectInSeq(j, LAMBDA d : d.name = c.name /\ d.domain = c.domain /\ d.path = c.path)

\* cookie_jar_put: replace, or append while there is room
Put(j, c) ==
  CASE Find(j, c) # 0 -> [j EXCEPT ![Find(j, c)] = c]
    [] Find(j, c) = 0 /\ Len(j) >= MaxCookies -> j
    [] OTHER -> Append(j, c)

\* One Expires or Max-Age attribute of cookie_jar_store.  at is the date (0 when it does
\* not parse) or the number of seconds (0 for none or fewer).
Age(acc, attr, now) ==
  CASE attr.kind = "expires" /\ (acc.maxAge \/ attr.at = 0) -> acc
    [] attr.kind = "expires" /\ ~acc.maxAge /\ attr.at # 0 ->
         [acc EXCEPT !.expires = attr.at, !.expired = @ \/ attr.at <= now]
    [] attr.kind = "max-age" ->
         [maxAge |-> TRUE, expired |-> attr.at = 0, expires |-> IF attr.at = 0 THEN 1 ELSE now + attr.at]
Ages(attrs, now) ==
  FoldLeft(LAMBDA acc, attr : Age(acc, attr, now), [maxAge |-> FALSE, expired |-> FALSE, expires |-> 0], attrs)

\* Mutant: the public suffix list is not asked.
DomainSuffixAllowed(host, dom) ==
  CASE dom = <<>> -> [ok |-> TRUE, domain |-> host, hostOnly |-> TRUE]
    [] dom # <<>> /\ host \in IpHosts -> [ok |-> dom = host, domain |-> host, hostOnly |-> TRUE]
    [] OTHER -> [ok |-> dom \notin RawIdn /\ DomainMatch(host, dom), domain |-> dom, hostOnly |-> FALSE]

\* The Domain attribute: an IP literal and a public suffix speak only for themselves.
Domain(host, dom) ==
  CASE dom = <<>> -> [ok |-> TRUE, domain |-> host, hostOnly |-> TRUE]
    [] dom \in RawIdn -> [ok |-> FALSE, domain |-> host, hostOnly |-> TRUE]
    [] dom \notin RawIdn \cup {<<>>} /\ (host \in IpHosts \/ PublicSuffix(dom)) ->
         [ok |-> dom = host, domain |-> host, hostOnly |-> TRUE]
    [] OTHER -> [ok |-> DomainMatch(host, dom), domain |-> dom, hostOnly |-> FALSE]

\* cookie_jar_store
Store(j, req, sc, now) ==
  LET scope == Domain(req.host, sc.domain)
      age == Ages(sc.ages, now)
      c == [name |-> sc.name, value |-> req.host, domain |-> scope.domain,
            path |-> IF sc.path = <<>> THEN DefaultPath(req.path) ELSE sc.path,
            expires |-> age.expires, hostOnly |-> scope.hostOnly, secure |-> sc.secure]
  IN CASE ~scope.ok -> j
       [] scope.ok /\ ~age.expired -> Put(j, c)
       [] scope.ok /\ age.expired -> IF Find(j, c) = 0 THEN j ELSE RemoveAt(j, Find(j, c))

\* cookie_jar_cookie_header on a jar without expired cookies: what matches, the longest
\* path first, and in the order of the jar among equals
Matches(c, req) ==
  /\ IF c.hostOnly THEN req.host = c.domain ELSE DomainMatch(req.host, c.domain)
  /\ PathMatch(req.path, c.path)
  /\ c.secure => req.https
CookieHeader(j, req) ==
  LET longer(acc, c) == Len(SelectSeq(acc, LAMBDA d : Len(d.path) >= Len(c.path)))
  IN FoldLeft(LAMBDA acc, c : InsertAt(acc, longer(acc, c) + 1, c), <<>>,
              SelectSeq(j, LAMBDA c : Matches(c, req)))

-----------------------------------------------------------------------------
(* Actions                                                                   *)

Respond(req, sc) ==
  /\ jar' = Store(jar, req, sc, clock)
  /\ event' = [kind |-> "response", req |-> req, plain |-> sc.domain = <<>> /\ sc.path = <<>> /\ sc.ages = <<>>]
  /\ UNCHANGED clock
Request(req) ==
  /\ jar' = EvictExpired(jar, clock)
  /\ event' = [kind |-> "request", req |-> req, cookies |-> CookieHeader(jar', req)]
  /\ UNCHANGED clock
RemoveAll(name) == jar' = RemoveNamed(jar, name) /\ event' = [kind |-> "none"] /\ UNCHANGED clock
Tick == clock < MaxClock /\ clock' = clock + 1 /\ event' = [kind |-> "none"] /\ UNCHANGED jar

JarInit == jar = <<>> /\ clock = 1 /\ event = [kind |-> "none"]
JarNext ==
  \/ \E req \in Urls, sc \in SetCookies : Respond(req, sc)
  \/ \E req \in Urls : Request(req)
  \/ \E sc \in SetCookies : RemoveAll(sc.name)
  \/ Tick
JarSpec == JarInit /\ [][JarNext]_jarVars

-----------------------------------------------------------------------------
(* Properties                                                                *)

\* Two hosts are of one site when they are one host, or share a domain name that is not a
\* public suffix.
Domains(host) == {SubSeq(host, i, Len(host)) : i \in DOMAIN host}
OneSite(a, b) ==
  a = b \/ (a \notin IpHosts /\ b \notin IpHosts /\ \E d \in Domains(a) \cap Domains(b) : ~PublicSuffix(d))

\* A Cookie header carries only what a host of the same site set, never a secure cookie in
\* the clear, nothing that has expired, the longest path first.
HomeOnly ==
  event.kind = "request" =>
    /\ \A i \in DOMAIN event.cookies :
         LET c == event.cookies[i]
         IN /\ OneSite(c.value, event.req.host)
            /\ c.secure => event.req.https
            /\ c.expires = 0 \/ c.expires > clock
            /\ i > 1 => Len(event.cookies[i - 1].path) >= Len(c.path)
    \* one value for a name, a domain and a path
    /\ \A c, d \in Range(jar) : c # d => <<c.name, c.domain, c.path>> # <<d.name, d.domain, d.path>>

\* A response changes or removes only cookies of domains its host is under, and a cookie
\* set without attributes is sent back to the URL that set it, unless the jar was full.
StoreIsLocal ==
  [][event'.kind = "response" =>
       /\ \A c \in Range(jar) \ Range(jar') : IsSuffix(c.domain, event'.req.host)
       /\ event'.plain /\ Len(jar) < MaxCookies =>
            \E i \in DOMAIN CookieHeader(jar', event'.req) :
              CookieHeader(jar', event'.req)[i].value = event'.req.host]_jarVars
==============================================================================
