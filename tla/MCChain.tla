------------------------------- MODULE MCChain -------------------------------
(* Scenarios for Chain: a lone operation over every redirect, header and        *)
(* version, and pairs of operations that meet in the caches, the jar, the       *)
(* rotation pool and a blocking helper.                                         *)
EXTENDS Chain

MCHosts == {"a", "w", "b", "doh"}
MCSiteOf == [h \in MCHosts |-> IF h = "w" THEN "a" ELSE h]

Plain == [sess |-> FALSE, stream |-> FALSE, single |-> FALSE, post |-> FALSE, auth |-> FALSE,
          fetch |-> FALSE, host |-> "a", ref |-> "", ver |-> "Auto", proxy |-> ""]
Rich == [Plain EXCEPT !.post = TRUE, !.auth = TRUE, !.fetch = TRUE, !.ref = "a"]

Base == [ok |-> TRUE, pool |-> TRUE, h3 |-> TRUE, mode |-> "Auto", proxy |-> "",
         rotation |-> <<>>, ech |-> FALSE, max |-> 2, cookies |-> TRUE, timeout |-> TRUE,
         ops |-> 1, inputs |-> {Rich}, expire |-> {"a"},
         answers |-> Responses({200, 301, 303, 307}, MCHosts \cup {"", "plain"}, BOOLEAN)]

\* One operation, every way of asking.
Lone ==
  { [Base EXCEPT !.inputs = {Rich, [Rich EXCEPT !.fetch = FALSE], [Plain EXCEPT !.fetch = TRUE],
                             [Rich EXCEPT !.sess = TRUE, !.single = TRUE]}],
    [Base EXCEPT !.ech = TRUE, !.max = 1,
                 !.inputs = {Rich, [Plain EXCEPT !.proxy = "http"],
                             [Rich EXCEPT !.ver = "H1", !.stream = TRUE]}],
    [Base EXCEPT !.ech = TRUE, !.mode = "H3", !.proxy = "http", !.max = 1,
                 !.inputs = {Rich, [Plain EXCEPT !.proxy = "socks5"]}],
    [Base EXCEPT !.ok = FALSE, !.ech = TRUE] }

\* Two operations on one client: a shared jar and a blocking helper, a rotation pool with
\* the ECH gate, and forced versions behind an HTTP proxy.
Pairs ==
  { [Base EXCEPT !.ops = 2, !.max = 1, !.timeout = FALSE, !.expire = {},
                 !.answers = [ok : {TRUE}, status : {303}, loc : {"a", ""}, cookie : BOOLEAN,
                              alt : {FALSE}],
                 !.inputs = {[Plain EXCEPT !.sess = TRUE], [Plain EXCEPT !.host = "b", !.sess = TRUE]}],
    [Base EXCEPT !.ops = 2, !.max = 1, !.ech = TRUE, !.rotation = <<"socks5", "http">>,
                 !.answers = Responses({301}, {"a", "b"}, {FALSE}),
                 !.inputs = {[Plain EXCEPT !.sess = TRUE], [Plain EXCEPT !.proxy = "bad"]}],
    [Base EXCEPT !.ops = 2, !.max = 0, !.pool = FALSE, !.proxy = "http", !.rotation = <<"http">>,
                 !.answers = Responses({200}, {""}, BOOLEAN),
                 !.inputs = {[Plain EXCEPT !.ver = v] : v \in {"Auto", "H2", "H3"}}] }

MCClients == Lone \cup Pairs
==============================================================================
