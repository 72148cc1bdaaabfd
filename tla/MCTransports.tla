---------------------------- MODULE MCTransports ----------------------------
(* Users of a connection outside the pool, one of them per behaviour: a        *)
(* request over QUIC, a WebSocket and a TLS stream.                            *)
EXTENDS QuicRequest, Sequences

CONSTANTS MaxMsgs, Shared,  \* WebSocket
          MaxBytes          \* TlsStream

VARIABLES part,
          ws, call, arrived,
          tls, served

Ws == INSTANCE WebSocket
Tls == INSTANCE TlsStream

wsVars == <<ws, call, arrived>>
tlsVars == <<tls, served>>
allVars == <<part, vars, wsVars, tlsVars>>

\* What a request that does not run has cached is of no interest.
OneInit ==
  /\ part \in {"quic", "websocket", "tls"}
  /\ Init /\ Ws!Init /\ Tls!Init
  /\ part # "quic" => ticket = "none" /\ ~tp

OneNext ==
  \/ part = "quic" /\ Next /\ UNCHANGED <<part, wsVars, tlsVars>>
  \/ part = "websocket" /\ Ws!Next /\ UNCHANGED <<part, vars, tlsVars>>
  \/ part = "tls" /\ Tls!Next /\ UNCHANGED <<part, vars, wsVars>>

\* The parts share no variable: a part that does not run has no fair action enabled.
OneFairSpec ==
  /\ OneInit /\ [][OneNext]_allVars
  /\ LoopFairness /\ Ws!Fairness /\ Tls!Fairness

\* Memory goes after the handles: an answered QUIC request has every handle closing and
\* counted, nothing reaches it once it is recycled, and a WsConn or a TlsStream is freed
\* only when its socket is closed.
FreedClosed ==
  /\ TypeOK /\ QuicAnsweredCloses /\ QuicFreedForGood
  /\ Ws!TypeOK /\ Ws!FreedClosed
  /\ Tls!FreedClosed

\* No wakeup is lost: while a blocking WebSocket or TLS call sits in the loop, what it
\* waits for has not happened, whichever callback could have made it happen.
NoLostWakeup == Ws!NoLostWakeup /\ Tls!NoLostWakeup

\* ws_conn_recv and tls_stream_read hand out what the peer sent, in order, and report an
\* error, a timeout or the end only when nothing that arrived before it is left.
MessagesInOrder == [][Ws!InOrder' /\ Ws!ErrorsComeLast /\ Tls!EndComesLast]_allVars

\* Whatever the peer does, a deadline releases a QUIC request and ends a blocking call, and
\* ws_conn_free returns when it has a connection to close.
DeadlinesReturn ==
  QuicDeadlineReleases /\ Ws!DeadlineReturns /\ Ws!FreeReturns /\ Tls!DeadlineReturns
=============================================================================
