------------------------------ MODULE RtspSession ------------------------------
(***************************************************************************)
(* One RTSPSession: its requests to the SAT>IP server over a TCP           *)
(* connection, its keep-alive and zap timers, and the server with its      *)
(* session timeout.                                                        *)
(*                                                                         *)
(* A request blocks the event loop in waitForReadyRead() until some bytes  *)
(* arrive or 30 seconds pass; everything the socket holds is then read as  *)
(* one answer. An answer that comes too late stays in the socket and is    *)
(* read together with the next one.                                        *)
(*                                                                         *)
(* Time is counted in ticks. The network and the server answer within the  *)
(* tick, except for `slow' ticks that a behaviour may spend. A definition  *)
(* named after another with a defect added is no part of Spec: the         *)
(* properties are tried against it.                                        *)
(***************************************************************************)
EXTENDS Integers, Sequences

CONSTANTS
  Queries,        \* the URL queries that can be tuned to
  None,           \* no query, no request
  Expiry,         \* the timeout the server announces, in ticks
  DefaultTimeout, \* the period of the keep-alive before the server announced one
  WaitLimit,      \* waitForReadyRead()
  BusyLimit,      \* how long a handler of another object may block the event loop
  Refusals,       \* may the server refuse a SETUP?
  Splits,         \* may an answer arrive in two parts?
  CSeqs,          \* bound: cseq counts modulo CSeqs, in the code modulo 2^32
  MaxSlow         \* bound: the ticks for which the network is late

\* What is sent to the server.
Requests ==
  [kind : {"SETUP", "PLAY", "OPTIONS", "TEARDOWN"}, cseq : 0..CSeqs-1,
   session : BOOLEAN, query : Queries \cup {None}]

ASSUME RtspAssumption ==
  /\ None \notin Queries \cup Requests
  /\ Refusals \in BOOLEAN /\ Splits \in BOOLEAN
  /\ Expiry \in Nat /\ Expiry >= 2 /\ DefaultTimeout \in Nat \ {0}
  /\ WaitLimit \in Nat \ {0} /\ BusyLimit \in Nat /\ MaxSlow \in Nat
  /\ CSeqs \in Nat /\ CSeqs > 2 * (MaxSlow + BusyLimit + 2)

VARIABLES
  alive, ready, session,       \* session: was a Session header received?
  timeout, keepAlive,          \* period of the session timer, and what is left of it
  cseq, asked, wait, result,   \* the request waited for; the outcome of the last one
  urlQuery, nextUrlQuery,      \* the query of the url, and the one to zap to
  zapTimers,                   \* how many zap timers run
  confirmed,                   \* the query of the last PLAY, once it has succeeded
  buffered, toClient, toServer, \* the socket's buffer, and both directions of the wire
  lease, playing,              \* server: ticks the session has left; its query
  busy, slow, acted            \* the event loop is blocked; see above; see Tick

identity == <<alive, ready, session, timeout>>
exchange == <<cseq, asked, wait, result>>
channel == <<urlQuery, nextUrlQuery, zapTimers>>
wire == <<buffered, toClient>>
server == <<lease, playing>>
clock == <<busy, slow, acted>>
vars == <<identity, keepAlive, exchange, channel, confirmed, wire, toServer, server,
          clock>>

Waiting == asked # None
Idle == alive /\ ~Waiting /\ busy = 0

Request(kind, n, known, query) ==
  [kind |-> kind, cseq |-> n, session |-> known, query |-> query]

NextCSeq == (cseq + 1) % CSeqs

\* The constructor, up to its wait for the answer to SETUP.
Init ==
  /\ alive = TRUE /\ ready = FALSE /\ session = FALSE
  /\ timeout = DefaultTimeout /\ keepAlive = 0
  /\ cseq = 1 /\ wait = WaitLimit /\ result = [kind |-> "none", ok |-> TRUE]
  /\ urlQuery \in Queries /\ nextUrlQuery = None /\ zapTimers = 0
  /\ confirmed = None
  /\ asked = Request("SETUP", 1, FALSE, urlQuery)
  /\ buffered = <<>> /\ toClient = <<>> /\ toServer = <<asked>>
  /\ lease = 0 /\ playing = None
  /\ busy = 0 /\ slow = MaxSlow /\ acted = FALSE

Send(kind, known, query) ==
  /\ cseq' = NextCSeq
  /\ asked' = Request(kind, NextCSeq, known, query)
  /\ toServer' = Append(toServer, asked')
  /\ wait' = WaitLimit

----------------------------------------------------------------------------
(* What the owner of the session, its timers and the user do.              *)

Play(query) ==
  /\ Send("PLAY", session, query)
  /\ confirmed' = None
  /\ UNCHANGED <<result, identity, wire, server>>

\* updateSession() asks for a ready session, EpgCollector::step() does not.
SetUrl(query) ==
  /\ Idle /\ ~acted /\ acted' = TRUE
  /\ urlQuery' = query
  /\ IF ready THEN Play(query)
     ELSE UNCHANGED <<exchange, confirmed, toServer, identity, wire, server>>
  /\ UNCHANGED <<keepAlive, nextUrlQuery, zapTimers, busy, slow>>

ZapUrl(query) ==
  /\ Idle /\ ready /\ ~acted /\ acted' = TRUE
  /\ zapTimers' = (IF nextUrlQuery # None THEN zapTimers - 1 ELSE zapTimers) + 1
  /\ nextUrlQuery' = urlQuery /\ urlQuery' = query
  /\ Play(query)
  /\ UNCHANGED <<keepAlive, busy, slow>>

\* Its period is left open: it may fire once in every tick.
ZapTimer ==
  /\ Idle /\ zapTimers > 0 /\ ~acted /\ acted' = TRUE
  /\ nextUrlQuery' = urlQuery /\ urlQuery' = nextUrlQuery
  /\ Play(nextUrlQuery)
  /\ UNCHANGED <<keepAlive, zapTimers, busy, slow>>

SessionTimerDue == ready /\ keepAlive = 0

SessionTimer ==
  /\ Idle /\ SessionTimerDue
  /\ keepAlive' = timeout
  /\ Send("OPTIONS", session, None)
  /\ UNCHANGED <<result, identity, channel, confirmed, wire, server, clock>>

StopLeavesZap ==
  /\ Idle /\ ~acted /\ acted' = TRUE
  /\ nextUrlQuery' = None
  /\ Send("TEARDOWN", session, None)
  /\ UNCHANGED <<result, identity, keepAlive, urlQuery, zapTimers, confirmed, wire,
                 server, busy, slow>>
\* Every owner deletes the session once stop() has returned.
Stop ==
  /\ Idle /\ ~acted /\ acted' = TRUE
  /\ nextUrlQuery' = None
  /\ zapTimers' = IF nextUrlQuery # None THEN zapTimers - 1 ELSE zapTimers
  /\ Send("TEARDOWN", session, None)
  /\ UNCHANGED <<result, identity, keepAlive, urlQuery, confirmed, wire, server, busy,
                 slow>>

\* A handler of another object, a request of another session for one, keeps the
\* event loop from the socket and the timers of this one; what was ready before it
\* began has been served.
BlockLoop ==
  /\ Idle /\ ~SessionTimerDue /\ toClient = <<>>
  /\ busy' \in 1..BusyLimit
  /\ UNCHANGED <<identity, keepAlive, exchange, channel, confirmed, wire, toServer,
                 server, slow, acted>>

----------------------------------------------------------------------------
(* The end of a request.                                                   *)

Released == asked' = None /\ wait' = 0 /\ UNCHANGED <<cseq, toServer>>

\* setup() in the constructor goes on with play(); an object that was stopped is
\* deleted, with its timers and its socket.
SetupDone(ok) ==
  /\ asked.kind = "SETUP"
  /\ ready' = ok
  /\ IF ok THEN keepAlive' = timeout' /\ Send("PLAY", session', urlQuery)
     ELSE UNCHANGED keepAlive /\ Released
  /\ UNCHANGED <<alive, channel, confirmed>>

RequestDone(ok) ==
  /\ asked.kind \in {"PLAY", "OPTIONS"}
  /\ confirmed' = IF asked.kind = "PLAY" /\ ok THEN asked.query ELSE confirmed
  /\ Released
  /\ UNCHANGED <<alive, ready, keepAlive, channel>>

TeardownDone ==
  /\ asked.kind = "TEARDOWN"
  /\ alive' = FALSE
  /\ zapTimers' = 0
  /\ Released
  /\ UNCHANGED <<ready, keepAlive, urlQuery, nextUrlQuery, confirmed>>

Outcome(ok) ==
  /\ result' = [kind |-> asked.kind, ok |-> ok]
  /\ SetupDone(ok) \/ RequestDone(ok) \/ TeardownDone

Heads(data) == {i \in DOMAIN data : data[i].part # "rest"}

\* Does the text start as an answer, say 200, and carry our sequence number in
\* every CSeq header? There is none with another number behind ours, since ours is
\* the latest: a Session header that is looked at belongs to the answer.
MatchesAnyCSeq(data) ==
  /\ 1 \in Heads(data) /\ data[1].ok
Matches(data) ==
  /\ 1 \in Heads(data) /\ data[1].ok
  /\ \A i \in Heads(data) : data[i].cseq = asked.cseq

HasSession(data) == \E i \in DOMAIN data : data[i].part # "head" /\ data[i].session

ParseKeepsWholeTimeout(data) ==
  /\ session' = (session \/ (Matches(data) /\ HasSession(data)))
  /\ timeout' = IF Matches(data) /\ HasSession(data) THEN Expiry ELSE timeout
  /\ Outcome(Matches(data))
ParseAnswer(data) ==
  /\ session' = (session \/ (Matches(data) /\ HasSession(data)))
  /\ timeout' = IF Matches(data) /\ HasSession(data) THEN Expiry \div 2 ELSE timeout
  /\ Outcome(Matches(data))

\* waitForReadyRead() returns on new bytes, readAll() takes these and the old ones.
ReadOneAnswer ==
  /\ alive /\ Waiting /\ toClient # <<>>
  /\ LET data == buffered \o toClient IN
       /\ ParseAnswer(<<Head(data)>>)
       /\ buffered' = IF alive' THEN Tail(data) ELSE <<>>
  /\ toClient' = <<>>
  /\ UNCHANGED <<server, clock>>
ReadAnswer ==
  /\ alive /\ Waiting
  /\ \E n \in 1..Len(toClient) :
       /\ ParseAnswer(buffered \o SubSeq(toClient, 1, n))
       /\ toClient' = IF alive' THEN SubSeq(toClient, n + 1, Len(toClient)) ELSE <<>>
  /\ buffered' = <<>>
  /\ UNCHANGED <<server, clock>>

GiveUp ==
  /\ alive /\ Waiting /\ wait = 0
  /\ UNCHANGED <<session, timeout>>
  /\ Outcome(FALSE)
  /\ IF alive' THEN UNCHANGED wire ELSE buffered' = <<>> /\ toClient' = <<>>
  /\ UNCHANGED <<server, clock>>

\* The event loop reads what comes in between two requests into the buffer.
SocketNotified ==
  /\ Idle /\ toClient # <<>>
  /\ buffered' = buffered \o toClient /\ toClient' = <<>>
  /\ UNCHANGED <<identity, keepAlive, exchange, channel, confirmed, toServer, server,
                 clock>>

----------------------------------------------------------------------------
(* The server.                                                             *)

Part(name, request, ok, known) ==
  [part |-> name, cseq |-> request.cseq, ok |-> ok, session |-> known]

Answer(request, ok, known) ==
  IF ~alive THEN UNCHANGED toClient
  ELSE \/ toClient' = Append(toClient, Part("whole", request, ok, known))
       \/ /\ Splits
          /\ toClient' = toClient \o <<Part("head", request, ok, FALSE),
                                       Part("rest", request, ok, known)>>

ServerSetup(request) ==
  /\ request.kind = "SETUP"
  /\ \/ lease' = Expiry /\ playing' = None /\ Answer(request, TRUE, TRUE)
     \/ Refusals /\ Answer(request, FALSE, FALSE) /\ UNCHANGED server

ServerUnknown(request) ==
  /\ request.kind # "SETUP" /\ ~(request.session /\ lease > 0)
  /\ Answer(request, FALSE, FALSE)
  /\ UNCHANGED server

ServerKnown(request) ==
  /\ request.kind # "SETUP" /\ request.session /\ lease > 0
  /\ lease' = IF request.kind = "TEARDOWN" THEN 0 ELSE Expiry
  /\ playing' = CASE request.kind = "PLAY" -> request.query
                  [] request.kind = "TEARDOWN" -> None
                  [] OTHER -> playing
  /\ Answer(request, TRUE, TRUE)

ServerStep ==
  /\ toServer # <<>>
  /\ toServer' = Tail(toServer)
  /\ LET request == Head(toServer) IN
       ServerSetup(request) \/ ServerUnknown(request) \/ ServerKnown(request)
  /\ UNCHANGED <<identity, keepAlive, exchange, channel, confirmed, buffered, clock>>

----------------------------------------------------------------------------
(* Time.                                                                   *)

Less(n) == IF n = 0 THEN 0 ELSE n - 1

Prompt == toServer = <<>> /\ (busy > 0 \/ toClient = <<>>)

\* An expired session timer is served first, and between two ticks there is at most
\* one request of the user or the zap timer.
Tick ==
  /\ alive \/ lease > 0
  /\ ~(Idle /\ SessionTimerDue)
  /\ Waiting => wait > 0
  /\ IF Prompt THEN UNCHANGED slow ELSE slow > 0 /\ slow' = slow - 1
  /\ wait' = Less(wait) /\ busy' = Less(busy) /\ keepAlive' = Less(keepAlive)
  /\ lease' = Less(lease)
  /\ playing' = IF lease' = 0 THEN None ELSE playing
  /\ acted' = FALSE
  /\ UNCHANGED <<identity, cseq, asked, result, channel, confirmed, wire, toServer>>

----------------------------------------------------------------------------
UserAction ==
  \/ \E query \in Queries : SetUrl(query) \/ ZapUrl(query)
  \/ Stop

ClientStep ==
  ZapTimer \/ SessionTimer \/ ReadAnswer \/ GiveUp \/ SocketNotified

Next == UserAction \/ ClientStep \/ BlockLoop \/ ServerStep \/ Tick

Spec == Init /\ [][Next]_vars

\* The event loop serves sockets and timers, waitForReadyRead() returns, the server
\* answers and time passes. Users, and other handlers, need not do anything. Between
\* the handlers that block it the loop gets round to the socket again and again.
Fairness ==
  /\ WF_vars(SessionTimer) /\ WF_vars(ReadAnswer) /\ WF_vars(GiveUp)
  /\ SF_vars(SocketNotified) /\ WF_vars(ServerStep) /\ WF_vars(Tick)

FairSpec == Spec /\ Fairness
----------------------------------------------------------------------------
(* Properties.                                                             *)

Parts ==
  [part : {"whole", "head", "rest"}, cseq : 0..CSeqs-1, ok : BOOLEAN, session : BOOLEAN]

\* The values of the variables; a deleted session waits for nothing and runs no timer.
TypeOK ==
  /\ alive \in BOOLEAN /\ ready \in BOOLEAN /\ session \in BOOLEAN /\ acted \in BOOLEAN
  /\ timeout \in Nat \ {0}
  /\ keepAlive \in Nat /\ wait \in 0..WaitLimit /\ busy \in 0..BusyLimit
  /\ lease \in 0..Expiry /\ slow \in 0..MaxSlow
  /\ cseq \in 0..CSeqs-1 /\ asked \in Requests \cup {None}
  /\ result \in [kind : {"none", "SETUP", "PLAY", "OPTIONS", "TEARDOWN"}, ok : BOOLEAN]
  /\ urlQuery \in Queries /\ nextUrlQuery \in Queries \cup {None}
  /\ zapTimers \in 0..1
  /\ confirmed \in Queries \cup {None} /\ playing \in Queries \cup {None}
  /\ toServer \in Seq(Requests) /\ buffered \in Seq(Parts) /\ toClient \in Seq(Parts)
  /\ ~alive => asked = None /\ zapTimers = 0 /\ toClient = <<>>

\* A request is reported successful only when the server has executed it, whatever
\* late answers are still on their way: after a PLAY the server plays the query the
\* session believes to be tuned to, after a TEARDOWN it holds no session.
Confirmed ==
  /\ confirmed # None /\ lease > 0 => playing = confirmed
  /\ confirmed # None => urlQuery = confirmed
  /\ result = [kind |-> "TEARDOWN", ok |-> TRUE] => lease = 0

\* A zap timer runs exactly while there is a query to zap to: a second zap, the
\* end of the session or a lost answer leave no other one behind.
ZapTimerOwned == zapTimers = IF nextUrlQuery # None THEN 1 ELSE 0

\* The timer that keeps the session alive: as long as the network has been prompt, and
\* the event loop is not blocked for longer than half the timeout, the server does not
\* drop a session that was set up and is not being torn down.
Maintained ==
  slow = MaxSlow /\ alive /\ ready /\ (Waiting => asked.kind # "TEARDOWN") => lease > 0

\* After an answer came too late the session finds back to the answers of its own
\* requests, unless the server has dropped it in the meantime.
Recovers == alive /\ ready /\ ~result.ok ~> result.ok \/ ~alive \/ lease = 0
=============================================================================
