-------------------------- MODULE RtspSessionProofs --------------------------
(***************************************************************************)
(* Proofs about RtspSession, for every set of queries, every timeout and   *)
(* every network.                                                          *)
(***************************************************************************)
EXTENDS RtspSession, SequenceTheorems, TLAPS

Kinds == {"SETUP", "PLAY", "OPTIONS", "TEARDOWN"}

\* A session that is being torn down has nothing left to zap to.
StopsZapping == Waiting /\ asked.kind = "TEARDOWN" => nextUrlQuery = None

LEMMA Appended ==
  ASSUME NEW S, NEW s \in Seq(S), NEW e \in S
  PROVE  Append(s, e) \in Seq(S)
OBVIOUS

LEMMA Joined ==
  ASSUME NEW S, NEW s \in Seq(S), NEW t \in Seq(S)
  PROVE  s \o t \in Seq(S)
OBVIOUS

LEMMA TailTyped ==
  ASSUME NEW S, NEW s \in Seq(S), s # <<>>
  PROVE  Head(s) \in S /\ Tail(s) \in Seq(S)
OBVIOUS

LEMMA Written ==
  ASSUME NEW S, NEW d \in S, NEW e \in S
  PROVE  <<>> \in Seq(S) /\ <<d>> \in Seq(S) /\ <<d, e>> \in Seq(S)
OBVIOUS

LEMMA SubSeqTyped ==
  ASSUME NEW S, NEW s \in Seq(S), NEW n \in 1..Len(s)
  PROVE  SubSeq(s, n + 1, Len(s)) \in Seq(S)
<1>1. \A i \in 1..(Len(s) - n) : s[n + i] \in S
  OBVIOUS
<1>2. SubSeq(s, n + 1, Len(s)) = [i \in 1..(Len(s) - n) |-> s[n + i]]
  OBVIOUS
<1> QED
  BY <1>1, <1>2

LEMMA CSeqTyped == ASSUME cseq \in 0..CSeqs-1 PROVE NextCSeq \in 0..CSeqs-1
BY RtspAssumption DEF NextCSeq

\* What Send leaves behind is a request of its kind.
LEMMA SendTyped ==
  ASSUME TypeOK, NEW kind \in Kinds, NEW known \in BOOLEAN,
         NEW query \in Queries \cup {None}, Send(kind, known, query)
  PROVE  /\ cseq' \in 0..CSeqs-1 /\ asked' \in Requests /\ asked'.kind = kind
         /\ toServer' \in Seq(Requests) /\ wait' \in 0..WaitLimit
<1>1. cseq' = NextCSeq /\ asked' = Request(kind, NextCSeq, known, query)
      /\ toServer' = Append(toServer, asked') /\ wait' = WaitLimit
  BY DEF Send
<1>2. NextCSeq \in 0..CSeqs-1
  BY CSeqTyped DEF TypeOK
<1>3. asked' \in Requests /\ asked'.kind = kind
  BY <1>1, <1>2 DEF Request, Requests, Kinds
<1>4. toServer' \in Seq(Requests)
  BY <1>1, <1>3, Appended DEF TypeOK
<1> QED
  BY <1>1, <1>2, <1>3, <1>4, RtspAssumption

\* The part of TypeOK that the end of a request touches.
ExchangeTyped ==
  /\ alive \in BOOLEAN /\ ready \in BOOLEAN /\ keepAlive \in Nat
  /\ cseq \in 0..CSeqs-1 /\ asked \in Requests \cup {None} /\ wait \in 0..WaitLimit
  /\ result \in [kind : {"none", "SETUP", "PLAY", "OPTIONS", "TEARDOWN"}, ok : BOOLEAN]
  /\ urlQuery \in Queries /\ nextUrlQuery \in Queries \cup {None}
  /\ confirmed \in Queries \cup {None} /\ toServer \in Seq(Requests)

RunningInv == TypeOK /\ ZapTimerOwned /\ StopsZapping

LEMMA Opening == Init => RunningInv
<1> SUFFICES ASSUME Init PROVE RunningInv
  OBVIOUS
<1>1. asked \in Requests /\ asked.kind = "SETUP"
  BY RtspAssumption DEF Init, Request, Requests
<1>2. toServer \in Seq(Requests) /\ buffered \in Seq(Parts) /\ toClient \in Seq(Parts)
  <2>1. toServer = <<asked>> /\ buffered = <<>> /\ toClient = <<>>
    BY DEF Init
  <2> QED
    BY <1>1, <2>1, Written
<1>3. /\ alive \in BOOLEAN /\ ready \in BOOLEAN /\ session \in BOOLEAN /\ acted \in BOOLEAN
      /\ result \in [kind : {"none", "SETUP", "PLAY", "OPTIONS", "TEARDOWN"}, ok : BOOLEAN]
      /\ urlQuery \in Queries /\ nextUrlQuery = None /\ confirmed = None /\ playing = None
      /\ zapTimers = 0 /\ alive
  BY DEF Init
<1>4. /\ timeout \in Nat \ {0} /\ keepAlive \in Nat /\ wait \in 0..WaitLimit
      /\ busy \in 0..BusyLimit /\ lease \in 0..Expiry /\ slow \in 0..MaxSlow
      /\ cseq \in 0..CSeqs-1
  BY RtspAssumption DEF Init
<1>5. TypeOK
  BY <1>1, <1>2, <1>3, <1>4 DEF TypeOK
<1> QED
  BY <1>1, <1>3, <1>5 DEF RunningInv, ZapTimerOwned, StopsZapping

\* The end of a request keeps the invariant, whatever its outcome: only the end of a
\* TEARDOWN touches the timers, and then none is wanted.
LEMMA OutcomeKeeps ==
  ASSUME RunningInv, Waiting, alive, NEW ok \in BOOLEAN, Outcome(ok),
         session' \in BOOLEAN, timeout' \in Nat \ {0}
  PROVE  /\ ExchangeTyped' /\ zapTimers' \in 0..1 /\ ZapTimerOwned' /\ StopsZapping'
         /\ ~alive' => asked' = None /\ zapTimers' = 0
<1> USE DEF RunningInv
<1>0. asked \in Requests /\ asked.kind \in Kinds
  BY DEF TypeOK, Waiting, Requests, Kinds
<1>1. result' \in [kind : {"none", "SETUP", "PLAY", "OPTIONS", "TEARDOWN"}, ok : BOOLEAN]
  BY <1>0 DEF Outcome, Kinds
<1>2. ASSUME Released PROVE asked' = None /\ wait' \in 0..WaitLimit /\ cseq' = cseq
                            /\ toServer' = toServer
  BY <1>2, RtspAssumption DEF Released
<1>3. CASE SetupDone(ok) /\ ok
  <2>1. Send("PLAY", session', urlQuery) /\ keepAlive' = timeout' /\ ready' = ok
        /\ UNCHANGED <<alive, channel, confirmed>>
    BY <1>3 DEF SetupDone
  <2>2. /\ cseq' \in 0..CSeqs-1 /\ asked' \in Requests /\ asked'.kind = "PLAY"
        /\ toServer' \in Seq(Requests) /\ wait' \in 0..WaitLimit
    BY <2>1, SendTyped DEF Kinds, TypeOK
  <2>3. ExchangeTyped'
    BY <1>1, <2>1, <2>2 DEF ExchangeTyped, TypeOK, channel
  <2> QED
    BY <2>1, <2>2, <2>3 DEF channel, TypeOK, ZapTimerOwned, StopsZapping
<1>4. CASE SetupDone(ok) /\ ~ok
  <2>1. Released /\ ready' = ok /\ UNCHANGED <<alive, channel, confirmed, keepAlive>>
    BY <1>4 DEF SetupDone
  <2>2. ExchangeTyped'
    BY <1>1, <1>2, <2>1 DEF ExchangeTyped, TypeOK, channel
  <2> QED
    BY <1>2, <2>1, <2>2 DEF channel, TypeOK, ZapTimerOwned, StopsZapping, Waiting
<1>5. CASE RequestDone(ok)
  <2>1. Released /\ UNCHANGED <<alive, ready, keepAlive, channel>>
        /\ confirmed' \in {asked.query, confirmed}
    BY <1>5 DEF RequestDone
  <2>2. confirmed' \in Queries \cup {None}
    BY <1>0, <2>1 DEF Requests, TypeOK
  <2>3. ExchangeTyped'
    BY <1>1, <1>2, <2>1, <2>2 DEF ExchangeTyped, TypeOK, channel
  <2> QED
    BY <1>2, <2>1, <2>3 DEF channel, TypeOK, ZapTimerOwned, StopsZapping, Waiting
<1>6. CASE TeardownDone
  <2>1. Released /\ alive' = FALSE /\ zapTimers' = 0
        /\ UNCHANGED <<ready, keepAlive, urlQuery, nextUrlQuery, confirmed>>
    BY <1>6 DEF TeardownDone
  <2>2. nextUrlQuery = None
    BY <1>6 DEF TeardownDone, StopsZapping
  <2>3. ExchangeTyped'
    BY <1>1, <1>2, <2>1 DEF ExchangeTyped, TypeOK
  <2> QED
    BY <1>2, <2>1, <2>2, <2>3 DEF ZapTimerOwned, StopsZapping, Waiting
<1> QED
  BY <1>3, <1>4, <1>5, <1>6 DEF Outcome

\* An answer that parses leaves a session identifier and a period of at least a tick.
LEMMA ParseKeeps ==
  ASSUME RunningInv, Waiting, alive, NEW data, ParseAnswer(data)
  PROVE  /\ session' \in BOOLEAN /\ timeout' \in Nat \ {0}
         /\ ExchangeTyped' /\ zapTimers' \in 0..1 /\ ZapTimerOwned' /\ StopsZapping'
         /\ ~alive' => asked' = None /\ zapTimers' = 0
<1>1. session' \in BOOLEAN
  BY DEF ParseAnswer
<1>2. Expiry \div 2 \in Nat \ {0}
  BY RtspAssumption
<1>3. timeout' \in Nat \ {0}
  BY <1>2 DEF ParseAnswer, RunningInv, TypeOK
<1>4. Matches(data) \in BOOLEAN
  BY DEF Matches
<1>5. Outcome(Matches(data))
  BY DEF ParseAnswer
<1> QED
  BY <1>1, <1>3, <1>4, <1>5, OutcomeKeeps

\* A request of the client keeps the invariant: a zap counts its timer, a stop ends it.
LEMMA RequestKeeps ==
  ASSUME RunningInv,
         \/ \E query \in Queries : SetUrl(query) \/ ZapUrl(query)
         \/ Stop \/ ZapTimer \/ SessionTimer
  PROVE  RunningInv'
<1> USE DEF RunningInv, identity, exchange, channel, wire, server, clock
<1>1. ASSUME NEW query \in Queries, SetUrl(query) PROVE RunningInv'
  <2>1. /\ alive /\ UNCHANGED <<result, identity, wire, server, keepAlive, nextUrlQuery,
                                zapTimers, busy, slow>>
        /\ acted' = TRUE /\ urlQuery' = query /\ ~Waiting
    BY <1>1 DEF SetUrl, Idle, Play
  <2>2. CASE ready
    <3>1. Send("PLAY", session, query) /\ confirmed' = None
      BY <1>1, <2>2 DEF SetUrl, Play
    <3>2. /\ cseq' \in 0..CSeqs-1 /\ asked' \in Requests /\ asked'.kind = "PLAY"
          /\ toServer' \in Seq(Requests) /\ wait' \in 0..WaitLimit
      BY <3>1, SendTyped DEF Kinds, TypeOK
    <3> QED
      BY <2>1, <3>1, <3>2 DEF TypeOK, ZapTimerOwned, StopsZapping
  <2>3. CASE ~ready
    <3>1. UNCHANGED <<cseq, asked, wait, confirmed, toServer>>
      BY <1>1, <2>3 DEF SetUrl
    <3> QED
      BY <2>1, <3>1 DEF TypeOK, ZapTimerOwned, StopsZapping, Waiting
  <2> QED
    BY <2>2, <2>3
<1>2. ASSUME NEW query \in Queries, ZapUrl(query) PROVE RunningInv'
  <2>1. /\ alive /\ Send("PLAY", session, query) /\ confirmed' = None
        /\ UNCHANGED <<result, identity, wire, server, keepAlive, busy, slow>>
        /\ acted' = TRUE /\ urlQuery' = query /\ nextUrlQuery' = urlQuery
    BY <1>2 DEF ZapUrl, Idle, Play
  <2>2. zapTimers' = 1
    BY <1>2 DEF ZapUrl, ZapTimerOwned
  <2>3. /\ cseq' \in 0..CSeqs-1 /\ asked' \in Requests /\ asked'.kind = "PLAY"
        /\ toServer' \in Seq(Requests) /\ wait' \in 0..WaitLimit
    BY <2>1, SendTyped DEF Kinds, TypeOK
  <2> QED
    BY <2>1, <2>2, <2>3, RtspAssumption DEF TypeOK, ZapTimerOwned, StopsZapping
<1>3. CASE Stop
  <2>1. /\ alive /\ Send("TEARDOWN", session, None) /\ nextUrlQuery' = None
        /\ UNCHANGED <<result, identity, keepAlive, urlQuery, confirmed, wire, server,
                       busy, slow>>
        /\ acted' = TRUE
    BY <1>3 DEF Stop, Idle
  <2>2. zapTimers' = 0
    BY <1>3 DEF Stop, ZapTimerOwned
  <2>3. /\ cseq' \in 0..CSeqs-1 /\ asked' \in Requests /\ asked'.kind = "TEARDOWN"
        /\ toServer' \in Seq(Requests) /\ wait' \in 0..WaitLimit
    BY <2>1, SendTyped DEF Kinds, TypeOK
  <2> QED
    BY <2>1, <2>2, <2>3 DEF TypeOK, ZapTimerOwned, StopsZapping
<1>4. CASE ZapTimer
  <2>1. nextUrlQuery \in Queries
    BY <1>4 DEF ZapTimer, ZapTimerOwned, TypeOK
  <2>2. /\ alive /\ Send("PLAY", session, nextUrlQuery) /\ confirmed' = None
        /\ UNCHANGED <<result, identity, wire, server, keepAlive, zapTimers, busy, slow>>
        /\ acted' = TRUE /\ urlQuery' = nextUrlQuery /\ nextUrlQuery' = urlQuery
    BY <1>4 DEF ZapTimer, Idle, Play
  <2>3. zapTimers = 1
    BY <1>4 DEF ZapTimer, ZapTimerOwned
  <2>4. /\ cseq' \in 0..CSeqs-1 /\ asked' \in Requests /\ asked'.kind = "PLAY"
        /\ toServer' \in Seq(Requests) /\ wait' \in 0..WaitLimit
    BY <2>1, <2>2, SendTyped DEF Kinds, TypeOK
  <2> QED
    BY <2>1, <2>2, <2>3, <2>4, RtspAssumption DEF TypeOK, ZapTimerOwned, StopsZapping
<1>5. CASE SessionTimer
  <2>1. /\ alive /\ Send("OPTIONS", session, None) /\ keepAlive' = timeout
        /\ UNCHANGED <<result, identity, channel, confirmed, wire, server, clock>>
    BY <1>5 DEF SessionTimer, Idle
  <2>2. /\ cseq' \in 0..CSeqs-1 /\ asked' \in Requests /\ asked'.kind = "OPTIONS"
        /\ toServer' \in Seq(Requests) /\ wait' \in 0..WaitLimit
    BY <2>1, SendTyped DEF Kinds, TypeOK
  <2> QED
    BY <2>1, <2>2 DEF TypeOK, ZapTimerOwned, StopsZapping
<1> QED
  BY <1>1, <1>2, <1>3, <1>4, <1>5

\* So does the end of one.
LEMMA ReplyKeeps ==
  ASSUME RunningInv, ReadAnswer \/ GiveUp
  PROVE  RunningInv'
<1> DEFINE Done ==
      /\ session' \in BOOLEAN /\ timeout' \in Nat \ {0}
      /\ ExchangeTyped' /\ zapTimers' \in 0..1 /\ ZapTimerOwned' /\ StopsZapping'
      /\ ~alive' => asked' = None /\ zapTimers' = 0
<1>1. CASE ReadAnswer
  <2>1. PICK n \in 1..Len(toClient) :
          /\ ParseAnswer(buffered \o SubSeq(toClient, 1, n))
          /\ toClient' = IF alive' THEN SubSeq(toClient, n + 1, Len(toClient)) ELSE <<>>
    BY <1>1 DEF ReadAnswer
  <2>2. Done
    BY <1>1, <2>1, ParseKeeps DEF ReadAnswer
  <2>3. toClient' \in Seq(Parts) /\ (~alive' => toClient' = <<>>)
    BY <2>1, SubSeqTyped DEF RunningInv, TypeOK
  <2>4. buffered' = <<>> /\ UNCHANGED <<server, clock>>
    BY <1>1 DEF ReadAnswer
  <2> QED
    BY <2>2, <2>3, <2>4 DEF RunningInv, TypeOK, ExchangeTyped, server, clock
<1>2. CASE GiveUp
  <2>1. alive /\ Waiting /\ Outcome(FALSE) /\ UNCHANGED <<session, timeout, server, clock>>
    BY <1>2 DEF GiveUp
  <2>2. session' \in BOOLEAN /\ timeout' \in Nat \ {0}
    BY <2>1 DEF RunningInv, TypeOK
  <2>3. Done
    BY <2>1, <2>2, OutcomeKeeps
  <2>4. /\ toClient' \in Seq(Parts) /\ buffered' \in Seq(Parts)
        /\ ~alive' => toClient' = <<>>
    <3>1. toClient \in Seq(Parts) /\ buffered \in Seq(Parts)
      BY DEF RunningInv, TypeOK
    <3>2. CASE alive' /\ UNCHANGED wire
      BY <3>1, <3>2 DEF wire
    <3>3. CASE buffered' = <<>> /\ toClient' = <<>>
      BY <3>3
    <3> QED
      BY <1>2, <3>2, <3>3 DEF GiveUp
  <2> QED
    BY <2>1, <2>3, <2>4 DEF RunningInv, TypeOK, ExchangeTyped, server, clock
<1> QED
  BY <1>1, <1>2

\* What the server appends to the wire are parts of answers.
LEMMA AnswerTyped ==
  ASSUME NEW request \in Requests, NEW ok \in BOOLEAN, NEW known \in BOOLEAN,
         toClient \in Seq(Parts), ~alive => toClient = <<>>, Answer(request, ok, known)
  PROVE  toClient' \in Seq(Parts) /\ (~alive => toClient' = <<>>)
<1>1. \A name \in {"whole", "head", "rest"}, k \in BOOLEAN :
        Part(name, request, ok, k) \in Parts
  BY DEF Part, Parts, Requests
<1>2. <<Part("head", request, ok, FALSE), Part("rest", request, ok, known)>> \in Seq(Parts)
  BY <1>1, Written
<1>3. Append(toClient, Part("whole", request, ok, known)) \in Seq(Parts)
  BY <1>1, Appended
<1>4. toClient \o <<Part("head", request, ok, FALSE), Part("rest", request, ok, known)>>
        \in Seq(Parts)
  BY <1>2, Joined
<1> QED
  BY <1>3, <1>4 DEF Answer

\* The server, the network and the clock touch no timer of the client.
LEMMA OutsideKeeps ==
  ASSUME RunningInv, ServerStep \/ Tick \/ BlockLoop \/ SocketNotified
  PROVE  RunningInv'
<1> USE DEF RunningInv, identity, exchange, channel, wire, server, clock
<1>1. CASE ServerStep
  <2> DEFINE request == Head(toServer)
  <2>1. request \in Requests /\ toServer' \in Seq(Requests)
    BY <1>1, TailTyped DEF ServerStep, TypeOK
  <2>2. UNCHANGED <<identity, keepAlive, exchange, channel, confirmed, buffered, clock>>
    BY <1>1 DEF ServerStep
  <2>3. /\ toClient' \in Seq(Parts) /\ (~alive => toClient' = <<>>)
        /\ lease' \in 0..Expiry /\ playing' \in Queries \cup {None}
    <3>0. toClient \in Seq(Parts) /\ (~alive => toClient = <<>>)
          /\ lease \in 0..Expiry /\ playing \in Queries \cup {None}
          /\ 0 \in 0..Expiry /\ Expiry \in 0..Expiry
      BY RtspAssumption DEF TypeOK
    <3>1. CASE ServerSetup(request)
      <4>1. CASE lease' = Expiry /\ playing' = None /\ Answer(request, TRUE, TRUE)
        BY <2>1, <3>0, <4>1, AnswerTyped
      <4>2. CASE Answer(request, FALSE, FALSE) /\ UNCHANGED server
        BY <2>1, <3>0, <4>2, AnswerTyped
      <4> QED
        BY <3>1, <4>1, <4>2 DEF ServerSetup
    <3>2. CASE ServerUnknown(request)
      BY <2>1, <3>0, <3>2, AnswerTyped DEF ServerUnknown
    <3>3. CASE ServerKnown(request)
      <4>1. lease' \in 0..Expiry
        BY <3>0, <3>3 DEF ServerKnown
      <4>2. request.query \in Queries \cup {None}
        BY <2>1 DEF Requests
      <4>3. playing' \in {request.query, None, playing}
        BY <3>3 DEF ServerKnown
      <4>4. toClient' \in Seq(Parts) /\ (~alive => toClient' = <<>>)
        BY <2>1, <3>0, <3>3, AnswerTyped DEF ServerKnown
      <4> QED
        BY <3>0, <4>1, <4>2, <4>3, <4>4
    <3> QED
      BY <1>1, <3>1, <3>2, <3>3 DEF ServerStep
  <2> QED
    BY <2>1, <2>2, <2>3 DEF TypeOK, ZapTimerOwned, StopsZapping, Waiting
<1>2. CASE Tick
  <2>1. /\ wait' \in 0..WaitLimit /\ busy' \in 0..BusyLimit /\ keepAlive' \in Nat
        /\ lease' \in 0..Expiry /\ slow' \in 0..MaxSlow
    BY <1>2, RtspAssumption DEF Tick, Less, TypeOK
  <2>2. playing' \in Queries \cup {None} /\ acted' = FALSE
        /\ UNCHANGED <<identity, cseq, asked, result, channel, confirmed, wire, toServer>>
    BY <1>2 DEF Tick, TypeOK
  <2> QED
    BY <2>1, <2>2 DEF TypeOK, ZapTimerOwned, StopsZapping, Waiting
<1>3. CASE BlockLoop
  <2>1. busy' \in 0..BusyLimit
    BY <1>3, RtspAssumption DEF BlockLoop
  <2>2. UNCHANGED <<identity, keepAlive, exchange, channel, confirmed, wire, toServer,
                    server, slow, acted>>
    BY <1>3 DEF BlockLoop
  <2> QED
    BY <2>1, <2>2 DEF TypeOK, ZapTimerOwned, StopsZapping, Waiting
<1>4. CASE SocketNotified
  <2>1. buffered' \in Seq(Parts) /\ toClient' = <<>>
    BY <1>4, Joined DEF SocketNotified, TypeOK
  <2>2. UNCHANGED <<identity, keepAlive, exchange, channel, confirmed, toServer, server,
                    clock>>
    BY <1>4 DEF SocketNotified
  <2> QED
    BY <2>1, <2>2 DEF TypeOK, ZapTimerOwned, StopsZapping, Waiting
<1> QED
  BY <1>1, <1>2, <1>3, <1>4

LEMMA StutterKeeps == RunningInv /\ UNCHANGED vars => RunningInv'
BY DEF RunningInv, vars, identity, exchange, channel, wire, server, clock, TypeOK,
       ZapTimerOwned, StopsZapping, Waiting

LEMMA NextKeeps == RunningInv /\ [Next]_vars => RunningInv'
BY RequestKeeps, ReplyKeeps, OutsideKeeps, StutterKeeps DEF Next, UserAction, ClientStep

LEMMA Invariance == Spec => []RunningInv
BY Opening, NextKeeps, PTL DEF Spec

\* Type correctness of the session, the wire and the server, for every network.
THEOREM Typing == Spec => []TypeOK
<1>1. RunningInv => TypeOK
  BY DEF RunningInv
<1> QED
  BY <1>1, Invariance, PTL

\* The zap timer runs exactly while there is a query to zap to, after every order of
\* zaps, swaps, channel changes, stops, answers and lost answers.
THEOREM OneZapTimer == Spec => []ZapTimerOwned
<1>1. RunningInv => ZapTimerOwned
  BY DEF RunningInv
<1> QED
  BY <1>1, Invariance, PTL
----------------------------------------------------------------------------
(* A success is real: the sequence numbers on the wire stay apart.         *)

Elements(s) == {s[i] : i \in DOMAIN s}

\* The late ticks so far, and the requests that can have begun in this tick.
Spent == MaxSlow - slow
Recent == (IF acted THEN 1 ELSE 0) + (IF keepAlive > 0 THEN 1 ELSE 0)

\* How many requests have been sent since number n, if the last was number c.
Age(n, c) == IF n <= c THEN c - n ELSE c - n + CSeqs

\* Nothing on its way is as old as the numbers take to come round: a late tick lets at most
\* two requests pass, a blocked event loop two, and the buffer is emptied with every answer.
Young ==
  /\ \A r \in Elements(toServer) : Age(r.cseq, cseq) <= 2 * Spent + Recent
  /\ \A p \in Elements(toClient) :
       Age(p.cseq, cseq) <= 2 * (Spent + BusyLimit) + (IF busy > 0 THEN 0 ELSE Recent)
  /\ \A p \in Elements(buffered) :
       Age(p.cseq, cseq) <= 2 * (Spent + BusyLimit) + 2
                      + (IF Waiting /\ wait = WaitLimit THEN 1 ELSE 0)

\* The server is sent the requests in their order.
Numbered == \A i \in DOMAIN toServer : Age(toServer[i].cseq, cseq) = Len(toServer) - i

\* The request waited for, or its answer, is still on its way.
OnItsWay ==
  Waiting => /\ alive /\ busy = 0 /\ asked.cseq = cseq
             /\ toServer # <<>> \/ toClient # <<>>
             /\ toServer # <<>> => toServer[Len(toServer)] = asked

\* The number of the last request is answered by the last answer only.
Wire == Elements(toClient) \cup Elements(buffered)
Fresh == toServer # <<>> => \A p \in Wire : p.cseq # cseq

\* A success of the request waited for means that the server has executed it.
Answering == {p \in Wire : p.part # "rest" /\ p.ok /\ p.cseq = cseq}
Executed ==
  Waiting /\ Answering # {} =>
    /\ asked.kind = "PLAY" /\ lease > 0 => playing = asked.query
    /\ asked.kind = "TEARDOWN" => lease = 0

\* No request that is still on its way changes what a confirmed session is tuned to.
Mild == {"OPTIONS", "TEARDOWN"}
Tuned ==
  /\ confirmed # None =>
       /\ urlQuery = confirmed /\ ready
       /\ lease > 0 => playing = confirmed
       /\ \A r \in Elements(toServer) : r.kind \in Mild
       /\ Waiting => asked.kind \in Mild
  /\ Waiting /\ asked.kind = "PLAY" => asked.query = urlQuery /\ ready
  /\ zapTimers > 0 => ready
TornDown ==
  result = [kind |-> "TEARDOWN", ok |-> TRUE] => lease = 0 /\ ~alive /\ toServer = <<>>

\* The timer starts when the session is set up.
Untimed == Waiting /\ asked.kind = "SETUP" => keepAlive = 0 /\ zapTimers = 0

Apart == Young /\ Numbered /\ Fresh
ExchangeInv == Apart /\ OnItsWay /\ Untimed /\ Executed /\ Tuned /\ TornDown

LEMMA AppendedElements ==
  ASSUME NEW S, NEW s \in Seq(S), NEW e \in S
  PROVE  Elements(Append(s, e)) = Elements(s) \cup {e}
<1>1. /\ Len(s) \in Nat /\ DOMAIN s = 1..Len(s) /\ DOMAIN Append(s, e) = 1..(Len(s) + 1)
      /\ Append(s, e)[Len(s) + 1] = e /\ \A i \in 1..Len(s) : Append(s, e)[i] = s[i]
  OBVIOUS
<1>2. DOMAIN Append(s, e) = DOMAIN s \cup {Len(s) + 1} /\ \A i \in DOMAIN s : Append(s, e)[i] = s[i]
  BY <1>1
<1> QED
  BY <1>1, <1>2, Zenon DEF Elements

LEMMA JoinedElements ==
  ASSUME NEW S, NEW s \in Seq(S), NEW t \in Seq(S)
  PROVE  Elements(s \o t) = Elements(s) \cup Elements(t)
<1>1. \A i \in DOMAIN s : i \in DOMAIN (s \o t) /\ (s \o t)[i] = s[i]
  OBVIOUS
<1>2. \A i \in DOMAIN t : Len(s) + i \in DOMAIN (s \o t) /\ (s \o t)[Len(s) + i] = t[i]
  OBVIOUS
<1>3. \A i \in DOMAIN (s \o t) : i \in DOMAIN s \/ (i - Len(s) \in DOMAIN t /\ (s \o t)[i] = t[i - Len(s)])
  OBVIOUS
<1>4. ASSUME NEW x \in Elements(s \o t) PROVE x \in Elements(s) \cup Elements(t)
  <2>1. PICK i \in DOMAIN (s \o t) : x = (s \o t)[i]
    BY DEF Elements
  <2> QED
    BY <1>1, <1>3, <2>1 DEF Elements
<1>5. Elements(s) \subseteq Elements(s \o t)
  BY <1>1, Zenon DEF Elements
<1>6. Elements(t) \subseteq Elements(s \o t)
  BY <1>2, Zenon DEF Elements
<1> QED
  BY <1>4, <1>5, <1>6

LEMMA TailElements ==
  ASSUME NEW S, NEW s \in Seq(S), s # <<>>
  PROVE  /\ Elements(Tail(s)) \subseteq Elements(s) /\ Head(s) \in Elements(s)
         /\ Head(s) = s[1] /\ Len(Tail(s)) = Len(s) - 1
         /\ DOMAIN Tail(s) = 1..(Len(s) - 1)
         /\ \A i \in DOMAIN Tail(s) : i + 1 \in DOMAIN s /\ Tail(s)[i] = s[i + 1]
<1>1. Len(s) \in Nat \ {0} /\ DOMAIN s = 1..Len(s)
  OBVIOUS
<1>2. /\ Tail(s) \in Seq(S) /\ Len(Tail(s)) = Len(s) - 1
      /\ \A i \in 1..Len(Tail(s)) : Tail(s)[i] = s[i + 1]
  BY HeadTailProperties
<1>3. DOMAIN Tail(s) = 1..(Len(s) - 1)
  BY <1>2
<1>4. \A i \in DOMAIN Tail(s) : i + 1 \in DOMAIN s /\ Tail(s)[i] = s[i + 1]
  BY <1>1, <1>2, <1>3
<1>5. Head(s) = s[1]
  OBVIOUS
<1> QED
  BY <1>1, <1>2, <1>3, <1>4, <1>5 DEF Elements

LEMMA SubSeqElements ==
  ASSUME NEW S, NEW s \in Seq(S), NEW n \in 1..Len(s)
  PROVE  /\ Elements(SubSeq(s, 1, n)) \subseteq Elements(s)
         /\ Elements(SubSeq(s, n + 1, Len(s))) \subseteq Elements(s)
         /\ SubSeq(s, 1, n) \in Seq(S)
<1>3. /\ Len(s) \in Nat /\ DOMAIN s = 1..Len(s) /\ \A i \in 1..Len(s) : s[i] \in S
      /\ n \in 1..Len(s)
  OBVIOUS
<1>1. SubSeq(s, 1, n) = [i \in 1..n |-> s[i]]
  BY <1>3
<1>2. SubSeq(s, n + 1, Len(s)) = [i \in 1..(Len(s) - n) |-> s[n + i]]
  BY <1>3
<1>4. SubSeq(s, 1, n) \in Seq(S)
  BY <1>1, <1>3
<1>5. \A i \in 1..n : i \in DOMAIN s
  BY <1>3
<1>6. \A i \in 1..(Len(s) - n) : n + i \in DOMAIN s
  BY <1>3
<1>7. Elements(SubSeq(s, 1, n)) \subseteq Elements(s)
  BY <1>1, <1>5 DEF Elements
<1>8. Elements(SubSeq(s, n + 1, Len(s))) \subseteq Elements(s)
  BY <1>2, <1>6 DEF Elements
<1> QED
  BY <1>4, <1>7, <1>8

LEMMA EmptyElements == Elements(<<>>) = {}
BY DEF Elements

\* What is on the wire has sequence numbers.
LEMMA WireTyped ==
  ASSUME TypeOK
  PROVE  /\ \A r \in Elements(toServer) : r \in Requests /\ r.cseq \in 0..CSeqs-1
         /\ \A p \in Wire : p \in Parts /\ p.cseq \in 0..CSeqs-1
         /\ \A i \in DOMAIN toServer : toServer[i] \in Elements(toServer)
         /\ Len(toServer) \in Nat /\ DOMAIN toServer = 1..Len(toServer)
         /\ toServer # <<>> => Len(toServer) > 0
<1>1. toServer \in Seq(Requests) /\ toClient \in Seq(Parts) /\ buffered \in Seq(Parts)
  BY DEF TypeOK
<1>2. \A r \in Elements(toServer) : r \in Requests
  BY <1>1 DEF Elements
<1>3. \A p \in Wire : p \in Parts
  BY <1>1 DEF Elements, Wire
<1>4. \A r \in Requests : r.cseq \in 0..CSeqs-1
  BY DEF Requests
<1>5. \A p \in Parts : p.cseq \in 0..CSeqs-1
  BY DEF Parts
<1>6. /\ \A i \in DOMAIN toServer : toServer[i] \in Elements(toServer)
      /\ Len(toServer) \in Nat /\ DOMAIN toServer = 1..Len(toServer)
      /\ toServer # <<>> => Len(toServer) > 0
  BY <1>1 DEF Elements
<1> QED
  BY <1>2, <1>3, <1>4, <1>5, <1>6

LEMMA NextNumber ==
  ASSUME cseq \in 0..CSeqs-1
  PROVE  NextCSeq = IF cseq = CSeqs - 1 THEN 0 ELSE cseq + 1
<1>1. CSeqs \in Nat \ {0}
  BY RtspAssumption
<1>2. CASE cseq = CSeqs - 1
  BY <1>1, <1>2 DEF NextCSeq
<1>3. CASE cseq # CSeqs - 1
  BY <1>1, <1>3 DEF NextCSeq
<1> QED
  BY <1>2, <1>3

\* A number that is not too old grows older by one, and is not used again.
LEMMA NextAge ==
  ASSUME cseq \in 0..CSeqs-1, cseq' = NextCSeq, NEW n \in 0..CSeqs-1, Age(n, cseq) + 1 < CSeqs
  PROVE  Age(n, cseq') = Age(n, cseq) + 1 /\ n # cseq'
BY NextNumber, RtspAssumption DEF Age

LEMMA NoAge ==
  ASSUME TypeOK
  PROVE  /\ Age(cseq, cseq) = 0
         /\ \A n \in 0..CSeqs-1 : Age(n, cseq) \in Nat /\ (Age(n, cseq) = 0 => n = cseq)
BY RtspAssumption DEF Age, TypeOK

LEMMA Bounds ==
  ASSUME TypeOK
  PROVE  /\ Spent \in Nat /\ Spent <= MaxSlow /\ Recent \in 0..2
         /\ 2 * (Spent + BusyLimit) + 3 < CSeqs
<1>1. /\ slow \in 0..MaxSlow /\ MaxSlow \in Nat /\ BusyLimit \in Nat /\ CSeqs \in Nat
      /\ CSeqs > 2 * (MaxSlow + BusyLimit + 2)
  BY RtspAssumption DEF TypeOK
<1>2. Recent \in 0..2
  BY DEF Recent
<1> QED
  BY <1>1, <1>2 DEF Spent

\* So the next number is unlike all that are on the wire.
LEMMA WireAge ==
  ASSUME TypeOK, Young
  PROVE  /\ \A r \in Elements(toServer) : Age(r.cseq, cseq) + 1 < CSeqs
         /\ \A p \in Elements(toClient) : Age(p.cseq, cseq) + 1 < CSeqs
         /\ \A p \in Elements(buffered) : ~Waiting => Age(p.cseq, cseq) + 1 < CSeqs
<1>0. /\ BusyLimit \in Nat /\ CSeqs \in Nat /\ Spent \in Nat /\ Recent \in 0..2
      /\ 2 * (Spent + BusyLimit) + 3 < CSeqs
  BY Bounds, RtspAssumption
<1>1. ASSUME NEW r \in Elements(toServer) PROVE Age(r.cseq, cseq) + 1 < CSeqs
  <2>1. Age(r.cseq, cseq) \in Nat
    BY WireTyped, NoAge
  <2>2. Age(r.cseq, cseq) <= 2 * Spent + Recent
    BY DEF Young
  <2> QED
    BY <1>0, <2>1, <2>2
<1>2. \A p \in Wire : Age(p.cseq, cseq) \in Nat
  BY WireTyped, NoAge
<1>3. ASSUME NEW p \in Elements(toClient) PROVE Age(p.cseq, cseq) + 1 < CSeqs
  <2>1. Age(p.cseq, cseq) <= 2 * (Spent + BusyLimit) + (IF busy > 0 THEN 0 ELSE Recent)
    BY DEF Young
  <2> QED
    BY <1>0, <1>2, <2>1 DEF Wire
<1>4. ASSUME NEW p \in Elements(buffered), ~Waiting PROVE Age(p.cseq, cseq) + 1 < CSeqs
  <2>1. Age(p.cseq, cseq) <= 2 * (Spent + BusyLimit) + 2 + 0
    BY <1>4 DEF Young
  <2> QED
    BY <1>0, <1>2, <2>1 DEF Wire
<1> QED
  BY <1>1, <1>3, <1>4

LEMMA AgeOfLast == ASSUME NEW c \in Nat PROVE Age(c, c) = 0
BY DEF Age

\* A new request keeps the numbers apart.
LEMMA SendApart ==
  ASSUME TypeOK, Apart, NEW kind \in Kinds, NEW known \in BOOLEAN,
         NEW query \in Queries \cup {None}, Send(kind, known, query),
         Elements(toClient') \subseteq Elements(toClient),
         Elements(buffered') \subseteq IF Waiting THEN {} ELSE Elements(buffered),
         slow' = slow, busy = 0, busy' = 0, Recent' = Recent + 1
  PROVE  /\ Apart' /\ asked'.cseq = cseq' /\ toServer' # <<>> /\ asked' # None
         /\ asked'.kind = kind /\ asked'.query = query /\ asked'.session = known
         /\ toServer'[Len(toServer')] = asked'
         /\ Elements(toServer') = Elements(toServer) \cup {asked'}
<1>0. BusyLimit \in Nat /\ CSeqs \in Nat /\ WaitLimit \in Nat
  BY RtspAssumption
<1>1. /\ cseq' = NextCSeq /\ asked' = Request(kind, NextCSeq, known, query)
      /\ toServer' = Append(toServer, asked') /\ wait' = WaitLimit
  BY DEF Send
<1>2. asked' \in Requests /\ cseq' \in 0..CSeqs-1
  BY SendTyped
<1>3. /\ asked'.cseq = cseq' /\ asked' # None
      /\ asked'.kind = kind /\ asked'.query = query /\ asked'.session = known
  <2>1. asked'.cseq = cseq' /\ asked'.kind = kind /\ asked'.query = query /\ asked'.session = known
    BY <1>1 DEF Request
  <2>2. asked' # None
    BY <1>2, RtspAssumption
  <2> QED
    BY <2>1, <2>2
<1>4. Elements(toServer') = Elements(toServer) \cup {asked'}
  BY <1>1, <1>2, AppendedElements DEF TypeOK
<1>5. /\ \A r \in Elements(toServer) : Age(r.cseq, cseq') = Age(r.cseq, cseq) + 1 /\ r.cseq # cseq'
      /\ \A p \in Elements(toClient') \cup Elements(buffered') :
           Age(p.cseq, cseq') = Age(p.cseq, cseq) + 1 /\ p.cseq # cseq'
  <2>1. /\ \A r \in Elements(toServer) : r.cseq \in 0..CSeqs-1 /\ Age(r.cseq, cseq) + 1 < CSeqs
        /\ \A p \in Elements(toClient') \cup Elements(buffered') :
             p.cseq \in 0..CSeqs-1 /\ Age(p.cseq, cseq) + 1 < CSeqs
    BY WireAge, WireTyped DEF Apart, Wire
  <2> QED
    BY <1>1, <2>1, NextAge DEF TypeOK
<1>6. Age(asked'.cseq, cseq') = 0
  <2>1. cseq' \in Nat
    BY <1>0, <1>2
  <2> QED
    BY <1>3, <2>1, AgeOfLast
<1>7. /\ Spent \in Nat /\ Recent \in Nat /\ Spent' = Spent
      /\ \A p \in Wire : Age(p.cseq, cseq) \in Nat
  BY Bounds, WireTyped, NoAge DEF Spent
<1>8. Young'
  <2>1. \A r \in Elements(toServer') : Age(r.cseq, cseq') <= 2 * Spent' + Recent'
    BY <1>4, <1>5, <1>6, <1>7, Bounds, WireTyped, NoAge DEF Apart, Young
  <2>2. \A p \in Elements(toClient') :
          Age(p.cseq, cseq') <= 2 * (Spent' + BusyLimit) + (IF busy' > 0 THEN 0 ELSE Recent')
    <3>1. \A p \in Elements(toClient) : Age(p.cseq, cseq) <= 2 * (Spent + BusyLimit) + Recent
      BY DEF Apart, Young
    <3> SUFFICES ASSUME NEW p \in Elements(toClient')
                 PROVE  Age(p.cseq, cseq') <= 2 * (Spent + BusyLimit) + (Recent + 1)
      BY <1>7
    <3>2. Age(p.cseq, cseq') = Age(p.cseq, cseq) + 1 /\ Age(p.cseq, cseq) \in Nat
      BY <1>5, <1>7 DEF Wire
    <3> QED
      BY <1>0, <1>7, <3>1, <3>2
  <2>3. \A p \in Elements(buffered') : Age(p.cseq, cseq') <= 2 * (Spent' + BusyLimit) + 2 + 1
    <3>1. \A p \in Elements(buffered') : Age(p.cseq, cseq) <= 2 * (Spent + BusyLimit) + 2
      BY <1>0, Bounds DEF Apart, Young
    <3> SUFFICES ASSUME NEW p \in Elements(buffered')
                 PROVE  Age(p.cseq, cseq') <= 2 * (Spent + BusyLimit) + 2 + 1
      BY <1>7
    <3>2. Age(p.cseq, cseq') = Age(p.cseq, cseq) + 1 /\ Age(p.cseq, cseq) \in Nat
      BY <1>5, <1>7 DEF Wire
    <3> QED
      BY <1>0, <1>7, <3>1, <3>2
  <2> QED
    BY <1>1, <1>3, <2>1, <2>2, <2>3 DEF Young, Waiting
<1>9. Numbered'
  <2>1. Len(toServer') = Len(toServer) + 1 /\ DOMAIN toServer' = 1..Len(toServer) + 1
    BY <1>1, <1>2, WireTyped DEF TypeOK
  <2>2. \A i \in DOMAIN toServer : /\ toServer'[i] = toServer[i]
                                   /\ Age(toServer[i].cseq, cseq') = Len(toServer) - i + 1
    BY <1>1, <1>2, <1>5, WireTyped DEF Apart, Numbered, TypeOK
  <2>3. toServer'[Len(toServer) + 1] = asked'
    BY <1>1, <1>2 DEF TypeOK
  <2> QED
    BY <1>6, <2>1, <2>2, <2>3, WireTyped DEF Numbered
<1>10. Fresh'
  BY <1>5 DEF Fresh, Wire
<1>11. toServer' # <<>> /\ toServer'[Len(toServer')] = asked'
  <2>1. toServer \in Seq(Requests)
    BY DEF TypeOK
  <2> QED
    BY <1>1, <1>2, <2>1
<1> QED
  BY <1>3, <1>4, <1>8, <1>9, <1>10, <1>11 DEF Apart

\* A new request keeps the invariant: nothing on the wire answers it, and what is tuned to is
\* known again only with the answer to the last PLAY.
LEMMA SendKeeps ==
  ASSUME TypeOK, ExchangeInv, NEW kind \in Kinds, NEW known \in BOOLEAN,
         NEW query \in Queries \cup {None}, Send(kind, known, query),
         Elements(toClient') \subseteq Elements(toClient),
         Elements(buffered') \subseteq IF Waiting THEN {} ELSE Elements(buffered),
         UNCHANGED <<lease, playing>>, slow' = slow, busy = 0, busy' = 0, Recent' = Recent + 1,
         alive', zapTimers' > 0 => ready', result' # [kind |-> "TEARDOWN", ok |-> TRUE], kind # "SETUP",
         \/ kind = "PLAY" /\ confirmed' = None /\ query = urlQuery' /\ ready'
         \/ kind \in Mild /\ UNCHANGED <<confirmed, urlQuery, ready>>
  PROVE  ExchangeInv'
<1>1. /\ Apart' /\ asked'.cseq = cseq' /\ toServer' # <<>> /\ asked' # None
      /\ asked'.kind = kind /\ asked'.query = query
      /\ toServer'[Len(toServer')] = asked'
      /\ Elements(toServer') = Elements(toServer) \cup {asked'}
  BY SendApart DEF ExchangeInv
<1>2. OnItsWay' /\ Untimed'
  BY <1>1 DEF OnItsWay, Untimed
<1>3. Executed'
  BY <1>1 DEF Executed, Answering, Apart, Fresh
<1>4. Tuned'
  <2>1. CASE kind = "PLAY" /\ confirmed' = None /\ query = urlQuery' /\ ready'
    BY <1>1, <2>1 DEF Tuned
  <2>2. CASE kind \in Mild /\ UNCHANGED <<confirmed, urlQuery, ready>>
    BY <1>1, <2>2 DEF Tuned, ExchangeInv, Mild
  <2> QED
    BY <2>1, <2>2
<1>5. TornDown'
  BY DEF TornDown
<1> QED
  BY <1>1, <1>2, <1>3, <1>4, <1>5 DEF ExchangeInv

\* The requests of the user and of the timers.
LEMMA RequestSends ==
  ASSUME TypeOK, ZapTimerOwned, ExchangeInv,
         \/ \E query \in Queries : SetUrl(query) \/ ZapUrl(query)
         \/ Stop \/ ZapTimer \/ SessionTimer
  PROVE  ExchangeInv'
<1> DEFINE Calm == /\ alive /\ ~Waiting /\ busy = 0 /\ alive' = alive /\ busy' = busy
                   /\ slow' = slow /\ UNCHANGED <<result, wire, server, ready>>
<1>1. Calm
  <2>1. ASSUME NEW query, SetUrl(query) PROVE Calm
    BY <2>1 DEF SetUrl, Idle, Play, identity, exchange
  <2>2. ASSUME NEW query, ZapUrl(query) PROVE Calm
    BY <2>2 DEF ZapUrl, Idle, Play, identity
  <2>3. CASE Stop
    BY <2>3 DEF Stop, Idle, identity
  <2>4. CASE ZapTimer
    BY <2>4 DEF ZapTimer, Idle, Play, identity
  <2>5. CASE SessionTimer
    BY <2>5 DEF SessionTimer, Idle, identity, clock
  <2> QED
    BY <2>1, <2>2, <2>3, <2>4, <2>5
<1>2. /\ result' # [kind |-> "TEARDOWN", ok |-> TRUE] /\ UNCHANGED <<lease, playing>>
      /\ Elements(toClient') \subseteq Elements(toClient)
      /\ Elements(buffered') \subseteq IF Waiting THEN {} ELSE Elements(buffered)
  BY <1>1 DEF ExchangeInv, TornDown, wire, server
<1>3. ASSUME NEW query \in Queries, ready, Recent' = Recent + 1, Play(query), urlQuery' = query
      PROVE  ExchangeInv'
  BY <1>1, <1>2, <1>3, SendKeeps DEF Play, TypeOK, Kinds
<1>4. ASSUME NEW kind \in Mild, Send(kind, session, None), Recent' = Recent + 1,
             UNCHANGED <<confirmed, urlQuery>>, zapTimers' > 0 => zapTimers > 0
      PROVE  ExchangeInv'
  <2>1. zapTimers' > 0 => ready'
    BY <1>1, <1>4 DEF ExchangeInv, Tuned
  <2> QED
    BY <1>1, <1>2, <1>4, <2>1, SendKeeps DEF Mild, TypeOK, Kinds
<1>5. ASSUME NEW query \in Queries, SetUrl(query)
      PROVE  ExchangeInv'
  <2>1. Recent' = Recent + 1 /\ urlQuery' = query
    BY <1>5 DEF SetUrl, Recent
  <2>2. CASE ready
    BY <1>3, <1>5, <2>1, <2>2 DEF SetUrl
  <2>3. CASE ~ready
    <3>1. /\ UNCHANGED <<exchange, confirmed, toServer, identity, wire, server, slow, busy,
                       zapTimers>>
          /\ ~Waiting /\ confirmed = None
      BY <1>1, <1>5, <2>3 DEF SetUrl, ExchangeInv, Tuned
    <3>2. Spent' = Spent /\ Wire' = Wire /\ ~Waiting'
      BY <3>1 DEF Spent, Wire, wire, exchange, Waiting
    <3>3. Young'
      <4>1. \A r \in Elements(toServer) : Age(r.cseq, cseq) <= 2 * Spent + (Recent + 1)
        BY Bounds, WireTyped, NoAge DEF ExchangeInv, Apart, Young
      <4>2. \A p \in Elements(toClient) : Age(p.cseq, cseq) <= 2 * (Spent + BusyLimit) + (Recent + 1)
        <5> SUFFICES ASSUME NEW p \in Elements(toClient)
                     PROVE  Age(p.cseq, cseq) <= 2 * (Spent + BusyLimit) + (Recent + 1)
          OBVIOUS
        <5>1. Age(p.cseq, cseq) <= 2 * (Spent + BusyLimit) + Recent
          BY <1>1 DEF ExchangeInv, Apart, Young
        <5>2. /\ Age(p.cseq, cseq) \in Nat /\ Spent \in Nat /\ BusyLimit \in Nat
              /\ Recent \in Nat
          <6>1. p \in Wire
            BY DEF Wire
          <6>2. Age(p.cseq, cseq) \in Nat
            BY <6>1, WireTyped, NoAge
          <6> QED
            BY <6>2, Bounds, RtspAssumption
        <5> QED
          BY <5>1, <5>2
      <4> QED
        BY <1>1, <2>1, <3>1, <3>2, <4>1, <4>2 DEF ExchangeInv, Apart, Young, exchange, wire
    <3> QED
      BY <3>1, <3>2, <3>3 DEF ExchangeInv, Apart, Numbered, Fresh, OnItsWay, Untimed, Executed,
                              Tuned, TornDown, exchange, identity, server
  <2> QED
    BY <2>2, <2>3
<1>6. ASSUME NEW query \in Queries, ZapUrl(query)
      PROVE  ExchangeInv'
  BY <1>3, <1>6 DEF ZapUrl, Recent
<1>7. CASE Stop
  BY <1>4, <1>7 DEF Stop, Recent, Mild, TypeOK, ZapTimerOwned
<1>8. CASE ZapTimer
  <2>1. nextUrlQuery \in Queries
    BY <1>8 DEF ZapTimer, ZapTimerOwned, TypeOK
  <2>2. ready
    BY <1>8 DEF ZapTimer, ExchangeInv, Tuned
  <2> QED
    BY <1>3, <1>8, <2>1, <2>2 DEF ZapTimer, Recent
<1>9. CASE SessionTimer
  BY <1>4, <1>9 DEF SessionTimer, SessionTimerDue, Recent, Mild, channel, clock, TypeOK
<1> QED
  BY <1>5, <1>6, <1>7, <1>8, <1>9

\* An answer that is taken for a success answers the last request, which the server has got.
LEMMA MatchIsAnswer ==
  ASSUME TypeOK, ExchangeInv, Waiting, NEW n \in 1..Len(toClient),
         Matches(buffered \o SubSeq(toClient, 1, n))
  PROVE  Answering # {} /\ toServer = <<>>
<1> DEFINE read == SubSeq(toClient, 1, n)
<1> DEFINE data == buffered \o read
<1>1. /\ toClient \in Seq(Parts) /\ buffered \in Seq(Parts)
      /\ read \in Seq(Parts)
      /\ Elements(read) \subseteq Elements(toClient)
  BY SubSeqElements DEF TypeOK
<1>2. Elements(data) \subseteq Wire
  <2> HIDE DEF read
  <2>1. Elements(buffered \o read) = Elements(buffered) \cup Elements(read)
    BY <1>1, JoinedElements
  <2> QED
    BY <1>1, <2>1 DEF Wire
<1>3. 1 \in DOMAIN data /\ data[1].part # "rest" /\ data[1].ok /\ data[1].cseq = asked.cseq
  BY DEF Matches, Heads
<1>4. data[1] \in Wire
  BY <1>2, <1>3 DEF Elements
<1>5. asked.cseq = cseq
  BY DEF ExchangeInv, OnItsWay
<1>6. data[1] \in Answering
  BY <1>3, <1>4, <1>5 DEF Answering
<1> QED
  BY <1>3, <1>4, <1>5, <1>6 DEF ExchangeInv, Apart, Fresh

\* The end of a request that sends no other.
LEMMA ReleaseKeeps ==
  ASSUME TypeOK, ExchangeInv, Released, UNCHANGED <<keepAlive, clock>>,
         Elements(toClient') \subseteq Elements(toClient),
         Elements(buffered') \subseteq IF wait = 0 THEN Elements(buffered) ELSE {}
  PROVE  Apart' /\ OnItsWay' /\ Untimed' /\ Executed'
<1>1. /\ ~Waiting' /\ UNCHANGED <<cseq, toServer, busy, slow, acted, keepAlive>>
      /\ Spent' = Spent /\ Recent' = Recent
  BY DEF Released, Waiting, clock, Spent, Recent
<1>2. Wire' \subseteq Wire
  BY DEF Wire
<1>3. wait = 0 => wait # WaitLimit
  BY RtspAssumption
<1>4. Young'
  <2>1. \A p \in Elements(buffered') : Age(p.cseq, cseq) <= 2 * (Spent + BusyLimit) + 2 + 0
    BY <1>3 DEF ExchangeInv, Apart, Young
  <2> QED
    BY <1>1, <2>1 DEF ExchangeInv, Apart, Young
<1>5. Numbered' /\ Fresh'
  BY <1>1, <1>2 DEF ExchangeInv, Apart, Numbered, Fresh
<1> QED
  BY <1>1, <1>4, <1>5 DEF Apart, OnItsWay, Untimed, Executed

LEMMA EndKeeps ==
  ASSUME TypeOK, TypeOK', ExchangeInv, alive, Waiting, NEW ok \in BOOLEAN, Outcome(ok),
         ok => Answering # {} /\ toServer = <<>> /\ buffered' = <<>>,
         Elements(toClient') \subseteq Elements(toClient),
         Elements(buffered') \subseteq IF wait = 0 THEN Elements(buffered) ELSE {},
         UNCHANGED <<server, clock>>
  PROVE  ExchangeInv'
<1>0. UNCHANGED <<lease, playing, busy, slow, acted>> /\ busy = 0
  <2>1. UNCHANGED <<lease, playing, busy, slow, acted>>
    BY DEF server, clock
  <2> QED
    BY <2>1 DEF ExchangeInv, OnItsWay
<1>1. CASE SetupDone(ok) /\ ok
  <2>1. /\ Send("PLAY", session', urlQuery) /\ keepAlive' = timeout' /\ ready' /\ alive'
        /\ UNCHANGED <<urlQuery, confirmed, zapTimers>> /\ asked.kind = "SETUP"
    BY <1>1 DEF SetupDone, channel
  <2>2. confirmed = None /\ keepAlive = 0
    BY <2>1 DEF ExchangeInv, Tuned, Mild, Untimed
  <2>3. Recent' = Recent + 1
    <3>1. keepAlive' > 0
      BY <2>1 DEF TypeOK
    <3> QED
      BY <1>0, <2>2, <3>1 DEF Recent
  <2>4. result' # [kind |-> "TEARDOWN", ok |-> TRUE]
    BY <2>1 DEF Outcome
  <2>5. Elements(buffered') = {}
    BY <1>1, EmptyElements
  <2>6. session' \in BOOLEAN /\ urlQuery \in Queries \cup {None} /\ "PLAY" \in Kinds
    BY DEF TypeOK, Kinds
  <2> QED
    BY <1>0, <2>1, <2>2, <2>3, <2>4, <2>5, <2>6, SendKeeps
<1>2. CASE SetupDone(ok) /\ ~ok
  <2>1. /\ Released /\ UNCHANGED <<keepAlive, urlQuery, confirmed, zapTimers>>
        /\ asked.kind = "SETUP"
    BY <1>2 DEF SetupDone, channel
  <2>2. confirmed = None /\ zapTimers = 0
    BY <2>1 DEF ExchangeInv, Tuned, Mild, Untimed
  <2>3. Tuned'
    BY <2>1, <2>2 DEF Tuned, Released, Waiting
  <2>4. TornDown'
    BY <2>1 DEF Outcome, TornDown
  <2> QED
    BY <2>1, <2>3, <2>4, ReleaseKeeps DEF ExchangeInv
<1>3. CASE RequestDone(ok)
  <2>1. /\ Released /\ UNCHANGED <<keepAlive, urlQuery, zapTimers, ready>>
        /\ asked.kind \in {"PLAY", "OPTIONS"}
        /\ confirmed' = IF asked.kind = "PLAY" /\ ok THEN asked.query ELSE confirmed
    BY <1>3 DEF RequestDone, channel
  <2>2. TornDown'
    BY <2>1 DEF Outcome, TornDown
  <2>3. CASE asked.kind = "PLAY" /\ ok
    <3>1. /\ asked.query = urlQuery /\ ready /\ toServer = <<>>
          /\ lease > 0 => playing = asked.query
      BY <2>3 DEF ExchangeInv, Tuned, Executed
    <3>2. Tuned'
      BY <1>0, <2>1, <2>3, <3>1, EmptyElements DEF Tuned, Released, Waiting
    <3> QED
      BY <2>1, <2>2, <3>2, ReleaseKeeps DEF ExchangeInv
  <2>4. CASE ~(asked.kind = "PLAY" /\ ok)
    <3>1. Tuned'
      BY <1>0, <2>1, <2>4 DEF ExchangeInv, Tuned, Released, Waiting
    <3> QED
      BY <2>1, <2>2, <3>1, ReleaseKeeps DEF ExchangeInv
  <2> QED
    BY <2>3, <2>4
<1>4. CASE TeardownDone
  <2>1. /\ Released /\ UNCHANGED <<ready, keepAlive, urlQuery, confirmed>>
        /\ ~alive' /\ zapTimers' = 0 /\ asked.kind = "TEARDOWN"
    BY <1>4 DEF TeardownDone
  <2>2. TornDown'
    <3>1. ok => lease = 0 /\ toServer = <<>>
      BY <2>1 DEF ExchangeInv, Executed
    <3>2. result' = [kind |-> "TEARDOWN", ok |-> TRUE] => ok
      BY DEF Outcome
    <3> QED
      BY <1>0, <2>1, <3>1, <3>2 DEF TornDown, Released
  <2>3. Tuned'
    BY <1>0, <2>1 DEF ExchangeInv, Tuned, Released, Waiting
  <2> QED
    BY <2>1, <2>2, <2>3, ReleaseKeeps DEF ExchangeInv
<1> QED
  BY <1>1, <1>2, <1>3, <1>4 DEF Outcome

LEMMA AnswerKeeps ==
  ASSUME TypeOK, TypeOK', ExchangeInv, ReadAnswer \/ GiveUp
  PROVE  ExchangeInv'
<1>1. CASE ReadAnswer
  <2>1. PICK n \in 1..Len(toClient) :
          /\ ParseAnswer(buffered \o SubSeq(toClient, 1, n))
          /\ toClient' = IF alive' THEN SubSeq(toClient, n + 1, Len(toClient)) ELSE <<>>
    BY <1>1 DEF ReadAnswer
  <2>2. alive /\ Waiting /\ buffered' = <<>> /\ UNCHANGED <<server, clock>>
    BY <1>1 DEF ReadAnswer
  <2> DEFINE ok == Matches(buffered \o SubSeq(toClient, 1, n))
  <2>3. ok \in BOOLEAN
    BY DEF Matches
  <2>4. Outcome(ok)
    BY <2>1 DEF ParseAnswer
  <2>5. ok => Answering # {} /\ toServer = <<>>
    BY <2>2, MatchIsAnswer
  <2>6. Elements(toClient') \subseteq Elements(toClient)
    BY <2>1, SubSeqElements, EmptyElements DEF TypeOK
  <2>7. Elements(buffered') = {}
    BY <2>2, EmptyElements
  <2> HIDE DEF ok
  <2> QED
    BY <2>2, <2>3, <2>4, <2>5, <2>6, <2>7, EndKeeps
<1>2. CASE GiveUp
  <2>1. alive /\ Waiting /\ wait = 0 /\ Outcome(FALSE) /\ UNCHANGED <<server, clock>>
    BY <1>2 DEF GiveUp
  <2>2. /\ Elements(toClient') \subseteq Elements(toClient)
        /\ Elements(buffered') \subseteq Elements(buffered)
    BY <1>2, EmptyElements DEF GiveUp, wire
  <2> QED
    BY <2>1, <2>2, EndKeeps
<1> QED
  BY <1>1, <1>2

\* What the server puts on the wire carries the number of the request.
LEMMA AnswerElements ==
  ASSUME NEW request \in Requests, NEW ok \in BOOLEAN, NEW known \in BOOLEAN,
         toClient \in Seq(Parts), Answer(request, ok, known)
  PROVE  /\ \A p \in Elements(toClient') :
              p \in Elements(toClient) \/ (p.cseq = request.cseq /\ p.ok = ok)
         /\ alive => toClient' # <<>>
<1>1. \A name \in {"whole", "head", "rest"}, k \in BOOLEAN :
        /\ Part(name, request, ok, k) \in Parts
        /\ Part(name, request, ok, k).cseq = request.cseq
        /\ Part(name, request, ok, k).ok = ok
  BY DEF Part, Parts, Requests
<1>2. CASE ~alive
  BY <1>2 DEF Answer
<1>3. CASE toClient' = Append(toClient, Part("whole", request, ok, known))
  <2>1. Elements(toClient') = Elements(toClient) \cup {Part("whole", request, ok, known)}
    BY <1>1, <1>3, AppendedElements
  <2>2. toClient' # <<>>
    BY <1>1, <1>3
  <2> QED
    BY <1>1, <2>1, <2>2
<1>4. ASSUME toClient' = toClient \o <<Part("head", request, ok, FALSE),
                                       Part("rest", request, ok, known)>>
      PROVE  /\ \A p \in Elements(toClient') :
                  p \in Elements(toClient) \/ (p.cseq = request.cseq /\ p.ok = ok)
             /\ toClient' # <<>>
  <2> DEFINE d == Part("head", request, ok, FALSE)
  <2> DEFINE e == Part("rest", request, ok, known)
  <2>1. d \in Parts /\ e \in Parts
    BY <1>1
  <2>2. toClient' = toClient \o <<d, e>>
    BY <1>4
  <2>3. d.cseq = request.cseq /\ d.ok = ok /\ e.cseq = request.cseq /\ e.ok = ok
    BY <1>1
  <2> HIDE DEF d, e
  <2> DEFINE parts == <<d, e>>
  <2>4. parts \in Seq(Parts) /\ Elements(parts) = {d, e}
    BY <2>1 DEF Elements
  <2>5. Elements(toClient') = Elements(toClient) \cup {d, e}
    <3>1. toClient' = toClient \o parts
      BY <2>2
    <3> HIDE DEF parts
    <3>2. Elements(toClient \o parts) = Elements(toClient) \cup Elements(parts)
      BY <2>4, JoinedElements
    <3> QED
      BY <2>4, <3>1, <3>2
  <2>6. toClient' # <<>>
    BY <2>1, <2>2
  <2> QED
    BY <2>3, <2>5, <2>6
<1> QED
  BY <1>2, <1>3, <1>4 DEF Answer

LEMMA EmptyLength ==
  ASSUME NEW S, NEW s \in Seq(S)
  PROVE  s = <<>> <=> Len(s) = 0
OBVIOUS

LEMMA ServerApart ==
  ASSUME TypeOK, ExchangeInv, ServerStep
  PROVE  /\ Apart' /\ OnItsWay' /\ Untimed'
         /\ Len(toServer) > 1 <=> toServer' # <<>>
         /\ \A p \in Elements(toClient') :
              \/ p \in Elements(toClient)
              \/ /\ p.cseq = Head(toServer).cseq
                 /\ p.ok => ~ServerUnknown(Head(toServer))
<1> DEFINE request == Head(toServer)
<1>1. /\ toServer # <<>> /\ toServer' = Tail(toServer) /\ request \in Elements(toServer)
      /\ request = toServer[1] /\ Len(toServer') = Len(toServer) - 1
      /\ DOMAIN toServer' = 1..(Len(toServer) - 1) /\ 1 \in DOMAIN toServer
      /\ Elements(toServer') \subseteq Elements(toServer)
      /\ \A i \in DOMAIN toServer' : i + 1 \in DOMAIN toServer /\ toServer'[i] = toServer[i + 1]
  BY TailElements, WireTyped DEF ServerStep, TypeOK
<1>2. /\ UNCHANGED <<cseq, asked, wait, keepAlive, zapTimers, buffered, busy, slow, acted, alive>>
      /\ Spent' = Spent /\ Recent' = Recent /\ Waiting' = Waiting
  BY DEF ServerStep, identity, exchange, channel, clock, Spent, Recent, Waiting
<1>3. /\ request \in Requests /\ request.cseq \in 0..CSeqs-1 /\ Len(toServer) \in Nat \ {0}
      /\ toClient \in Seq(Parts)
  BY <1>1, WireTyped DEF TypeOK
<1>4. /\ \A p \in Elements(toClient') :
              \/ p \in Elements(toClient)
              \/ p.cseq = request.cseq /\ (p.ok => ~ServerUnknown(request))
      /\ alive => toClient' # <<>>
  <2>1. CASE ServerSetup(request)
    <3>1. PICK ok \in BOOLEAN : Answer(request, ok, ok)
      BY <2>1 DEF ServerSetup
    <3> QED
      BY <1>3, <2>1, <3>1, AnswerElements DEF ServerSetup, ServerUnknown
  <2>2. CASE ServerUnknown(request)
    <3>1. Answer(request, FALSE, FALSE)
      BY <2>2 DEF ServerUnknown
    <3> QED
      BY <1>3, <3>1, AnswerElements
  <2>3. CASE ServerKnown(request)
    <3>1. Answer(request, TRUE, TRUE) /\ ~ServerUnknown(request)
      BY <2>3 DEF ServerKnown, ServerUnknown
    <3> QED
      BY <1>3, <3>1, AnswerElements
  <2> QED
    BY <2>1, <2>2, <2>3 DEF ServerStep
<1>5. Age(request.cseq, cseq) = Len(toServer) - 1
  BY <1>1 DEF ExchangeInv, Apart, Numbered
<1>6. Len(toServer) > 1 <=> toServer' # <<>>
  <2>1. toServer' \in Seq(Requests)
    BY <1>1, TailTyped DEF TypeOK
  <2>2. toServer' = <<>> <=> Len(toServer') = 0
    BY <2>1, EmptyLength
  <2> QED
    BY <1>1, <1>3, <2>2
<1>7. Young'
  <2>1. /\ Spent \in Nat /\ BusyLimit \in Nat /\ Recent \in 0..2 /\ busy \in 0..BusyLimit
        /\ Age(request.cseq, cseq) \in Nat
    BY <1>3, Bounds, NoAge, RtspAssumption DEF TypeOK
  <2>2. Age(request.cseq, cseq) <= 2 * Spent + Recent
    BY <1>1 DEF ExchangeInv, Apart, Young
  <2>3. Age(request.cseq, cseq) <= 2 * (Spent + BusyLimit) + (IF busy > 0 THEN 0 ELSE Recent)
    BY <2>1, <2>2
  <2>4. \A p \in Elements(toClient') :
          Age(p.cseq, cseq) <= 2 * (Spent + BusyLimit) + (IF busy > 0 THEN 0 ELSE Recent)
    BY <1>4, <2>3, Zenon DEF ExchangeInv, Apart, Young
  <2>5. \A r \in Elements(toServer') : Age(r.cseq, cseq) <= 2 * Spent + Recent
    BY <1>1, Zenon DEF ExchangeInv, Apart, Young
  <2> QED
    BY <1>2, <2>4, <2>5, Zenon DEF ExchangeInv, Apart, Young
<1>8. Numbered'
  <2> SUFFICES ASSUME NEW i \in DOMAIN toServer'
               PROVE  Age(toServer'[i].cseq, cseq) = Len(toServer') - i
    BY <1>2, Zenon DEF Numbered
  <2>1. Age(toServer[i + 1].cseq, cseq) = Len(toServer) - (i + 1)
    BY <1>1 DEF ExchangeInv, Apart, Numbered
  <2> QED
    BY <1>1, <1>3, <2>1
<1>9. Fresh'
  <2> SUFFICES ASSUME toServer' # <<>>, NEW p \in Wire' PROVE p.cseq # cseq
    BY <1>2 DEF Fresh
  <2>1. request.cseq # cseq
    <3>1. Age(cseq, cseq) = 0
      BY NoAge
    <3> QED
      BY <1>3, <1>5, <1>6, <3>1
  <2> QED
    BY <1>1, <1>2, <1>4, <2>1 DEF Wire, ExchangeInv, Apart, Fresh
<1>10. OnItsWay'
  <2> SUFFICES ASSUME Waiting
               PROVE  toServer' # <<>> => toServer'[Len(toServer')] = asked
    BY <1>2, <1>4 DEF ExchangeInv, OnItsWay
  <2>1. toServer[Len(toServer)] = asked
    BY <1>1 DEF ExchangeInv, OnItsWay
  <2>2. ASSUME toServer' # <<>> PROVE toServer'[Len(toServer) - 1] = toServer[Len(toServer)]
    <3>1. Len(toServer) - 1 \in DOMAIN toServer' /\ (Len(toServer) - 1) + 1 = Len(toServer)
      BY <1>1, <1>3, <1>6, <2>2
    <3> QED
      BY <1>1, <3>1
  <2> QED
    BY <1>1, <2>1, <2>2
<1>11. Untimed'
  BY <1>2 DEF ExchangeInv, Untimed
<1> QED
  BY <1>4, <1>6, <1>7, <1>8, <1>9, <1>10, <1>11 DEF Apart

\* The server executes a request before the answer to it is on the wire.
LEMMA ServerExchanges ==
  ASSUME TypeOK, ExchangeInv, ServerStep
  PROVE  ExchangeInv'
<1> DEFINE request == Head(toServer)
<1>1. /\ UNCHANGED <<cseq, asked, buffered, confirmed, urlQuery, ready, zapTimers, result>>
      /\ Waiting' = Waiting
  BY DEF ServerStep, identity, exchange, channel, Waiting
<1>2. /\ toServer # <<>> /\ toServer' = Tail(toServer)
      /\ ServerSetup(request) \/ ServerUnknown(request) \/ ServerKnown(request)
  BY DEF ServerStep
<1>3. /\ request \in Elements(toServer) /\ request = toServer[1]
      /\ Elements(toServer') \subseteq Elements(toServer) /\ Len(toServer) \in Nat \ {0}
  BY <1>2, TailElements, WireTyped DEF TypeOK
<1>4. Executed'
  <2> SUFFICES ASSUME Waiting, NEW p \in Answering'
               PROVE  /\ asked.kind = "PLAY" /\ lease' > 0 => playing' = asked.query
                      /\ asked.kind = "TEARDOWN" => lease' = 0
    BY <1>1 DEF Executed
  <2>1. p \in Wire' /\ p.ok /\ p.cseq = cseq
    BY <1>1 DEF Answering
  <2>2. toServer' = <<>>
    BY <1>1, <2>1, ServerApart DEF Apart, Fresh
  <2>3. request = asked
    <3>1. Len(toServer) = 1
      <4>1. ~(Len(toServer) > 1)
        BY <2>2, ServerApart, Zenon
      <4> QED
        BY <1>3, <4>1
    <3> QED
      BY <1>2, <1>3, <3>1 DEF ExchangeInv, OnItsWay
  <2>4. p \notin Wire
    BY <1>2, <2>1 DEF ExchangeInv, Apart, Fresh
  <2>5. ~ServerUnknown(request)
    BY <1>1, <2>1, <2>4, ServerApart DEF Wire
  <2>6. CASE ServerSetup(request)
    BY <2>3, <2>6 DEF ServerSetup
  <2>7. CASE ServerKnown(request)
    BY <2>3, <2>7 DEF ServerKnown
  <2> QED
    BY <1>2, <2>5, <2>6, <2>7
<1>5. Tuned'
  <2>1. ASSUME confirmed # None, lease' > 0 PROVE playing' = confirmed
    <3>1. request.kind \in Mild /\ (lease > 0 => playing = confirmed)
      BY <1>3, <2>1 DEF ExchangeInv, Tuned
    <3>2. CASE ServerSetup(request)
      BY <3>1, <3>2 DEF ServerSetup, Mild
    <3>3. CASE ServerUnknown(request)
      BY <2>1, <3>1, <3>3 DEF ServerUnknown, server
    <3>4. CASE ServerKnown(request)
      <4>1. CASE request.kind = "OPTIONS"
        BY <3>1, <3>4, <4>1 DEF ServerKnown
      <4>2. CASE request.kind = "TEARDOWN"
        BY <2>1, <3>4, <4>2 DEF ServerKnown
      <4> QED
        BY <3>1, <4>1, <4>2 DEF Mild
    <3> QED
      BY <1>2, <3>2, <3>3, <3>4
  <2> QED
    BY <1>1, <1>3, <2>1 DEF ExchangeInv, Tuned
<1>6. TornDown'
  BY <1>1, <1>2 DEF ExchangeInv, TornDown
<1> QED
  BY <1>4, <1>5, <1>6, ServerApart DEF ExchangeInv

LEMMA SeqOfOne ==
  ASSUME NEW e
  PROVE  <<e>> # <<>> /\ Len(<<e>>) = 1 /\ DOMAIN <<e>> = {1} /\ <<e>>[1] = e
OBVIOUS

LEMMA OpensExchange == Init => ExchangeInv
<1> SUFFICES ASSUME Init PROVE ExchangeInv
  OBVIOUS
<1>1. /\ cseq = 1 /\ asked = Request("SETUP", 1, FALSE, urlQuery) /\ toServer = <<asked>>
      /\ buffered = <<>> /\ toClient = <<>> /\ keepAlive = 0 /\ zapTimers = 0 /\ confirmed = None
      /\ result = [kind |-> "none", ok |-> TRUE] /\ alive /\ busy = 0 /\ slow = MaxSlow /\ ~acted
  BY DEF Init
<1>2. asked.cseq = 1 /\ asked.kind = "SETUP"
  BY <1>1 DEF Request
<1>3. /\ Elements(toServer) = {asked} /\ Elements(buffered) = {} /\ Elements(toClient) = {}
      /\ toServer # <<>> /\ Len(toServer) = 1 /\ DOMAIN toServer = {1} /\ toServer[1] = asked
  <2>1. Elements(buffered) = {} /\ Elements(toClient) = {}
    BY <1>1, EmptyElements
  <2>2. DOMAIN toServer = {1} /\ toServer[1] = asked /\ Len(toServer) = 1 /\ toServer # <<>>
    BY <1>1, Zenon, SeqOfOne
  <2> QED
    BY <2>1, <2>2 DEF Elements
<1>4. Age(asked.cseq, cseq) = 0
  <2>1. Age(1, 1) = 0
    BY AgeOfLast
  <2> QED
    BY <1>1, <1>2, <2>1, Zenon
<1>5. Young
  <2>1. Spent = 0 /\ Recent = 0
    BY <1>1, RtspAssumption DEF Spent, Recent
  <2> QED
    BY <1>3, <1>4, <2>1 DEF Young
<1>6. Numbered /\ Fresh
  BY <1>3, <1>4 DEF Numbered, Fresh, Wire
<1>7. OnItsWay /\ Untimed /\ Executed
  BY <1>1, <1>2, <1>3 DEF OnItsWay, Untimed, Executed
<1>8. Tuned
  <2>1. asked.kind # "PLAY"
    BY <1>2
  <2>2. ~(zapTimers > 0)
    BY <1>1
  <2> QED
    BY <1>1, <2>1, <2>2, Zenon DEF Tuned
<1>9. TornDown
  BY <1>1 DEF TornDown
<1> QED
  BY <1>5, <1>6, <1>7, <1>8, <1>9 DEF ExchangeInv, Apart

\* The clock: unless a tick is late, nothing waits on the wire for the client.
LEMMA TickExchanges ==
  ASSUME TypeOK, ExchangeInv, Tick
  PROVE  ExchangeInv'
<1>1. /\ UNCHANGED <<cseq, asked, result, confirmed, urlQuery, zapTimers, buffered, toClient,
                     toServer, alive, ready>>
      /\ Waiting' = Waiting /\ Wire' = Wire /\ Answering' = Answering
  BY DEF Tick, identity, channel, wire, Waiting, Wire, Answering
<1>2. /\ busy' = Less(busy) /\ keepAlive' = Less(keepAlive) /\ lease' = Less(lease)
      /\ playing' = IF lease' = 0 THEN None ELSE playing
      /\ wait' = Less(wait) /\ (Waiting => wait > 0) /\ acted' = FALSE
      /\ IF Prompt THEN UNCHANGED slow ELSE slow > 0 /\ slow' = slow - 1
  BY DEF Tick
<1>3. /\ Spent \in Nat /\ BusyLimit \in Nat /\ Recent \in 0..2 /\ busy \in 0..BusyLimit
      /\ wait \in 0..WaitLimit /\ slow \in 0..MaxSlow /\ MaxSlow \in Nat /\ WaitLimit \in Nat
      /\ lease \in Nat /\ keepAlive \in Nat
  BY Bounds, RtspAssumption DEF TypeOK
<1>4. Spent' = IF Prompt THEN Spent ELSE Spent + 1
  BY <1>2, <1>3 DEF Spent
<1>5. Recent' \in 0..1
  BY <1>2 DEF Recent
<1>6. /\ \A r \in Elements(toServer) : Age(r.cseq, cseq) \in Nat
      /\ \A p \in Wire : Age(p.cseq, cseq) \in Nat
  BY WireTyped, NoAge
<1>7. Young'
  <2> DEFINE spent == Spent'
  <2> DEFINE recent == Recent'
  <2>0. spent = (IF Prompt THEN Spent ELSE Spent + 1) /\ recent \in 0..1
    BY <1>4, <1>5
  <2> HIDE DEF spent, recent
  <2>1. \A r \in Elements(toServer) : Age(r.cseq, cseq) <= 2 * spent + recent
    <3> SUFFICES ASSUME NEW r \in Elements(toServer)
                 PROVE  Age(r.cseq, cseq) <= 2 * spent + recent
      OBVIOUS
    <3>1. ~Prompt
      BY DEF Prompt, Elements
    <3>2. Age(r.cseq, cseq) <= 2 * Spent + Recent /\ Age(r.cseq, cseq) \in Nat
      BY <1>6 DEF ExchangeInv, Apart, Young
    <3> QED
      BY <1>3, <2>0, <3>1, <3>2
  <2>2. \A p \in Elements(toClient) : Age(p.cseq, cseq) <= 2 * (spent + BusyLimit) + 0
    <3> SUFFICES ASSUME NEW p \in Elements(toClient)
                 PROVE  Age(p.cseq, cseq) <= 2 * (spent + BusyLimit) + 0
      OBVIOUS
    <3>1. busy > 0 \/ ~Prompt
      BY DEF Prompt, Elements
    <3>2. /\ Age(p.cseq, cseq) <= 2 * (Spent + BusyLimit) + (IF busy > 0 THEN 0 ELSE Recent)
          /\ Age(p.cseq, cseq) \in Nat
      BY <1>6 DEF ExchangeInv, Apart, Young, Wire
    <3> QED
      BY <1>3, <2>0, <3>1, <3>2
  <2>3. \A p \in Elements(buffered) : Age(p.cseq, cseq) <= 2 * (spent + BusyLimit) + 2 + 0
    <3> SUFFICES ASSUME NEW p \in Elements(buffered)
                 PROVE  Age(p.cseq, cseq) <= 2 * (spent + BusyLimit) + 2 + 0
      OBVIOUS
    <3>1. Waiting => ~Prompt
      BY DEF Prompt, ExchangeInv, OnItsWay
    <3>2. /\ Age(p.cseq, cseq) <= 2 * (Spent + BusyLimit) + 2
                                    + (IF Waiting /\ wait = WaitLimit THEN 1 ELSE 0)
          /\ Age(p.cseq, cseq) \in Nat
      BY <1>6 DEF ExchangeInv, Apart, Young, Wire
    <3> QED
      BY <1>3, <2>0, <3>1, <3>2
  <2>4. /\ 2 * (spent + BusyLimit) + 0 <= 2 * (spent + BusyLimit) + (IF busy' > 0 THEN 0 ELSE recent)
        /\ 2 * (spent + BusyLimit) + 2 + 0
             <= 2 * (spent + BusyLimit) + 2 + (IF Waiting' /\ wait' = WaitLimit THEN 1 ELSE 0)
    <3>1. /\ (IF busy' > 0 THEN 0 ELSE recent) \in 0..1
          /\ (IF Waiting' /\ wait' = WaitLimit THEN 1 ELSE 0) \in 0..1
      BY <2>0
    <3>2. spent \in Nat /\ BusyLimit \in Nat
      BY <1>3, <2>0
    <3>3. \A b, n \in 0..1, m \in Nat : m + 0 <= m + n
      OBVIOUS
    <3>4. 2 * (spent + BusyLimit) \in Nat /\ 2 * (spent + BusyLimit) + 2 \in Nat
      BY <3>2
    <3> QED
      BY <3>1, <3>3, <3>4
  <2>5. /\ \A p \in Elements(toClient) :
             Age(p.cseq, cseq) <= 2 * (spent + BusyLimit) + (IF busy' > 0 THEN 0 ELSE recent)
        /\ \A p \in Elements(buffered) :
             Age(p.cseq, cseq) <= 2 * (spent + BusyLimit) + 2
                                    + (IF Waiting' /\ wait' = WaitLimit THEN 1 ELSE 0)
    <3> DEFINE b == IF busy' > 0 THEN 0 ELSE recent
    <3> DEFINE w == IF Waiting' /\ wait' = WaitLimit THEN 1 ELSE 0
    <3>1. /\ 2 * (spent + BusyLimit) + 0 <= 2 * (spent + BusyLimit) + b
          /\ 2 * (spent + BusyLimit) + 2 + 0 <= 2 * (spent + BusyLimit) + 2 + w
      BY <2>4
    <3>2. b \in Nat /\ w \in Nat /\ spent \in Nat /\ BusyLimit \in Nat
      BY <1>3, <2>0
    <3> HIDE DEF b, w
    <3>3. \A p \in Elements(toClient) : Age(p.cseq, cseq) <= 2 * (spent + BusyLimit) + b
      BY <1>6, <2>2, <3>1, <3>2 DEF Wire
    <3>4. \A p \in Elements(buffered) : Age(p.cseq, cseq) <= 2 * (spent + BusyLimit) + 2 + w
      BY <1>6, <2>3, <3>1, <3>2 DEF Wire
    <3> QED
      BY <3>3, <3>4 DEF b, w
  <2> QED
    BY <1>1, <2>1, <2>5 DEF Young, spent, recent
<1>8. Numbered' /\ Fresh'
  BY <1>1 DEF ExchangeInv, Apart, Numbered, Fresh
<1>9. OnItsWay' /\ Untimed'
  <2>1. Less(0) = 0
    BY DEF Less
  <2> QED
    BY <1>1, <1>2, <2>1 DEF ExchangeInv, OnItsWay, Untimed
<1>10. lease' > 0 => lease > 0 /\ playing' = playing
  BY <1>2, <1>3 DEF Less
<1>11. lease = 0 => lease' = 0
  BY <1>2 DEF Less
<1>12. Executed'
  BY <1>1, <1>10, <1>11 DEF ExchangeInv, Executed
<1>13. Tuned'
  BY <1>1, <1>10 DEF ExchangeInv, Tuned
<1>14. TornDown'
  BY <1>1, <1>11 DEF ExchangeInv, TornDown
<1> QED
  BY <1>7, <1>8, <1>9, <1>12, <1>13, <1>14 DEF ExchangeInv, Apart

\* The event loop between two requests.
LEMMA LoopExchanges ==
  ASSUME TypeOK, ExchangeInv, BlockLoop \/ SocketNotified
  PROVE  ExchangeInv'
<1>1. /\ UNCHANGED <<cseq, asked, wait, result, keepAlive, confirmed, urlQuery, zapTimers,
                     toServer, alive, ready, slow, acted, lease, playing>>
      /\ ~Waiting /\ ~Waiting' /\ busy = 0
      /\ Spent' = Spent /\ Recent' = Recent
  BY DEF BlockLoop, SocketNotified, identity, exchange, channel, server, clock, Idle, Waiting,
         Spent, Recent
<1>2. /\ Spent \in Nat /\ BusyLimit \in Nat /\ Recent \in 0..2
      /\ \A p \in Wire : Age(p.cseq, cseq) \in Nat
  BY Bounds, WireTyped, NoAge, RtspAssumption
<1>3. /\ \A p \in Elements(toClient) : Age(p.cseq, cseq) <= 2 * (Spent + BusyLimit) + Recent
      /\ \A p \in Elements(buffered) : Age(p.cseq, cseq) <= 2 * (Spent + BusyLimit) + 2 + 0
  BY <1>1 DEF ExchangeInv, Apart, Young
<1>4. /\ Elements(toClient') = {} /\ Elements(buffered') = Elements(buffered) \cup Elements(toClient)
  <2>1. CASE BlockLoop
    BY <2>1, EmptyElements DEF BlockLoop, wire
  <2>2. CASE SocketNotified
    BY <2>2, EmptyElements, JoinedElements DEF SocketNotified, TypeOK
  <2> QED
    BY <2>1, <2>2
<1>5. \A p \in Elements(buffered') : Age(p.cseq, cseq) <= 2 * (Spent + BusyLimit) + 2 + 0
  BY <1>2, <1>3, <1>4 DEF Wire
<1>6. Young'
  BY <1>1, <1>4, <1>5 DEF ExchangeInv, Apart, Young
<1>7. Wire' = Wire
  BY <1>4 DEF Wire
<1> QED
  BY <1>1, <1>6, <1>7 DEF ExchangeInv, Apart, Numbered, Fresh, OnItsWay, Untimed, Executed, Tuned,
                          TornDown

LEMMA StutterExchanges == ExchangeInv /\ UNCHANGED vars => ExchangeInv'
<1> SUFFICES ASSUME ExchangeInv, UNCHANGED vars PROVE ExchangeInv'
  OBVIOUS
<1>1. /\ UNCHANGED <<cseq, asked, wait, result, keepAlive, confirmed, urlQuery, zapTimers,
                     toServer, toClient, buffered, alive, ready, slow, busy, acted, lease, playing>>
  BY DEF vars, identity, exchange, channel, wire, server, clock
<1>2. /\ Spent' = Spent /\ Recent' = Recent /\ Waiting' = Waiting /\ Wire' = Wire
      /\ Answering' = Answering
  BY <1>1 DEF Spent, Recent, Waiting, Wire, Answering
<1>3. Young'
  BY <1>1, <1>2, Zenon DEF ExchangeInv, Apart, Young
<1> QED
  BY <1>1, <1>2, <1>3 DEF ExchangeInv, Apart, Numbered, Fresh, OnItsWay, Untimed, Executed, Tuned,
                          TornDown

LEMMA ExchangeInvariance == Spec => [](RunningInv /\ ExchangeInv)
<1>1. Init => RunningInv /\ ExchangeInv
  BY Opening, OpensExchange
<1>2. RunningInv /\ ExchangeInv /\ [Next]_vars => (RunningInv /\ ExchangeInv)'
  <2> SUFFICES ASSUME RunningInv, ExchangeInv, [Next]_vars PROVE ExchangeInv'
    BY NextKeeps
  <2>1. TypeOK /\ TypeOK' /\ ZapTimerOwned
    BY NextKeeps DEF RunningInv
  <2> QED
    BY <2>1, RequestSends, AnswerKeeps, ServerExchanges, TickExchanges, LoopExchanges,
       StutterExchanges DEF Next, UserAction, ClientStep
<1> QED
  BY <1>1, <1>2, PTL DEF Spec

\* A request is reported successful only when the server has executed it, whatever late or
\* divided answers are still on their way and however often the sequence numbers have come round.
THEOREM SuccessIsExecuted == Spec => []Confirmed
<1>1. ExchangeInv => Confirmed
  BY DEF ExchangeInv, Tuned, TornDown, Confirmed
<1> QED
  BY <1>1, ExchangeInvariance, PTL

----------------------------------------------------------------------------
(* A prompt network and the keep-alive timer.                              *)

Half == Expiry \div 2

\* With a prompt network there is one request or its answer on the wire, whole.
Replied ==
  /\ toServer = <<>>
  /\ \E p \in Parts : /\ toClient = <<p>> /\ p.part = "whole" /\ p.cseq = cseq
                      /\ asked.kind = "SETUP" /\ p.ok => p.session /\ lease = Expiry
OneAtATime ==
  /\ buffered = <<>>
  /\ IF Waiting THEN wait = WaitLimit /\ ((toServer = <<asked>> /\ toClient = <<>>) \/ Replied)
     ELSE toServer = <<>> /\ toClient = <<>>

\* The server's timeout began when the timer was last set, or later: it outlasts the timer by
\* half its length, and the event loop is blocked no longer than that.
LeaseHeld ==
  ready /\ (Waiting => asked.kind # "TEARDOWN") =>
    /\ session /\ timeout = Half /\ keepAlive <= Half /\ lease > busy
    /\ toServer = <<>> /\ keepAlive > 0 => lease >= keepAlive + (Expiry - Half)
    /\ Waiting => asked.session /\ asked.kind # "SETUP"

PromptInv == slow = MaxSlow /\ alive => OneAtATime /\ LeaseHeld

LEMMA HalfTyped == Half \in Nat \ {0} /\ Expiry - Half >= Half /\ Expiry - Half \in Nat
BY RtspAssumption DEF Half

LEMMA FirstAppended == ASSUME NEW e PROVE Append(<<>>, e) = <<e>> /\ <<e>> # <<>>
OBVIOUS

\* A new request finds the wire empty.
LEMMA SendAlone ==
  ASSUME TypeOK, OneAtATime, ~Waiting, NEW kind \in Kinds, NEW known \in BOOLEAN,
         NEW query \in Queries \cup {None}, Send(kind, known, query), UNCHANGED wire
  PROVE  /\ OneAtATime' /\ Waiting' /\ toServer' # <<>>
         /\ asked'.kind = kind /\ asked'.session = known
<1>1. /\ asked' = Request(kind, NextCSeq, known, query) /\ wait' = WaitLimit
      /\ toServer' = <<asked'>>
  BY FirstAppended DEF Send, OneAtATime
<1>2. asked' \in Requests
  BY SendTyped
<1>3. asked'.kind = kind /\ asked'.session = known
  BY <1>1 DEF Request
<1>4. Waiting'
  BY <1>2, RtspAssumption DEF Waiting
<1>5. toServer' # <<>>
  BY <1>1, FirstAppended
<1> QED
  BY <1>1, <1>3, <1>4, <1>5 DEF OneAtATime, wire

LEMMA RequestPrompt ==
  ASSUME RunningInv, ExchangeInv, OneAtATime, LeaseHeld,
         \/ \E query \in Queries : SetUrl(query) \/ ZapUrl(query)
         \/ Stop \/ ZapTimer \/ SessionTimer
  PROVE  OneAtATime' /\ LeaseHeld'
<1>1. TypeOK /\ ZapTimerOwned
  BY DEF RunningInv
<1>2. /\ ~Waiting /\ UNCHANGED <<ready, session, timeout, wire, lease, busy>>
  <2>1. ASSUME NEW query, SetUrl(query) \/ ZapUrl(query)
        PROVE  ~Waiting /\ UNCHANGED <<ready, session, timeout, wire, lease, busy>>
    BY <2>1 DEF SetUrl, ZapUrl, Idle, Play, identity, server
  <2>2. CASE Stop \/ ZapTimer
    BY <2>2 DEF Stop, ZapTimer, Idle, Play, identity, server
  <2>3. CASE SessionTimer
    BY <2>3 DEF SessionTimer, Idle, identity, server, clock
  <2> QED
    BY <2>1, <2>2, <2>3
<1>3. ASSUME NEW kind \in {"PLAY", "OPTIONS"}, NEW query \in Queries \cup {None},
             Send(kind, session, query), keepAlive' = keepAlive \/ keepAlive' = timeout
      PROVE  OneAtATime' /\ LeaseHeld'
  <2>1. /\ OneAtATime' /\ Waiting' /\ toServer' # <<>>
        /\ asked'.kind = kind /\ asked'.session = session
    BY <1>1, <1>2, <1>3, SendAlone DEF Kinds, TypeOK
  <2>2. ready => /\ session /\ timeout = Half /\ keepAlive <= Half /\ lease > busy
    BY <1>2 DEF LeaseHeld
  <2>3. Half <= Half
    BY HalfTyped
  <2>4. ready' => session' /\ timeout' = Half /\ keepAlive' <= Half /\ lease' > busy'
    BY <1>2, <1>3, <2>2, <2>3
  <2> QED
    BY <1>2, <2>1, <2>4 DEF LeaseHeld
<1>4. ASSUME NEW query \in Queries, SetUrl(query) PROVE OneAtATime' /\ LeaseHeld'
  <2>1. keepAlive' = keepAlive
    BY <1>4 DEF SetUrl
  <2>2. CASE ready
    BY <1>3, <1>4, <2>1, <2>2 DEF SetUrl, Play
  <2>3. CASE ~ready
    <3>1. UNCHANGED <<exchange, toServer, wire>>
      BY <1>4, <2>3 DEF SetUrl
    <3> QED
      BY <1>2, <2>3, <3>1 DEF OneAtATime, LeaseHeld, exchange, wire, Waiting
  <2> QED
    BY <2>2, <2>3
<1>5. ASSUME NEW query \in Queries, ZapUrl(query) PROVE OneAtATime' /\ LeaseHeld'
  BY <1>3, <1>5 DEF ZapUrl, Play
<1>6. CASE ZapTimer
  BY <1>1, <1>3, <1>6 DEF ZapTimer, Play, TypeOK
<1>7. CASE SessionTimer
  BY <1>3, <1>7 DEF SessionTimer
<1>8. CASE Stop
  <2>1. Send("TEARDOWN", session, None)
    BY <1>8 DEF Stop
  <2>2. OneAtATime' /\ Waiting' /\ asked'.kind = "TEARDOWN"
    BY <1>1, <1>2, <2>1, SendAlone DEF Kinds, TypeOK
  <2> QED
    BY <2>2 DEF LeaseHeld
<1> QED
  BY <1>4, <1>5, <1>6, <1>7, <1>8

LEMMA OnlySubSeq ==
  ASSUME NEW S, NEW p \in S, NEW n \in 1..Len(<<p>>)
  PROVE  /\ <<>> \o SubSeq(<<p>>, 1, n) = <<p>>
         /\ SubSeq(<<p>>, n + 1, Len(<<p>>)) = <<>>
         /\ 1 \in DOMAIN <<p>> /\ <<p>>[1] = p
<1>1. n = 1
  OBVIOUS
<1>2. SubSeq(<<p>>, 1, 1) = <<p>>
  <2>1. <<p>> \in Seq(S) /\ Len(<<p>>) = 1
    OBVIOUS
  <2> QED
    BY <2>1, SubSeqFull
<1>3. SubSeq(<<p>>, 2, 1) = <<>>
  OBVIOUS
<1>4. <<>> \o <<p>> = <<p>> /\ Len(<<p>>) = 1 /\ 1 \in DOMAIN <<p>> /\ <<p>>[1] = p
  OBVIOUS
<1> QED
  BY <1>1, <1>2, <1>3, <1>4

LEMMA AnswerPrompt ==
  ASSUME RunningInv, RunningInv', ExchangeInv, OneAtATime, LeaseHeld, ReadAnswer \/ GiveUp, alive'
  PROVE  OneAtATime' /\ LeaseHeld'
<1>1. Waiting /\ TypeOK /\ busy = 0
  BY DEF ReadAnswer, GiveUp, RunningInv, ExchangeInv, OnItsWay
<1>2. ReadAnswer
  BY <1>1, RtspAssumption DEF GiveUp, OneAtATime
<1>3. PICK n \in 1..Len(toClient) :
        /\ ParseAnswer(buffered \o SubSeq(toClient, 1, n))
        /\ toClient' = SubSeq(toClient, n + 1, Len(toClient))
  BY <1>2 DEF ReadAnswer
<1>4. toClient # <<>>
  BY <1>3
<1>5. PICK p \in Parts : /\ toClient = <<p>> /\ p.part = "whole" /\ toServer = <<>>
                         /\ asked.kind = "SETUP" /\ p.ok => p.session /\ lease = Expiry
  BY <1>1, <1>4 DEF OneAtATime, Replied
<1> DEFINE data == <<p>>
<1>6. ParseAnswer(data) /\ toClient' = <<>> /\ 1 \in DOMAIN data /\ data[1] = p
  BY <1>1, <1>3, <1>5, OnlySubSeq DEF OneAtATime
<1> HIDE DEF data
<1>7. Matches(data) => p.ok
  BY <1>6 DEF Matches
<1>8. HasSession(data) <=> p.session
  <2>1. DOMAIN data = {1}
    BY DEF data
  <2> QED
    BY <1>5, <1>6, <2>1 DEF HasSession
<1>9. /\ buffered' = <<>> /\ UNCHANGED <<lease, busy>>
  BY <1>2 DEF ReadAnswer, server, clock
<1>10. /\ session' = (session \/ (Matches(data) /\ HasSession(data)))
       /\ timeout' = IF Matches(data) /\ HasSession(data) THEN Half ELSE timeout
       /\ Outcome(Matches(data))
  BY <1>6 DEF ParseAnswer, Half
<1>11. ASSUME Released PROVE OneAtATime' /\ ~Waiting' /\ toServer' = <<>>
  BY <1>5, <1>6, <1>9, <1>11 DEF OneAtATime, Released, Waiting
<1>12. CASE SetupDone(Matches(data)) /\ Matches(data)
  <2>1. /\ asked.kind = "SETUP" /\ ready' /\ keepAlive' = timeout' /\ Send("PLAY", session', urlQuery)
    BY <1>12 DEF SetupDone
  <2>2. session' /\ timeout' = Half /\ lease = Expiry
    BY <1>5, <1>7, <1>8, <1>10, <1>12, <2>1
  <2>3. asked' = Request("PLAY", NextCSeq, session', urlQuery) /\ wait' = WaitLimit /\ toServer' = <<asked'>>
    BY <1>5, <2>1, FirstAppended DEF Send
  <2>4. asked'.kind = "PLAY" /\ asked'.session
    BY <2>2, <2>3 DEF Request
  <2>5. asked' \in Requests
    <3>1. session' \in BOOLEAN /\ urlQuery \in Queries \cup {None}
      BY <1>1, <2>2 DEF TypeOK, RunningInv
    <3> QED
      BY <1>1, <2>1, <3>1, SendTyped DEF Kinds
  <2>6. Waiting' /\ toServer' # <<>>
    BY <2>3, <2>5, RtspAssumption, FirstAppended DEF Waiting
  <2>7. OneAtATime'
    BY <1>6, <1>9, <2>3, <2>6 DEF OneAtATime
  <2>8. Expiry > 0 /\ Half <= Half
    BY RtspAssumption, HalfTyped
  <2>9. lease' > busy' /\ keepAlive' <= Half
    BY <1>1, <1>9, <2>1, <2>2, <2>8
  <2> QED
    BY <2>2, <2>4, <2>6, <2>7, <2>9 DEF LeaseHeld
<1>13. CASE SetupDone(Matches(data)) /\ ~Matches(data)
  BY <1>11, <1>13 DEF SetupDone, LeaseHeld
<1>14. CASE RequestDone(Matches(data))
  <2>1. Released /\ UNCHANGED <<ready, keepAlive>> /\ asked.kind # "TEARDOWN"
    BY <1>14 DEF RequestDone
  <2>2. ready => /\ session /\ timeout = Half /\ keepAlive <= Half /\ lease > busy
                 /\ keepAlive > 0 => lease >= keepAlive + (Expiry - Half)
    BY <1>5, <2>1 DEF LeaseHeld
  <2> QED
    BY <1>9, <1>10, <1>11, <2>1, <2>2 DEF LeaseHeld
<1>15. ~TeardownDone
  BY DEF TeardownDone
<1> QED
  BY <1>10, <1>12, <1>13, <1>14, <1>15 DEF Outcome

LEMMA ServerPrompt ==
  ASSUME Splits = FALSE, RunningInv, ExchangeInv, OneAtATime, LeaseHeld, ServerStep, alive
  PROVE  OneAtATime' /\ LeaseHeld'
<1>1. Waiting /\ toServer = <<asked>> /\ toClient = <<>> /\ wait = WaitLimit /\ buffered = <<>>
  BY DEF ServerStep, OneAtATime, Replied
<1>2. busy = 0 /\ asked.cseq = cseq /\ asked \in Requests
  BY <1>1 DEF ExchangeInv, OnItsWay, RunningInv, TypeOK, Waiting
<1>3. /\ Head(toServer) = asked /\ toServer' = <<>>
      /\ UNCHANGED <<ready, session, timeout, keepAlive, cseq, asked, wait, buffered, busy>>
      /\ Waiting'
  <2>1. Head(<<asked>>) = asked /\ Tail(<<asked>>) = <<>>
    OBVIOUS
  <2> QED
    BY <1>1, <2>1 DEF ServerStep, identity, exchange, clock, Waiting
<1>4. ASSUME NEW ok \in BOOLEAN, NEW known \in BOOLEAN, Answer(asked, ok, known),
             asked.kind = "SETUP" /\ ok => known /\ lease' = Expiry
      PROVE  OneAtATime'
  <2> DEFINE p == Part("whole", asked, ok, known)
  <2>1. toClient' = <<p>>
    BY <1>1, <1>4, FirstAppended DEF Answer
  <2>2. p \in Parts /\ p.part = "whole" /\ p.cseq = cseq /\ p.ok = ok /\ p.session = known
    BY <1>2 DEF Part, Parts, Requests
  <2> HIDE DEF p
  <2>3. Replied'
    BY <1>3, <1>4, <2>1, <2>2 DEF Replied
  <2> QED
    BY <1>1, <1>3, <2>3 DEF OneAtATime
<1>5. CASE ServerSetup(asked)
  <2>1. ~ready
    BY <1>1, <1>5 DEF LeaseHeld, ServerSetup
  <2>2. OneAtATime'
    <3>1. CASE lease' = Expiry /\ Answer(asked, TRUE, TRUE)
      BY <1>4, <3>1
    <3>2. CASE Answer(asked, FALSE, FALSE)
      BY <1>4, <3>2
    <3> QED
      BY <1>5, <3>1, <3>2 DEF ServerSetup
  <2> QED
    BY <1>3, <2>1, <2>2 DEF LeaseHeld
<1>6. CASE ServerUnknown(asked)
  <2>1. OneAtATime'
    BY <1>4, <1>6 DEF ServerUnknown
  <2>2. ~ready \/ asked.kind = "TEARDOWN"
    <3>1. lease > 0 /\ asked.session => ~ServerUnknown(asked)
      BY DEF ServerUnknown
    <3> QED
      BY <1>1, <1>2, <1>6, <3>1 DEF LeaseHeld
  <2> QED
    BY <1>1, <1>3, <2>1, <2>2 DEF LeaseHeld
<1>7. CASE ServerKnown(asked)
  <2>1. OneAtATime'
    BY <1>4, <1>7 DEF ServerKnown
  <2>2. CASE ~ready \/ asked.kind = "TEARDOWN"
    BY <1>1, <1>3, <2>1, <2>2 DEF LeaseHeld
  <2>3. CASE ready /\ asked.kind # "TEARDOWN"
    <3>1. /\ session /\ timeout = Half /\ keepAlive <= Half /\ asked.session /\ asked.kind # "SETUP"
      BY <1>1, <2>3 DEF LeaseHeld
    <3>2. lease' = Expiry
      BY <1>7, <2>3 DEF ServerKnown
    <3>3. Expiry > 0 /\ Expiry >= keepAlive + (Expiry - Half)
      BY <3>1, HalfTyped, RtspAssumption DEF RunningInv, TypeOK
    <3> QED
      BY <1>1, <1>2, <1>3, <2>1, <3>1, <3>2, <3>3 DEF LeaseHeld
  <2> QED
    BY <2>2, <2>3
<1> QED
  BY <1>3, <1>5, <1>6, <1>7 DEF ServerStep

\* One tick of the two clocks, the session's and the server's.
LEMMA Outlasts ==
  ASSUME NEW n \in Nat, NEW b \in Nat, NEW k \in Nat, n > b, k <= Half,
         k > 0 => n >= k + (Expiry - Half), k = 0 => b > 0
  PROVE  /\ Less(n) > Less(b) /\ Less(k) <= Half
         /\ Less(k) > 0 => Less(n) >= Less(k) + (Expiry - Half)
<1>1. Half \in Nat \ {0} /\ Expiry - Half \in Nat \ {0}
  BY HalfTyped, RtspAssumption DEF Half
<1>2. n > 0 /\ Less(n) = n - 1
  BY DEF Less
<1>3. CASE b > 0 /\ k = 0
  BY <1>1, <1>2, <1>3 DEF Less
<1>4. CASE b > 0 /\ k > 0
  BY <1>1, <1>2, <1>4 DEF Less
<1>5. CASE b = 0
  BY <1>1, <1>2, <1>5 DEF Less
<1> QED
  BY <1>3, <1>4, <1>5

LEMMA TickPrompt ==
  ASSUME RunningInv, ExchangeInv, OneAtATime, LeaseHeld, Tick, alive, slow' = MaxSlow
  PROVE  OneAtATime' /\ LeaseHeld'
<1>1. /\ UNCHANGED <<ready, session, timeout, asked, wire, toServer>> /\ Waiting' = Waiting
      /\ busy' = Less(busy) /\ keepAlive' = Less(keepAlive) /\ lease' = Less(lease)
      /\ ~(Idle /\ SessionTimerDue)
  BY DEF Tick, identity, Waiting
<1>2. Prompt
  <2>1. slow \in 0..MaxSlow /\ MaxSlow \in Nat
    BY RtspAssumption DEF RunningInv, TypeOK
  <2>2. slow - 1 # MaxSlow
    BY <2>1
  <2> QED
    BY <2>2 DEF Tick
<1>3. ~Waiting
  <2>1. Waiting => toClient # <<>> /\ busy = 0
    BY <1>2 DEF ExchangeInv, OnItsWay, Prompt
  <2> QED
    BY <1>2, <2>1, RtspAssumption DEF Prompt, RunningInv, TypeOK
<1>4. OneAtATime'
  BY <1>1, <1>3 DEF OneAtATime, wire
<1>5. LeaseHeld'
  <2> SUFFICES ASSUME ready
               PROVE  /\ session /\ timeout = Half /\ Less(keepAlive) <= Half
                      /\ Less(lease) > Less(busy)
                      /\ Less(keepAlive) > 0 => Less(lease) >= Less(keepAlive) + (Expiry - Half)
    BY <1>1, <1>3 DEF LeaseHeld
  <2>1. /\ session /\ timeout = Half /\ keepAlive <= Half /\ lease > busy
        /\ keepAlive > 0 => lease >= keepAlive + (Expiry - Half)
    BY <1>3 DEF LeaseHeld, OneAtATime
  <2>2. lease \in Nat /\ busy \in Nat /\ keepAlive \in Nat
    BY RtspAssumption DEF RunningInv, TypeOK
  <2>3. keepAlive = 0 => busy > 0
    BY <1>1, <1>3, <2>2 DEF Idle, SessionTimerDue
  <2> QED
    BY <2>1, <2>2, <2>3, Outlasts
<1> QED
  BY <1>4, <1>5

LEMMA LoopPrompt ==
  ASSUME BusyLimit <= Half, RunningInv, ExchangeInv, OneAtATime, LeaseHeld,
         BlockLoop \/ SocketNotified
  PROVE  OneAtATime' /\ LeaseHeld'
<1>1. ~Waiting /\ BlockLoop
  BY DEF BlockLoop, SocketNotified, Idle, OneAtATime
<1>2. /\ UNCHANGED <<ready, session, timeout, asked, wire, toServer, keepAlive, lease>>
      /\ ~Waiting' /\ busy' \in 1..BusyLimit /\ ~SessionTimerDue
  BY <1>1 DEF BlockLoop, identity, exchange, server, Waiting
<1>3. OneAtATime'
  BY <1>1, <1>2 DEF OneAtATime, wire
<1>4. ASSUME ready PROVE lease > busy'
  <2>1. /\ keepAlive > 0 /\ lease >= keepAlive + (Expiry - Half)
    BY <1>1, <1>2, <1>4 DEF LeaseHeld, OneAtATime, SessionTimerDue, RunningInv, TypeOK
  <2>2. /\ lease \in Nat /\ keepAlive \in Nat /\ BusyLimit \in Nat
    BY RtspAssumption DEF RunningInv, TypeOK
  <2>3. lease > BusyLimit
    BY <2>1, <2>2, HalfTyped
  <2>4. \A b \in 1..BusyLimit : lease > b
    BY <2>2, <2>3
  <2> QED
    BY <1>2, <2>4
<1>5. LeaseHeld'
  BY <1>1, <1>2, <1>4 DEF LeaseHeld
<1> QED
  BY <1>3, <1>5

\* As long as the network has been prompt the server does not drop a session that was set up and
\* is not being torn down: the timer asks every half of the server's timeout, whatever the
\* timeout, the zaps and the other handlers that keep the event loop busy for at most that long.
\* (It takes whole answers: of half an answer to SETUP the timeout and the session are not read.)
THEOREM PromptSessionIsKept ==
  ASSUME Splits = FALSE, BusyLimit <= Expiry \div 2
  PROVE  Spec => []Maintained
<1>1. Init => PromptInv
  <2> SUFFICES ASSUME Init PROVE PromptInv
    OBVIOUS
  <2>1. asked \in Requests
    BY Opening DEF RunningInv, TypeOK, Init, Request, Requests
  <2>2. Waiting
    BY <2>1, RtspAssumption DEF Waiting
  <2> QED
    BY <2>2 DEF Init, PromptInv, OneAtATime, LeaseHeld
<1>2. RunningInv /\ ExchangeInv /\ PromptInv /\ [Next]_vars => PromptInv'
  <2> SUFFICES ASSUME RunningInv, ExchangeInv, PromptInv, [Next]_vars, slow' = MaxSlow, alive'
               PROVE  OneAtATime' /\ LeaseHeld'
    BY DEF PromptInv
  <2>1. RunningInv' /\ BusyLimit <= Half
    BY NextKeeps DEF Half
  <2>2. CASE UNCHANGED vars
    <3>1. UNCHANGED <<alive, slow, ready, session, timeout, keepAlive, cseq, asked, wait, buffered,
                      toClient, toServer, lease, busy>>
      BY <2>2 DEF vars, identity, exchange, wire, server, clock
    <3>2. OneAtATime /\ LeaseHeld /\ Waiting' = Waiting
      BY <3>1 DEF PromptInv, Waiting
    <3>3. Replied' = Replied
      BY <3>1 DEF Replied
    <3> QED
      BY <3>1, <3>2, <3>3 DEF OneAtATime, LeaseHeld
  <2>3. CASE Next
    <3>1. alive
      BY <2>3 DEF Next, UserAction, ClientStep, SetUrl, ZapUrl, Stop, ZapTimer, SessionTimer, Idle,
                  ReadAnswer, GiveUp, SocketNotified, BlockLoop, ServerStep, Tick, identity
    <3>2. slow = MaxSlow
      <4>1. slow \in 0..MaxSlow /\ MaxSlow \in Nat /\ slow - 1 # MaxSlow
        BY RtspAssumption DEF RunningInv, TypeOK
      <4>2. slow' = slow \/ slow' = slow - 1
        BY <2>3 DEF Next, UserAction, ClientStep, SetUrl, ZapUrl, Stop, ZapTimer, SessionTimer,
                    ReadAnswer, GiveUp, SocketNotified, BlockLoop, ServerStep, Tick, clock
      <4> QED
        BY <4>1, <4>2
    <3>3. OneAtATime /\ LeaseHeld
      BY <3>1, <3>2 DEF PromptInv
    <3> QED
      BY <2>1, <2>3, <3>1, <3>3, RequestPrompt, AnswerPrompt, ServerPrompt, TickPrompt, LoopPrompt
      DEF Next, UserAction, ClientStep
  <2> QED
    BY <2>2, <2>3
<1>3. RunningInv /\ PromptInv => Maintained
  <2> SUFFICES ASSUME RunningInv, OneAtATime, LeaseHeld, ready, Waiting => asked.kind # "TEARDOWN"
               PROVE  lease > 0
    BY DEF PromptInv, Maintained
  <2>1. lease > busy /\ lease \in Nat /\ busy \in Nat
    BY RtspAssumption DEF LeaseHeld, RunningInv, TypeOK
  <2> QED
    BY <2>1
<1>4. Spec => []PromptInv
  BY <1>1, <1>2, ExchangeInvariance, PTL DEF Spec
<1> QED
  BY <1>3, <1>4, Invariance, PTL
=============================================================================
