---------------------------- MODULE StreamAnalysis ----------------------------
(***************************************************************************)
(* The analysis of a transport stream by dvbinfo (libdvbpsi.c): packets    *)
(* are found in the buffers of the capture thread and pushed to the        *)
(* decoder of their PID, and the tables decoded attach decoders of their   *)
(* own. Each table is one section in one packet; TableGather is about more.*)
(* As the gather functions do, those that push a packet give the set of    *)
(* their results, which has one member.                                    *)
(***************************************************************************)
EXTENDS TableDecoders, FiniteSets

CONSTANTS
  PacketSize,   \* bytes of a packet, 188 in the code
  CCs,          \* the continuity counter counts modulo CCs, 16 in the code
  Lists,        \* what a PAT may list: a sequence of programs and their PIDs
  Clocks,       \* the PIDs that may carry the clock of a program
  Traffics,     \* sets of PIDs, one of which carries packets
  MaxPackets,   \* bound: packets sent
  MaxChanges,   \* bound: changes of the PAT and the PMTs
  MaxFaults,    \* bound: how often packets are lost or repeated, or bytes of none are read
  MaxBurst,     \* bound: how many packets are lost in a row
  MaxFailures   \* bound: allocations that fail

VARIABLES
  step,         \* "new", "running", "closed", or "aborted" where an assertion fails
  stream,       \* ts_stream_t
  bytes,        \* history: the bytes read
  traffic,      \* the PIDs that carry packets
  pat, pmt,     \* the tables on the air: version and contents
  cc, last,     \* the counter of each PID, the last packet sent
  missed,       \* history: packets of each PID that were not read since one was
  announced,    \* history: the PID of each program in the last PAT shown
  heard,        \* history: the version of its PMT read there since
  misfiled,     \* history: the programs of which a PMT was read elsewhere since
  wrong,        \* history: false alarms about the counter, and gaps overlooked
  deceived,     \* history: has a loss looked like a repeated packet?
  sent, changes, faults, failures

air == <<traffic, pat, pmt, cc, last, sent, changes, faults, failures>>
history == <<bytes, missed, announced, heard, misfiled, wrong, deceived>>
vars == <<step, stream, air, history>>
----------------------------------------------------------------------------
Null == 8191
Names == <<"pat", "cat", "sdt", "rst", "eit", "tdt">>
Programs == UNION {{list[i][1] : i \in DOMAIN list} : list \in Lists}
PmtPids == UNION {{list[i][2] : i \in DOMAIN list} : list \in Lists}
Pids == {0, 2, 17, 20, Null} \cup PmtPids \cup Clocks

\* What is sent: a table is one section in one packet, and PID 0 has the PATs only.
Versions == 0..31
SectionsOf(ids, exts, long, contents) ==
  [id : ids, ext : exts, version : Versions, cn : {TRUE}, num : {0}, last : {0}, syntax : long,
   gen : contents]
Pats == SectionsOf({0}, {1}, {TRUE}, Lists)
Pmts == SectionsOf({2}, Programs, {TRUE}, Clocks)
OtherTables == SectionsOf({3, 66, 70, 112}, 0..2, BOOLEAN, {"time", "tsdt", "sdt", "other"})

PacketsOf(pids, sections) ==
  [pid : pids, cc : 0..CCs-1, section : sections, signalled : BOOLEAN, clock : BOOLEAN]
AirPackets ==
  PacketsOf({0}, Pats) \cup PacketsOf(PmtPids, Pmts) \cup PacketsOf({2, 17, 20}, OtherTables)
    \cup PacketsOf(Clocks \cup {Null}, {NULL})

ASSUME AnalysisAssumption ==
  /\ PacketSize \in Nat \ {0} /\ CCs \in Nat /\ CCs > 1
  /\ Lists # {} /\ Lists \subseteq Seq(Nat \X Nat)
  /\ {NULL} \cap (Pats \cup Pmts \cup OtherTables \cup AirPackets) = {}

\* What is known of the stream: a PAT lists each program once, nothing else is sent on the
\* PIDs that are reserved for tables, and NULL is none of the things compared with it.
Reserved == {0, 1, 2, 17, 18, 19, 20}
PmtDecoders(program) ==
  [discontinuity : BOOLEAN, current_valid : BOOLEAN,
   current : {NULL} \cup [version : Versions, current_next : {TRUE}],
   building : {NULL}, sections : {{}}, last : {0}, first : {0}, program_number : {program}]

ASSUME StreamAssumption ==
  /\ \A list \in Lists : \A i, j \in DOMAIN list : list[i][1] = list[j][1] => i = j
  /\ (PmtPids \cup Clocks) \cap Reserved = {}
  /\ NULL \notin {{s} : s \in Pats \cup Pmts} /\ NULL \notin {Names[i] : i \in 1..6}
  /\ \A n \in Programs : NULL \notin PmtDecoders(n)

Only(S) == CHOOSE x \in S : TRUE

\* dvbpsi_new() and the attached decoder.
Handle(decoder) == [counter |-> CCs, decoder |-> decoder]

NewHandles ==
  [n \in {Names[i] : i \in 1..6} |->
     CASE n = "pat" -> Handle(PatAttach) [] n = "cat" -> Handle(CatAttach)
       [] n = "rst" -> Handle(RstAttach) [] OTHER -> Handle(NewDemux)]

NewPid == [seen |-> FALSE, cc |-> 0]

NewStream ==
  [handle |-> NewHandles, pmt |-> <<>>, pid |-> [p \in Pids |-> NewPid],
   packets |-> 0, lost_bytes |-> 0, clocks |-> {}, leaked |-> 0]
----------------------------------------------------------------------------
(* Decoders and their callbacks.                                           *)

\* The callback of the three demultiplexers attaches a decoder for a new subtable.
handle_subtable(mux, id, ext) ==
  CASE id \in {64, 65} -> NitAttach(mux, id, ext)
    [] id = 66 -> SdtAttach(mux, id, ext)
    [] id = 74 -> BatAttach(mux, id, ext)
    [] id \in 78..111 -> EitAttach(mux, id, ext)
    [] id \in {112, 115} -> TotAttach(mux, id, ext)
    [] id = 252 -> SisAttach(mux, id, ext)
    [] OTHER -> mux

GatherSub(d, flag, s) ==
  CASE s.id \in {64, 65} -> NitGather(d, flag, s)
    [] s.id = 66 -> SdtGather(d, flag, s)
    [] s.id = 74 -> BatGather(d, flag, s)
    [] s.id \in 78..111 -> EitGather(d, flag, s)
    [] s.id \in {112, 115} -> TotGather(d, flag, s)
    [] s.id = 252 -> SisGather(d, flag, s)

Demux(mux, s) ==
  LET key == <<s.id, s.ext>>
      m == IF GetSubDec(mux, s.id, s.ext) THEN mux ELSE handle_subtable(mux, s.id, s.ext)
  IN IF key \notin DOMAIN m.subdecs THEN {[decoder |-> m, table |-> NULL]}
     ELSE {[decoder |-> [discontinuity |-> r.discontinuity, subdecs |-> With(m.subdecs, key, r.decoder)],
            table |-> r.table] : r \in GatherSub(m.subdecs[key], m.discontinuity, s)}

\* What the decoder of a handle does with a section.
Gather(name, d, s) ==
  CASE name = "pat" -> PatGather(d, FALSE, s)
    [] name = "cat" -> CatGather(d, FALSE, s)
    [] name = "rst" -> RstGather(d, FALSE, s)
    [] name = "pmt" -> PmtGather(d, FALSE, s)
    [] OTHER -> Demux(d, s)

\* dvbpsi_packet_push() with a packet that holds one section.
ExpectedWithoutModulo(h) == h.counter + 1
Expected(h) == (h.counter + 1) % CCs
Duplicate(h, p) == h.counter = p.cc /\ ~h.decoder.discontinuity
Gap(h, p) == h.counter # CCs /\ p.cc # Expected(h)

PacketPush(h, p, name) ==
  LET noticed == [h.decoder EXCEPT !.discontinuity = @ \/ Gap(h, p)]
  IN IF Duplicate(h, p) THEN {[handle |-> [h EXCEPT !.counter = p.cc], table |-> NULL]}
     ELSE IF p.section = NULL
     THEN {[handle |-> [counter |-> p.cc, decoder |-> noticed], table |-> NULL]}
     ELSE {[handle |-> [counter |-> p.cc, decoder |-> r.decoder], table |-> r.table] :
             r \in Gather(name, noticed, p.section)}

Contents(table) == (Only(table)).gen

\* Each PAT attaches a decoder for each of its programs, in front of those there are. A
\* program whose entry cannot be allocated is skipped; a decoder that cannot be allocated
\* ends the loop, and one that cannot be attached is forgotten as well.
NewEntry(program) ==
  [number |-> program[1], pid |-> program[2], version |-> 0, handle |-> Handle(PmtAttach(program[1]))]

AtEnd(s, program) == [s EXCEPT !.pmt = Append(@, NewEntry(program))]
InFront(s, program) == [s EXCEPT !.pmt = <<NewEntry(program)>> \o @]

handle_PAT(s, list, failing) ==
  LET attach(t, i) == InFront(t, list[i])
      upTo[i \in 0..Len(list)] == IF i = 0 THEN s ELSE attach(upTo[i-1], i)
      upToSkipped[i \in 0..Len(list)] == IF i <= 1 THEN s ELSE attach(upToSkipped[i-1], i)
  IN CASE failing = "none" \/ list = <<>> -> upTo[Len(list)]
       [] failing = "entry" -> upToSkipped[Len(list)]
       [] failing = "handle" -> s
       [] failing = "attach" -> [s EXCEPT !.leaked = @ + 1]

Entries(s, number) == {i \in DOMAIN s.pmt : s.pmt[i].number = number}

\* The first entry of the program, whichever decoder has called.
Found(s, number) == CHOOSE i \in Entries(s, number) : \A j \in Entries(s, number) : i <= j

handle_PMT(s, number, version, clock) ==
  [s EXCEPT !.pmt[Found(s, number)].version = version, !.clocks = @ \cup {clock}]
----------------------------------------------------------------------------
(* libdvbpsi_process()                                                     *)

\* To the decoders of PMTs, all that have the PID, one after the other.
ShowPmt(u, i, p, r) ==
  LET number == u.stream.pmt[i].number
      pushed == [u EXCEPT !.stream.pmt[i].handle = r.handle]
  IN IF r.table = NULL THEN pushed
     ELSE IF Entries(u.stream, number) = {} THEN [pushed EXCEPT !.aborted = TRUE]
     ELSE [pushed EXCEPT !.stream = handle_PMT(@, number, p.section.version, Contents(r.table))]

PushToPmts(t, p) ==
  LET push(u, i) ==
        IF u.stream.pmt[i].pid # p.pid THEN u
        ELSE Only({ShowPmt(u, i, p, r) : r \in PacketPush(u.stream.pmt[i].handle, p, "pmt")})
      upTo[i \in 0..Len(t.stream.pmt)] == IF i = 0 THEN t ELSE push(upTo[i-1], i)
  IN upTo[Len(t.stream.pmt)]

\* The decoder of PID 20, the time, gets the packets of PID 2 as well.
HandleOf(pid) ==
  CASE pid = 0 -> "pat" [] pid = 1 -> "cat" [] pid \in {2, 20} -> "tdt" [] pid = 17 -> "sdt"
    [] pid = 18 -> "eit" [] pid = 19 -> "rst" [] OTHER -> NULL

\* History: what a PAT says of the programs.
Follow(list) ==
  LET pid(n) == (list[CHOOSE i \in DOMAIN list : list[i][1] = n])[2]
  IN [announced |-> [n \in Programs |-> IF \E i \in DOMAIN list : list[i][1] = n THEN pid(n) ELSE NULL],
      heard |-> [n \in Programs |-> NULL], misfiled |-> {}]

Show(t, name, r) ==
  LET pushed == [t EXCEPT !.stream.handle[name] = r.handle]
  IN IF r.table = NULL \/ name # "pat" THEN pushed
     ELSE [pushed EXCEPT !.stream = handle_PAT(@, Contents(r.table), t.failing),
                         !.known = Follow(Contents(r.table))]

Dispatch(t, p) ==
  LET name == HandleOf(p.pid) IN
  IF name = NULL THEN {PushToPmts(t, p)}
  ELSE {Show(t, name, r) : r \in PacketPush(t.stream.handle[name], p, name)}

\* History: a PMT that is read is the last one of its program, if it is where the PAT says.
IsPmt(p) == p.section # NULL /\ p.section.id = 2

Hear(known, p) ==
  LET n == p.section.ext IN
  IF ~IsPmt(p) THEN known
  ELSE IF p.pid = known.announced[n] THEN [known EXCEPT !.heard[n] = p.section.version]
  ELSE [known EXCEPT !.misfiled = @ \cup {n}]

\* A gap is reported unless the adaptation field announces it together with a clock. The
\* rest of that field is only printed.
IsGapWithoutModulo(known, p) == known.seen /\ p.cc # known.cc + 1
IsGap(known, p) == known.seen /\ p.cc # (known.cc + 1) % CCs
Announced(p) == p.signalled /\ p.clock

CheckContinuity(t, p) ==
  LET known == t.stream.pid[p.pid]
      warned == IsGap(known, p) /\ p.pid # Null /\ ~Announced(p)
  IN [t EXCEPT !.stream.pid[p.pid] = [seen |-> TRUE, cc |-> p.cc],
               !.read = Append(@, [packet |-> p, fresh |-> ~known.seen, warned |-> warned]),
               !.known = Hear(@, p)]

\* What a packet is at byte `at': a packet that was sent, or bytes that look like one. Those
\* are taken to be of a PID that nobody decodes.
PacketAt(buffer, at) ==
  IF \A k \in 1..PacketSize : buffer[at+k-1].packet = buffer[at].packet /\ buffer[at+k-1].at = k
  THEN buffer[at].packet ELSE NULL

\* Where the next packet begins: at a synchronisation byte with a whole packet behind it.
check_sync_word(buffer, at) ==
  LET syncs == {i \in at..Len(buffer) : buffer[i].sync}
      first == CHOOSE i \in syncs : \A j \in syncs : i <= j
  IN IF syncs = {} \/ Len(buffer) - first + 1 < PacketSize
     THEN Len(buffer) - at + 1 ELSE first - at

TurnForgetsTheRest(t, buffer) ==
  LET lost == check_sync_word(buffer, t.at)
      synced == [t EXCEPT !.at = @ + lost, !.stream.lost_bytes = @ + lost]
      counted == [synced EXCEPT !.at = @ + PacketSize, !.stream.packets = @ + 1]
      p == PacketAt(buffer, synced.at)
  IN IF t.at > Len(buffer) THEN t
     ELSE IF synced.at > Len(buffer) THEN [t EXCEPT !.at = synced.at]
     ELSE IF p = NULL THEN counted
     ELSE Only({CheckContinuity(u, p) : u \in Dispatch(counted, p)})

\* One turn of the loop.
Turn(t, buffer) ==
  LET lost == check_sync_word(buffer, t.at)
      synced == [t EXCEPT !.at = @ + lost, !.stream.lost_bytes = @ + lost]
      counted == [synced EXCEPT !.at = @ + PacketSize, !.stream.packets = @ + 1]
      p == PacketAt(buffer, synced.at)
  IN IF t.at > Len(buffer) THEN t
     ELSE IF synced.at > Len(buffer) THEN synced
     ELSE IF p = NULL THEN counted
     ELSE Only({CheckContinuity(u, p) : u \in Dispatch(counted, p)})

Process(buffer, failing) ==
  LET start == [stream |-> stream, at |-> 1, read |-> <<>>, failing |-> failing, aborted |-> FALSE,
                known |-> [announced |-> announced, heard |-> heard, misfiled |-> misfiled]]
      after[n \in 0..Len(buffer)] == IF n = 0 THEN start ELSE Turn(after[n-1], buffer)
  IN after[Len(buffer)]
----------------------------------------------------------------------------
(* What is on the air.                                                     *)

Section(id, ext, version, contents) ==
  Parsed([id |-> id, ext |-> ext, version |-> version, cn |-> TRUE, num |-> 0, last |-> 0,
          syntax |-> id \notin {112, 3}, gen |-> contents])

Packet(pid, section, signalled, clock) ==
  [pid |-> pid, cc |-> (cc[pid] + 1) % CCs, section |-> section,
   signalled |-> signalled, clock |-> clock]

\* The tables, the elementary stream with the clock, and stuffing.
Packets ==
  {p \in {Packet(0, Section(0, 1, pat.version, pat.list), FALSE, FALSE)}
         \cup {Packet(program[2], Section(2, program[1], pmt[program[1]].version, pmt[program[1]].clock),
                      FALSE, FALSE) : program \in {pat.list[i] : i \in DOMAIN pat.list}}
         \cup {Packet(20, Section(112, 0, 0, "time"), FALSE, FALSE),
               Packet(2, Section(3, 0, 0, "tsdt"), FALSE, FALSE),
               Packet(17, Section(66, 1, 0, "sdt"), FALSE, FALSE),
               Packet(17, Section(70, 2, 0, "other"), FALSE, FALSE)}
         \cup {Packet(pid, NULL, signalled, clock) :
                 pid \in Clocks, signalled \in BOOLEAN, clock \in BOOLEAN}
         \cup {Packet(Null, NULL, FALSE, FALSE)}
     : p.pid \in traffic}

BytesOf(p) == [k \in 1..PacketSize |-> [packet |-> p, at |-> k, sync |-> k = 1]]

\* Bytes of no packet, one of which may look like the start of one.
Junk ==
  {[k \in 1..n |-> [packet |-> NULL, at |-> 0, sync |-> k = false]] :
     n \in 1..PacketSize, false \in 0..PacketSize}
----------------------------------------------------------------------------
Init ==
  /\ step = "new" /\ stream = NULL /\ bytes = 0
  /\ traffic \in Traffics
  /\ pat = [version |-> 0, list |-> Only(Lists)]
  /\ pmt \in [Programs -> [version : {0}, clock : Clocks]]
  /\ cc = [p \in Pids |-> 0] /\ last = NULL
  /\ missed = [p \in Pids |-> 0]
  /\ announced = [n \in Programs |-> NULL] /\ heard = [n \in Programs |-> NULL] /\ misfiled = {}
  /\ wrong = {} /\ deceived = FALSE
  /\ sent = 0 /\ changes = 0 /\ faults = 0 /\ failures = 0

\* A handle, or its decoder, may be refused. Then all that were made are taken down: a
\* decoder is detached where there is one, and a handle may be deleted only without it.
Detached(handles) == [n \in DOMAIN handles |-> IF handles[n] = NULL THEN NULL ELSE Handle(NULL)]

libdvbpsi_init ==
  /\ step = "new"
  /\ \/ step' = "running" /\ stream' = NewStream /\ UNCHANGED failures
     \/ \E k \in 1..6 :
          LET made == [n \in DOMAIN NewHandles |->
                         IF \E i \in 1..k-1 : Names[i] = n THEN NewHandles[n] ELSE NULL]
          IN /\ failures < MaxFailures /\ failures' = failures + 1
             /\ stream' = [NewStream EXCEPT !.handle = Detached(made)]
             /\ step' = IF \E n \in DOMAIN made :
                             stream'.handle[n] # NULL /\ stream'.handle[n].decoder # NULL
                        THEN "aborted" ELSE "closed"
  /\ UNCHANGED <<traffic, pat, pmt, cc, last, sent, changes, faults, history>>

\* As many packets missed as make the next one look like the last one read.
Deceives(misses) == \E p \in Pids : misses[p] % CCs = CCs - 1

Note(t, buffer) ==
  LET read == {t.read[i] : i \in DOMAIN t.read}
      arrived == {buffer[i].packet : i \in DOMAIN buffer} \ {NULL}
      unread == {p \in arrived : \A r \in read : r.packet # p}
  IN /\ bytes' = bytes + Len(buffer)
     /\ missed' = [p \in Pids |->
                     IF \E r \in read : r.packet.pid = p THEN 0
                     ELSE missed[p] + Cardinality({q \in unread : q.pid = p})]
     /\ deceived' = (deceived \/ Deceives(missed'))
     /\ announced' = t.known.announced /\ heard' = t.known.heard /\ misfiled' = t.known.misfiled

\* Verdicts on the reports about one packet of this buffer.
Judge(t, again) ==
  wrong' = wrong
    \cup {<<"false alarm", r.packet.pid>> :
            r \in {x \in {t.read[i] : i \in DOMAIN t.read} :
                     x.warned /\ missed[x.packet.pid] = 0 /\ ~again}}
    \cup {<<"overlooked", r.packet.pid>> :
            r \in {x \in {t.read[i] : i \in DOMAIN t.read} :
                     /\ ~x.warned /\ ~x.fresh /\ missed[x.packet.pid] % CCs # 0
                     /\ x.packet.pid # Null /\ ~Announced(x.packet)}}

Take(buffer, failing, again) ==
  \E t \in {Process(buffer, failing)} :
    /\ stream' = t.stream
    /\ step' = IF t.aborted THEN "aborted" ELSE step
    /\ Note(t, buffer) /\ Judge(t, again)

Counted(p) == cc' = [cc EXCEPT ![p.pid] = p.cc]

\* A buffer with the next packet, or with two packets and junk between them.
Arrive(p) ==
  /\ step = "running" /\ sent < MaxPackets /\ sent' = sent + 1
  /\ Take(BytesOf(p), "none", FALSE)
  /\ Counted(p) /\ last' = p
  /\ UNCHANGED <<traffic, pat, pmt, changes, faults, failures>>

ArriveWithJunk(p, q, junk) ==
  /\ step = "running" /\ sent < MaxPackets /\ sent' = sent + 1
  /\ faults < MaxFaults /\ faults' = faults + 1 /\ p.pid # q.pid
  /\ Take(BytesOf(p) \o junk \o BytesOf(q), "none", FALSE)
  /\ cc' = [cc EXCEPT ![p.pid] = p.cc, ![q.pid] = q.cc] /\ last' = NULL
  /\ UNCHANGED <<traffic, pat, pmt, changes, failures>>

\* A PAT for which an allocation fails.
ArriveWithoutMemory(p, failing) ==
  /\ step = "running" /\ sent < MaxPackets /\ sent' = sent + 1
  /\ p.pid = 0 /\ failures < MaxFailures /\ failures' = failures + 1
  /\ Take(BytesOf(p), failing, FALSE)
  /\ Counted(p) /\ last' = p
  /\ UNCHANGED <<traffic, pat, pmt, changes, faults>>

Repeat ==
  /\ step = "running" /\ last # NULL /\ faults < MaxFaults /\ faults' = faults + 1
  /\ Take(BytesOf(last), "none", TRUE) /\ last' = NULL
  /\ UNCHANGED <<traffic, pat, pmt, cc, sent, changes, failures>>

Lose(pid, n) ==
  /\ step = "running" /\ faults < MaxFaults /\ faults' = faults + 1
  /\ cc' = [cc EXCEPT ![pid] = (@ + n) % CCs] /\ last' = NULL
  /\ missed' = [missed EXCEPT ![pid] = @ + n]
  /\ deceived' = (deceived \/ Deceives(missed'))
  /\ UNCHANGED <<step, stream, bytes, announced, heard, misfiled, wrong, traffic, pat, pmt,
                 sent, changes, failures>>

ChangePat(list) ==
  /\ step = "running" /\ 0 \in traffic /\ changes < MaxChanges /\ changes' = changes + 1
  /\ list # pat.list /\ pat' = [version |-> (pat.version + 1) % 32, list |-> list]
  /\ UNCHANGED <<step, stream, history, traffic, pmt, cc, last, sent, faults, failures>>

ChangePmt(n, clock) ==
  /\ step = "running" /\ 0 \in traffic /\ changes < MaxChanges /\ changes' = changes + 1
  /\ pmt' = [pmt EXCEPT ![n] = [version |-> (@.version + 1) % 32, clock |-> clock]]
  /\ UNCHANGED <<step, stream, history, traffic, pat, cc, last, sent, faults, failures>>

\* The entries go, and their handles as far as they have a decoder.
libdvbpsi_exit ==
  /\ step = "running"
  /\ step' = "closed"
  /\ LET kept == {i \in DOMAIN stream.pmt : stream.pmt[i].handle.decoder = NULL} IN
     stream' = [stream EXCEPT !.handle = Detached(@), !.pmt = <<>>,
                              !.leaked = @ + Cardinality(kept)]
  /\ UNCHANGED <<air, history>>

Next ==
  \/ libdvbpsi_init \/ libdvbpsi_exit \/ Repeat
  \/ \E p \in Packets :
       \/ Arrive(p)
       \/ \E failing \in {"entry", "handle", "attach"} : ArriveWithoutMemory(p, failing)
  \/ faults < MaxFaults /\ \E p, q \in Packets, junk \in Junk : ArriveWithJunk(p, q, junk)
  \/ \E pid \in traffic, n \in 1..MaxBurst : Lose(pid, n)
  \/ \E list \in Lists : ChangePat(list)
  \/ \E n \in Programs, clock \in Clocks : ChangePmt(n, clock)

Spec == Init /\ [][Next]_vars
----------------------------------------------------------------------------
(* Properties.                                                             *)

\* Every byte read belongs to a packet that is counted or is counted as lost, however the
\* packets lie in the buffers.
EveryByteCounted ==
  stream # NULL => PacketSize * stream.packets + stream.lost_bytes = bytes

\* What dvbinfo knows of a program is the last PMT on the PID that the last PAT gives it: not
\* nothing, and not that of a decoder left behind by an earlier PAT, unless that one has read a
\* PMT of the same program since. It is filed under the program, whichever PID it came on.
NewestKnows ==
  step = "running" /\ ~deceived /\ failures = 0 =>
    \A n \in Programs \ misfiled :
      announced[n] # NULL /\ heard[n] # NULL =>
        LET e == stream.pmt[Found(stream, n)] IN
        e.pid = announced[n] /\ e.version = heard[n]

\* Decoders pile up, since none is detached before the end: one for each change of the PAT,
\* and one for each packet lost, behind which the same PAT is shown again. Nothing else adds one,
\* no PMT comes from a decoder whose program is unknown, and in the end every handle has lost
\* its decoder before it is deleted, also when only some of them could be made; none is left
\* over but one for each allocation that failed.
DecodersBounded ==
  /\ step # "aborted"
  /\ step = "running" => \A n \in Programs : Cardinality(Entries(stream, n)) <= 1 + changes + faults
  /\ step = "closed" =>
       /\ \A n \in DOMAIN stream.handle : stream.handle[n] \in {NULL, Handle(NULL)}
       /\ stream.leaked <= failures

\* A gap in the counter of a PID is reported if and only if packets were missed: not for
\* stuffing, not for a multiple of the counter's range, and not when the stream announces it.
GapsReported == wrong = {}
=============================================================================
