------------------------------- MODULE Sections -------------------------------
(***************************************************************************)
(* One PID of a transport stream, received over a network that loses and   *)
(* repeats packets, by the decoders of the repository.                     *)
(***************************************************************************)
EXTENDS PacketPush, PidHandler, EpgReception, RtpSequence, FiniteSets

CONSTANTS
  MaxBurst,   \* bound: the packets lost in a row
  MaxLost,    \* bound: the packets lost in all
  MaxRepeats  \* bound: the packets repeated

\* The numbers of datagrams do not come round unnoticed, nor before the first arrival.
ASSUME SequenceAssumption ==
  /\ SNs \in Nat /\ FirstSn \in Nat /\ MaxBurst \in Nat
  /\ FirstSn + MaxBurst < SNs

VARIABLES
  lost, burst, repeats,
  unseen,     \* the packets the handler has missed in a row
  torn,       \* history: the sections of which some packet did not reach the decoder
  tornHere,   \* the same for the handler
  repeated,   \* history: the sections of which some packet was repeated
  wrapped,    \* history: have so many packets been missed that the counter came round?
  shared      \* history: the sections that had a packet in common with another

sender == <<lengths, stream, sent, cc, last>>
network == <<lost, burst, repeats>>
history == <<unseen, torn, tornHere, repeated, wrapped, shared>>
vars == <<sender, decoder, handler, epg, rtp, network, history>>

Init ==
  /\ StreamInit /\ DecoderInit /\ HandlerInit /\ EpgInit /\ RtpInit
  /\ lost = 0 /\ burst = 0 /\ repeats = 0 /\ unseen = 0
  /\ torn = {} /\ tornHere = {} /\ repeated = {} /\ wrapped = FALSE /\ shared = {}

\* More than one section in a packet.
Shared(packet) ==
  shared' = shared \cup IF Cardinality(Carries(packet)) > 1 THEN Carries(packet) ELSE {}

CountsRound(n) == n >= CCs - 1

Deliver(packet) ==
  /\ \E garbage \in 1..MaxBody + 1 : Push(packet, garbage) /\ PushToHandler(packet, garbage)
  /\ PushToEpg(packet)

\* The network delivers the next packet.
Arrive(n) ==
  LET packet == PacketOf(n) IN
  /\ Deliver(packet) /\ ArriveRtp(burst)
  /\ sent' = sent + n /\ cc' = packet.cc /\ last' = packet
  /\ burst' = 0 /\ UNCHANGED <<lost, repeats>>
  /\ unseen' = IF attached THEN 0 ELSE unseen + 1
  /\ tornHere' = IF attached THEN tornHere ELSE tornHere \cup Carries(packet)
  /\ wrapped' = (wrapped \/ CountsRound(unseen')) /\ Shared(packet)
  /\ UNCHANGED <<lengths, stream, torn, repeated>>

\* It loses it.
Lose(n) ==
  LET packet == PacketOf(n) IN
  /\ burst < MaxBurst /\ lost < MaxLost /\ LoseRtp
  /\ lost' = lost + 1 /\ burst' = burst + 1 /\ UNCHANGED repeats
  /\ sent' = sent + n /\ cc' = packet.cc /\ last' = NoPacket
  /\ unseen' = unseen + 1
  /\ torn' = torn \cup Carries(packet) /\ tornHere' = tornHere \cup Carries(packet)
  /\ wrapped' = (wrapped \/ CountsRound(burst') \/ CountsRound(unseen')) /\ Shared(packet)
  /\ UNCHANGED <<lengths, stream, decoder, handler, epg, repeated>>

\* It delivers the last one once more.
Repeat ==
  /\ last # NoPacket /\ repeats < MaxRepeats
  /\ repeats' = repeats + 1 /\ last' = NoPacket
  /\ Deliver(last) /\ RepeatRtp
  /\ repeated' = repeated \cup Carries(last)
  /\ UNCHANGED <<lengths, stream, sent, cc, lost, burst, unseen, torn, tornHere, wrapped,
                 shared>>

HandlerSwitched ==
  /\ Attach \/ Dettach
  /\ UNCHANGED <<sender, decoder, epg, rtp, network, history>>

Next ==
  \/ \E n \in Cuts : Arrive(n) \/ Lose(n)
  \/ Repeat
  \/ HandlerSwitched

Spec == Init /\ [][Next]_vars
----------------------------------------------------------------------------
(* Properties.                                                             *)

Packets ==
  {NoPacket} \cup
  [cc : 0..CCs-1, start : BOOLEAN, pointer : 0..Capacity-1,
   bytes : [1..Capacity -> (1..N) \X Nat \cup {Stuffing}]]

IsSection(s) ==
  /\ s.header \in BOOLEAN /\ s.need \in Nat
  /\ Len(s.data) + s.need <= HeaderSize + MaxBody
  /\ s # NoSection => s.need > 0 /\ (s.header <=> Len(s.data) >= HeaderSize)

\* The counters and the sections under assembly: a decoder between two packets needs
\* more bytes of the section it assembles, and they fit into its buffer, also where what
\* it takes for a header is none.
TypeOK ==
  /\ lengths \in [1..N -> Lengths] /\ sent \in 0..Len(stream) /\ cc \in 0..CCs-1
  /\ last \in Packets
  /\ counter \in 0..CCs /\ discontinuity \in BOOLEAN /\ gathered \in Seq(0..N)
  /\ ecc \in 0..CCs /\ parsed \in Seq(0..N)
  /\ IsSection(section) /\ IsSection(current)
  /\ epgCc \in 0..CCs /\ incomplete.left \in 0..MaxBody /\ uids \subseteq 1..N
  /\ sn \in 0..SNs-1 /\ lastSequenceNumber \in 0..SNs-1 /\ nbLostPackets \in Nat

Completed == Cardinality({k \in 1..N : Complete(k)})

PushChannel == INSTANCE SectionChannel WITH completed <- Completed, delivered <- gathered
HandlerChannel == INSTANCE SectionChannel WITH completed <- Completed, delivered <- parsed

PushStep == PushChannel!Next \/ UNCHANGED <<sent, gathered>>
HandlerStep == HandlerChannel!Next \/ UNCHANGED <<sent, parsed>>

\* libdvbpsi delivers what was sent, in order and once, whatever the network loses or
\* repeats, as long as no gap is as long as the counter's range: behind a loss it waits for
\* the start of a section. The handlers of the client do so too as long as no section begins
\* in the packet that ends another.
DeliversWhatWasSent ==
  [][~wrapped' => PushStep /\ (~mixed' => HandlerStep)]_<<sent, gathered, parsed>>

Delivered(k, out) == \E i \in DOMAIN out : out[i] = k

PushMissesNothing ==
  \A k \in 1..N :
    Complete(k) /\ k \notin torn \cup repeated /\ ~wrapped => Delivered(k, gathered)

HandlerMissesNothing ==
  \A k \in 1..N :
    Complete(k) /\ k \notin tornHere /\ ~wrapped /\ ~mixed => Delivered(k, parsed)

\* An event of the guide has the descriptors of one section, never of two: a gap deletes
\* an event that is incomplete. The start of a section too short for its header does not.
EventsAreWhole == ~wrapped /\ ~astray => \A i \in DOMAIN events : events[i] # 0

EpgMissesNothing ==
  \A k \in 1..N :
    /\ Complete(k) /\ k \notin torn \cup repeated \cup shared /\ ~wrapped
    /\ \A j \in 1..k-1 : Uid(j) # Uid(k)
    => Delivered(k, events)

\* libdvbpsi misses no section whose packets have all arrived, also right behind a gap. Nor do
\* the handlers of the client, with the exception above, nor does the guide an event whose
\* section begins and ends in packets of its own that have arrived once, unless it was read
\* before.
NothingMissed == PushMissesNothing /\ HandlerMissesNothing /\ EpgMissesNothing

\* No lost datagram goes uncounted, and where none was repeated, and none lost next to the
\* wrap of the numbers, the count is exact but for the number of the first.
LossesCounted ==
  nbLostPackets > 0 =>
    /\ nbLostPackets >= lost - burst
    /\ repeats = 0 /\ ~passed => nbLostPackets = FirstSn + lost - burst

\* "PSI section isn't valid => trash it": what libdvbpsi hands to a table decoder is a
\* section that was sent.
DamagedDiscarded == \A i \in DOMAIN gathered : gathered[i] # 0
=============================================================================
