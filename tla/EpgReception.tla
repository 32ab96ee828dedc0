----------------------------- MODULE EpgReception -----------------------------
(***************************************************************************)
(* The program guide of the client: EpgCollector::packetsAvailable() and   *)
(* EpgParser::push() read the first event of each EIT section straight     *)
(* from the packets, without putting the section together.                 *)
(***************************************************************************)
EXTENDS TsStream

CONSTANTS
  TableHeader,  \* the bytes of a section in front of its first event, 14 in the code
  EventHeader   \* those of an event in front of its descriptors, 12 in the code

\* Each section has an event, and room for the lengths that are in front of its descriptors,
\* as a packet has.
ASSUME EpgAssumption ==
  /\ TableHeader \in Nat /\ EventHeader \in Nat /\ TableHeader + EventHeader >= HeaderSize
  /\ TableHeader + EventHeader <= Capacity
  /\ \A n \in Lengths : n >= TableHeader + EventHeader

VARIABLES
  epgCc,        \* the last continuity counter, CCs while there is none
  uids,         \* the sections read, told apart by numbers but not by version
  incomplete,   \* the event that lacks descriptors, or NoEvent
  events,       \* the events handed to the collector, 0 for one that was never sent
  astray        \* history: has a start too short for a header left an event incomplete?

epg == <<epgCc, uids, incomplete, events, astray>>

NoEvent == [from |-> 0, descriptors |-> <<>>, left |-> 0]

\* Sections come round, some of them in another version.
Uid(k) == ((k - 1) % 2) + 1

Descriptors(k) == SubSeq(Bytes(k), TableHeader + EventHeader + 1, lengths[k])

EpgInit ==
  /\ epgCc = CCs /\ uids = {} /\ incomplete = NoEvent /\ events = <<>> /\ astray = FALSE

\* The bytes that an event takes from a packet, all it lacks or all there are.
Fill(event, bytes) ==
  LET n == IF event.left > Len(bytes) THEN Len(bytes) ELSE event.left
  IN [event EXCEPT !.descriptors = @ \o SubSeq(bytes, 1, n), !.left = @ - n]

\* A complete event is handed over, another is kept.
Keep(event) ==
  IF event.left > 0 THEN incomplete' = event /\ UNCHANGED events
  ELSE /\ incomplete' = NoEvent
       /\ events' = Append(events,
            IF event.descriptors = Descriptors(event.from) THEN event.from ELSE 0)

\* A section begins: an event still incomplete is deleted, also if the bytes it lacks stand
\* in front of the section. The section counts as read even where its event is cut off.
BeginSection(packet, kept) ==
  LET bytes == SubSeq(packet.bytes, packet.pointer + 1, Len(packet.bytes))
      k == bytes[1][1]
      event == [from |-> k, descriptors |-> <<>>, left |-> lengths[k] - TableHeader - EventHeader]
  IN IF Len(bytes) < TableHeader
     THEN /\ incomplete' = kept /\ astray' = (astray \/ kept # NoEvent)
          /\ UNCHANGED <<uids, events>>
     ELSE /\ uids' = uids \cup {Uid(k)} /\ UNCHANGED astray
          /\ IF Uid(k) \in uids \/ Len(bytes) < TableHeader + EventHeader
             THEN incomplete' = NoEvent /\ UNCHANGED events
             ELSE Keep(Fill(event, SubSeq(bytes, TableHeader + EventHeader + 1, Len(bytes))))

Continue(packet, kept) ==
  /\ IF kept = NoEvent THEN incomplete' = NoEvent /\ UNCHANGED events
     ELSE Keep(Fill(kept, packet.bytes))
  /\ UNCHANGED <<uids, astray>>

NextCcUnmasked == epgCc + 1
NextCc == (epgCc + 1) % CCs

KeptAlways(packet) == incomplete
\* discontinuity() deletes the incomplete event; a repeated packet is one as well.
Kept(packet) ==
  IF epgCc = CCs \/ packet.cc = NextCc THEN incomplete ELSE NoEvent

PushToEpg(packet) ==
  /\ epgCc' = packet.cc
  /\ IF packet.start THEN BeginSection(packet, Kept(packet)) ELSE Continue(packet, Kept(packet))
=============================================================================
