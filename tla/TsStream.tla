------------------------------- MODULE TsStream -------------------------------
(***************************************************************************)
(* The transport stream of one PID, as the two decoders of the repository  *)
(* read it: sections one behind the other, cut into packets of a fixed     *)
(* size with a continuity counter. A byte is the section it belongs to and *)
(* its place there; a few of them stand for the bytes of a real section.   *)
(***************************************************************************)
EXTENDS Integers, Sequences

CONSTANTS
  N,          \* how many sections are sent; a section is its number
  Lengths,    \* the lengths a section may have
  HeaderSize, \* the bytes that tell the length, 3 in the code
  Capacity,   \* the payload of a packet, 184 in the code
  CCs,        \* the continuity counter counts modulo CCs, 16 in the code
  MaxBody     \* the longest body a decoder accepts

ASSUME StreamAssumption ==
  /\ N \in Nat /\ HeaderSize \in Nat \ {0} /\ Capacity \in Nat \ {0}
  /\ CCs \in Nat /\ CCs > 2 /\ MaxBody \in Nat \ {0}
  /\ \A n \in Lengths : n \in Nat /\ n > HeaderSize /\ n <= HeaderSize + MaxBody

VARIABLES
  lengths,    \* of each section
  stream,     \* the bytes of all sections
  sent,       \* how many bytes of the stream were sent
  cc,         \* the continuity counter of the last packet
  last        \* the last packet, once it has arrived

Stuffing == <<0, 0>>
NoPacket == [cc |-> 0, start |-> FALSE, pointer |-> 0, bytes |-> <<>>]

Bytes(k) == [i \in 1..lengths[k] |-> <<k, i>>]

All ==
  LET upTo[k \in 0..N] == IF k = 0 THEN <<>> ELSE upTo[k-1] \o Bytes(k) IN upTo[N]

EndsSection(b) == b[2] = lengths[b[1]]

\* The last byte of section k has been sent.
Complete(k) == \E i \in 1..sent : stream[i] = <<k, lengths[k]>>

Starts(bytes) == {i \in DOMAIN bytes : bytes[i][2] = 1}

\* A packet carries as many bytes as fit, or those up to the end of a section and then
\* stuffing. The pointer leads to the first section that begins in it.
PacketOf(n) ==
  LET bytes == SubSeq(stream, sent + 1, sent + n)
      first == CHOOSE i \in Starts(bytes) : \A j \in Starts(bytes) : i <= j
  IN [cc |-> (cc + 1) % CCs,
      start |-> Starts(bytes) # {},
      pointer |-> IF Starts(bytes) # {} THEN first - 1 ELSE 0,
      bytes |-> bytes \o [i \in 1..(Capacity - n) |-> Stuffing]]

Cuts ==
  {n \in 1..Capacity :
     /\ sent + n <= Len(stream)
     /\ n = Capacity \/ EndsSection(stream[sent + n])}

StreamInit ==
  /\ lengths \in [1..N -> Lengths] /\ stream = All
  /\ sent = 0 /\ cc = 0 /\ last = NoPacket

Carries(packet) == {packet.bytes[i][1] : i \in DOMAIN packet.bytes} \ {0}

----------------------------------------------------------------------------
(* The assembly of one section, common to both decoders.                   *)

NoSection == [data |-> <<>>, need |-> 0, header |-> FALSE]
NewSection == [data |-> <<>>, need |-> HeaderSize, header |-> FALSE]

\* The length that the header tells; bytes from elsewhere tell any.
BodyLength(data, garbage) ==
  IF \E k \in 1..N : data = SubSeq(Bytes(k), 1, HeaderSize)
  THEN lengths[data[1][1]] - HeaderSize
  ELSE garbage

\* The number of the section that was assembled, 0 for one that was never sent.
Assembled(data) ==
  IF \E k \in 1..N : data = Bytes(k) THEN data[1][1] ELSE 0
=============================================================================
