------------------------------ MODULE RtpSequence ------------------------------
(***************************************************************************)
(* RtpSocket::parseDatagram() of the client: the count of lost packets.    *)
(***************************************************************************)
EXTENDS Integers

CONSTANTS
  SNs,      \* sequence numbers count modulo SNs, 65536 in the code
  FirstSn   \* the number the server begins with, any but such that no wrap precedes the first arrival

VARIABLES
  sn,                  \* of the last datagram sent
  lastSequenceNumber,  \* the number expected next
  nbLostPackets,
  passed               \* history: has one been lost next to the wrap of the numbers?

rtp == <<sn, lastSequenceNumber, nbLostPackets, passed>>

RtpInit ==
  /\ sn = (FirstSn - 1) % SNs
  /\ lastSequenceNumber = 0 /\ nbLostPackets = 0 /\ passed = FALSE

NextSn == (sn + 1) % SNs

\* A number behind the expected one is taken for a wrap, but the expected one is not
\* subtracted.
LostBefore(n) ==
  IF n < lastSequenceNumber THEN SNs + n ELSE n - lastSequenceNumber

CountWithoutReset(n) ==
  /\ lastSequenceNumber' = (lastSequenceNumber + 1) % SNs
  /\ nbLostPackets' = nbLostPackets + LostBefore(n)
\* The first datagram is compared with 0.
Count(n) ==
  /\ lastSequenceNumber' = (n + 1) % SNs
  /\ nbLostPackets' = nbLostPackets + LostBefore(n)

ArriveRtp(lostBefore) ==
  /\ sn' = NextSn /\ Count(NextSn)
  /\ passed' = (passed \/ (lostBefore > 0 /\ NextSn < lastSequenceNumber))
RepeatRtp == Count(sn) /\ UNCHANGED <<sn, passed>>
LoseRtp == sn' = NextSn /\ UNCHANGED <<lastSequenceNumber, nbLostPackets, passed>>
================================================================================
