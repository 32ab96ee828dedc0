---------------------------- MODULE SectionsProofs ----------------------------
(***************************************************************************)
(* Proofs about Sections, for every size of packets and sections and every *)
(* pattern of losses: the count of lost datagrams, the sections that fit   *)
(* into the buffers, the events made of one section; that each decoder     *)
(* implements SectionChannel, and that none misses what has arrived.       *)
(***************************************************************************)
EXTENDS Sections, Recursion, FiniteSetTheorems, SequenceTheorems, TLAPS

\* Before the first arrival nothing is expected but the number 0.
Unheard ==
  /\ nbLostPackets = 0 /\ lastSequenceNumber = 0 /\ ~passed /\ repeats = 0
  /\ lost = burst /\ sn \in 0..SNs-1 /\ (sn + 1) % SNs = FirstSn + burst /\ last = NoPacket

\* Then the number expected is the one behind the last arrival, and the count right for what was
\* lost before it.
Heard ==
  /\ lastSequenceNumber \in 0..SNs-1 /\ nbLostPackets \in Nat
  /\ sn \in 0..SNs-1
  /\ (sn + 1) % SNs = (lastSequenceNumber + burst) % SNs
  /\ last # NoPacket => burst = 0
  /\ nbLostPackets >= lost - burst
  /\ repeats = 0 /\ ~passed => nbLostPackets = FirstSn + lost - burst

LossesInv ==
  /\ lost \in Nat /\ burst \in 0..MaxBurst /\ repeats \in Nat /\ passed \in BOOLEAN
  /\ Unheard \/ Heard

\* The number behind another, and the one so many losses behind it.
LEMMA Modulo ==
  ASSUME NEW m \in Nat \ {0}, NEW e \in 0..m-1, NEW b \in 0..m-1
  PROVE  /\ (e + b) % m = IF e + b < m THEN e + b ELSE e + b - m
         /\ (e + b) % m \in 0..m-1
<1>1. CASE e + b < m
  BY <1>1
<1>2. CASE e + b >= m
  <2>1. e + b - m \in 0..m-1
    BY <1>2
  <2>2. (e + b) % m = e + b - m
    BY <1>2, <2>1
  <2> QED
    BY <1>2, <2>1, <2>2
<1> QED
  BY <1>1, <1>2

\* What is counted before the datagram n, which comes behind b losses.
LEMMA CountsLosses ==
  ASSUME SNs \in Nat \ {0}, lastSequenceNumber \in 0..SNs-1, NEW b \in 0..SNs-1
  PROVE  LET n == (lastSequenceNumber + b) % SNs IN
         /\ LostBefore(n) \in Nat /\ LostBefore(n) >= b
         /\ ~(b > 0 /\ n < lastSequenceNumber) => LostBefore(n) = b
<1> DEFINE n == (lastSequenceNumber + b) % SNs
<1>1. /\ n = IF lastSequenceNumber + b < SNs THEN lastSequenceNumber + b ELSE lastSequenceNumber + b - SNs
      /\ n \in 0..SNs-1
  BY Modulo
<1> HIDE DEF n
<1>2. CASE lastSequenceNumber + b < SNs
  BY <1>1, <1>2 DEF LostBefore
<1>3. CASE ~(lastSequenceNumber + b < SNs)
  <2>1. n < lastSequenceNumber /\ b > 0 /\ SNs + n = lastSequenceNumber + b
    BY <1>1, <1>3
  <2> QED
    BY <1>1, <2>1 DEF LostBefore
<1> QED
  BY <1>2, <1>3 DEF n

LEMMA NextInOrder ==
  ASSUME NEW m \in Nat \ {0}, NEW n \in 0..m-1
  PROVE  (n + 1) % m \in 0..m-1
OBVIOUS

LEMMA LossesOpen == Init => LossesInv
<1> SUFFICES ASSUME Init PROVE LossesInv
  OBVIOUS
<1>1. /\ sn = (FirstSn - 1) % SNs /\ lastSequenceNumber = 0 /\ nbLostPackets = 0 /\ passed = FALSE
      /\ lost = 0 /\ burst = 0 /\ repeats = 0 /\ last = NoPacket
  BY DEF Init, RtpInit, StreamInit
<1>2. passed \in BOOLEAN /\ ~passed
  BY <1>1
<1>3. burst \in 0..MaxBurst /\ sn \in 0..SNs-1 /\ (sn + 1) % SNs = FirstSn + burst
  <2>1. FirstSn \in 0..SNs-1 /\ SNs \in Nat \ {0}
    BY SequenceAssumption
  <2>2. sn = IF FirstSn = 0 THEN SNs - 1 ELSE FirstSn - 1
    <3>1. CASE FirstSn = 0
      BY <1>1, <2>1, <3>1
    <3>2. CASE FirstSn # 0
      BY <1>1, <2>1, <3>2
    <3> QED
      BY <3>1, <3>2
  <2>3. CASE FirstSn = 0
    BY <1>1, <2>1, <2>2, <2>3, SequenceAssumption
  <2>4. CASE FirstSn # 0
    BY <1>1, <2>1, <2>2, <2>4, SequenceAssumption
  <2> QED
    BY <2>3, <2>4
<1> QED
  BY <1>1, <1>2, <1>3 DEF LossesInv, Unheard

LEMMA ArrivalCounts ==
  ASSUME LossesInv, ArriveRtp(burst), burst' = 0, UNCHANGED <<lost, repeats>>
  PROVE  LossesInv'
<1>0. SNs \in Nat \ {0} /\ FirstSn \in Nat /\ MaxBurst \in Nat /\ FirstSn + MaxBurst < SNs
  BY SequenceAssumption
<1> DEFINE n == NextSn
<1>1. /\ sn' = n /\ lastSequenceNumber' = (n + 1) % SNs
      /\ nbLostPackets' = nbLostPackets + LostBefore(n)
      /\ passed' = (passed \/ (burst > 0 /\ n < lastSequenceNumber))
      /\ n = (sn + 1) % SNs
  BY DEF ArriveRtp, Count, NextSn
<1>2. /\ lost \in Nat /\ burst \in 0..MaxBurst /\ burst \in 0..SNs-1 /\ repeats \in Nat
      /\ passed \in BOOLEAN
  BY <1>0 DEF LossesInv
<1> HIDE DEF n
<1>3. n \in 0..SNs-1 /\ LostBefore(n) \in Nat
      /\ nbLostPackets' \in Nat /\ nbLostPackets' >= lost
      /\ (repeats = 0 /\ ~passed' => nbLostPackets' = FirstSn + lost)
  <2>1. CASE Unheard
    <3>1. n = FirstSn + burst /\ n \in 0..SNs-1
      BY <1>0, <1>1, <1>2, <2>1 DEF Unheard
    <3>2. LostBefore(n) = n
      BY <2>1, <3>1 DEF Unheard, LostBefore
    <3> QED
      BY <1>0, <1>1, <1>2, <2>1, <3>1, <3>2 DEF Unheard
  <2>2. CASE Heard
    <3>1. n = (lastSequenceNumber + burst) % SNs /\ lastSequenceNumber \in 0..SNs-1
      BY <1>1, <2>2 DEF Heard
    <3>2. n \in 0..SNs-1
      BY <1>0, <1>2, <3>1, Modulo
    <3>3. /\ LostBefore(n) \in Nat /\ LostBefore(n) >= burst
          /\ ~(burst > 0 /\ n < lastSequenceNumber) => LostBefore(n) = burst
      BY <1>0, <1>2, <3>1, CountsLosses
    <3>4. nbLostPackets \in Nat /\ nbLostPackets >= lost - burst
          /\ (repeats = 0 /\ ~passed => nbLostPackets = FirstSn + lost - burst)
      BY <2>2 DEF Heard
    <3>5. nbLostPackets' \in Nat /\ nbLostPackets' >= lost
      BY <1>1, <1>2, <3>3, <3>4
    <3>6. ASSUME repeats = 0, ~passed'
          PROVE  nbLostPackets' = FirstSn + lost
      <4>1. LostBefore(n) = burst /\ nbLostPackets = FirstSn + lost - burst
        BY <1>1, <1>2, <3>3, <3>4, <3>6
      <4> QED
        BY <1>0, <1>1, <1>2, <4>1
    <3> QED
      BY <3>2, <3>3, <3>5, <3>6
  <2> QED
    BY <2>1, <2>2 DEF LossesInv
<1>4. lastSequenceNumber' \in 0..SNs-1
  BY <1>0, <1>1, <1>3, NextInOrder
<1>5. (sn' + 1) % SNs = (lastSequenceNumber' + 0) % SNs
  <2>1. sn' = n /\ lastSequenceNumber' = (n + 1) % SNs
    BY <1>1
  <2>2. (((n + 1) % SNs) + 0) % SNs = (n + 1) % SNs
    <3>1. (n + 1) % SNs \in 0..SNs-1
      BY <1>0, <1>3, NextInOrder
    <3> QED
      BY <1>0, <3>1, Modulo
  <2> QED
    BY <2>1, <2>2
<1>6. /\ sn' \in 0..SNs-1 /\ nbLostPackets' >= lost' - burst'
      /\ (repeats' = 0 /\ ~passed' => nbLostPackets' = FirstSn + lost' - burst')
      /\ burst' = 0 /\ burst' \in 0..MaxBurst /\ passed' \in BOOLEAN
  BY <1>0, <1>1, <1>2, <1>3
<1> QED
  BY <1>2, <1>3, <1>4, <1>5, <1>6 DEF LossesInv, Heard

LEMMA LossIsOpen ==
  ASSUME LossesInv, LoseRtp, burst < MaxBurst, lost' = lost + 1, burst' = burst + 1,
         UNCHANGED repeats, last' = NoPacket
  PROVE  LossesInv'
<1>0. SNs \in Nat \ {0} /\ FirstSn \in Nat /\ MaxBurst \in Nat /\ FirstSn + MaxBurst < SNs
  BY SequenceAssumption
<1>1. sn' = (sn + 1) % SNs /\ UNCHANGED <<lastSequenceNumber, nbLostPackets, passed>>
  BY DEF LoseRtp, NextSn
<1>2. /\ lost \in Nat /\ burst \in 0..MaxBurst /\ burst \in 0..SNs-1 /\ burst + 1 \in 0..SNs-1
      /\ repeats \in Nat /\ passed \in BOOLEAN /\ burst + 1 \in 0..MaxBurst /\ lost + 1 \in Nat
  BY <1>0 DEF LossesInv
<1>3. CASE Unheard
  <2>1. (sn + 1) % SNs = FirstSn + burst /\ FirstSn + burst \in 0..SNs-1 /\ FirstSn + burst + 1 \in 0..SNs-1
    BY <1>0, <1>2, <1>3 DEF Unheard
  <2>2. ((FirstSn + burst) + 1) % SNs = FirstSn + (burst + 1)
    BY <1>0, <1>2, <2>1
  <2> QED
    BY <1>1, <1>2, <1>3, <2>1, <2>2 DEF Unheard, LossesInv
<1>4. CASE Heard
  <2> DEFINE e == lastSequenceNumber
  <2>1. e \in 0..SNs-1 /\ (sn + 1) % SNs = (e + burst) % SNs /\ sn \in 0..SNs-1
    BY <1>4 DEF Heard
  <2> HIDE DEF e
  <2>2. (sn + 1) % SNs \in 0..SNs-1
    BY <1>0, <2>1, NextInOrder
  <2>3. (((sn + 1) % SNs) + 1) % SNs = (e + (burst + 1)) % SNs
    <3>1. (e + burst) % SNs = IF e + burst < SNs THEN e + burst ELSE e + burst - SNs
      BY <1>0, <1>2, <2>1, Modulo
    <3>2. (e + (burst + 1)) % SNs = IF e + (burst + 1) < SNs THEN e + (burst + 1) ELSE e + (burst + 1) - SNs
      BY <1>0, <1>2, <2>1, Modulo
    <3>3. CASE e + burst = SNs - 1
      BY <1>0, <1>2, <2>1, <3>1, <3>2, <3>3
    <3>4. CASE e + burst # SNs - 1
      <4> DEFINE r == (e + burst) % SNs
      <4>1. r \in 0..SNs-1 /\ r + 1 \in 0..SNs-1
        BY <1>0, <1>2, <2>1, <3>1, <3>4
      <4>2. (r + 1) % SNs = r + 1
        BY <1>0, <4>1
      <4> QED
        BY <1>0, <1>2, <2>1, <3>1, <3>2, <3>4, <4>2
    <3> QED
      BY <3>3, <3>4
  <2>4. /\ lastSequenceNumber' \in 0..SNs-1 /\ nbLostPackets' \in Nat /\ sn' \in 0..SNs-1
        /\ (sn' + 1) % SNs = (lastSequenceNumber' + burst') % SNs
    BY <1>1, <1>4, <2>1, <2>2, <2>3 DEF Heard, e
  <2>5. /\ nbLostPackets' >= lost' - burst'
        /\ (repeats' = 0 /\ ~passed' => nbLostPackets' = FirstSn + lost' - burst')
    BY <1>0, <1>1, <1>2, <1>4 DEF Heard
  <2> QED
    BY <1>1, <1>2, <2>4, <2>5 DEF LossesInv, Heard
<1> QED
  BY <1>3, <1>4 DEF LossesInv

\* The number that is repeated is the one in front of the number expected.
LEMMA RepeatCounts ==
  ASSUME LossesInv, RepeatRtp, last # NoPacket, last' = NoPacket, repeats' = repeats + 1,
         UNCHANGED <<lost, burst>>
  PROVE  LossesInv'
<1>0. SNs \in Nat \ {0} /\ FirstSn \in Nat /\ MaxBurst \in Nat /\ FirstSn + MaxBurst < SNs
  BY SequenceAssumption
<1>1. /\ lastSequenceNumber' = (sn + 1) % SNs
      /\ nbLostPackets' = nbLostPackets + LostBefore(sn) /\ UNCHANGED <<sn, passed>>
  BY DEF RepeatRtp, Count
<1>2. Heard /\ burst = 0 /\ lost \in Nat /\ repeats \in Nat /\ passed \in BOOLEAN
  BY DEF LossesInv, Unheard, Heard
<1>3. LostBefore(sn) \in Nat
  BY <1>0, <1>2 DEF Heard, LostBefore
<1>4. (sn + 1) % SNs \in 0..SNs-1
  BY <1>0, <1>2, NextInOrder DEF Heard
<1>5. (((sn + 1) % SNs) + 0) % SNs = (sn + 1) % SNs
  BY <1>0, <1>4, Modulo
<1>6. (sn' + 1) % SNs = (lastSequenceNumber' + burst') % SNs
  BY <1>1, <1>2, <1>5
<1>7. nbLostPackets' \in Nat /\ nbLostPackets' >= lost' - burst' /\ repeats' \in Nat /\ repeats' # 0
  BY <1>1, <1>2, <1>3 DEF Heard
<1> QED
  BY <1>0, <1>1, <1>2, <1>4, <1>6, <1>7 DEF LossesInv, Heard

LEMMA LossesKeep == LossesInv /\ [Next]_vars => LossesInv'
<1> SUFFICES ASSUME LossesInv, [Next]_vars PROVE LossesInv'
  OBVIOUS
<1>1. ASSUME NEW n \in Cuts, Arrive(n)
      PROVE  LossesInv'
  <2>1. ArriveRtp(burst) /\ burst' = 0 /\ UNCHANGED <<lost, repeats>>
    BY <1>1 DEF Arrive
  <2> QED
    BY <2>1, ArrivalCounts
<1>2. ASSUME NEW n \in Cuts, Lose(n)
      PROVE  LossesInv'
  <2>1. /\ LoseRtp /\ burst < MaxBurst /\ lost' = lost + 1 /\ burst' = burst + 1
        /\ UNCHANGED repeats /\ last' = NoPacket
    BY <1>2 DEF Lose
  <2> QED
    BY <2>1, LossIsOpen
<1>3. CASE Repeat
  <2>1. /\ RepeatRtp /\ last # NoPacket /\ last' = NoPacket /\ repeats' = repeats + 1
        /\ UNCHANGED <<lost, burst>>
    BY <1>3 DEF Repeat
  <2> QED
    BY <2>1, RepeatCounts
<1>4. CASE UNCHANGED <<rtp, network, last>>
  BY <1>4 DEF rtp, network, LossesInv, Unheard, Heard
<1>5. CASE HandlerSwitched
  BY <1>4, <1>5 DEF HandlerSwitched, sender
<1>6. CASE UNCHANGED vars
  BY <1>4, <1>6 DEF vars, sender
<1> QED
  BY <1>1, <1>2, <1>3, <1>5, <1>6 DEF Next

\* No lost datagram goes uncounted, and the count is exact but for the number of the first one
\* where none was repeated and none lost next to the wrap of the numbers, for every number that
\* the server begins with, wherever the numbers come round.
THEOREM LossesAreCounted == Spec => []LossesCounted
<1>1. LossesInv => LossesCounted
  BY DEF LossesInv, Unheard, Heard, LossesCounted
<1> QED
  BY <1>1, LossesOpen, LossesKeep, PTL DEF Spec
----------------------------------------------------------------------------
(* The stream. *)

\* The bytes of sections, and those in a packet.
Octets == (1..N) \X Nat
Payloads == Octets \cup {Stuffing}

\* The byte behind a byte of the stream.
After(b) == IF EndsSection(b) THEN <<b[1] + 1, 1>> ELSE <<b[1], b[2] + 1>>

\* The sections 1 to k, one behind the other.
Streamed(x, k) ==
  /\ x \in Seq(Octets)
  /\ k = 0 => Len(x) = 0
  /\ k > 0 => Len(x) > 0 /\ x[1] = <<1, 1>> /\ x[Len(x)] = <<k, lengths[k]>>
  /\ \A i \in 1..Len(x) : x[i][1] \in 1..k /\ x[i][2] \in 1..lengths[x[i][1]]
  /\ \A i \in 1..Len(x) : i < Len(x) => x[i+1] = After(x[i])

LEMMA LengthsAre ==
  ASSUME lengths \in [1..N -> Lengths], NEW k \in 1..N
  PROVE  lengths[k] \in Nat /\ lengths[k] > HeaderSize /\ lengths[k] <= HeaderSize + MaxBody
BY StreamAssumption

LEMMA BytesAre ==
  ASSUME lengths \in [1..N -> Lengths], NEW k \in 1..N
  PROVE  /\ Bytes(k) \in Seq(Octets) /\ Len(Bytes(k)) = lengths[k]
         /\ \A i \in 1..lengths[k] : Bytes(k)[i] = <<k, i>>
<1>1. lengths[k] \in Nat
  BY LengthsAre
<1>2. \A i \in 1..lengths[k] : <<k, i>> \in Octets
  BY <1>1 DEF Octets
<1> QED
  BY <1>1, <1>2 DEF Bytes

LEMMA OneMore ==
  ASSUME lengths \in [1..N -> Lengths], NEW k \in 1..N, NEW x, Streamed(x, k - 1)
  PROVE  Streamed(x \o Bytes(k), k)
<1> DEFINE y == x \o Bytes(k)
           l == Len(x)
           m == lengths[k]
<1>1. /\ x \in Seq(Octets) /\ Bytes(k) \in Seq(Octets) /\ l \in Nat /\ m \in Nat /\ m > 0
      /\ Len(Bytes(k)) = m
  <2>1. x \in Seq(Octets) /\ l \in Nat
    BY LenProperties DEF Streamed
  <2>2. m \in Nat /\ m > 0
    BY LengthsAre, StreamAssumption
  <2>3. Bytes(k) \in Seq(Octets) /\ Len(Bytes(k)) = m
    BY BytesAre
  <2> HIDE DEF m, l
  <2> QED
    BY <2>1, <2>2, <2>3
<1>2. /\ y \in Seq(Octets) /\ Len(y) = l + m
      /\ \A i \in 1..l + m : y[i] = IF i <= l THEN x[i] ELSE Bytes(k)[i - l]
  <2>1. /\ y \in Seq(Octets) /\ Len(y) = Len(x) + Len(Bytes(k))
        /\ \A i \in 1..Len(x) + Len(Bytes(k)) : y[i] = IF i <= Len(x) THEN x[i] ELSE Bytes(k)[i - Len(x)]
    BY <1>1, ConcatProperties
  <2> HIDE DEF y
  <2> QED
    BY <1>1, <2>1
<1>3. \A i \in 1..l + m : y[i] = IF i <= l THEN x[i] ELSE <<k, i - l>>
  <2>1. \A i \in 1..m : Bytes(k)[i] = <<k, i>>
    BY BytesAre
  <2> HIDE DEF y, m
  <2> TAKE i \in 1..l + m
  <2>2. y[i] = IF i <= l THEN x[i] ELSE Bytes(k)[i - l]
    BY <1>2
  <2>3. CASE i <= l
    BY <2>2, <2>3
  <2>4. CASE ~(i <= l)
    <3>1. i - l \in 1..m
      BY <1>1, <2>4
    <3> QED
      BY <2>1, <2>2, <2>4, <3>1
  <2> QED
    BY <2>3, <2>4
<1> HIDE DEF y, m
<1>4. \A i \in 1..Len(y) : y[i][1] \in 1..k /\ y[i][2] \in 1..lengths[y[i][1]]
  <2> TAKE i \in 1..Len(y)
  <2>1. CASE i <= l
    <3>1. x[i][1] \in 1..k-1 /\ x[i][2] \in 1..lengths[x[i][1]]
      BY <1>1, <1>2, <2>1 DEF Streamed
    <3> QED
      BY <1>2, <1>3, <2>1, <3>1
  <2>2. CASE i > l
    BY <1>1, <1>2, <1>3, <2>2 DEF m
  <2> QED
    BY <1>1, <1>2, <2>1, <2>2
<1>5. \A i \in 1..Len(y) : i < Len(y) => y[i+1] = After(y[i])
  <2> TAKE i \in 1..Len(y)
  <2> HAVE i < Len(y)
  <2>1. CASE i < l
    <3>1. x[i+1] = After(x[i])
      BY <1>1, <2>1 DEF Streamed
    <3> QED
      BY <1>1, <1>2, <1>3, <2>1, <3>1
  <2>2. CASE i = l
    <3>1. k > 1 /\ x[l] = <<k - 1, lengths[k-1]>>
      BY <1>1, <2>2 DEF Streamed
    <3>2. y[i] = <<k - 1, lengths[k-1]>> /\ y[i+1] = <<k, 1>>
      BY <1>1, <1>2, <1>3, <2>2, <3>1
    <3> QED
      BY <3>2 DEF After, EndsSection
  <2>3. CASE i > l
    <3>1. y[i] = <<k, i - l>> /\ y[i+1] = <<k, i + 1 - l>> /\ i - l # m
      BY <1>1, <1>2, <1>3, <2>3
    <3> QED
      BY <1>1, <3>1 DEF After, EndsSection, m
  <2> QED
    BY <1>1, <1>2, <2>1, <2>2, <2>3
<1>6. Len(y) > 0 /\ y[1] = <<1, 1>> /\ y[Len(y)] = <<k, m>>
  <2>1. Len(y) > 0 /\ y[Len(y)] = <<k, m>>
    BY <1>1, <1>2, <1>3
  <2>2. CASE l = 0
    <3>1. k = 1
      BY <2>2, StreamAssumption DEF Streamed
    <3> QED
      BY <1>1, <1>2, <1>3, <2>1, <2>2, <3>1
  <2>3. CASE l > 0
    <3>1. x[1] = <<1, 1>>
      BY <1>1, <2>3 DEF Streamed
    <3> QED
      BY <1>1, <1>2, <1>3, <2>1, <2>3, <3>1
  <2> QED
    BY <1>1, <2>1, <2>2, <2>3
<1>7. k > 0 /\ k # 0
  OBVIOUS
<1> QED
  BY <1>2, <1>4, <1>5, <1>6, <1>7 DEF Streamed, y, m

LEMMA AllStreamed ==
  ASSUME lengths \in [1..N -> Lengths]
  PROVE  Streamed(All, N)
<1> DEFINE upTo == CHOOSE upTo : upTo = [k \in 0..N |-> IF k = 0 THEN <<>> ELSE upTo[k-1] \o Bytes(k)]
           P == Seq(Octets)
           F == [k \in 1..N |-> [x \in P |-> x \o Bytes(k)]]
<1>1. All = upTo[N]
  BY DEF All
<1>2. N \in Nat /\ <<>> \in P /\ F \in [1..N -> [P -> P]]
  <2>1. \A k \in 1..N, x \in P : x \o Bytes(k) \in P
    BY BytesAre, ConcatProperties
  <2> QED
    BY <2>1, StreamAssumption
<1>3. PICK g : Stepping(g, N, P, <<>>, F)
  <2> HIDE DEF F, P
  <2> QED
    BY <1>2, StepsExist
<1>4. g \in [0..N -> P] /\ g[0] = <<>> /\ \A k \in 1..N : g[k] = F[k][g[k-1]]
  BY <1>3 DEF Stepping
<1>5. ASSUME NEW k \in 1..N PROVE g[k] = g[k-1] \o Bytes(k)
  <2>1. g[k-1] \in P
    BY <1>2, <1>4
  <2> HIDE DEF P
  <2>2. F[k][g[k-1]] = g[k-1] \o Bytes(k)
    BY <2>1
  <2> QED
    BY <2>2, <1>4
<1>6. g = [k \in 0..N |-> IF k = 0 THEN <<>> ELSE g[k-1] \o Bytes(k)]
  <2>1. \A k \in 0..N : g[k] = IF k = 0 THEN <<>> ELSE g[k-1] \o Bytes(k)
    <3>1. \A k \in 0..N : k = 0 \/ k \in 1..N
      BY <1>2
    <3>2. g[0] = <<>> /\ \A k \in 1..N : k # 0 /\ g[k] = g[k-1] \o Bytes(k)
      BY <1>4, <1>5
    <3> QED
      BY <3>1, <3>2, Zenon
  <2>2. g = [k \in 0..N |-> g[k]]
    BY <1>4
  <2> HIDE DEF P, F, upTo
  <2> QED
    BY <2>1, <2>2, Zenon
<1>7. upTo = [k \in 0..N |-> IF k = 0 THEN <<>> ELSE upTo[k-1] \o Bytes(k)]
  BY <1>6, Zenon
<1> HIDE DEF upTo
<1>8. upTo[0] = <<>> /\ \A k \in 1..N : upTo[k] = upTo[k-1] \o Bytes(k)
  <2>1. \A k \in 0..N : upTo[k] = IF k = 0 THEN <<>> ELSE upTo[k-1] \o Bytes(k)
    BY <1>7, Zenon
  <2>2. 0 \in 0..N /\ \A k \in 1..N : k \in 0..N /\ k # 0
    BY <1>2
  <2> QED
    BY <2>1, <2>2, Zenon
<1> DEFINE T == {k \in 0..N : Streamed(upTo[k], k)}
<1>9. 0 \in T
  <2>1. Streamed(<<>>, 0)
    BY DEF Streamed
  <2> QED
    BY <1>2, <1>8, <2>1
<1>10. ASSUME NEW k \in 1..N, k - 1 \in T PROVE k \in T
  <2>1. Streamed(upTo[k-1], k-1)
    BY <1>10
  <2>2. Streamed(upTo[k-1] \o Bytes(k), k)
    BY <2>1, OneMore
  <2>3. upTo[k] = upTo[k-1] \o Bytes(k) /\ k \in 0..N
    BY <1>2, <1>8
  <2> QED
    BY <2>2, <2>3
<1> HIDE DEF T
<1>11. 0..N \subseteq T
  BY <1>2, <1>9, <1>10, IntervalInduction
<1> QED
  BY <1>1, <1>2, <1>11 DEF T

----------------------------------------------------------------------------
(* The packets. *)

\* A packet as the receivers take it: the pointer leads to the first byte of a section.
IsPacket(p) ==
  /\ p.cc \in 0..CCs-1 /\ p.start \in BOOLEAN /\ p.pointer \in 0..Capacity-1
  /\ p.bytes \in Seq(Payloads) /\ Len(p.bytes) = Capacity
  /\ p.start => p.bytes[p.pointer + 1] \in Octets /\ p.bytes[p.pointer + 1][2] = 1

\* A packet with n bytes of the stream behind those sent.
Cut(n) == n \in 1..Capacity /\ sent + n \in 1..Len(stream) /\ (n = Capacity \/ EndsSection(stream[sent + n]))

CutsOf(p, n) ==
  /\ \A i \in 1..Capacity : p.bytes[i] = IF i <= n THEN stream[sent + i] ELSE Stuffing
  /\ p.start <=> \E i \in 1..n : stream[sent + i][2] = 1
  /\ p.start => p.pointer + 1 \in 1..n /\ \A i \in 1..p.pointer : stream[sent + i][2] # 1
  /\ p.cc = (cc + 1) % CCs

\* What the broadcaster keeps.
Broadcast ==
  /\ lengths \in [1..N -> Lengths] /\ Streamed(stream, N)
  /\ sent \in 0..Len(stream) /\ cc \in 0..CCs-1

\* A part of a sequence.
LEMMA SliceIs ==
  ASSUME NEW S, NEW s, NEW m \in Nat, NEW n \in Nat, \A i \in 1..n : s[m + i] \in S
  PROVE  /\ SubSeq(s, m + 1, m + n) \in Seq(S) /\ Len(SubSeq(s, m + 1, m + n)) = n
         /\ \A i \in 1..n : SubSeq(s, m + 1, m + n)[i] = s[m + i]
<1> DEFINE a == m + 1
           b == m + n
<1>1. \A i \in a..b : s[i] \in S
  <2> TAKE i \in a..b
  <2>1. i - m \in 1..n /\ m + (i - m) = i
    OBVIOUS
  <2> QED
    BY <2>1
<1>2. a \in Int /\ b \in Int /\ (a <= b <=> n > 0) /\ b - a + 1 = n /\ \A i \in 1..n : a + i - 1 = m + i
  OBVIOUS
<1> HIDE DEF a, b
<1>3. /\ SubSeq(s, a, b) \in Seq(S)
      /\ Len(SubSeq(s, a, b)) = IF a <= b THEN b - a + 1 ELSE 0
      /\ \A i \in 1..b - a + 1 : SubSeq(s, a, b)[i] = s[a + i - 1]
  BY <1>1, <1>2, SubSeqProperties
<1>4. Len(SubSeq(s, a, b)) = n
  BY <1>2, <1>3
<1>5. \A i \in 1..n : SubSeq(s, a, b)[i] = s[m + i]
  BY <1>2, <1>3
<1> QED
  BY <1>3, <1>4, <1>5 DEF a, b

LEMMA CutsAre ==
  ASSUME Broadcast, NEW n \in Cuts
  PROVE  Cut(n)
<1>1. /\ n \in 1..Capacity /\ sent + n <= Len(stream) /\ (n = Capacity \/ EndsSection(stream[sent + n]))
      /\ Len(stream) \in Nat /\ sent \in Nat
  BY StreamAssumption DEF Cuts, Broadcast, Streamed
<1>2. sent + n \in 1..Len(stream)
  BY <1>1
<1> QED
  BY <1>1, <1>2 DEF Cut

LEMMA PacketIs ==
  ASSUME Broadcast, NEW n \in Cuts
  PROVE  IsPacket(PacketOf(n)) /\ CutsOf(PacketOf(n), n)
<1> DEFINE p == PacketOf(n)
           bytes == SubSeq(stream, sent + 1, sent + n)
           stuff == [i \in 1..(Capacity - n) |-> Stuffing]
           first == CHOOSE i \in Starts(bytes) : \A j \in Starts(bytes) : i <= j
<1>1. /\ n \in 1..Capacity /\ sent \in Nat /\ sent + n <= Len(stream) /\ Len(stream) \in Nat
      /\ Capacity \in Nat /\ CCs \in Nat /\ CCs > 2
  BY CutsAre, StreamAssumption DEF Broadcast, Cut, Streamed
<1>2. /\ p.cc = (cc + 1) % CCs /\ p.start = (Starts(bytes) # {})
      /\ p.pointer = (IF Starts(bytes) # {} THEN first - 1 ELSE 0)
      /\ p.bytes = bytes \o stuff
  BY DEF PacketOf
<1> HIDE DEF p
<1>3. bytes \in Seq(Octets) /\ Len(bytes) = n /\ \A i \in 1..n : bytes[i] = stream[sent + i]
  <2>1. \A i \in sent + 1 .. sent + n : stream[i] \in Octets
    <3>1. stream \in Seq(Octets)
      BY DEF Broadcast, Streamed
    <3>2. \A i \in sent + 1 .. sent + n : i \in 1..Len(stream)
      BY <1>1
    <3> QED
      BY <3>1, <3>2, ElementOfSeq
  <2>2. \A i \in 1..n : stream[sent + i] \in Octets
    BY <1>1, <2>1
  <2>3. sent \in Nat /\ n \in Nat
    BY <1>1
  <2> QED
    BY <2>2, <2>3, SliceIs
<1> HIDE DEF bytes
<1>4. stuff \in Seq(Payloads) /\ Len(stuff) = Capacity - n /\ \A i \in 1..(Capacity - n) : stuff[i] = Stuffing
  <2>1. Capacity - n \in Nat /\ Stuffing \in Payloads
    BY <1>1 DEF Payloads
  <2> QED
    BY <2>1
<1> HIDE DEF stuff
<1>5. p.bytes \in Seq(Payloads) /\ Len(p.bytes) = Capacity
      /\ \A i \in 1..Capacity : p.bytes[i] = IF i <= n THEN stream[sent + i] ELSE Stuffing
  <2>1. bytes \in Seq(Payloads)
    BY <1>3, SeqMonotonic DEF Payloads
  <2>2. /\ p.bytes \in Seq(Payloads) /\ Len(p.bytes) = Len(bytes) + Len(stuff)
        /\ \A i \in 1..Len(bytes) + Len(stuff) : p.bytes[i] = IF i <= Len(bytes) THEN bytes[i] ELSE stuff[i - Len(bytes)]
    BY <1>2, <1>4, <2>1, ConcatProperties
  <2>3. Len(bytes) + Len(stuff) = Capacity
    BY <1>1, <1>3, <1>4
  <2>4. ASSUME NEW i \in 1..Capacity PROVE p.bytes[i] = IF i <= n THEN stream[sent + i] ELSE Stuffing
    <3>1. p.bytes[i] = IF i <= n THEN bytes[i] ELSE stuff[i - n]
      BY <1>3, <2>2, <2>3
    <3>2. CASE i <= n
      BY <1>1, <1>3, <3>1, <3>2
    <3>3. CASE ~(i <= n)
      <4>1. i - n \in 1..(Capacity - n)
        BY <1>1, <3>3
      <4> QED
        BY <1>4, <3>1, <3>3, <4>1
    <3> QED
      BY <3>2, <3>3
  <2> QED
    BY <2>2, <2>3, <2>4
<1>6. Starts(bytes) = {i \in 1..n : stream[sent + i][2] = 1}
  <2>1. DOMAIN bytes = 1..n
    BY <1>3, LenProperties
  <2> QED
    BY <1>3, <2>1 DEF Starts
<1>7. p.start \in BOOLEAN /\ (p.start <=> \E i \in 1..n : stream[sent + i][2] = 1)
  BY <1>2, <1>6
<1>8. ASSUME p.start
      PROVE  /\ p.pointer \in 0..Capacity-1 /\ p.pointer + 1 \in 1..n /\ stream[sent + (p.pointer + 1)][2] = 1
             /\ \A i \in 1..p.pointer : stream[sent + i][2] # 1
  <2>1. Starts(bytes) # {} /\ Starts(bytes) \subseteq Nat
    <3>1. Starts(bytes) # {}
      BY <1>2, <1>8
    <3>2. \A i \in 1..n : i \in Nat
      BY <1>1
    <3> QED
      BY <1>6, <3>1, <3>2
  <2>2. \E i \in Starts(bytes) : \A j \in Starts(bytes) : i <= j
    BY <2>1, LeastNumber
  <2>3. first \in Starts(bytes) /\ \A j \in Starts(bytes) : first <= j
    BY <2>2
  <2> HIDE DEF first
  <2>4. first \in 1..n /\ stream[sent + first][2] = 1 /\ p.pointer = first - 1 /\ p.pointer + 1 = first
    BY <1>1, <1>2, <1>6, <2>1, <2>3
  <2>5. ASSUME NEW i \in 1..p.pointer, stream[sent + i][2] = 1 PROVE FALSE
    <3>1. i \in 1..n /\ i < first
      BY <1>1, <2>4
    <3>2. i \in Starts(bytes)
      BY <1>6, <2>5, <3>1
    <3> QED
      BY <2>3, <2>4, <3>1, <3>2
  <2>6. p.pointer \in 0..Capacity-1
    BY <1>1, <2>4
  <2> QED
    BY <2>4, <2>5, <2>6
<1>9. ~p.start => p.pointer = 0
  BY <1>2
<1>10. p.pointer \in 0..Capacity-1
  BY <1>1, <1>7, <1>8, <1>9
<1>11. p.start => p.bytes[p.pointer + 1] \in Octets /\ p.bytes[p.pointer + 1][2] = 1
  <2> HAVE p.start
  <2>1. p.pointer + 1 \in 1..n /\ p.pointer + 1 \in 1..Capacity
    BY <1>1, <1>8
  <2>2. p.bytes[p.pointer + 1] = stream[sent + (p.pointer + 1)]
    BY <1>5, <2>1
  <2>3. stream[sent + (p.pointer + 1)] \in Octets
    BY <1>3, <2>1, ElementOfSeq
  <2> QED
    BY <1>8, <2>2, <2>3
<1>12. (cc + 1) % CCs \in 0..CCs-1
  BY <1>1, NextInOrder DEF Broadcast
<1>13. IsPacket(p)
  BY <1>2, <1>5, <1>7, <1>10, <1>11, <1>12 DEF IsPacket
<1>14. CutsOf(p, n)
  BY <1>2, <1>5, <1>7, <1>8 DEF CutsOf
<1> QED
  BY <1>13, <1>14 DEF p

----------------------------------------------------------------------------
(* The assembly of a section fits into its buffer. *)

SectionRecords == [data : Seq(Payloads), need : Nat, header : BOOLEAN]

\* A section that lacks a part of its header, or of what its header tells.
Lacking(s) ==
  /\ s.need > 0
  /\ IF s.header THEN Len(s.data) >= HeaderSize /\ Len(s.data) + s.need <= HeaderSize + MaxBody
     ELSE Len(s.data) + s.need = HeaderSize

Assembly(s) == s \in SectionRecords /\ (s = NoSection \/ Lacking(s))

LEMMA LackingIsSection ==
  ASSUME NEW s, Assembly(s)
  PROVE  IsSection(s) /\ (s # NoSection <=> Lacking(s))
<1>1. Len(s.data) \in Nat /\ s.need \in Nat /\ s.header \in BOOLEAN
  BY LenProperties DEF Assembly, SectionRecords
<1>2. HeaderSize \in Nat /\ HeaderSize > 0 /\ MaxBody \in Nat
  BY StreamAssumption
<1>3. NoSection.need = 0 /\ Len(NoSection.data) = 0 /\ NoSection.header = FALSE
  BY DEF NoSection
<1>4. CASE s = NoSection
  <2>1. s.need = 0 /\ Len(s.data) = 0 /\ s.header = FALSE
    BY <1>3, <1>4
  <2> QED
    <3>1. IsSection(s)
      <4>1. 0 + 0 <= HeaderSize + MaxBody /\ 0 \in Nat /\ FALSE \in BOOLEAN
        BY <1>2
      <4> QED
        BY <1>4, <2>1, <4>1, Zenon DEF IsSection
    <3>2. ~Lacking(s)
      BY <1>2, <2>1 DEF Lacking
    <3> QED
      BY <1>4, <3>1, <3>2
<1>5. CASE s # NoSection
  <2>1. Lacking(s)
    BY <1>5 DEF Assembly
  <2> QED
    BY <1>1, <1>2, <1>5, <2>1 DEF IsSection, Lacking
<1> QED
  BY <1>4, <1>5

LEMMA FreshSections == Assembly(NoSection) /\ Assembly(NewSection) /\ NewSection # NoSection
<1>1. NoSection \in SectionRecords /\ NewSection \in SectionRecords
  BY StreamAssumption DEF NoSection, NewSection, SectionRecords
<1>2. Lacking(NewSection)
  BY StreamAssumption DEF NewSection, Lacking
<1>3. NewSection.need # NoSection.need
  BY StreamAssumption DEF NewSection, NoSection
<1> QED
  BY <1>1, <1>2, <1>3 DEF Assembly

\* The bytes a section takes from a packet.
Taken(data, bytes, pos, taken) == data \o SubSeq(bytes, pos, pos + taken - 1)

TakenRight(all, data, bytes, pos, taken) ==
  /\ all \in Seq(Payloads) /\ Len(all) = Len(data) + taken
  /\ \A i \in 1..Len(data) + taken :
       all[i] = IF i <= Len(data) THEN data[i] ELSE bytes[pos + (i - Len(data)) - 1]

LEMMA TakenAre ==
  ASSUME NEW data \in Seq(Payloads), NEW bytes \in Seq(Payloads), Len(bytes) = Capacity,
         NEW pos \in 1..Capacity+1, NEW taken \in Nat, pos + taken <= Capacity + 1
  PROVE  TakenRight(Taken(data, bytes, pos, taken), data, bytes, pos, taken)
<1> DEFINE m == pos - 1
           part == SubSeq(bytes, m + 1, m + taken)
           all == data \o part
<1>1. m \in Nat /\ m + 1 = pos /\ m + taken = pos + taken - 1 /\ Capacity \in Nat
  BY StreamAssumption
<1>2. \A i \in 1..taken : bytes[m + i] \in Payloads
  <2>1. \A i \in 1..taken : m + i \in 1..Len(bytes)
    BY <1>1
  <2> QED
    BY <2>1, ElementOfSeq
<1> HIDE DEF m
<1>3. part \in Seq(Payloads) /\ Len(part) = taken /\ \A i \in 1..taken : part[i] = bytes[m + i]
  BY <1>1, <1>2, SliceIs
<1>4. part = SubSeq(bytes, pos, pos + taken - 1)
  BY <1>1
<1> HIDE DEF part
<1>5. /\ all \in Seq(Payloads) /\ Len(all) = Len(data) + Len(part)
      /\ \A i \in 1..Len(data) + Len(part) : all[i] = IF i <= Len(data) THEN data[i] ELSE part[i - Len(data)]
  BY <1>3, ConcatProperties
<1>6. Len(data) \in Nat
  BY LenProperties
<1> HIDE DEF all
<1>7. ASSUME NEW i \in 1..Len(data) + taken
      PROVE  all[i] = IF i <= Len(data) THEN data[i] ELSE bytes[pos + (i - Len(data)) - 1]
  <2>1. CASE i <= Len(data)
    BY <1>3, <1>5, <2>1
  <2>2. CASE ~(i <= Len(data))
    <3>1. i - Len(data) \in 1..taken /\ m + (i - Len(data)) = pos + (i - Len(data)) - 1
      BY <1>1, <1>6, <2>2
    <3> QED
      BY <1>3, <1>5, <2>2, <3>1
  <2> QED
    BY <2>1, <2>2
<1> QED
  BY <1>3, <1>4, <1>5, <1>7 DEF all, Taken, TakenRight

\* What a header tells, and what was assembled.
LEMMA BodyLengthIs ==
  ASSUME lengths \in [1..N -> Lengths], NEW data, NEW garbage \in 1..MaxBody+1
  PROVE  BodyLength(data, garbage) \in 1..MaxBody+1
<1>1. MaxBody \in Nat /\ HeaderSize \in Nat /\ HeaderSize > 0
  BY StreamAssumption
<1>2. CASE \E k \in 1..N : data = SubSeq(Bytes(k), 1, HeaderSize)
  <2>1. PICK k \in 1..N : data = SubSeq(Bytes(k), 1, HeaderSize)
    BY <1>2
  <2>2. lengths[k] \in Nat /\ lengths[k] > HeaderSize /\ lengths[k] <= HeaderSize + MaxBody
    BY LengthsAre
  <2>3. /\ Bytes(k) \in Seq(Octets) /\ Len(Bytes(k)) = lengths[k]
        /\ \A i \in 1..lengths[k] : Bytes(k)[i] = <<k, i>>
    BY BytesAre
  <2>4. data[1] = <<k, 1>>
    <3>1. \A i \in 1..HeaderSize : Bytes(k)[0 + i] \in Octets
      <4> TAKE i \in 1..HeaderSize
      <4>1. 0 + i = i /\ i \in 1..Len(Bytes(k))
        BY <1>1, <2>2, <2>3
      <4> QED
        BY <2>3, <4>1, ElementOfSeq
    <3>2. \A i \in 1..HeaderSize : SubSeq(Bytes(k), 0 + 1, 0 + HeaderSize)[i] = Bytes(k)[0 + i]
      BY <1>1, <3>1, SliceIs
    <3>3. 0 + 1 = 1 /\ 0 + HeaderSize = HeaderSize /\ 1 \in 1..HeaderSize /\ 1 \in 1..lengths[k]
      BY <1>1, <2>2
    <3> QED
      BY <2>1, <2>3, <3>2, <3>3
  <2>5. BodyLength(data, garbage) = lengths[k] - HeaderSize
    <3>1. data[1][1] = k
      BY <2>4
    <3>2. BodyLength(data, garbage) = lengths[data[1][1]] - HeaderSize
      BY <1>2 DEF BodyLength
    <3> QED
      BY <3>1, <3>2
  <2> QED
    BY <1>1, <2>2, <2>5
<1>3. CASE ~ \E k \in 1..N : data = SubSeq(Bytes(k), 1, HeaderSize)
  BY <1>3 DEF BodyLength
<1> QED
  BY <1>2, <1>3

LEMMA AssembledIs ==
  ASSUME lengths \in [1..N -> Lengths], NEW data
  PROVE  Assembled(data) \in 0..N
<1>1. CASE \E k \in 1..N : data = Bytes(k)
  <2>1. PICK k \in 1..N : data = Bytes(k)
    BY <1>1
  <2>2. 1 \in 1..lengths[k]
    BY LengthsAre, StreamAssumption
  <2>3. data[1] = <<k, 1>>
    BY <2>1, <2>2, BytesAre
  <2>4. Assembled(data) = k
    BY <1>1, <2>3 DEF Assembled
  <2> QED
    BY <2>4, StreamAssumption
<1>2. CASE ~ \E k \in 1..N : data = Bytes(k)
  BY <1>2, StreamAssumption DEF Assembled
<1> QED
  BY <1>1, <1>2

\* A section that has taken some of the bytes it lacks, and one that has its header.
LEMMA LacksLess ==
  ASSUME NEW s, Assembly(s), Lacking(s), NEW data \in Seq(Payloads), NEW n \in Nat, n < s.need,
         Len(data) = Len(s.data) + n
  PROVE  LET t == [s EXCEPT !.data = data, !.need = s.need - n] IN Assembly(t) /\ Lacking(t)
<1> DEFINE t == [s EXCEPT !.data = data, !.need = s.need - n]
<1>1. s \in SectionRecords /\ s.need \in Nat /\ Len(s.data) \in Nat /\ s.header \in BOOLEAN
  BY LenProperties DEF Assembly, SectionRecords
<1>2. s.need - n \in Nat /\ s.need - n > 0
  BY <1>1
<1>3. t \in SectionRecords /\ t.data = data /\ t.need = s.need - n /\ t.header = s.header
  BY <1>1, <1>2 DEF SectionRecords
<1> HIDE DEF t
<1>4. Len(t.data) + t.need = Len(s.data) + s.need /\ Len(t.data) >= Len(s.data)
  BY <1>1, <1>3
<1>5. CASE s.header
  <2>1. Len(s.data) >= HeaderSize /\ Len(s.data) + s.need <= HeaderSize + MaxBody
    BY <1>5 DEF Lacking
  <2>2. Len(t.data) >= HeaderSize /\ Len(t.data) + t.need <= HeaderSize + MaxBody
    <3>1. Len(t.data) \in Nat /\ HeaderSize \in Nat
      BY <1>1, <1>3, StreamAssumption
    <3> QED
      BY <1>1, <1>4, <2>1, <3>1
  <2> QED
    BY <1>2, <1>3, <1>5, <2>2 DEF Lacking, Assembly, t
<1>6. CASE ~s.header
  <2>1. Len(t.data) + t.need = HeaderSize
    BY <1>4, <1>6 DEF Lacking
  <2> QED
    BY <1>2, <1>3, <1>6, <2>1 DEF Lacking, Assembly, t
<1> QED
  BY <1>5, <1>6

LEMMA HeaderRead ==
  ASSUME NEW data \in Seq(Payloads), Len(data) = HeaderSize, NEW body \in 1..MaxBody
  PROVE  LET t == [data |-> data, need |-> body, header |-> TRUE] IN Assembly(t) /\ Lacking(t)
<1> DEFINE t == [data |-> data, need |-> body, header |-> TRUE]
<1>1. HeaderSize \in Nat /\ MaxBody \in Nat /\ body \in Nat /\ body > 0 /\ body <= MaxBody
  BY StreamAssumption
<1>2. t \in SectionRecords /\ t.data = data /\ t.need = body /\ t.header = TRUE
  BY <1>1 DEF SectionRecords
<1> HIDE DEF t
<1>3. Len(t.data) >= HeaderSize /\ Len(t.data) + t.need <= HeaderSize + MaxBody
  BY <1>1, <1>2
<1>4. Lacking(t)
  BY <1>1, <1>2, <1>3 DEF Lacking
<1> QED
  BY <1>2, <1>4 DEF Assembly, t

----------------------------------------------------------------------------
(* The loop of libdvbpsi. *)

\* What the loop has in hand between two turns.
PushRecords ==
  [section : SectionRecords, pos : 1..Capacity+1, next : 0..Capacity, out : Seq(0..N), flag : BOOLEAN]

PushStates ==
  {s \in PushRecords : Assembly(s.section) /\ (s.section = NoSection => s.pos = Capacity + 1)}

LEMMA BeginOK ==
  ASSUME NEW s \in PushRecords, NEW at \in 1..Capacity
  PROVE  Begin(s, at) \in PushStates
<1>1. NewSection \in SectionRecords /\ at \in 1..Capacity+1 /\ 0 \in 0..Capacity
  BY FreshSections, StreamAssumption DEF Assembly
<1>2. Begin(s, at) \in PushRecords /\ Begin(s, at).section = NewSection
  BY <1>1 DEF Begin, PushRecords
<1> QED
  BY <1>2, FreshSections DEF PushStates

LEMMA FinishOK ==
  ASSUME NEW s \in PushRecords
  PROVE  Finish(s, Capacity) \in PushStates
<1>1. NoSection \in SectionRecords /\ Capacity + 1 \in 1..Capacity+1
  BY FreshSections, StreamAssumption DEF Assembly
<1>2. Finish(s, Capacity) \in PushRecords /\ Finish(s, Capacity).section = NoSection /\ Finish(s, Capacity).pos = Capacity + 1
  BY <1>1 DEF Finish, PushRecords
<1> QED
  BY <1>2, FreshSections DEF PushStates

\* A section with more bytes of the packet, at another place of it.
LEMMA MovedOK ==
  ASSUME NEW s \in PushRecords, NEW new, Assembly(new), Lacking(new), NEW pos \in 1..Capacity+1
  PROVE  [s EXCEPT !.section = new, !.pos = pos] \in PushStates
<1> DEFINE t == [s EXCEPT !.section = new, !.pos = pos]
<1>1. t \in PushRecords /\ t.section = new
  BY DEF PushRecords, Assembly
<1>2. new # NoSection
  BY LackingIsSection
<1> QED
  BY <1>1, <1>2 DEF PushStates

LEMMA TurnOK ==
  ASSUME lengths \in [1..N -> Lengths], NEW bytes \in Seq(Payloads), Len(bytes) = Capacity,
         NEW garbage \in 1..MaxBody+1, NEW s \in PushStates
  PROVE  Turn(s, bytes, garbage) \in PushStates
<1> DEFINE need == s.section.need
           available == Len(bytes) - s.pos + 1
           taken == IF available >= need THEN need ELSE available
           data == Taken(s.section.data, bytes, s.pos, taken)
<1>1. /\ s \in PushRecords /\ Assembly(s.section) /\ (s.section = NoSection => s.pos = Capacity + 1)
      /\ s.pos \in 1..Capacity+1 /\ s.section \in SectionRecords /\ s.next \in 0..Capacity
  BY DEF PushStates, PushRecords
<1>2. /\ need \in Nat /\ s.section.data \in Seq(Payloads) /\ s.section.header \in BOOLEAN
      /\ Capacity \in Nat /\ HeaderSize \in Nat /\ HeaderSize > 0 /\ MaxBody \in Nat
      /\ Len(s.section.data) \in Nat
  BY <1>1, StreamAssumption, LenProperties DEF SectionRecords
<1>3. available \in 0..Capacity /\ available = Capacity - s.pos + 1 /\ taken \in Nat
      /\ s.pos + taken <= Capacity + 1
  <2>1. s.pos \in 1..Capacity+1 /\ need \in Nat /\ Capacity \in Nat /\ available = Capacity - s.pos + 1
    BY <1>1, <1>2
  <2> HIDE DEF available, need
  <2> QED
    BY <2>1
<1>4. data \in Seq(Payloads) /\ Len(data) = Len(s.section.data) + taken
  <2> HIDE DEF taken, available, need
  <2>1. /\ s.section.data \in Seq(Payloads) /\ s.pos \in 1..Capacity+1
        /\ taken \in Nat /\ s.pos + taken <= Capacity + 1
    BY <1>1, <1>2, <1>3
  <2>2. TakenRight(data, s.section.data, bytes, s.pos, taken)
    BY <2>1, TakenAre
  <2> QED
    BY <2>2 DEF TakenRight
<1> HIDE DEF data
<1>5. CASE available = 0
  BY <1>5 DEF Turn
<1>6. ASSUME available # 0 PROVE s.section # NoSection /\ Lacking(s.section)
  BY <1>1, <1>2, <1>6 DEF Assembly
<1>7. CASE available # 0 /\ available < need
  <2> DEFINE new == [s.section EXCEPT !.data = data, !.need = need - available]
  <2>1. Turn(s, bytes, garbage) = [s EXCEPT !.section.data = data, !.section.need = need - available, !.pos = Len(bytes) + 1]
    BY <1>7 DEF Turn, data, Taken
  <2>2. new = [s.section EXCEPT !.data = data, !.need = s.section.need - available]
    OBVIOUS
  <2>3. available \in Nat /\ available < s.section.need /\ Len(data) = Len(s.section.data) + available
    BY <1>3, <1>4, <1>7
  <2>4. Lacking(s.section)
    BY <1>6, <1>7
  <2> HIDE DEF need, available, taken, new
  <2>5. Assembly(new) /\ Lacking(new)
    BY <1>1, <1>4, <2>2, <2>3, <2>4, LacksLess
  <2>6. [s EXCEPT !.section.data = data, !.section.need = need - available, !.pos = Len(bytes) + 1]
          = [s EXCEPT !.section = new, !.pos = Len(bytes) + 1]
    BY <1>1 DEF PushRecords, SectionRecords, new
  <2> DEFINE pos == Len(bytes) + 1
  <2>7. pos \in 1..Capacity+1
    BY <1>2
  <2> HIDE DEF pos
  <2>8. [s EXCEPT !.section = new, !.pos = pos] \in PushStates
    BY <1>1, <2>5, <2>7, MovedOK
  <2> QED
    BY <2>1, <2>6, <2>8 DEF pos
<1>8. ASSUME ~(available < need), available # 0
      PROVE  taken = need /\ s.pos + need \in 1..Capacity+1
  BY <1>1, <1>2, <1>3, <1>8
<1>9. CASE available # 0 /\ ~(available < need) /\ ~s.section.header
  <2> DEFINE body == BodyLength(data, garbage)
             new == [data |-> data, need |-> body, header |-> TRUE]
  <2>1. Turn(s, bytes, garbage) = HeaderComplete(s, data, need, bytes, garbage)
    BY <1>9 DEF Turn, data, Taken
  <2>2. body \in 1..MaxBody+1
    BY BodyLengthIs
  <2> HIDE DEF body
  <2>3. CASE body > MaxBody
    <3>1. Turn(s, bytes, garbage) = IF s.next # 0 THEN Begin(s, s.next) ELSE Finish(s, Capacity)
      BY <2>1, <2>3 DEF HeaderComplete, TooLong, body
    <3>2. s.next # 0 => s.next \in 1..Capacity
      BY <1>1, <1>2
    <3> QED
      BY <1>1, <3>1, <3>2, BeginOK, FinishOK
  <2>4. CASE ~(body > MaxBody)
    <3>1. Turn(s, bytes, garbage) = [s EXCEPT !.section = new, !.pos = s.pos + need]
      BY <2>1, <2>4 DEF HeaderComplete, body
    <3>2. Len(data) = HeaderSize
      BY <1>2, <1>4, <1>6, <1>8, <1>9 DEF Lacking
    <3>3. Assembly(new) /\ Lacking(new)
      <4>1. body \in 1..MaxBody
        BY <1>2, <2>2, <2>4
      <4> QED
        BY <1>4, <3>2, <4>1, HeaderRead
    <3> HIDE DEF new
    <3> DEFINE pos == s.pos + need
    <3>4. pos \in 1..Capacity+1
      BY <1>8, <1>9
    <3> HIDE DEF pos
    <3>5. [s EXCEPT !.section = new, !.pos = pos] \in PushStates
      BY <1>1, <3>3, <3>4, MovedOK
    <3> QED
      BY <3>1, <3>5 DEF pos
  <2> QED
    BY <2>3, <2>4
<1>10. CASE available # 0 /\ ~(available < need) /\ s.section.header
  <2> DEFINE end == s.pos + need
             next == IF s.next = 0 /\ end <= Len(bytes) /\ bytes[end] # Stuffing THEN end ELSE s.next
             t == [s EXCEPT !.out = Append(s.out, Assembled(data)), !.flag = FALSE]
  <2>1. Turn(s, bytes, garbage) = SectionComplete(s, data, need, bytes)
    BY <1>10 DEF Turn, data, Taken
  <2>2. Turn(s, bytes, garbage) = IF next # 0 THEN Begin(t, next) ELSE Finish(t, Capacity)
    BY <2>1 DEF SectionComplete
  <2>3. t \in PushRecords
    <3>1. Append(s.out, Assembled(data)) \in Seq(0..N)
      <4>1. s.out \in Seq(0..N) /\ Assembled(data) \in 0..N
        BY <1>1, AssembledIs DEF PushRecords
      <4> QED
        BY <4>1
    <3> QED
      BY <1>1, <3>1 DEF PushRecords
  <2>4. next # 0 => next \in 1..Capacity
    BY <1>1, <1>2, <1>8, <1>10
  <2> HIDE DEF next, t
  <2> QED
    BY <2>2, <2>3, <2>4, BeginOK, FinishOK
<1> QED
  BY <1>5, <1>7, <1>9, <1>10

\* The turns of the loop, one by one.
LEMMA LoopRuns ==
  ASSUME NEW bytes, NEW garbage, NEW P, NEW s \in P, \A x \in P : Turn(x, bytes, garbage) \in P
  PROVE  \E f : /\ Loop(s, bytes, garbage) = f[2 * Capacity] /\ f[0] = s
                /\ \A n \in 0..2*Capacity : f[n] \in P
                /\ \A n \in 1..2*Capacity : f[n] = Turn(f[n-1], bytes, garbage)
<1> DEFINE K == 2 * Capacity
           after == CHOOSE after : after = [n \in 0..K |-> IF n = 0 THEN s ELSE Turn(after[n-1], bytes, garbage)]
           F == [n \in 1..K |-> [x \in P |-> Turn(x, bytes, garbage)]]
<1>1. Loop(s, bytes, garbage) = after[K]
  BY DEF Loop
<1>2. K \in Nat /\ F \in [1..K -> [P -> P]]
  BY StreamAssumption
<1>3. PICK g : Stepping(g, K, P, s, F)
  <2> HIDE DEF F, K
  <2> QED
    BY <1>2, StepsExist
<1>4. g \in [0..K -> P] /\ g[0] = s /\ \A n \in 1..K : g[n] = F[n][g[n-1]]
  BY <1>3 DEF Stepping
<1>5. ASSUME NEW n \in 1..K PROVE g[n] = Turn(g[n-1], bytes, garbage)
  <2>1. n - 1 \in 0..K
    BY <1>2
  <2>2. g[n-1] \in P
    BY <2>1, <1>4
  <2> HIDE DEF K
  <2>3. F[n][g[n-1]] = Turn(g[n-1], bytes, garbage)
    BY <2>2
  <2> QED
    BY <2>3, <1>4
<1>6. g = [n \in 0..K |-> IF n = 0 THEN s ELSE Turn(g[n-1], bytes, garbage)]
  BY <1>4, <1>5
<1>7. after = [n \in 0..K |-> IF n = 0 THEN s ELSE Turn(after[n-1], bytes, garbage)]
  BY <1>6
<1> HIDE DEF after
<1>8. after[0] = s /\ \A n \in 1..K : after[n] = Turn(after[n-1], bytes, garbage)
  BY <1>7, <1>2
<1>9. \A n \in 0..K : after[n] \in P
  <2>1. after[0] \in P /\ \A n \in 1..K : after[n-1] \in P => after[n] \in P
    BY <1>8
  <2> HIDE DEF K
  <2> QED
    BY <1>2, <2>1, StepsStay
<1> QED
  BY <1>1, <1>8, <1>9

LEMMA LoopOK ==
  ASSUME NEW bytes, NEW garbage, NEW P, NEW s \in P, \A x \in P : Turn(x, bytes, garbage) \in P
  PROVE  Loop(s, bytes, garbage) \in P
<1>1. 2*Capacity \in 0..2*Capacity
  BY StreamAssumption
<1> QED
  BY <1>1, LoopRuns

DecoderOK ==
  /\ counter \in 0..CCs /\ discontinuity \in BOOLEAN /\ gathered \in Seq(0..N)
  /\ Assembly(section)

LEMMA IdleOK ==
  ASSUME NEW next \in 0..Capacity, NEW flag \in BOOLEAN, NEW sec, Assembly(sec), NEW pos \in 1..Capacity+1
  PROVE  [section |-> sec, pos |-> pos, next |-> next, out |-> <<>>, flag |-> flag] \in PushRecords
<1>1. sec \in SectionRecords /\ <<>> \in Seq(0..N)
  BY DEF Assembly
<1> QED
  BY <1>1 DEF PushRecords

\* What a packet does to the section under assembly, where the continuity counter lets it in.
\* P is what holds between two turns of the loop.
LEMMA PayloadOK ==
  ASSUME lengths \in [1..N -> Lengths], NEW p, IsPacket(p), NEW garbage \in 1..MaxBody+1,
         NEW sec, Assembly(sec), NEW flag \in BOOLEAN, gathered \in Seq(0..N),
         Payload(p, sec, flag, garbage)
  PROVE  Assembly(section') /\ discontinuity' \in BOOLEAN /\ gathered' \in Seq(0..N)
<1> DEFINE new == IF p.start THEN p.pointer + 1 ELSE 0
           idle == [section |-> NoSection, pos |-> 1, next |-> new, out |-> <<>>, flag |-> flag]
           s == IF sec # NoSection THEN Loop([idle EXCEPT !.section = sec], p.bytes, garbage)
                ELSE IF new # 0 THEN Loop(Begin(idle, new), p.bytes, garbage)
                ELSE idle
<1>1. section' = s.section /\ discontinuity' = s.flag /\ gathered' = gathered \o s.out
  BY DEF Payload
<1>2. /\ p.bytes \in Seq(Payloads) /\ Len(p.bytes) = Capacity /\ new \in 0..Capacity
      /\ Capacity \in Nat /\ 1 \in 1..Capacity+1
  BY StreamAssumption DEF IsPacket
<1> HIDE DEF new
<1>3. \A x \in PushStates : Turn(x, p.bytes, garbage) \in PushStates
  BY <1>2, TurnOK
<1>4. idle \in PushRecords
  BY <1>2, FreshSections, IdleOK
<1>5. Assembly(s.section) /\ s.flag \in BOOLEAN /\ s.out \in Seq(0..N)
  <2>1. CASE sec # NoSection
    <3> DEFINE t == [section |-> sec, pos |-> 1, next |-> new, out |-> <<>>, flag |-> flag]
    <3>1. [idle EXCEPT !.section = sec] = t
      OBVIOUS
    <3>2. t \in PushRecords /\ t.section = sec
      BY <1>2, IdleOK
    <3> HIDE DEF t
    <3>3. t \in PushStates
      BY <2>1, <3>2 DEF PushStates
    <3>4. Loop(t, p.bytes, garbage) \in PushStates
      BY <1>2, <1>3, <3>3, LoopOK
    <3>5. s = Loop(t, p.bytes, garbage)
      BY <2>1, <3>1
    <3> QED
      BY <3>4, <3>5 DEF PushStates, PushRecords
  <2>2. CASE sec = NoSection /\ new # 0
    <3> HIDE DEF idle
    <3>1. new \in 1..Capacity
      BY <1>2, <2>2
    <3>2. Begin(idle, new) \in PushStates
      BY <1>4, <3>1, BeginOK
    <3>3. Loop(Begin(idle, new), p.bytes, garbage) \in PushStates
      BY <1>2, <1>3, <3>2, LoopOK
    <3>4. s = Loop(Begin(idle, new), p.bytes, garbage)
      BY <2>2
    <3> QED
      BY <3>3, <3>4 DEF PushStates, PushRecords
  <2>3. CASE sec = NoSection /\ new = 0
    <3>1. s = idle
      BY <2>3
    <3>2. s.section = NoSection /\ s.flag = flag /\ s.out = <<>>
      BY <3>1
    <3>3. <<>> \in Seq(0..N)
      OBVIOUS
    <3> HIDE DEF s
    <3> QED
      BY <3>2, <3>3, FreshSections
  <2> QED
    BY <2>1, <2>2, <2>3
<1> HIDE DEF s
<1>6. gathered \o s.out \in Seq(0..N)
  BY <1>5, ConcatProperties
<1> QED
  BY <1>1, <1>5, <1>6

LEMMA PushOK ==
  ASSUME lengths \in [1..N -> Lengths], DecoderOK, NEW p, IsPacket(p), NEW garbage \in 1..MaxBody+1,
         Push(p, garbage)
  PROVE  DecoderOK'
<1>1. counter' = p.cc /\ p.cc \in 0..CCs
  BY StreamAssumption DEF Push, IsPacket
<1>2. Assembly(section') /\ discontinuity' \in BOOLEAN /\ gathered' \in Seq(0..N)
  <2>0. Assembly(section) /\ discontinuity \in BOOLEAN /\ gathered \in Seq(0..N) /\ TRUE \in BOOLEAN
    BY DEF DecoderOK
  <2>1. CASE FirstPacket(p, garbage)
    BY <2>0, <2>1, PayloadOK DEF FirstPacket
  <2>2. CASE Duplicate(p)
    BY <2>0, <2>2 DEF Duplicate
  <2>3. CASE InSequence(p, garbage)
    BY <2>0, <2>3, PayloadOK DEF InSequence
  <2>4. CASE Gap(p, garbage)
    BY <2>0, <2>4, PayloadOK, FreshSections DEF Gap
  <2> QED
    BY <2>1, <2>2, <2>3, <2>4 DEF Push
<1> QED
  BY <1>1, <1>2 DEF DecoderOK, Assembly, NoSection, Lacking, SectionRecords
----------------------------------------------------------------------------
(* The loop of the client. *)

ParseRecords == [section : SectionRecords, pos : 1..Capacity+1, out : Seq(0..N)]

ParseStates ==
  {s \in ParseRecords : Assembly(s.section) /\ (s.section = NoSection => s.pos = Capacity + 1)}

LEMMA DoneOK ==
  ASSUME NEW s \in ParseRecords
  PROVE  Done(s, Capacity) \in ParseStates
<1>1. NoSection \in SectionRecords /\ Capacity + 1 \in 1..Capacity+1
  BY FreshSections, StreamAssumption DEF Assembly
<1>2. Done(s, Capacity) \in ParseRecords /\ Done(s, Capacity).section = NoSection /\ Done(s, Capacity).pos = Capacity + 1
  BY <1>1 DEF Done, ParseRecords
<1> QED
  BY <1>2, FreshSections DEF ParseStates

LEMMA ParsedOn ==
  ASSUME NEW s \in ParseRecords, NEW new, Assembly(new), Lacking(new), NEW pos \in 1..Capacity+1
  PROVE  [s EXCEPT !.section = new, !.pos = pos] \in ParseStates
<1> DEFINE t == [s EXCEPT !.section = new, !.pos = pos]
<1>1. t \in ParseRecords /\ t.section = new
  BY DEF ParseRecords, Assembly
<1>2. new # NoSection
  BY LackingIsSection
<1> QED
  BY <1>1, <1>2 DEF ParseStates

LEMMA ParseTurnOK ==
  ASSUME lengths \in [1..N -> Lengths], NEW bytes \in Seq(Payloads), Len(bytes) = Capacity,
         NEW garbage \in 1..MaxBody+1, NEW s \in ParseStates
  PROVE  ParseTurn(s, bytes, garbage) \in ParseStates
<1> DEFINE need == s.section.need
           available == Len(bytes) - s.pos + 1
           taken == IF available >= need THEN need ELSE available
           data == Taken(s.section.data, bytes, s.pos, taken)
<1>1. /\ s \in ParseRecords /\ Assembly(s.section) /\ (s.section = NoSection => s.pos = Capacity + 1)
      /\ s.pos \in 1..Capacity+1 /\ s.section \in SectionRecords
  BY DEF ParseStates, ParseRecords
<1>2. /\ need \in Nat /\ s.section.data \in Seq(Payloads) /\ s.section.header \in BOOLEAN
      /\ Capacity \in Nat /\ HeaderSize \in Nat /\ HeaderSize > 0 /\ MaxBody \in Nat
      /\ Len(s.section.data) \in Nat
  BY <1>1, StreamAssumption, LenProperties DEF SectionRecords
<1>3. available \in 0..Capacity /\ available = Capacity - s.pos + 1 /\ taken \in Nat
      /\ s.pos + taken <= Capacity + 1
  <2>1. s.pos \in 1..Capacity+1 /\ need \in Nat /\ Capacity \in Nat /\ available = Capacity - s.pos + 1
    BY <1>1, <1>2
  <2> HIDE DEF available, need
  <2> QED
    BY <2>1
<1>4. data \in Seq(Payloads) /\ Len(data) = Len(s.section.data) + taken
  <2> HIDE DEF taken, available, need
  <2>1. /\ s.section.data \in Seq(Payloads) /\ s.pos \in 1..Capacity+1
        /\ taken \in Nat /\ s.pos + taken <= Capacity + 1
    BY <1>1, <1>2, <1>3
  <2>2. TakenRight(data, s.section.data, bytes, s.pos, taken)
    BY <2>1, TakenAre
  <2> QED
    BY <2>2 DEF TakenRight
<1> HIDE DEF data
<1>5. CASE available = 0
  BY <1>5 DEF ParseTurn
<1>6. ASSUME available # 0 PROVE s.section # NoSection /\ Lacking(s.section)
  BY <1>1, <1>2, <1>6 DEF Assembly
<1>7. CASE available # 0 /\ available < need
  <2> DEFINE new == [s.section EXCEPT !.data = data, !.need = need - available]
  <2>1. ParseTurn(s, bytes, garbage) = [s EXCEPT !.section.data = data, !.section.need = need - available, !.pos = s.pos + taken]
    BY <1>7 DEF ParseTurn, data, Taken
  <2>2. new = [s.section EXCEPT !.data = data, !.need = s.section.need - available]
    OBVIOUS
  <2>3. available \in Nat /\ available < s.section.need /\ Len(data) = Len(s.section.data) + available
    BY <1>3, <1>4, <1>7
  <2>4. Lacking(s.section)
    BY <1>6, <1>7
  <2> HIDE DEF need, available, taken, new
  <2>5. Assembly(new) /\ Lacking(new)
    BY <1>1, <1>4, <2>2, <2>3, <2>4, LacksLess
  <2>6. [s EXCEPT !.section.data = data, !.section.need = need - available, !.pos = s.pos + taken]
          = [s EXCEPT !.section = new, !.pos = s.pos + taken]
    BY <1>1 DEF ParseRecords, SectionRecords, new
  <2> DEFINE pos == s.pos + taken
  <2>7. pos \in 1..Capacity+1
    BY <1>1, <1>2, <1>3
  <2> HIDE DEF pos
  <2>8. [s EXCEPT !.section = new, !.pos = pos] \in ParseStates
    BY <1>1, <2>5, <2>7, ParsedOn
  <2> QED
    BY <2>1, <2>6, <2>8 DEF pos
<1>8. ASSUME ~(available < need), available # 0
      PROVE  taken = need /\ s.pos + taken \in 1..Capacity+1
  BY <1>1, <1>2, <1>3, <1>8
<1>9. CASE available # 0 /\ ~(available < need) /\ ~s.section.header
  <2> DEFINE body == BodyLength(data, garbage)
             new == [data |-> data, need |-> body, header |-> TRUE]
  <2>1. ParseTurn(s, bytes, garbage) =
          IF body > MaxBody THEN Done(s, Len(bytes)) ELSE [s EXCEPT !.pos = s.pos + taken, !.section = new]
    BY <1>9 DEF ParseTurn, data, Taken
  <2>2. body \in 1..MaxBody+1
    BY BodyLengthIs
  <2> HIDE DEF body
  <2>3. CASE body > MaxBody
    BY <1>1, <2>1, <2>3, DoneOK
  <2>4. CASE ~(body > MaxBody)
    <3>1. Len(data) = HeaderSize
      BY <1>2, <1>4, <1>6, <1>8, <1>9 DEF Lacking
    <3>2. Assembly(new) /\ Lacking(new)
      <4>1. body \in 1..MaxBody
        BY <1>2, <2>2, <2>4
      <4> QED
        BY <1>4, <3>1, <4>1, HeaderRead
    <3> HIDE DEF new
    <3> DEFINE pos == s.pos + taken
    <3>3. pos \in 1..Capacity+1
      BY <1>8, <1>9
    <3> HIDE DEF pos
    <3>4. [s EXCEPT !.section = new, !.pos = pos] \in ParseStates
      BY <1>1, <3>2, <3>3, ParsedOn
    <3>5. [s EXCEPT !.section = new, !.pos = pos] = [s EXCEPT !.pos = pos, !.section = new]
      BY <1>1 DEF ParseRecords
    <3> QED
      BY <2>1, <2>4, <3>4, <3>5 DEF pos
  <2> QED
    BY <2>3, <2>4
<1>10. CASE available # 0 /\ ~(available < need) /\ s.section.header
  <2> DEFINE end == s.pos + taken
             t == [s EXCEPT !.out = Append(s.out, Assembled(data))]
  <2>1. ParseTurn(s, bytes, garbage) =
          IF end <= Len(bytes) /\ bytes[end] # Stuffing
          THEN [t EXCEPT !.section = NewSection, !.pos = end] ELSE Done(t, Len(bytes))
    BY <1>10 DEF ParseTurn, data, Taken
  <2>2. t \in ParseRecords
    <3>1. Append(s.out, Assembled(data)) \in Seq(0..N)
      <4>1. s.out \in Seq(0..N) /\ Assembled(data) \in 0..N
        BY <1>1, AssembledIs DEF ParseRecords
      <4> QED
        BY <4>1
    <3> QED
      BY <1>1, <3>1 DEF ParseRecords
  <2>3. end \in 1..Capacity+1
    BY <1>8, <1>10
  <2> HIDE DEF end, t
  <2>4. [t EXCEPT !.section = NewSection, !.pos = end] \in ParseStates
    BY <2>2, <2>3, FreshSections, ParsedOn, LackingIsSection
  <2> QED
    BY <2>1, <2>2, <2>4, DoneOK
<1> QED
  BY <1>5, <1>7, <1>9, <1>10

LEMMA ParseLoopRuns ==
  ASSUME NEW bytes, NEW garbage, NEW P, NEW s \in P, \A x \in P : ParseTurn(x, bytes, garbage) \in P
  PROVE  \E f : /\ ParseLoop(s, bytes, garbage) = f[Capacity] /\ f[0] = s
                /\ \A n \in 0..Capacity : f[n] \in P
                /\ \A n \in 1..Capacity : f[n] = ParseTurn(f[n-1], bytes, garbage)
<1> DEFINE K == Capacity
           after == CHOOSE after : after = [n \in 0..K |-> IF n = 0 THEN s ELSE ParseTurn(after[n-1], bytes, garbage)]
           F == [n \in 1..K |-> [x \in P |-> ParseTurn(x, bytes, garbage)]]
<1>1. ParseLoop(s, bytes, garbage) = after[K]
  BY DEF ParseLoop
<1>2. K \in Nat /\ F \in [1..K -> [P -> P]]
  BY StreamAssumption
<1>3. PICK g : Stepping(g, K, P, s, F)
  <2> HIDE DEF F, K
  <2> QED
    BY <1>2, StepsExist
<1>4. g \in [0..K -> P] /\ g[0] = s /\ \A n \in 1..K : g[n] = F[n][g[n-1]]
  BY <1>3 DEF Stepping
<1>5. ASSUME NEW n \in 1..K PROVE g[n] = ParseTurn(g[n-1], bytes, garbage)
  <2>1. n - 1 \in 0..K
    BY <1>2
  <2>2. g[n-1] \in P
    BY <2>1, <1>4
  <2> HIDE DEF K
  <2>3. F[n][g[n-1]] = ParseTurn(g[n-1], bytes, garbage)
    BY <2>2
  <2> QED
    BY <2>3, <1>4
<1>6. g = [n \in 0..K |-> IF n = 0 THEN s ELSE ParseTurn(g[n-1], bytes, garbage)]
  BY <1>4, <1>5
<1>7. after = [n \in 0..K |-> IF n = 0 THEN s ELSE ParseTurn(after[n-1], bytes, garbage)]
  BY <1>6
<1> HIDE DEF after
<1>8. after[0] = s /\ \A n \in 1..K : after[n] = ParseTurn(after[n-1], bytes, garbage)
  BY <1>7, <1>2
<1>9. \A n \in 0..K : after[n] \in P
  <2>1. after[0] \in P /\ \A n \in 1..K : after[n-1] \in P => after[n] \in P
    BY <1>8
  <2> HIDE DEF K
  <2> QED
    BY <1>2, <2>1, StepsStay
<1> QED
  BY <1>1, <1>8, <1>9

LEMMA ParseLoopOK ==
  ASSUME NEW bytes, NEW garbage, NEW P, NEW s \in P, \A x \in P : ParseTurn(x, bytes, garbage) \in P
  PROVE  ParseLoop(s, bytes, garbage) \in P
<1>1. Capacity \in 0..Capacity
  BY StreamAssumption
<1> QED
  BY <1>1, ParseLoopRuns

HandlerOK ==
  /\ ecc \in 0..CCs /\ parsed \in Seq(0..N) /\ attached \in BOOLEAN /\ mixed \in BOOLEAN
  /\ Assembly(current)

LEMMA DataOK ==
  ASSUME lengths \in [1..N -> Lengths], NEW p, IsPacket(p), NEW garbage \in 1..MaxBody+1,
         NEW before, Assembly(before), parsed \in Seq(0..N), mixed \in BOOLEAN,
         Data(p, before, garbage)
  PROVE  Assembly(current') /\ parsed' \in Seq(0..N) /\ mixed' \in BOOLEAN
<1> DEFINE begin == IF before = NoSection THEN NewSection ELSE before
           start == [section |-> begin, pos |-> p.pointer + 1, out |-> <<>>]
           none == [section |-> NoSection, pos |-> 1, out |-> <<>>]
           s == IF before = NoSection /\ ~p.start THEN none ELSE ParseLoop(start, p.bytes, garbage)
<1>1. current' = s.section /\ parsed' = parsed \o s.out /\ mixed' \in BOOLEAN
  BY DEF Data
<1>2. /\ p.bytes \in Seq(Payloads) /\ Len(p.bytes) = Capacity /\ p.pointer + 1 \in 1..Capacity+1
  <2>1. p.bytes \in Seq(Payloads) /\ Len(p.bytes) = Capacity /\ p.pointer \in 0..Capacity-1
    BY DEF IsPacket
  <2>2. p.pointer + 1 \in 1..Capacity+1
    BY <2>1, StreamAssumption
  <2> QED
    BY <2>1, <2>2
<1>3. \A x \in ParseStates : ParseTurn(x, p.bytes, garbage) \in ParseStates
  BY <1>2, ParseTurnOK
<1>4. <<>> \in Seq(0..N)
  OBVIOUS
<1>5. start \in ParseStates
  <2>1. Assembly(begin) /\ begin # NoSection
    BY FreshSections
  <2> HIDE DEF begin
  <2>2. begin \in SectionRecords
    BY <2>1 DEF Assembly
  <2>3. start \in ParseRecords /\ start.section = begin
    BY <1>2, <1>4, <2>2 DEF ParseRecords
  <2> HIDE DEF start
  <2> QED
    BY <2>1, <2>3 DEF ParseStates
<1>6. none.section = NoSection /\ none.out = <<>>
  OBVIOUS
<1> HIDE DEF start, none
<1>7. ParseLoop(start, p.bytes, garbage) \in ParseStates
  BY <1>2, <1>3, <1>5, ParseLoopOK
<1>8. Assembly(s.section) /\ s.out \in Seq(0..N)
  <2>1. CASE before = NoSection /\ ~p.start
    <3>1. s = none
      BY <2>1
    <3> HIDE DEF s
    <3> QED
      BY <1>4, <1>6, <3>1, FreshSections
  <2>2. CASE ~(before = NoSection /\ ~p.start)
    <3>1. s = ParseLoop(start, p.bytes, garbage)
      BY <2>2
    <3> HIDE DEF s
    <3> QED
      BY <1>7, <3>1 DEF ParseStates, ParseRecords
  <2> QED
    BY <2>1, <2>2
<1> HIDE DEF s
<1>9. parsed \o s.out \in Seq(0..N)
  BY <1>8, ConcatProperties
<1> QED
  BY <1>1, <1>8, <1>9

LEMMA ParseOK ==
  ASSUME lengths \in [1..N -> Lengths], HandlerOK, NEW p, IsPacket(p), NEW garbage \in 1..MaxBody+1,
         PushToHandler(p, garbage)
  PROVE  HandlerOK'
<1>0. /\ Assembly(current) /\ parsed \in Seq(0..N) /\ mixed \in BOOLEAN /\ ecc \in 0..CCs
      /\ attached \in BOOLEAN
  BY DEF HandlerOK
<1>1. CASE ~attached
  <2>1. UNCHANGED handler
    BY <1>1 DEF PushToHandler
  <2> QED
    BY <1>0, <2>1 DEF handler, HandlerOK, Assembly, NoSection, Lacking, SectionRecords
<1>2. CASE attached
  <2>1. Parse(p, garbage)
    BY <1>2 DEF PushToHandler
  <2>2. ecc' = p.cc /\ p.cc \in 0..CCs /\ attached' \in BOOLEAN
    BY <1>0, <2>1, StreamAssumption DEF Parse, IsPacket
  <2>3. Assembly(current') /\ parsed' \in Seq(0..N) /\ mixed' \in BOOLEAN
    <3>1. CASE ParseDuplicate(p)
      BY <1>0, <3>1 DEF ParseDuplicate
    <3>2. CASE ParseInSequence(p, garbage)
      BY <1>0, <3>2, DataOK DEF ParseInSequence
    <3>3. CASE ParseGap(p, garbage)
      BY <1>0, <3>3, DataOK, FreshSections DEF ParseGap
    <3> QED
      BY <2>1, <3>1, <3>2, <3>3 DEF Parse
  <2> QED
    BY <2>2, <2>3 DEF HandlerOK, Assembly, NoSection, Lacking, SectionRecords
<1> QED
  BY <1>1, <1>2

----------------------------------------------------------------------------
(* The guide. *)

EventRecords == [from : 0..N, descriptors : Seq(Payloads), left : 0..MaxBody]

EpgOK == epgCc \in 0..CCs /\ uids \subseteq 1..N /\ incomplete \in EventRecords

LEMMA NoEventIs == NoEvent \in EventRecords
<1>1. <<>> \in Seq(Payloads) /\ 0 \in 0..N /\ 0 \in 0..MaxBody
  BY StreamAssumption
<1> QED
  BY <1>1 DEF NoEvent, EventRecords

\* How many bytes an event takes of those there are.
Filled(e, bytes) == IF e.left > Len(bytes) THEN Len(bytes) ELSE e.left

LEMMA PrefixIs ==
  ASSUME NEW bytes \in Seq(Payloads), NEW n \in 0..Len(bytes)
  PROVE  /\ SubSeq(bytes, 1, n) \in Seq(Payloads) /\ Len(SubSeq(bytes, 1, n)) = n
         /\ \A i \in 1..n : SubSeq(bytes, 1, n)[i] = bytes[i]
<1>1. Len(bytes) \in Nat /\ n \in Nat
  BY LenProperties
<1>2. \A i \in 1..n : bytes[0 + i] \in Payloads
  <2> TAKE i \in 1..n
  <2>1. i \in 1..Len(bytes) /\ 0 + i = i
    BY <1>1
  <2> QED
    BY <2>1, ElementOfSeq
<1>3. /\ SubSeq(bytes, 0 + 1, 0 + n) \in Seq(Payloads) /\ Len(SubSeq(bytes, 0 + 1, 0 + n)) = n
      /\ \A i \in 1..n : SubSeq(bytes, 0 + 1, 0 + n)[i] = bytes[0 + i]
  <2>1. 0 \in Nat /\ n \in Nat
    BY <1>1
  <2> QED
    BY <1>2, <2>1, SliceIs
<1>4. 0 + 1 = 1 /\ 0 + n = n /\ \A i \in 1..n : 0 + i = i
  BY <1>1
<1> QED
  BY <1>3, <1>4

LEMMA RestIs ==
  ASSUME NEW bytes \in Seq(Payloads), NEW m \in 0..Len(bytes)
  PROVE  /\ SubSeq(bytes, m + 1, Len(bytes)) \in Seq(Payloads)
         /\ Len(SubSeq(bytes, m + 1, Len(bytes))) = Len(bytes) - m
         /\ \A i \in 1..Len(bytes) - m : SubSeq(bytes, m + 1, Len(bytes))[i] = bytes[m + i]
<1> DEFINE n == Len(bytes) - m
<1>1. m \in Nat /\ n \in Nat /\ m + n = Len(bytes)
  BY LenProperties
<1> HIDE DEF n
<1>2. \A i \in 1..n : bytes[m + i] \in Payloads
  <2> TAKE i \in 1..n
  <2>1. m + i \in 1..Len(bytes)
    BY <1>1
  <2> QED
    BY <2>1, ElementOfSeq
<1>3. /\ SubSeq(bytes, m + 1, m + n) \in Seq(Payloads) /\ Len(SubSeq(bytes, m + 1, m + n)) = n
      /\ \A i \in 1..n : SubSeq(bytes, m + 1, m + n)[i] = bytes[m + i]
  BY <1>1, <1>2, SliceIs
<1>4. SubSeq(bytes, m + 1, Len(bytes)) = SubSeq(bytes, m + 1, m + n)
  BY <1>1
<1> QED
  BY <1>3, <1>4 DEF n

LEMMA FillOK ==
  ASSUME NEW e \in EventRecords, NEW bytes \in Seq(Payloads)
  PROVE  /\ Fill(e, bytes) \in EventRecords /\ Fill(e, bytes).from = e.from
         /\ Fill(e, bytes).descriptors = e.descriptors \o SubSeq(bytes, 1, Filled(e, bytes))
         /\ Fill(e, bytes).left = e.left - Filled(e, bytes)
         /\ Filled(e, bytes) \in 0..Len(bytes)
<1> DEFINE n == Filled(e, bytes)
<1>1. e.left \in 0..MaxBody /\ e.descriptors \in Seq(Payloads) /\ Len(bytes) \in Nat /\ MaxBody \in Nat
  BY StreamAssumption, LenProperties DEF EventRecords
<1>2. n \in 0..Len(bytes) /\ e.left - n \in 0..MaxBody
  BY <1>1 DEF Filled
<1>3. Fill(e, bytes) = [e EXCEPT !.descriptors = e.descriptors \o SubSeq(bytes, 1, n), !.left = e.left - n]
  BY DEF Fill, Filled
<1> HIDE DEF n
<1>4. SubSeq(bytes, 1, n) \in Seq(Payloads)
  BY <1>2, PrefixIs
<1> DEFINE d == SubSeq(bytes, 1, n)
           all == e.descriptors \o d
<1>5. all \in Seq(Payloads)
  BY <1>1, <1>4, ConcatProperties
<1> HIDE DEF all
<1>6. Fill(e, bytes) = [e EXCEPT !.descriptors = all, !.left = e.left - n]
  BY <1>3 DEF all
<1>7. Fill(e, bytes) \in EventRecords /\ Fill(e, bytes).from = e.from
      /\ Fill(e, bytes).descriptors = all /\ Fill(e, bytes).left = e.left - n
  BY <1>1, <1>2, <1>5, <1>6 DEF EventRecords
<1> QED
  BY <1>2, <1>7 DEF all, n

\* The section that begins in a packet.
Beginning(p) == SubSeq(p.bytes, p.pointer + 1, Len(p.bytes))

LEMMA BeginningIs ==
  ASSUME NEW p, IsPacket(p)
  PROVE  /\ Beginning(p) \in Seq(Payloads) /\ Len(Beginning(p)) = Capacity - p.pointer
         /\ \A i \in 1..Capacity - p.pointer : Beginning(p)[i] = p.bytes[p.pointer + i]
<1>1. p.bytes \in Seq(Payloads) /\ p.pointer \in 0..Len(p.bytes) /\ Len(p.bytes) = Capacity
  BY StreamAssumption DEF IsPacket
<1> QED
  BY <1>1, RestIs DEF Beginning

\* The number of the section that begins.
Begun(p) == Beginning(p)[1][1]

LEMMA BegunIs ==
  ASSUME NEW p, IsPacket(p), p.start
  PROVE  Begun(p) \in 1..N
<1>1. 1 \in 1..Capacity - p.pointer
  BY StreamAssumption DEF IsPacket
<1>2. Beginning(p)[1] = p.bytes[p.pointer + 1] /\ p.bytes[p.pointer + 1] \in Octets
  BY <1>1, BeginningIs DEF IsPacket
<1> QED
  BY <1>2 DEF Begun, Octets

\* An event of which nothing has been read.
NewEvent(k) == [from |-> k, descriptors |-> <<>>, left |-> lengths[k] - TableHeader - EventHeader]

LEMMA NewEventIs ==
  ASSUME lengths \in [1..N -> Lengths], NEW k \in 1..N
  PROVE  NewEvent(k) \in EventRecords
<1>1. /\ lengths[k] \in Nat /\ lengths[k] <= HeaderSize + MaxBody /\ lengths[k] >= TableHeader + EventHeader
      /\ TableHeader \in Nat /\ EventHeader \in Nat /\ TableHeader + EventHeader >= HeaderSize
      /\ HeaderSize \in Nat /\ MaxBody \in Nat
  BY LengthsAre, StreamAssumption, EpgAssumption
<1>2. lengths[k] - TableHeader - EventHeader \in 0..MaxBody
  BY <1>1
<1>3. <<>> \in Seq(Payloads) /\ k \in 0..N
  BY StreamAssumption
<1> QED
  BY <1>2, <1>3 DEF NewEvent, EventRecords

LEMMA UidIs ==
  ASSUME NEW k \in 1..N
  PROVE  Uid(k) \in 1..N
<1>1. N \in Nat /\ k - 1 \in Nat
  BY StreamAssumption
<1>2. (k - 1) % 2 \in 0..1 /\ (k - 1) % 2 <= k - 1
  BY <1>1
<1> QED
  BY <1>1, <1>2 DEF Uid

\* What is behind the headers of the section that begins.
Behind(p) == SubSeq(Beginning(p), TableHeader + EventHeader + 1, Len(Beginning(p)))

LEMMA BehindIs ==
  ASSUME NEW p, IsPacket(p), ~(Len(Beginning(p)) < TableHeader + EventHeader)
  PROVE  /\ Behind(p) \in Seq(Payloads)
         /\ Len(Behind(p)) = Capacity - p.pointer - TableHeader - EventHeader
         /\ \A i \in 1..Len(Behind(p)) : Behind(p)[i] = p.bytes[p.pointer + TableHeader + EventHeader + i]
<1> DEFINE b == Beginning(p)
           m == TableHeader + EventHeader
<1>1. /\ b \in Seq(Payloads) /\ Len(b) = Capacity - p.pointer
      /\ \A i \in 1..Capacity - p.pointer : b[i] = p.bytes[p.pointer + i]
  BY BeginningIs
<1>2. /\ TableHeader \in Nat /\ EventHeader \in Nat /\ p.pointer \in Nat /\ Capacity \in Nat
      /\ m = TableHeader + EventHeader
  BY EpgAssumption, StreamAssumption DEF IsPacket
<1> HIDE DEF b
<1>3. m \in 0..Len(b) /\ Behind(p) = SubSeq(b, m + 1, Len(b))
  BY <1>1, <1>2 DEF Behind, b
<1> HIDE DEF m
<1>4. /\ Behind(p) \in Seq(Payloads) /\ Len(Behind(p)) = Len(b) - m
      /\ \A i \in 1..Len(b) - m : Behind(p)[i] = b[m + i]
  BY <1>1, <1>3, RestIs
<1>5. Len(b) - m = Capacity - p.pointer - TableHeader - EventHeader
  BY <1>1, <1>2
<1>6. ASSUME NEW i \in 1..Len(b) - m
      PROVE  b[m + i] = p.bytes[p.pointer + TableHeader + EventHeader + i]
  <2>1. m + i \in 1..Capacity - p.pointer /\ p.pointer + (m + i) = p.pointer + TableHeader + EventHeader + i
    <3>1. m \in Nat /\ Len(b) = Capacity - p.pointer /\ Capacity - p.pointer \in Int
      BY <1>1, <1>2
    <3> QED
      BY <1>2, <3>1
  <2> QED
    BY <1>1, <2>1
<1> QED
  BY <1>4, <1>5, <1>6
LEMMA BeginSectionIs ==
  ASSUME NEW p, NEW kept, BeginSection(p, kept)
  PROVE  \/ /\ Len(Beginning(p)) < TableHeader
            /\ incomplete' = kept /\ astray' = (astray \/ kept # NoEvent) /\ UNCHANGED <<uids, events>>
         \/ /\ uids' = uids \cup {Uid(Begun(p))} /\ UNCHANGED astray
            /\ incomplete' = NoEvent /\ UNCHANGED events
         \/ /\ uids' = uids \cup {Uid(Begun(p))} /\ UNCHANGED astray
            /\ ~(Len(Beginning(p)) < TableHeader + EventHeader) /\ Uid(Begun(p)) \notin uids
            /\ Keep(Fill(NewEvent(Begun(p)), Behind(p)))
BY DEF BeginSection, Begun, Beginning, Behind, NewEvent

LEMMA KeepOK ==
  ASSUME NEW e \in EventRecords, Keep(e)
  PROVE  incomplete' \in EventRecords
BY NoEventIs DEF Keep

LEMMA EpgPushOK ==
  ASSUME lengths \in [1..N -> Lengths], EpgOK, NEW p, IsPacket(p), PushToEpg(p)
  PROVE  EpgOK'
<1>1. epgCc' = p.cc /\ p.cc \in 0..CCs
  BY StreamAssumption DEF PushToEpg, IsPacket
<1> DEFINE kept == Kept(p)
<1>2. kept \in EventRecords /\ uids \subseteq 1..N
  BY NoEventIs DEF Kept, EpgOK
<1>3. IF p.start THEN BeginSection(p, kept) ELSE Continue(p, kept)
  BY DEF PushToEpg
<1> HIDE DEF kept
<1>4. CASE p.start
  <2> DEFINE k == Begun(p)
  <2>1. k \in 1..N /\ Uid(k) \in 1..N
    BY <1>4, BegunIs, UidIs
  <2>2. NewEvent(k) \in EventRecords
    BY <2>1, NewEventIs
  <2>3. ~(Len(Beginning(p)) < TableHeader + EventHeader) => Behind(p) \in Seq(Payloads)
    BY BehindIs
  <2>4. ~(Len(Beginning(p)) < TableHeader + EventHeader) => Fill(NewEvent(k), Behind(p)) \in EventRecords
    BY <2>2, <2>3, FillOK
  <2> HIDE DEF k
  <2>5. BeginSection(p, kept)
    BY <1>3, <1>4
  <2>6. uids' \subseteq 1..N /\ incomplete' \in EventRecords
    <3>1. CASE incomplete' = kept /\ UNCHANGED uids
      BY <1>2, <3>1
    <3>2. CASE uids' = uids \cup {Uid(k)} /\ incomplete' = NoEvent
      BY <1>2, <2>1, <3>2, NoEventIs
    <3>3. CASE /\ uids' = uids \cup {Uid(k)} /\ ~(Len(Beginning(p)) < TableHeader + EventHeader)
               /\ Keep(Fill(NewEvent(k), Behind(p)))
      BY <1>2, <2>1, <2>4, <3>3, KeepOK
    <3> QED
      BY <2>5, <3>1, <3>2, <3>3, BeginSectionIs DEF k
  <2> QED
    BY <1>1, <2>6 DEF EpgOK, EventRecords
<1>5. CASE ~p.start
  <2>1. Continue(p, kept)
    BY <1>3, <1>5
  <2>2. p.bytes \in Seq(Payloads)
    BY DEF IsPacket
  <2>3. Fill(kept, p.bytes) \in EventRecords
    BY <1>2, <2>2, FillOK
  <2>4. incomplete' \in EventRecords /\ UNCHANGED uids
    BY <2>1, <2>3, KeepOK, NoEventIs DEF Continue
  <2> QED
    BY <1>1, <1>2, <2>4 DEF EpgOK, EventRecords
<1> QED
  BY <1>4, <1>5
----------------------------------------------------------------------------
(* The whole. *)

LEMMA PacketIsRecord ==
  ASSUME Broadcast, NEW n \in Cuts
  PROVE  PacketOf(n) \in Packets
<1> DEFINE p == PacketOf(n)
<1>1. IsPacket(p)
  BY PacketIs
<1>2. p = [cc |-> p.cc, start |-> p.start, pointer |-> p.pointer, bytes |-> p.bytes]
  BY DEF PacketOf
<1> HIDE DEF p
<1>3. p.bytes \in [1..Capacity -> (1..N) \X Nat \cup {Stuffing}]
  <2>1. p.bytes \in Seq(Payloads) /\ Len(p.bytes) = Capacity
    BY <1>1 DEF IsPacket
  <2>2. p.bytes \in [1..Capacity -> Payloads]
    BY <2>1, LenProperties
  <2> QED
    BY <2>2 DEF Payloads, Octets
<1>4. p.cc \in 0..CCs-1 /\ p.start \in BOOLEAN /\ p.pointer \in 0..Capacity-1
  BY <1>1 DEF IsPacket
<1> QED
  BY <1>2, <1>3, <1>4 DEF Packets, p

LastOK == last = NoPacket \/ (last \in Packets /\ IsPacket(last))

ReceptionInv ==
  /\ LossesInv
  /\ Broadcast /\ LastOK
  /\ DecoderOK /\ HandlerOK /\ EpgOK

LEMMA ReceptionOpens == Init => ReceptionInv
<1> SUFFICES ASSUME Init PROVE ReceptionInv
  OBVIOUS
<1>1. Broadcast
  <2>1. lengths \in [1..N -> Lengths] /\ stream = All /\ sent = 0 /\ cc = 0
    BY DEF Init, StreamInit
  <2>2. Streamed(stream, N)
    BY <2>1, AllStreamed
  <2>3. Len(stream) \in Nat
    BY <2>2, LenProperties DEF Streamed
  <2> QED
    BY <2>1, <2>2, <2>3, StreamAssumption DEF Broadcast
<1>2. LastOK
  <2>1. last = NoPacket
    BY DEF Init, StreamInit
  <2> QED
    BY <2>1, Zenon DEF LastOK
<1>3. DecoderOK
  BY FreshSections, StreamAssumption DEF Init, DecoderInit, DecoderOK, InvalidCC
<1>4. HandlerOK
  <2>1. attached = TRUE /\ mixed = FALSE /\ ecc = CCs /\ current = NoSection /\ parsed = <<>>
    BY DEF Init, HandlerInit, INVALID_CC
  <2>2. attached \in BOOLEAN /\ mixed \in BOOLEAN
    BY <2>1
  <2>3. parsed \in Seq(0..N) /\ ecc \in 0..CCs
    BY <2>1, StreamAssumption
  <2> QED
    BY <2>1, <2>2, <2>3, FreshSections DEF HandlerOK
<1>5. EpgOK
  BY NoEventIs, StreamAssumption DEF Init, EpgInit, EpgOK
<1> QED
  BY <1>1, <1>2, <1>3, <1>4, <1>5, LossesOpen DEF ReceptionInv

LEMMA DeliverOK ==
  ASSUME lengths \in [1..N -> Lengths], DecoderOK, HandlerOK, EpgOK, NEW p, IsPacket(p), Deliver(p)
  PROVE  DecoderOK' /\ HandlerOK' /\ EpgOK'
<1>1. PICK garbage \in 1..MaxBody + 1 : Push(p, garbage) /\ PushToHandler(p, garbage)
  BY DEF Deliver
<1> QED
  BY <1>1, PushOK, ParseOK, EpgPushOK DEF Deliver

LEMMA SentOn ==
  ASSUME Broadcast, NEW n \in Cuts, sent' = sent + n, cc' = PacketOf(n).cc, UNCHANGED <<lengths, stream>>
  PROVE  Broadcast'
<1>1. sent + n \in 1..Len(stream) /\ IsPacket(PacketOf(n))
  BY CutsAre, PacketIs DEF Cut
<1>2. Len(stream) \in Nat
  BY LenProperties DEF Broadcast, Streamed
<1>3. sent' \in 0..Len(stream') /\ cc' \in 0..CCs-1
  BY <1>1, <1>2 DEF IsPacket
<1> QED
  BY <1>3 DEF Broadcast, Streamed, After, EndsSection

LEMMA ReceptionKeeps == ReceptionInv /\ [Next]_vars => ReceptionInv'
<1> SUFFICES ASSUME ReceptionInv, [Next]_vars PROVE ReceptionInv'
  OBVIOUS
<1>0. /\ Broadcast /\ LastOK
      /\ DecoderOK /\ HandlerOK /\ EpgOK /\ lengths \in [1..N -> Lengths]
  BY DEF ReceptionInv, Broadcast
<1>1. LossesInv'
  BY LossesKeep DEF ReceptionInv
<1>2. ASSUME UNCHANGED <<lengths, stream, sent, cc>> PROVE Broadcast'
  BY <1>0, <1>2 DEF Broadcast, Streamed, After, EndsSection
<1>3. ASSUME UNCHANGED decoder PROVE DecoderOK'
  BY <1>0, <1>3 DEF decoder, DecoderOK, Assembly, NoSection, Lacking, SectionRecords
<1>4. ASSUME UNCHANGED handler PROVE HandlerOK'
  BY <1>0, <1>4 DEF handler, HandlerOK, Assembly, NoSection, Lacking, SectionRecords
<1>5. ASSUME UNCHANGED epg PROVE EpgOK'
  BY <1>0, <1>5 DEF epg, EpgOK, EventRecords
<1>6. ASSUME UNCHANGED last PROVE LastOK'
  BY <1>0, <1>6 DEF LastOK, NoPacket, Packets, IsPacket
<1>7. ASSUME NEW n \in Cuts, Arrive(n)
      PROVE  ReceptionInv'
  <2> DEFINE p == PacketOf(n)
  <2>1. IsPacket(p) /\ p \in Packets
    BY <1>0, PacketIs, PacketIsRecord
  <2>2. Deliver(p) /\ sent' = sent + n /\ cc' = p.cc /\ last' = p /\ UNCHANGED <<lengths, stream>>
    BY <1>7 DEF Arrive
  <2>3. Broadcast'
    BY <1>0, <2>2, SentOn
  <2> HIDE DEF p
  <2>4. DecoderOK' /\ HandlerOK' /\ EpgOK'
    BY <1>0, <2>1, <2>2, DeliverOK
  <2>5. LastOK'
    BY <2>1, <2>2 DEF LastOK, NoPacket, Packets, IsPacket
  <2> QED
    BY <1>1, <2>3, <2>4, <2>5 DEF ReceptionInv
<1>8. ASSUME NEW n \in Cuts, Lose(n)
      PROVE  ReceptionInv'
  <2>1. /\ sent' = sent + n /\ cc' = PacketOf(n).cc /\ last' = NoPacket
        /\ UNCHANGED <<lengths, stream, decoder, handler, epg>>
    BY <1>8 DEF Lose
  <2>2. Broadcast'
    BY <1>0, <2>1, SentOn
  <2>3. LastOK'
    <3>1. (last = NoPacket)'
      BY <2>1 DEF NoPacket
    <3> QED
      BY <3>1, Zenon DEF LastOK
  <2>4. DecoderOK' /\ HandlerOK' /\ EpgOK'
    BY <1>3, <1>4, <1>5, <2>1
  <2> QED
    BY <1>1, <2>2, <2>3, <2>4 DEF ReceptionInv
<1>9. CASE Repeat
  <2>1. last # NoPacket /\ Deliver(last) /\ last' = NoPacket /\ UNCHANGED <<lengths, stream, sent, cc>>
    BY <1>9 DEF Repeat
  <2>2. DecoderOK' /\ HandlerOK' /\ EpgOK'
    <3>1. IsPacket(last)
      BY <1>0, <2>1, Zenon DEF LastOK
    <3> QED
      BY <1>0, <2>1, <3>1, DeliverOK
  <2>3. LastOK'
    <3>1. (last = NoPacket)'
      BY <2>1 DEF NoPacket
    <3> QED
      BY <3>1, Zenon DEF LastOK
  <2> QED
    BY <1>1, <1>2, <2>1, <2>2, <2>3 DEF ReceptionInv
<1>10. CASE HandlerSwitched
  <2>1. UNCHANGED <<lengths, stream, sent, cc, last, decoder, epg>>
    BY <1>10 DEF HandlerSwitched, sender
  <2>2. HandlerOK'
    <3>1. attached' \in BOOLEAN /\ UNCHANGED <<ecc, current, parsed, mixed>>
      BY <1>10 DEF HandlerSwitched, Attach, Dettach
    <3> QED
      BY <1>0, <3>1 DEF HandlerOK, Assembly, NoSection, Lacking, SectionRecords
  <2> QED
    BY <1>1, <1>2, <1>3, <1>5, <1>6, <2>1, <2>2 DEF ReceptionInv
<1>11. CASE UNCHANGED vars
  <2>1. UNCHANGED <<lengths, stream, sent, cc, last, decoder, handler, epg>>
    BY <1>11 DEF vars, sender
  <2> QED
    BY <1>1, <1>2, <1>3, <1>4, <1>5, <1>6, <2>1 DEF ReceptionInv
<1> QED
  BY <1>7, <1>8, <1>9, <1>10, <1>11 DEF Next

\* The counters and the sections under assembly: whatever the network loses or repeats, and
\* also where what a decoder takes for a header is none, the bytes it has and those it needs fit
\* into its buffer, for every size of packets, headers and sections, and for streams of any length.
THEOREM SectionsFit == Spec => []TypeOK
<1>1. ReceptionInv => TypeOK
  <2> SUFFICES ASSUME ReceptionInv PROVE TypeOK
    OBVIOUS
  <2>1. /\ lengths \in [1..N -> Lengths] /\ sent \in 0..Len(stream) /\ cc \in 0..CCs-1
    BY DEF ReceptionInv, Broadcast
  <2>2. last \in Packets
    BY DEF ReceptionInv, LastOK, Packets
  <2>3. counter \in 0..CCs /\ discontinuity \in BOOLEAN /\ gathered \in Seq(0..N) /\ IsSection(section)
    BY LackingIsSection DEF ReceptionInv, DecoderOK
  <2>4. ecc \in 0..CCs /\ parsed \in Seq(0..N) /\ IsSection(current)
    BY LackingIsSection DEF ReceptionInv, HandlerOK
  <2>5. epgCc \in 0..CCs /\ incomplete.left \in 0..MaxBody /\ uids \subseteq 1..N
    BY DEF ReceptionInv, EpgOK, EventRecords
  <2>6. sn \in 0..SNs-1 /\ lastSequenceNumber \in 0..SNs-1 /\ nbLostPackets \in Nat
    <3>1. CASE Unheard
      <4>1. sn \in 0..SNs-1 /\ lastSequenceNumber = 0 /\ nbLostPackets = 0
        BY <3>1 DEF Unheard
      <4>2. 0 \in 0..SNs-1
        BY SequenceAssumption
      <4> QED
        BY <4>1, <4>2
    <3>2. CASE Heard
      BY <3>2 DEF Heard
    <3> QED
      BY <3>1, <3>2 DEF ReceptionInv, LossesInv
  <2> QED
    BY <2>1, <2>2, <2>3, <2>4, <2>5, <2>6 DEF TypeOK
<1> QED
  BY <1>1, ReceptionOpens, ReceptionKeeps, PTL DEF Spec

----------------------------------------------------------------------------
(* The events of the guide are whole. *)

\* Event e has the descriptors of its section up to byte `at' of the stream, and the next one is
\* the byte behind.
Follows(e, at) ==
  /\ e \in EventRecords /\ e.from \in 1..N
  /\ TableHeader + EventHeader + Len(e.descriptors) + e.left = lengths[e.from]
  /\ \A i \in 1..Len(e.descriptors) : e.descriptors[i] = <<e.from, TableHeader + EventHeader + i>>
  /\ e.left > 0 =>
       /\ at + 1 \in 1..Len(stream)
       /\ stream[at + 1] = <<e.from, TableHeader + EventHeader + Len(e.descriptors) + 1>>

\* The last packet has been read, and its section counts.
LastRead ==
  last # NoPacket =>
    /\ epgCc = last.cc /\ cc = last.cc /\ burst = 0
    /\ last.start /\ ~(Len(Beginning(last)) < TableHeader) => Uid(Begun(last)) \in uids

\* While fewer packets are missing than the counter tells apart, it tells how many.
GapIsSeen ==
  /\ epgCc = CCs => incomplete = NoEvent
  /\ ~wrapped => burst < CCs - 1
  /\ ~wrapped /\ epgCc # CCs => (epgCc + burst) % CCs = cc

Whole ==
  ~wrapped /\ ~astray =>
    /\ \A i \in DOMAIN events : events[i] # 0
    /\ incomplete # NoEvent /\ burst = 0 => Follows(incomplete, sent) /\ incomplete.left > 0

GuideInv ==
  /\ events \in Seq(0..N) /\ wrapped \in BOOLEAN /\ astray \in BOOLEAN
  /\ LastRead /\ GapIsSeen /\ Whole

LEMMA NextModulo ==
  ASSUME NEW m \in Nat \ {0}, NEW e \in 0..m-1, NEW b \in Nat, b + 1 \in 0..m-1
  PROVE  (((e + b) % m) + 1) % m = (e + (b + 1)) % m
<1>0. b \in 0..m-1
  OBVIOUS
<1>1. (e + b) % m = IF e + b < m THEN e + b ELSE e + b - m
  BY <1>0, Modulo
<1>2. (e + (b + 1)) % m = IF e + (b + 1) < m THEN e + (b + 1) ELSE e + (b + 1) - m
  BY Modulo
<1>3. CASE e + b = m - 1
  BY <1>0, <1>1, <1>2, <1>3
<1>4. CASE e + b # m - 1
  <2> DEFINE r == (e + b) % m
  <2>1. r \in 0..m-1 /\ r + 1 \in 0..m-1
    BY <1>0, <1>1, <1>4
  <2>2. (r + 1) % m = r + 1
    BY <2>1
  <2> QED
    BY <1>0, <1>1, <1>2, <1>4, <2>2
<1> QED
  BY <1>3, <1>4

\* Fewer steps than the range lead to the next number only if it is one.
LEMMA OnlyOneIsNext ==
  ASSUME NEW m \in Nat \ {0}, NEW e \in 0..m-1, NEW b \in 1..m-2
  PROVE  (e + (b + 1)) % m # (e + 1) % m
<1>0. b + 1 \in 0..m-1 /\ 1 \in 0..m-1 /\ b + 1 > 1
  OBVIOUS
<1> DEFINE c == b + 1
<1> HIDE DEF c
<1>1. (e + c) % m = IF e + c < m THEN e + c ELSE e + c - m
  BY <1>0, Modulo DEF c
<1>2. (e + 1) % m = IF e + 1 < m THEN e + 1 ELSE e + 1 - m
  BY <1>0, Modulo
<1>3. c \in 2..m-1
  BY <1>0 DEF c
<1>4. (e + c) % m # (e + 1) % m
  BY <1>0, <1>1, <1>2, <1>3
<1> QED
  BY <1>4 DEF c

\* In the stream a section goes on to its end.
LEMMA RunsOn ==
  ASSUME Broadcast, NEW i \in 1..Len(stream), NEW k \in 1..N, NEW j \in 1..lengths[k], stream[i] = <<k, j>>,
         NEW m \in Nat, j + m <= lengths[k]
  PROVE  i + m \in 1..Len(stream) /\ stream[i + m] = <<k, j + m>>
<1> DEFINE T == {n \in Nat : j + n <= lengths[k] => i + n \in 1..Len(stream) /\ stream[i + n] = <<k, j + n>>}
<1>1. lengths[k] \in Nat /\ Len(stream) \in Nat /\ j \in Nat /\ i \in Nat
  BY LengthsAre, LenProperties DEF Broadcast, Streamed
<1>2. 0 \in T
  BY <1>1
<1>3. ASSUME NEW n \in Nat, n \in T PROVE n + 1 \in T
  <2>1. CASE ~(j + (n + 1) <= lengths[k])
    BY <2>1
  <2>2. CASE j + (n + 1) <= lengths[k]
    <3>1. i + n \in 1..Len(stream) /\ stream[i + n] = <<k, j + n>> /\ j + n < lengths[k]
      BY <1>1, <1>3, <2>2
    <3>2. i + n # Len(stream)
      <4>1. ASSUME i + n = Len(stream) PROVE FALSE
        <5>1. stream[Len(stream)] = <<N, lengths[N]>>
          <6>1. N > 0
            BY StreamAssumption
          <6> QED
            BY <6>1 DEF Broadcast, Streamed
        <5> QED
          BY <1>1, <3>1, <4>1, <5>1
      <4> QED
        BY <4>1
    <3>3. stream[(i + n) + 1] = After(stream[i + n])
      <4>1. \A a \in 1..Len(stream) : a < Len(stream) => stream[a + 1] = After(stream[a])
        BY DEF Broadcast, Streamed
      <4>2. i + n \in 1..Len(stream) /\ i + n < Len(stream)
        BY <1>1, <3>1, <3>2
      <4> QED
        BY <4>1, <4>2
    <3>4. After(stream[i + n]) = <<k, (j + n) + 1>>
      BY <1>1, <3>1 DEF After, EndsSection
    <3>5. i + (n + 1) = (i + n) + 1 /\ j + (n + 1) = (j + n) + 1 /\ i + (n + 1) \in 1..Len(stream)
      BY <1>1, <3>1, <3>2
    <3>6. stream[i + (n + 1)] = <<k, j + (n + 1)>>
      BY <3>3, <3>4, <3>5
    <3> DEFINE o == n + 1
    <3>7. o \in Nat /\ i + o \in 1..Len(stream) /\ stream[i + o] = <<k, j + o>>
      BY <3>5, <3>6
    <3> HIDE DEF o
    <3>8. o \in T
      BY <3>7
    <3> QED
      BY <3>8 DEF o
  <2> QED
    BY <2>1, <2>2
<1> HIDE DEF T
<1>4. m \in T
  BY <1>2, <1>3, SetInduction
<1> QED
  BY <1>4 DEF T

\* The byte behind a section begins another.
LEMMA RunsOut ==
  ASSUME Broadcast, NEW i \in 1..Len(stream), i < Len(stream), NEW k \in 1..N, stream[i] = <<k, lengths[k]>>
  PROVE  stream[i + 1][2] = 1
<1>1. stream[i + 1] = After(stream[i])
  BY DEF Broadcast, Streamed
<1> QED
  BY <1>1 DEF After, EndsSection

LEMMA DescriptorsAre ==
  ASSUME lengths \in [1..N -> Lengths], NEW e, NEW at, Follows(e, at), e.left = 0
  PROVE  e.descriptors = Descriptors(e.from)
<1> DEFINE k == e.from
           m == TableHeader + EventHeader
           d == e.descriptors
<1>1. /\ k \in 1..N /\ d \in Seq(Payloads) /\ m + Len(d) = lengths[k]
      /\ \A i \in 1..Len(d) : d[i] = <<k, m + i>>
  <2>1. e.left = 0 /\ Len(d) \in Nat /\ TableHeader \in Nat /\ EventHeader \in Nat
    BY EpgAssumption, LenProperties DEF Follows, EventRecords
  <2>2. m + Len(d) + e.left = lengths[k]
    BY DEF Follows
  <2>3. m \in Nat /\ lengths[k] \in Nat
    BY <2>1, LengthsAre DEF Follows
  <2> HIDE DEF m, d, k
  <2>4. m + Len(d) = lengths[k]
    BY <2>1, <2>2, <2>3
  <2> QED
    BY <2>4 DEF Follows, EventRecords, k, m, d
<1>2. m \in Nat /\ lengths[k] \in Nat /\ Len(d) \in Nat
  BY <1>1, EpgAssumption, LengthsAre, LenProperties
<1>3. Bytes(k) \in Seq(Octets) /\ Len(Bytes(k)) = lengths[k] /\ \A i \in 1..lengths[k] : Bytes(k)[i] = <<k, i>>
  BY <1>1, BytesAre
<1> HIDE DEF k, m, d
<1>4. \A i \in 1..Len(d) : Bytes(k)[m + i] \in Octets
  <2> TAKE i \in 1..Len(d)
  <2>1. m + i \in 1..Len(Bytes(k))
    BY <1>1, <1>2, <1>3
  <2> QED
    BY <1>3, <2>1, ElementOfSeq
<1> DEFINE r == SubSeq(Bytes(k), m + 1, m + Len(d))
<1>5. r \in Seq(Octets) /\ Len(r) = Len(d) /\ \A i \in 1..Len(d) : r[i] = Bytes(k)[m + i]
  BY <1>2, <1>4, SliceIs
<1> HIDE DEF r
<1>6. \A i \in 1..Len(d) : r[i] = d[i]
  <2> TAKE i \in 1..Len(d)
  <2>1. m + i \in 1..lengths[k]
    BY <1>1, <1>2
  <2> QED
    BY <1>1, <1>3, <1>5, <2>1
<1>7. r = d
  BY <1>1, <1>5, <1>6, SeqEqual
<1>8. Descriptors(k) = r
  <2>1. Descriptors(k) = SubSeq(Bytes(k), TableHeader + EventHeader + 1, lengths[k])
    BY DEF Descriptors
  <2>2. TableHeader + EventHeader + 1 = m + 1
    BY DEF m
  <2> QED
    BY <1>1, <2>1, <2>2 DEF r
<1> QED
  BY <1>7, <1>8 DEF k, d

\* An event that takes the next bytes of the stream, all it lacks or a part.
LEMMA FilledOn ==
  ASSUME Broadcast, NEW at \in Nat, NEW e, Follows(e, at), NEW bytes \in Seq(Payloads),
         \A i \in 1..Filled(e, bytes) : bytes[i] = stream[at + i]
  PROVE  Follows(Fill(e, bytes), at + Filled(e, bytes))
<1> DEFINE n == Filled(e, bytes)
           f == Fill(e, bytes)
           t == TableHeader + EventHeader
           l == Len(e.descriptors)
           d == SubSeq(bytes, 1, n)
           k == e.from
           left == e.left
           total == lengths[k]
<1>1. /\ f \in EventRecords /\ f.from = k /\ f.descriptors = e.descriptors \o d
      /\ f.left = left - n /\ n \in 0..Len(bytes)
  BY FillOK DEF Follows
<1>2. /\ k \in 1..N /\ e.descriptors \in Seq(Payloads) /\ left \in Nat /\ t + l + left = total
      /\ \A i \in 1..l : e.descriptors[i] = <<k, t + i>>
      /\ left > 0 => at + 1 \in 1..Len(stream) /\ stream[at + 1] = <<k, t + l + 1>>
  BY DEF Follows, EventRecords
<1>3. n \in Nat /\ n <= left /\ l \in Nat /\ t \in Nat /\ total \in Nat
  <2>1. Len(bytes) \in Nat /\ l \in Nat
    BY <1>2, LenProperties
  <2>2. total \in Nat
    BY <1>2, LengthsAre DEF Broadcast
  <2>3. t \in Nat
    BY EpgAssumption
  <2> HIDE DEF l, t, total
  <2> QED
    BY <1>2, <2>1, <2>2, <2>3 DEF Filled
<1>4. d \in Seq(Payloads) /\ Len(d) = n /\ \A i \in 1..n : d[i] = bytes[i]
  BY <1>1, PrefixIs
<1>5. \A i \in 1..n : bytes[i] = stream[at + i]
  OBVIOUS
<1>6. /\ f.descriptors \in Seq(Payloads) /\ Len(f.descriptors) = l + n
      /\ \A i \in 1..l + n : f.descriptors[i] = IF i <= l THEN e.descriptors[i] ELSE d[i - l]
  <2> DEFINE x == e.descriptors
  <2>1. x \in Seq(Payloads)
    BY <1>2
  <2> HIDE DEF x, d
  <2>2. /\ x \o d \in Seq(Payloads) /\ Len(x \o d) = Len(x) + n
        /\ \A i \in 1..Len(x) + n : (x \o d)[i] = IF i <= Len(x) THEN x[i] ELSE d[i - Len(x)]
    BY <1>4, <2>1, ConcatProperties
  <2> QED
    BY <1>1, <2>2 DEF x
<1>7. ASSUME NEW i \in 1..left
      PROVE  at + i \in 1..Len(stream) /\ stream[at + i] = <<k, t + l + i>>
  <2> HIDE DEF n, f, t, l, d, k, left
  <2> DEFINE a == at + 1
             j == t + l + 1
             o == i - 1
  <2>1. a \in 1..Len(stream) /\ stream[a] = <<k, j>>
    BY <1>2
  <2>2. j \in 1..total /\ o \in Nat /\ j + o <= total
    <3> HIDE DEF total
    <3> QED
      BY <1>2, <1>3
  <2>3. a + o = at + i /\ j + o = t + l + i
    BY <1>3
  <2> HIDE DEF a, j, o
  <2>4. a + o \in 1..Len(stream) /\ stream[a + o] = <<k, j + o>>
    BY <1>2, <2>1, <2>2, RunsOn DEF total
  <2> QED
    BY <2>3, <2>4
<1> HIDE DEF n, f, t, l, d, k, left, total
<1> DEFINE g == f.descriptors
           rest == f.left
<1>8. \A i \in 1..Len(g) : g[i] = <<k, t + i>>
  <2> TAKE i \in 1..Len(g)
  <2>0. i \in 1..l + n /\ i \in Nat
    BY <1>6
  <2>1. CASE i <= l
    <3>1. i \in 1..l /\ g[i] = e.descriptors[i]
      BY <1>3, <1>6, <2>0, <2>1
    <3> QED
      BY <1>2, <3>1
  <2>2. CASE ~(i <= l)
    <3> DEFINE o == i - l
    <3>1. o \in 1..n /\ o \in 1..left /\ t + l + o = t + i
      BY <1>2, <1>3, <2>0, <2>2
    <3>2. g[i] = d[o]
      BY <1>6, <2>0, <2>2
    <3> HIDE DEF o, g
    <3>3. d[o] = stream[at + o] /\ stream[at + o] = <<k, t + l + o>>
      BY <1>4, <1>5, <1>7, <3>1
    <3> QED
      BY <3>1, <3>2, <3>3
  <2> QED
    BY <2>1, <2>2
<1>9. t + Len(g) + rest = total
  <2>1. rest = left - n /\ Len(g) = l + n
    BY <1>1, <1>6
  <2> HIDE DEF g, rest
  <2> QED
    BY <1>2, <1>3, <2>1
<1>10. rest > 0 => (at + n) + 1 \in 1..Len(stream) /\ stream[(at + n) + 1] = <<k, t + Len(g) + 1>>
  <2>1. rest = left - n /\ Len(g) = l + n
    BY <1>1, <1>6
  <2> HIDE DEF g, rest
  <2> HAVE rest > 0
  <2>2. n + 1 \in 1..left /\ at + (n + 1) = (at + n) + 1 /\ t + l + (n + 1) = t + Len(g) + 1
    BY <1>2, <1>3, <2>1
  <2> QED
    BY <1>7, <2>2
<1>11. f.from \in 1..N /\ f.from = k
  BY <1>1, <1>2
<1>12. Follows(f, at + n)
  BY <1>1, <1>8, <1>9, <1>10, <1>11 DEF Follows, t, total
<1> QED
  BY <1>12 DEF f, n

\* A packet in which no section begins has nothing but bytes of the event, and as many as there
\* are or as it lacks.
LEMMA ContinuedOn ==
  ASSUME Broadcast, NEW n \in Cuts, ~PacketOf(n).start, NEW e, Follows(e, sent), e.left > 0
  PROVE  /\ Filled(e, PacketOf(n).bytes) = n
         /\ Follows(Fill(e, PacketOf(n).bytes), sent + n)
<1> DEFINE p == PacketOf(n)
           k == e.from
           m == TableHeader + EventHeader + Len(e.descriptors)
           left == e.left
           total == lengths[k]
<1>1. IsPacket(p) /\ CutsOf(p, n) /\ Cut(n) /\ sent \in Nat
  BY PacketIs, CutsAre DEF Broadcast
<1>2. /\ k \in 1..N /\ left \in Nat /\ left > 0 /\ m + left = total
      /\ sent + 1 \in 1..Len(stream) /\ stream[sent + 1] = <<k, m + 1>>
  BY DEF Follows, EventRecords
<1>3. m \in Nat /\ total \in Nat /\ Len(stream) \in Nat
  <2>1. e.descriptors \in Seq(Payloads)
    BY DEF Follows, EventRecords
  <2>2. Len(e.descriptors) \in Nat /\ TableHeader \in Nat /\ EventHeader \in Nat
    BY <2>1, EpgAssumption, LenProperties
  <2>3. Len(stream) \in Nat
    BY LenProperties DEF Broadcast, Streamed
  <2>4. total \in Nat
    BY <1>2, LengthsAre DEF Broadcast
  <2>5. m \in Nat
    <3> DEFINE l == Len(e.descriptors)
    <3>1. l \in Nat /\ TableHeader \in Nat /\ EventHeader \in Nat
      BY <2>2
    <3> HIDE DEF l
    <3>2. TableHeader + EventHeader + l \in Nat
      BY <3>1
    <3> QED
      BY <3>2 DEF l
  <2> QED
    BY <2>3, <2>4, <2>5
<1>4. /\ n \in 1..Capacity /\ sent + n \in 1..Len(stream)
      /\ n = Capacity \/ EndsSection(stream[sent + n])
      /\ \A i \in 1..Capacity : p.bytes[i] = IF i <= n THEN stream[sent + i] ELSE Stuffing
      /\ \A i \in 1..n : stream[sent + i][2] # 1
      /\ p.bytes \in Seq(Payloads) /\ Len(p.bytes) = Capacity /\ Capacity \in Nat
  BY <1>1, StreamAssumption DEF Cut, CutsOf, IsPacket
<1> HIDE DEF p, m, left, k
<1>5. ASSUME NEW i \in 1..left
      PROVE  sent + i \in 1..Len(stream) /\ stream[sent + i] = <<k, m + i>>
  <2> DEFINE a == sent + 1
             j == m + 1
             o == i - 1
  <2>1. a \in 1..Len(stream) /\ stream[a] = <<k, j>>
    BY <1>2
  <2>2. j \in 1..total /\ o \in Nat /\ j + o <= total
    <3> HIDE DEF total
    <3> QED
      BY <1>2, <1>3
  <2>3. a + o = sent + i /\ j + o = m + i
    BY <1>1, <1>3
  <2> HIDE DEF a, j, o
  <2>4. a + o \in 1..Len(stream) /\ stream[a + o] = <<k, j + o>>
    BY <1>2, <2>1, <2>2, RunsOn DEF total
  <2> QED
    BY <2>3, <2>4
<1>6. n <= left
  <2> SUFFICES ASSUME ~(n <= left) PROVE FALSE
    OBVIOUS
  <2> DEFINE i == sent + left
  <2>1. i \in 1..Len(stream) /\ stream[i] = <<k, m + left>>
    BY <1>2, <1>5
  <2>2. i < Len(stream) /\ i + 1 = sent + (left + 1) /\ left + 1 \in 1..n
    <3>1. sent \in Nat /\ left \in Nat /\ n \in Int /\ sent + n <= Len(stream) /\ Len(stream) \in Nat
      BY <1>1, <1>2, <1>3, <1>4
    <3> QED
      BY <3>1
  <2>3. stream[i] = <<k, lengths[k]>>
    BY <1>2, <2>1
  <2> HIDE DEF i
  <2>4. stream[i + 1][2] = 1
    BY <1>2, <2>1, <2>2, <2>3, RunsOut
  <2> QED
    BY <1>4, <2>2, <2>4
<1>7. n = left \/ n = Capacity
  <2> SUFFICES ASSUME n < left, EndsSection(stream[sent + n]) PROVE FALSE
    BY <1>2, <1>4, <1>6
  <2>1. stream[sent + n] = <<k, m + n>>
    BY <1>4, <1>5, <1>6
  <2>2. m + n = total
    BY <2>1 DEF EndsSection
  <2> HIDE DEF total
  <2> QED
    BY <1>2, <1>3, <1>4, <2>2
<1>8. Filled(e, p.bytes) = n
  BY <1>2, <1>4, <1>6, <1>7 DEF Filled, left
<1>9. \A i \in 1..n : p.bytes[i] = stream[sent + i]
  <2> TAKE i \in 1..n
  <2>1. i \in 1..Capacity /\ i <= n
    BY <1>4
  <2> QED
    BY <1>4, <2>1
<1>10. Follows(Fill(e, p.bytes), sent + n)
  <2>1. \A i \in 1..Filled(e, p.bytes) : p.bytes[i] = stream[sent + i]
    BY <1>8, <1>9
  <2>2. p.bytes \in Seq(Payloads)
    BY <1>4
  <2>3. Follows(Fill(e, p.bytes), sent + Filled(e, p.bytes))
    BY <1>1, <2>1, <2>2, FilledOn
  <2> QED
    BY <1>8, <2>3
<1> QED
  BY <1>8, <1>10 DEF p

\* The event of a section that begins in a packet takes the bytes of its section, and the rest of
\* the packet if it lacks more.
LEMMA BegunOn ==
  ASSUME Broadcast, NEW n \in Cuts, PacketOf(n).start,
         ~(Len(Beginning(PacketOf(n))) < TableHeader + EventHeader)
  PROVE  LET f == Fill(NewEvent(Begun(PacketOf(n))), Behind(PacketOf(n))) IN
         \E at \in Nat : Follows(f, at) /\ (f.left > 0 => at = sent + n)
<1> DEFINE p == PacketOf(n)
           k == Begun(p)
           e == NewEvent(k)
           b == Behind(p)
           f == Fill(e, b)
           t == TableHeader + EventHeader
           total == lengths[k]
           pointer == p.pointer
           at == sent + pointer + t
<1>1. IsPacket(p) /\ CutsOf(p, n) /\ Cut(n) /\ sent \in Nat /\ p.start
  BY PacketIs, CutsAre DEF Broadcast
<1>2. ~(Len(Beginning(p)) < t)
  OBVIOUS
<1> HIDE DEF p
<1>3. k \in 1..N /\ e \in EventRecords
  BY <1>1, BegunIs, NewEventIs DEF Broadcast
<1>4. /\ b \in Seq(Payloads) /\ Len(b) = Capacity - pointer - TableHeader - EventHeader
      /\ \A i \in 1..Len(b) : b[i] = p.bytes[pointer + TableHeader + EventHeader + i]
      /\ Len(Beginning(p)) = Capacity - pointer
  BY <1>1, <1>2, BehindIs, BeginningIs
<1>5. /\ n \in 1..Capacity /\ sent + n \in 1..Len(stream)
      /\ n = Capacity \/ EndsSection(stream[sent + n])
      /\ \A i \in 1..Capacity : p.bytes[i] = IF i <= n THEN stream[sent + i] ELSE Stuffing
      /\ pointer + 1 \in 1..n /\ pointer \in Nat /\ Capacity \in Nat
      /\ p.bytes[pointer + 1] \in Octets /\ p.bytes[pointer + 1][2] = 1
  <2>1. /\ n \in 1..Capacity /\ sent + n \in 1..Len(stream)
        /\ n = Capacity \/ EndsSection(stream[sent + n])
    BY <1>1 DEF Cut
  <2>2. /\ \A i \in 1..Capacity : p.bytes[i] = IF i <= n THEN stream[sent + i] ELSE Stuffing
        /\ pointer + 1 \in 1..n
    BY <1>1 DEF CutsOf
  <2>3. /\ p.bytes[pointer + 1] \in Octets /\ p.bytes[pointer + 1][2] = 1
        /\ pointer \in Nat /\ Capacity \in Nat
    BY <1>1, StreamAssumption DEF IsPacket
  <2> QED
    BY <2>1, <2>2, <2>3
<1>6. /\ total \in Nat /\ total > 0 /\ t \in Nat /\ total >= t /\ Len(stream) \in Nat
      /\ TableHeader \in Nat /\ EventHeader \in Nat
  <2>1. total \in Nat /\ total > HeaderSize /\ HeaderSize \in Nat /\ Len(stream) \in Nat
    BY <1>3, LengthsAre, StreamAssumption, LenProperties DEF Broadcast, Streamed
  <2>2. total >= t /\ t \in Nat
    BY <1>3, EpgAssumption DEF Broadcast
  <2> QED
    BY <2>1, <2>2, EpgAssumption
<1>7. stream[sent + pointer + 1] = <<k, 1>> /\ sent + pointer + 1 \in 1..Len(stream)
  <2>1. p.bytes[pointer + 1] = stream[sent + (pointer + 1)] /\ sent + (pointer + 1) = sent + pointer + 1
    <3>0. n \in 1..Capacity /\ pointer + 1 \in 1..n /\ pointer \in Nat /\ Capacity \in Nat
      BY <1>5
    <3>1. sent + (pointer + 1) = sent + pointer + 1 /\ pointer + 1 \in 1..Capacity /\ pointer + 1 <= n
      BY <1>1, <3>0
    <3> QED
      BY <1>5, <3>1
  <2>2. Beginning(p)[1] = p.bytes[pointer + 1]
    <3>1. 1 \in 1..Capacity - pointer
      BY <1>5
    <3> QED
      BY <1>1, <3>1, BeginningIs
  <2>3. p.bytes[pointer + 1] = <<k, 1>>
    <3>1. Begun(p) = p.bytes[pointer + 1][1]
      BY <2>2 DEF Begun
    <3> QED
      BY <1>5, <3>1 DEF Octets
  <2>4. sent + pointer + 1 \in 1..Len(stream)
    <3>1. sent \in Nat /\ pointer \in Nat /\ n \in Int /\ pointer + 1 <= n /\ sent + n <= Len(stream) /\ Len(stream) \in Nat
      BY <1>1, <1>5, <1>6
    <3> QED
      BY <3>1
  <2> QED
    BY <2>1, <2>3, <2>4
<1> HIDE DEF k, e, b, t, pointer
<1>8. ASSUME NEW i \in 1..total
      PROVE  sent + pointer + i \in 1..Len(stream) /\ stream[sent + pointer + i] = <<k, i>>
  <2> DEFINE a == sent + pointer + 1
             o == i - 1
  <2>1. a \in 1..Len(stream) /\ stream[a] = <<k, 1>>
    BY <1>7
  <2>2. 1 \in 1..total /\ o \in Nat /\ 1 + o <= total
    <3> HIDE DEF total
    <3> QED
      BY <1>6
  <2>3. a + o = sent + pointer + i /\ 1 + o = i
    BY <1>1, <1>5, <1>6
  <2> HIDE DEF a, o
  <2>4. a + o \in 1..Len(stream) /\ stream[a + o] = <<k, 1 + o>>
    BY <1>3, <2>1, <2>2, RunsOn DEF total
  <2> QED
    BY <2>3, <2>4
\* The section has its last byte in the packet, or the packet is full.
<1>9. n = Capacity \/ pointer + total <= n
  <2> SUFFICES ASSUME EndsSection(stream[sent + n]), ~(pointer + total <= n) PROVE FALSE
    BY <1>5
  <2> DEFINE i == n - pointer
  <2>1. i \in 1..total /\ i < total /\ sent + pointer + i = sent + n
    <3> HIDE DEF total
    <3> QED
      BY <1>1, <1>5, <1>6
  <2> HIDE DEF i
  <2>2. stream[sent + n] = <<k, i>>
    BY <1>8, <2>1
  <2>3. i = total
    BY <2>2 DEF EndsSection
  <2> QED
    BY <2>1, <2>3
<1>10. Follows(e, at) /\ at \in Nat /\ e.left = total - t
  <2>1. e.from = k /\ e.descriptors = <<>> /\ e.left = total - TableHeader - EventHeader /\ t = TableHeader + EventHeader
    BY DEF e, NewEvent, t
  <2>2. e.left = total - t
    <3> HIDE DEF total
    <3> QED
      BY <1>6, <2>1
  <2>3. Len(e.descriptors) = 0
    BY <2>1
  <2>4. t + Len(e.descriptors) + e.left = total
    <3> HIDE DEF total
    <3> QED
      BY <1>6, <2>2, <2>3
  <2>5. e.left > 0 => at + 1 \in 1..Len(stream) /\ stream[at + 1] = <<k, t + Len(e.descriptors) + 1>>
    <3> HAVE e.left > 0
    <3>1. t + 1 \in 1..total /\ sent + pointer + (t + 1) = at + 1
      <4> HIDE DEF total
      <4> QED
        BY <1>1, <1>5, <1>6, <2>2
    <3>2. t + 1 = t + Len(e.descriptors) + 1
      BY <1>6, <2>3
    <3> QED
      BY <1>8, <3>1, <3>2
  <2>6. \A i \in 1..Len(e.descriptors) : e.descriptors[i] = <<e.from, TableHeader + EventHeader + i>>
    BY <2>3
  <2>7. at \in Nat
    BY <1>1, <1>5, <1>6
  <2> QED
    BY <1>3, <2>1, <2>2, <2>4, <2>5, <2>6, <2>7 DEF Follows, t
<1> DEFINE got == Filled(e, b)
<1>11. /\ got \in Nat /\ got <= Len(b) /\ got <= e.left /\ Len(b) \in Nat
       /\ got = Len(b) \/ got = e.left
       /\ Len(b) = Capacity - pointer - t
  <2>1. Len(b) \in Nat /\ e.left \in Nat
    BY <1>3, <1>4, LenProperties DEF EventRecords
  <2>2. Len(b) = Capacity - pointer - t
    BY <1>4, <1>5, <1>6 DEF t
  <2> QED
    BY <2>1, <2>2 DEF Filled
<1>12. \A i \in 1..got : b[i] = stream[at + i]
  <2> TAKE i \in 1..got
  <2> HIDE DEF got
  <2>1. i \in 1..Len(b) /\ i \in Nat
    BY <1>11
  <2>2. b[i] = p.bytes[pointer + t + i] /\ pointer + t + i \in 1..Capacity
    <3>1. b[i] = p.bytes[pointer + TableHeader + EventHeader + i]
      BY <1>4, <2>1
    <3>2. pointer + TableHeader + EventHeader + i = pointer + t + i
      BY <1>5, <1>6, <2>1 DEF t
    <3>3. pointer + t + i \in 1..Capacity
      BY <1>5, <1>6, <1>11, <2>1
    <3> QED
      BY <3>1, <3>2, <3>3
  <2>3. pointer + t + i <= n /\ sent + (pointer + t + i) = at + i
    <3> HIDE DEF total
    <3>1. i <= total - t
      <4> HIDE DEF at
      <4>1. got <= total - t /\ i <= got
        BY <1>10, <1>11
      <4> QED
        BY <1>6, <1>11, <2>1, <4>1
    <3> QED
      BY <1>1, <1>5, <1>6, <1>9, <2>1, <2>2, <3>1
  <2> HIDE DEF at
  <2> QED
    BY <1>5, <2>2, <2>3
<1>13. Follows(f, at + got)
  <2> HIDE DEF at
  <2> QED
    BY <1>4, <1>10, <1>12, FilledOn
<1>14. f.left > 0 => at + got = sent + n
  <2>1. f.left = e.left - got
    BY <1>3, <1>4, FillOK
  <2> HAVE f.left > 0
  <2>2. got # e.left /\ got = Len(b) /\ got < total - t
    <3> HIDE DEF got, total, f
    <3> QED
      BY <1>6, <1>10, <1>11, <2>1
  <2> HIDE DEF got, total, f
  <2>3. n = Capacity
    BY <1>5, <1>6, <1>9, <1>11, <2>2
  <2> QED
    BY <1>1, <1>5, <1>6, <1>11, <2>2, <2>3
<1>15. at + got \in Nat
  BY <1>10, <1>11
<1> HIDE DEF f, at, got
<1>16. \E a \in Nat : Follows(f, a) /\ (f.left > 0 => a = sent + n)
  BY <1>13, <1>14, <1>15
<1> QED
  BY <1>16 DEF f, e, k, b, p

LEMMA KeepWhole ==
  ASSUME lengths \in [1..N -> Lengths], NEW e \in EventRecords, Keep(e), events \in Seq(0..N)
  PROVE  /\ events' \in Seq(0..N)
         /\ incomplete' = NoEvent \/ (incomplete' = e /\ e.left > 0)
         /\ (\E at : Follows(e, at)) /\ (\A i \in DOMAIN events : events[i] # 0)
            => \A i \in DOMAIN events' : events'[i] # 0
<1> DEFINE out == IF e.descriptors = Descriptors(e.from) THEN e.from ELSE 0
<1>1. e.left \in 0..MaxBody /\ e.from \in 0..N /\ out \in 0..N
  BY StreamAssumption DEF EventRecords
<1>2. CASE e.left > 0
  BY <1>2 DEF Keep
<1>3. CASE ~(e.left > 0)
  <2>1. incomplete' = NoEvent /\ events' = Append(events, out) /\ e.left = 0
    BY <1>1, <1>3, StreamAssumption DEF Keep
  <2>2. ASSUME NEW at, Follows(e, at) PROVE out # 0
    <3>1. e.descriptors = Descriptors(e.from) /\ e.from \in 1..N
      BY <2>1, <2>2, DescriptorsAre DEF Follows
    <3> QED
      BY <3>1
  <2> HIDE DEF out
  <2>3. /\ events' \in Seq(0..N) /\ Len(events') = Len(events) + 1
        /\ \A i \in 1..Len(events') : events'[i] = IF i <= Len(events) THEN events[i] ELSE out
    BY <1>1, <2>1, AppendProperties
  <2>4. ASSUME NEW at, Follows(e, at), \A i \in DOMAIN events : events[i] # 0
        PROVE  \A i \in DOMAIN events' : events'[i] # 0
    <3> TAKE i \in DOMAIN events'
    <3>1. i \in 1..Len(events') /\ Len(events) \in Nat /\ DOMAIN events = 1..Len(events)
      BY <2>3, LenProperties
    <3>2. CASE i <= Len(events)
      BY <2>3, <2>4, <3>1, <3>2
    <3>3. CASE ~(i <= Len(events))
      BY <2>2, <2>3, <2>4, <3>1, <3>3
    <3> QED
      BY <3>2, <3>3
  <2> QED
    BY <2>1, <2>3, <2>4
<1> QED
  BY <1>2, <1>3

\* What a packet leaves of the event that is incomplete: nothing, where the counter tells of a gap.
LEMMA KeptIs ==
  ASSUME ReceptionInv, GuideInv, NEW n \in Cuts, ~wrapped, ~astray
  PROVE  LET kept == Kept(PacketOf(n)) IN
         kept = NoEvent \/ (Follows(kept, sent) /\ kept.left > 0)
<1> DEFINE p == PacketOf(n)
           kept == Kept(p)
<1>1. /\ CCs \in Nat \ {0} /\ CCs > 2 /\ epgCc \in 0..CCs /\ burst \in Nat /\ p.cc = (cc + 1) % CCs
      /\ Broadcast
  BY PacketIs, StreamAssumption, SequenceAssumption DEF ReceptionInv, EpgOK, LossesInv, CutsOf
<1> HIDE DEF p
<1> SUFFICES ASSUME kept # NoEvent PROVE Follows(kept, sent) /\ kept.left > 0
  BY DEF p
<1>2. kept = incomplete /\ (epgCc = CCs \/ p.cc = (epgCc + 1) % CCs)
  BY DEF Kept, NextCc
<1>3. epgCc # CCs /\ epgCc \in 0..CCs-1 /\ (epgCc + burst) % CCs = cc /\ burst < CCs - 1
  BY <1>1, <1>2 DEF GuideInv, GapIsSeen
<1>4. burst = 0
  <2> SUFFICES ASSUME burst # 0 PROVE FALSE
    OBVIOUS
  <2>1. burst \in 1..CCs-2 /\ burst + 1 \in 0..CCs-1
    BY <1>1, <1>3
  <2>2. (((epgCc + burst) % CCs) + 1) % CCs = (epgCc + (burst + 1)) % CCs
    BY <1>1, <1>3, <2>1, NextModulo
  <2>3. (epgCc + (burst + 1)) % CCs # (epgCc + 1) % CCs
    BY <1>1, <1>3, <2>1, OnlyOneIsNext
  <2> QED
    BY <1>1, <1>2, <1>3, <2>2, <2>3
<1> QED
  BY <1>2, <1>4 DEF GuideInv, Whole

LEMMA ArriveWhole ==
  ASSUME ReceptionInv, GuideInv, NEW n \in Cuts, Arrive(n)
  PROVE  GuideInv'
<1> DEFINE p == PacketOf(n)
           kept == Kept(p)
           k == Begun(p)
           f == Fill(NewEvent(k), Behind(p))
           short == Len(Beginning(p)) < TableHeader
           enough == ~(Len(Beginning(p)) < TableHeader + EventHeader)
<1>1. /\ Broadcast /\ lengths \in [1..N -> Lengths] /\ EpgOK /\ incomplete \in EventRecords
      /\ IsPacket(p) /\ CutsOf(p, n)
      /\ events \in Seq(0..N) /\ wrapped \in BOOLEAN /\ astray \in BOOLEAN
  BY PacketIs DEF ReceptionInv, Broadcast, EpgOK, GuideInv
<1>2. /\ PushToEpg(p) /\ sent' = sent + n /\ cc' = p.cc /\ last' = p /\ burst' = 0
      /\ wrapped' = (wrapped \/ CountsRound(unseen')) /\ UNCHANGED <<lengths, stream>>
  BY DEF Arrive, Deliver
<1>3. epgCc' = p.cc /\ p.cc \in 0..CCs-1 /\ CCs \in Nat /\ CCs > 2
  BY <1>1, <1>2, StreamAssumption DEF PushToEpg, IsPacket
<1>4. kept \in EventRecords
  BY <1>1, NoEventIs DEF Kept
<1>5. p.start => /\ NewEvent(k) \in EventRecords
                 /\ enough => f \in EventRecords
  BY <1>1, BegunIs, NewEventIs, BehindIs, FillOK
<1>6. ~p.start => Fill(kept, p.bytes) \in EventRecords
  BY <1>1, <1>4, FillOK DEF IsPacket
<1>7. /\ p.start => BeginSection(p, kept)
      /\ ~p.start => Continue(p, kept)
  BY <1>2 DEF PushToEpg
<1>8. ~wrapped /\ ~astray => kept = NoEvent \/ (Follows(kept, sent) /\ kept.left > 0)
  BY KeptIs
<1>9. ASSUME ~wrapped, ~astray, ~p.start, kept # NoEvent
      PROVE  Follows(Fill(kept, p.bytes), sent + n)
  BY <1>1, <1>8, <1>9, ContinuedOn
<1>10. ASSUME p.start, enough
       PROVE  \E at \in Nat : Follows(f, at) /\ (f.left > 0 => at = sent + n)
  BY <1>1, <1>10, BegunOn
<1> HIDE DEF p, kept, k, f, short, enough
<1>13. GapIsSeen' /\ wrapped' \in BOOLEAN
  <2>1. (p.cc + 0) % CCs = p.cc
    BY <1>3
  <2> QED
    BY <1>1, <1>2, <1>3, <2>1 DEF GapIsSeen
<1>11. CASE ~p.start
  <2>1. Continue(p, kept)
    BY <1>7, <1>11
  <2>2. UNCHANGED <<uids, astray>>
    BY <2>1 DEF Continue
  <2>3. /\ events' \in Seq(0..N)
        /\ ~wrapped /\ ~astray /\ (\A i \in DOMAIN events : events[i] # 0) =>
             /\ \A i \in DOMAIN events' : events'[i] # 0
             /\ incomplete' # NoEvent => Follows(incomplete', sent + n) /\ incomplete'.left > 0
    <3>1. CASE kept = NoEvent
      BY <1>1, <2>1, <3>1 DEF Continue
    <3>2. CASE kept # NoEvent
      <4>1. Keep(Fill(kept, p.bytes))
        BY <2>1, <3>2 DEF Continue
      <4> DEFINE e == Fill(kept, p.bytes)
      <4>2. /\ events' \in Seq(0..N)
            /\ incomplete' = NoEvent \/ (incomplete' = e /\ e.left > 0)
            /\ (\E at : Follows(e, at)) /\ (\A i \in DOMAIN events : events[i] # 0)
               => \A i \in DOMAIN events' : events'[i] # 0
        BY <1>1, <1>6, <1>11, <4>1, KeepWhole
      <4>3. ~wrapped /\ ~astray => Follows(e, sent + n)
        BY <1>9, <1>11, <3>2
      <4> HIDE DEF e
      <4> QED
        BY <4>2, <4>3
    <3> QED
      BY <3>1, <3>2
  <2>4. ~wrapped' /\ ~astray' =>
          /\ \A i \in DOMAIN events' : events'[i] # 0
          /\ incomplete' # NoEvent /\ burst' = 0 => Follows(incomplete', sent') /\ incomplete'.left > 0
    <3> HAVE ~wrapped' /\ ~astray'
    <3>1. ~wrapped /\ ~astray
      BY <1>2, <2>2
    <3> QED
      BY <1>2, <2>3, <3>1 DEF GuideInv, Whole
  <2>5. Whole'
    BY <1>2, <2>4 DEF Whole, Follows, NoEvent
  <2>6. LastRead'
    BY <1>2, <1>3, <1>11 DEF LastRead
  <2> QED
    BY <1>1, <1>13, <2>2, <2>3, <2>5, <2>6 DEF GuideInv
<1>12. CASE p.start
  <2>1. BeginSection(p, kept)
    BY <1>7, <1>12
  <2>2. \/ /\ short
           /\ incomplete' = kept /\ astray' = (astray \/ kept # NoEvent) /\ UNCHANGED <<uids, events>>
        \/ /\ uids' = uids \cup {Uid(k)} /\ UNCHANGED astray
           /\ incomplete' = NoEvent /\ UNCHANGED events
        \/ /\ uids' = uids \cup {Uid(k)} /\ UNCHANGED astray
           /\ enough /\ Keep(f)
    BY <2>1, BeginSectionIs DEF short, enough, k, f
  <2>3. /\ events' \in Seq(0..N) /\ astray' \in BOOLEAN /\ (~astray' => ~astray)
        /\ short \/ uids' = uids \cup {Uid(k)}
        /\ ~wrapped /\ ~astray' /\ (\A i \in DOMAIN events : events[i] # 0) =>
             /\ \A i \in DOMAIN events' : events'[i] # 0
             /\ incomplete' # NoEvent => Follows(incomplete', sent + n) /\ incomplete'.left > 0
    <3>1. CASE /\ short
               /\ incomplete' = kept /\ astray' = (astray \/ kept # NoEvent) /\ UNCHANGED <<uids, events>>
      BY <1>1, <3>1
    <3>2. CASE /\ uids' = uids \cup {Uid(k)} /\ UNCHANGED astray
               /\ incomplete' = NoEvent /\ UNCHANGED events
      BY <1>1, <3>2
    <3>3. CASE /\ uids' = uids \cup {Uid(k)} /\ UNCHANGED astray
               /\ enough /\ Keep(f)
      <4>1. f \in EventRecords
        BY <1>5, <1>12, <3>3
      <4>2. /\ events' \in Seq(0..N)
            /\ incomplete' = NoEvent \/ (incomplete' = f /\ f.left > 0)
            /\ (\E at : Follows(f, at)) /\ (\A i \in DOMAIN events : events[i] # 0)
               => \A i \in DOMAIN events' : events'[i] # 0
        BY <1>1, <3>3, <4>1, KeepWhole
      <4>3. \E at \in Nat : Follows(f, at) /\ (f.left > 0 => at = sent + n)
        BY <1>10, <1>12, <3>3
      <4> QED
        BY <1>1, <3>3, <4>2, <4>3
    <3> QED
      BY <2>2, <3>1, <3>2, <3>3
  <2>4. ~wrapped' /\ ~astray' =>
          /\ \A i \in DOMAIN events' : events'[i] # 0
          /\ incomplete' # NoEvent /\ burst' = 0 => Follows(incomplete', sent') /\ incomplete'.left > 0
    <3> HAVE ~wrapped' /\ ~astray'
    <3>1. ~wrapped /\ ~astray
      BY <1>2, <2>3
    <3> QED
      BY <1>2, <2>3, <3>1 DEF GuideInv, Whole
  <2>5. Whole'
    BY <1>2, <2>4 DEF Whole, Follows, NoEvent
  <2>6. LastRead'
    <3>1. ~short => Uid(k) \in uids'
      BY <2>3
    <3>2. /\ Uid(Begun(last'))= Uid(k) /\ (Len(Beginning(last')) < TableHeader) = short
      BY <1>2 DEF k, short
    <3> QED
      BY <1>2, <1>3, <3>1, <3>2 DEF LastRead, Uid, Begun, Beginning
  <2> QED
    BY <1>13, <2>3, <2>5, <2>6 DEF GuideInv
<1> QED
  BY <1>11, <1>12

LEMMA LoseWhole ==
  ASSUME ReceptionInv, GuideInv, NEW n \in Cuts, Lose(n)
  PROVE  GuideInv'
<1>1. /\ burst' = burst + 1 /\ cc' = PacketOf(n).cc /\ last' = NoPacket
      /\ wrapped' = (wrapped \/ CountsRound(burst') \/ CountsRound(unseen'))
      /\ UNCHANGED <<lengths, stream, epgCc, uids, incomplete, events, astray>>
  BY DEF Lose, epg
<1>2. /\ CCs \in Nat \ {0} /\ CCs > 2 /\ epgCc \in 0..CCs /\ burst \in Nat /\ PacketOf(n).cc = (cc + 1) % CCs
      /\ wrapped \in BOOLEAN /\ astray \in BOOLEAN /\ events \in Seq(0..N)
  BY PacketIs, StreamAssumption, SequenceAssumption DEF ReceptionInv, EpgOK, LossesInv, CutsOf, GuideInv
<1>3. wrapped' \in BOOLEAN /\ (~wrapped' => ~wrapped /\ burst' < CCs - 1)
  <2>1. ~CountsRound(burst') => burst' < CCs - 1
    BY <1>1, <1>2 DEF CountsRound
  <2>2. wrapped' \in BOOLEAN /\ (~wrapped' => ~wrapped /\ ~CountsRound(burst'))
    <3>1. wrapped' = (wrapped \/ CountsRound(burst') \/ CountsRound(unseen'))
      BY <1>1
    <3> QED
      BY <3>1, Zenon
  <2> QED
    BY <2>1, <2>2
<1>4. ASSUME ~wrapped', epgCc # CCs PROVE (epgCc + burst') % CCs = cc'
  <2>1. epgCc \in 0..CCs-1 /\ burst + 1 \in 0..CCs-1 /\ (epgCc + burst) % CCs = cc
    BY <1>1, <1>2, <1>3, <1>4 DEF GuideInv, GapIsSeen
  <2>2. (((epgCc + burst) % CCs) + 1) % CCs = (epgCc + (burst + 1)) % CCs
    BY <1>2, <2>1, NextModulo
  <2> QED
    BY <1>1, <1>2, <2>1, <2>2
<1>5. GapIsSeen'
  BY <1>1, <1>3, <1>4 DEF GuideInv, GapIsSeen, NoEvent
<1>6. LastRead'
  BY <1>1 DEF LastRead, NoPacket
<1>7. Whole'
  <2>1. burst' # 0
    BY <1>1, <1>2
  <2>2. ~wrapped' /\ ~astray' => \A i \in DOMAIN events' : events'[i] # 0
    BY <1>1, <1>3 DEF GuideInv, Whole
  <2> QED
    BY <2>1, <2>2 DEF Whole
<1> QED
  BY <1>1, <1>2, <1>3, <1>5, <1>6, <1>7 DEF GuideInv

LEMMA NotItself ==
  ASSUME NEW m \in Nat \ {0}, NEW e \in 0..m-1, NEW c \in 1..m-1
  PROVE  (e + c) % m # e
<1>1. c \in 0..m-1 /\ c > 0
  OBVIOUS
<1>2. (e + c) % m = IF e + c < m THEN e + c ELSE e + c - m
  BY <1>1, Modulo
<1> QED
  BY <1>1, <1>2

\* The guide takes a packet that comes once more for one behind a gap, and its section counts as read.
LEMMA RepeatAgain ==
  ASSUME ReceptionInv, GuideInv, Repeat
  PROVE  epgCc' = last.cc /\ incomplete' = NoEvent /\ UNCHANGED <<uids, events, astray>>
<1>1. last # NoPacket /\ PushToEpg(last) /\ IsPacket(last) /\ astray \in BOOLEAN
  BY DEF Repeat, Deliver, ReceptionInv, LastOK, GuideInv
<1>2. /\ epgCc = last.cc /\ last.cc \in 0..CCs-1 /\ CCs \in Nat \ {0} /\ CCs > 2
      /\ last.start /\ ~(Len(Beginning(last)) < TableHeader) => Uid(Begun(last)) \in uids
  BY <1>1, StreamAssumption DEF GuideInv, LastRead, IsPacket
<1>3. Kept(last) = NoEvent
  <2> DEFINE c == last.cc
  <2>1. c \in 0..CCs-1 /\ 1 \in 1..CCs-1
    BY <1>2
  <2> HIDE DEF c
  <2>2. (c + 1) % CCs # c /\ c # CCs
    BY <1>2, <2>1, NotItself
  <2> QED
    BY <1>2, <2>2 DEF Kept, NextCc, c
<1>4. epgCc' = last.cc
  BY <1>1 DEF PushToEpg
<1>5. CASE ~last.start
  BY <1>1, <1>3, <1>4, <1>5 DEF PushToEpg, Continue
<1>6. CASE last.start
  <2>1. BeginSection(last, NoEvent)
    BY <1>1, <1>3, <1>6 DEF PushToEpg
  <2>2. TableHeader \in Nat /\ EventHeader \in Nat /\ Len(Beginning(last)) \in Nat
    <3>1. Beginning(last) \in Seq(Payloads)
      BY <1>1, BeginningIs
    <3> QED
      BY <3>1, EpgAssumption, LenProperties
  <2>3. ~(Len(Beginning(last)) < TableHeader + EventHeader) => ~(Len(Beginning(last)) < TableHeader)
    BY <2>2
  <2>4. \/ incomplete' = NoEvent /\ astray' = (astray \/ NoEvent # NoEvent) /\ UNCHANGED <<uids, events>>
        \/ /\ ~(Len(Beginning(last)) < TableHeader) /\ uids' = uids \cup {Uid(Begun(last))}
           /\ incomplete' = NoEvent /\ UNCHANGED <<events, astray>>
        \/ ~(Len(Beginning(last)) < TableHeader + EventHeader) /\ Uid(Begun(last)) \notin uids
    BY <2>1 DEF BeginSection, Begun, Beginning, NoEvent
  <2> QED
    BY <1>1, <1>2, <1>4, <1>6, <2>3, <2>4
<1> QED
  BY <1>5, <1>6

LEMMA RepeatWhole ==
  ASSUME ReceptionInv, GuideInv, Repeat
  PROVE  GuideInv'
<1>1. last # NoPacket /\ last' = NoPacket /\ UNCHANGED <<lengths, stream, sent, cc, burst, wrapped>>
  BY DEF Repeat
<1>2. /\ cc = last.cc /\ burst = 0
      /\ wrapped \in BOOLEAN /\ astray \in BOOLEAN /\ events \in Seq(0..N)
  BY <1>1 DEF GuideInv, LastRead
<1>3. last.cc \in 0..CCs-1 /\ CCs \in Nat /\ CCs > 2
  <2>1. IsPacket(last)
    BY <1>1, Zenon DEF ReceptionInv, LastOK
  <2> QED
    BY <2>1, StreamAssumption DEF IsPacket
<1>4. incomplete' = NoEvent /\ UNCHANGED <<events, astray>> /\ epgCc' = last.cc
  BY RepeatAgain
<1>5. LastRead'
  BY <1>1 DEF LastRead, NoPacket
<1>6. GapIsSeen'
  <2>1. (last.cc + 0) % CCs = last.cc
    BY <1>3
  <2> QED
    BY <1>1, <1>2, <1>3, <1>4, <2>1 DEF GuideInv, GapIsSeen
<1>7. Whole'
  BY <1>1, <1>4 DEF GuideInv, Whole, NoEvent
<1> QED
  BY <1>1, <1>2, <1>4, <1>5, <1>6, <1>7 DEF GuideInv

LEMMA GuideOpens == Init => GuideInv
<1> SUFFICES ASSUME Init PROVE GuideInv
  OBVIOUS
<1>1. /\ events = <<>> /\ incomplete = NoEvent /\ epgCc = CCs /\ last = NoPacket /\ burst = 0
      /\ wrapped = FALSE /\ astray = FALSE
  BY DEF Init, EpgInit, StreamInit
<1>2. events \in Seq(0..N) /\ wrapped \in BOOLEAN /\ astray \in BOOLEAN
  <2>1. wrapped \in BOOLEAN /\ astray \in BOOLEAN
    BY <1>1, Zenon
  <2>2. events \in Seq(0..N)
    BY <1>1
  <2> QED
    BY <2>1, <2>2
<1>3. LastRead /\ GapIsSeen
  BY <1>1, StreamAssumption DEF LastRead, GapIsSeen
<1>4. Whole
  BY <1>1 DEF Whole
<1> QED
  BY <1>2, <1>3, <1>4 DEF GuideInv

LEMMA GuideKeeps == ReceptionInv /\ GuideInv /\ [Next]_vars => GuideInv'
<1> SUFFICES ASSUME ReceptionInv, GuideInv, [Next]_vars PROVE GuideInv'
  OBVIOUS
<1>1. CASE UNCHANGED <<sender, epg, burst, wrapped>>
  BY <1>1 DEF sender, epg, GuideInv, LastRead, GapIsSeen, Whole, Follows, NoEvent, NoPacket, Beginning,
              Begun, Uid
<1>2. CASE HandlerSwitched
  BY <1>1, <1>2 DEF HandlerSwitched, network, history
<1>3. CASE UNCHANGED vars
  BY <1>1, <1>3 DEF vars, network, history
<1> QED
  BY <1>2, <1>3, ArriveWhole, LoseWhole, RepeatWhole DEF Next

\* An event of the guide has the descriptors of one section, never of two, for streams of any
\* length, whatever the network loses or repeats, as long as the counter does not come round.
THEOREM EventsStayWhole == Spec => []EventsAreWhole
<1>1. GuideInv => EventsAreWhole
  BY DEF GuideInv, Whole, EventsAreWhole
<1> QED
  BY <1>1, ReceptionOpens, ReceptionKeeps, GuideOpens, GuideKeeps, PTL DEF Spec
----------------------------------------------------------------------------
(* Places of the stream. *)

\* How many sections end in the first i bytes of the stream.
Through(i) ==
  IF i = 0 THEN 0 ELSE IF EndsSection(stream[i]) THEN stream[i][1] ELSE stream[i][1] - 1

\* The first j bytes of section k, as a decoder has them.
Part(k, j) ==
  [data |-> SubSeq(Bytes(k), 1, j), need |-> IF j < HeaderSize THEN HeaderSize - j ELSE lengths[k] - j,
   header |-> j >= HeaderSize]

\* The section that goes on at a byte of the stream, as far as it was sent before.
PartAt(i) == Part(stream[i][1], stream[i][2] - 1)

\* A section goes on behind a place of the stream; what was sent of it.
Within(at) == at + 1 \in 1..Len(stream) /\ stream[at + 1][2] # 1
Left(at) == IF Within(at) THEN PartAt(at + 1) ELSE NoSection

\* Packet p has the n bytes of the stream behind place `at'.
Carried(p, at, n) ==
  /\ at \in Nat /\ n \in 1..Capacity /\ at + n \in 1..Len(stream)
  /\ n = Capacity \/ EndsSection(stream[at + n])
  /\ \A i \in 1..Capacity : p.bytes[i] = IF i <= n THEN stream[at + i] ELSE Stuffing
  /\ p.start <=> \E i \in 1..n : stream[at + i][2] = 1
  /\ ~p.start => p.pointer = 0
  /\ p.start => p.pointer + 1 \in 1..n /\ \A i \in 1..p.pointer : stream[at + i][2] # 1

Ascending(s) == \A i, j \in DOMAIN s : i < j => s[i] < s[j]

\* A byte of the stream, and the place in front of it.
LEMMA ByteIs ==
  ASSUME Broadcast, NEW i \in 1..Len(stream)
  PROVE  /\ Len(stream) \in Nat
         /\ stream[i][1] \in 1..N /\ lengths[stream[i][1]] \in Nat /\ stream[i][2] \in 1..lengths[stream[i][1]]
         /\ stream[i] = <<stream[i][1], stream[i][2]>>
<1>1. stream \in Seq(Octets) /\ Len(stream) \in Nat
  BY LenProperties DEF Broadcast, Streamed
<1>2. stream[i] \in Octets
  BY <1>1, ElementOfSeq
<1>3. stream[i][1] \in 1..N /\ stream[i][2] \in 1..lengths[stream[i][1]]
  BY DEF Broadcast, Streamed
<1>4. lengths[stream[i][1]] \in Nat
  BY <1>3, LengthsAre DEF Broadcast
<1> QED
  BY <1>1, <1>2, <1>3, <1>4 DEF Octets

LEMMA ThroughIs ==
  ASSUME Broadcast, NEW i \in 0..Len(stream)
  PROVE  Through(i) \in 0..N
<1>1. N \in Nat
  BY StreamAssumption
<1>2. CASE i = 0
  BY <1>1, <1>2 DEF Through
<1>3. CASE i # 0
  <2>1. i \in 1..Len(stream)
    BY <1>3
  <2>2. stream[i][1] \in 1..N
    BY <2>1, ByteIs
  <2> QED
    BY <1>1, <1>3, <2>2 DEF Through
<1> QED
  BY <1>2, <1>3

\* The sections in front of a byte have ended, and those behind have not begun.
LEMMA ThroughNext ==
  ASSUME Broadcast, NEW i \in 1..Len(stream)
  PROVE  /\ stream[i][1] = Through(i - 1) + 1
         /\ Through(i) = IF EndsSection(stream[i]) THEN Through(i - 1) + 1 ELSE Through(i - 1)
         /\ i > 1 => (EndsSection(stream[i-1]) <=> stream[i][2] = 1)
<1> DEFINE k == stream[i][1]
           h == stream[i-1][1]
           j == stream[i-1][2]
           t == Through(i - 1)
<1>1. k \in 1..N /\ i \in Nat /\ N \in Nat
  BY ByteIs, StreamAssumption
<1>2. k = t + 1 /\ t \in Nat /\ (i > 1 => (EndsSection(stream[i-1]) <=> stream[i][2] = 1))
  <2>1. CASE i = 1
    <3>1. Len(stream) > 0
      BY <2>1
    <3>2. stream[1] = <<1, 1>>
      BY <3>1, StreamAssumption DEF Broadcast, Streamed
    <3>3. t = 0
      BY <2>1 DEF Through
    <3> QED
      BY <2>1, <3>2, <3>3
  <2>2. CASE i > 1
    <3>1. i - 1 \in 1..Len(stream) /\ i - 1 < Len(stream) /\ (i - 1) + 1 = i /\ i - 1 # 0
      BY <2>2
    <3>2. stream[i] = After(stream[i-1])
      <4>1. \A a \in 1..Len(stream) : a < Len(stream) => stream[a + 1] = After(stream[a])
        BY DEF Broadcast, Streamed
      <4>2. stream[(i - 1) + 1] = After(stream[i-1])
        BY <3>1, <4>1
      <4> QED
        BY <3>1, <4>2
    <3>3. h \in 1..N /\ j \in 1..lengths[h] /\ lengths[h] \in Nat
      BY <3>1, ByteIs
    <3>4. t = IF EndsSection(stream[i-1]) THEN h ELSE h - 1
      BY <3>1 DEF Through
    <3>5. CASE EndsSection(stream[i-1])
      <4>1. stream[i] = <<h + 1, 1>> /\ t = h
        BY <3>2, <3>4, <3>5 DEF After
      <4> HIDE DEF t, h
      <4> QED
        BY <3>3, <3>5, <4>1
    <3>6. CASE ~EndsSection(stream[i-1])
      <4>1. stream[i] = <<h, j + 1>> /\ t = h - 1
        BY <3>2, <3>4, <3>6 DEF After
      <4> HIDE DEF t, h, j
      <4> QED
        BY <3>3, <3>6, <4>1
    <3> QED
      BY <3>5, <3>6
  <2> QED
    BY <1>1, <2>1, <2>2
<1>3. Through(i) = IF EndsSection(stream[i]) THEN k ELSE k - 1
  BY <1>1 DEF Through
<1> HIDE DEF k, t
<1>4. Through(i) = IF EndsSection(stream[i]) THEN t + 1 ELSE t
  BY <1>1, <1>2, <1>3
<1> QED
  BY <1>2, <1>4 DEF k, t

LEMMA ThroughGrows ==
  ASSUME Broadcast, NEW a \in 0..Len(stream), NEW b \in 0..Len(stream), a <= b
  PROVE  Through(a) <= Through(b)
<1> DEFINE L == Len(stream)
           T == {i \in 0..L : a <= i => Through(a) <= Through(i)}
<1>1. L \in Nat
  BY LenProperties DEF Broadcast, Streamed
<1>2. \A i \in 0..L : Through(i) \in Nat
  BY ThroughIs, StreamAssumption
<1>3. 0 \in T
  <2>1. a <= 0 => a = 0
    BY <1>1
  <2> QED
    BY <1>1, <1>2, <2>1
<1>4. ASSUME NEW i \in 1..L, i - 1 \in T PROVE i \in T
  <2>1. i \in 0..L /\ i - 1 \in 0..L /\ Through(i) \in Nat /\ Through(i - 1) \in Nat /\ Through(a) \in Nat
    BY <1>1, <1>2
  <2>2. Through(i) >= Through(i - 1)
    <3>1. Through(i) = Through(i - 1) + 1 \/ Through(i) = Through(i - 1)
      BY ThroughNext
    <3> QED
      BY <2>1, <3>1
  <2>3. a <= i => a = i \/ a <= i - 1
    BY <1>1, <2>1
  <2> QED
    BY <1>4, <2>1, <2>2, <2>3
<1> HIDE DEF T
<1>5. 0..L \subseteq T
  BY <1>1, <1>3, <1>4, IntervalInduction
<1> QED
  BY <1>5 DEF T

\* Section k ends at a byte before place i, if it is one of those that end there.
LEMMA EndOf ==
  ASSUME Broadcast, NEW i \in 0..Len(stream), NEW k \in 1..Through(i)
  PROVE  \E a \in 1..i : stream[a] = <<k, lengths[k]>>
<1> DEFINE L == Len(stream)
           T == {j \in 0..L : k <= Through(j) => \E a \in 1..j : stream[a] = <<k, lengths[k]>>}
<1>1. L \in Nat /\ N \in Nat
  BY LenProperties, StreamAssumption DEF Broadcast, Streamed
<1>0. Through(i) \in 0..N /\ k \in Nat /\ k >= 1 /\ k <= Through(i) /\ k \in 1..N
  <2>1. Through(i) \in 0..N
    BY ThroughIs
  <2> QED
    BY <1>1, <2>1
<1>2. 0 \in T
  <2>1. Through(0) = 0
    BY DEF Through
  <2> QED
    BY <1>0, <1>1, <2>1
<1>3. ASSUME NEW j \in 1..L, j - 1 \in T PROVE j \in T
  <2>1. j \in 0..L /\ j - 1 \in 0..L /\ j \in 1..j
    BY <1>1
  <2>2. Through(j) \in 0..N /\ Through(j - 1) \in 0..N
    BY <2>1, ThroughIs
  <2>3. ASSUME k <= Through(j) PROVE \E a \in 1..j : stream[a] = <<k, lengths[k]>>
    <3>1. CASE k <= Through(j - 1)
      <4>1. PICK a \in 1..j-1 : stream[a] = <<k, lengths[k]>>
        BY <1>3, <3>1
      <4>2. a \in 1..j
        BY <2>1
      <4> QED
        BY <4>1, <4>2
    <3>2. CASE ~(k <= Through(j - 1))
      <4>1. Through(j) = IF EndsSection(stream[j]) THEN Through(j - 1) + 1 ELSE Through(j - 1)
        BY ThroughNext
      <4>2. EndsSection(stream[j]) /\ k = Through(j - 1) + 1
        BY <1>0, <1>1, <2>2, <2>3, <3>2, <4>1
      <4>3. stream[j][1] = Through(j - 1) + 1 /\ stream[j] = <<stream[j][1], stream[j][2]>>
        BY ThroughNext, ByteIs
      <4>4. stream[j] = <<k, lengths[k]>>
        BY <4>2, <4>3 DEF EndsSection
      <4> QED
        BY <2>1, <4>4
    <3> QED
      BY <3>1, <3>2
  <2> QED
    BY <2>1, <2>3
<1> HIDE DEF T
<1>4. 0..L \subseteq T
  BY <1>1, <1>2, <1>3, IntervalInduction
<1> QED
  BY <1>0, <1>4 DEF T

LEMMA EndedIs ==
  ASSUME Broadcast, NEW a \in 0..Len(stream), NEW k \in 1..N
  PROVE  (\E i \in 1..a : stream[i] = <<k, lengths[k]>>) <=> k \in 1..Through(a)
<1>1. Len(stream) \in Nat /\ N \in Nat
  BY LenProperties, StreamAssumption DEF Broadcast, Streamed
<1>2. ASSUME NEW i \in 1..a, stream[i] = <<k, lengths[k]>> PROVE k \in 1..Through(a)
  <2>1. i \in 0..Len(stream) /\ i <= a /\ i # 0
    BY <1>1
  <2>2. Through(i) = k
    BY <1>2, <2>1 DEF Through, EndsSection
  <2>3. Through(i) <= Through(a) /\ Through(a) \in 0..N
    BY <2>1, ThroughGrows, ThroughIs
  <2> QED
    BY <1>1, <2>2, <2>3
<1> QED
  BY <1>2, EndOf

LEMMA CompletedAre ==
  ASSUME Broadcast, NEW a \in 0..Len(stream)
  PROVE  Cardinality({k \in 1..N : \E i \in 1..a : stream[i] = <<k, lengths[k]>>}) = Through(a)
<1> DEFINE m == Through(a)
<1>1. m \in Nat /\ \A k \in 1..m : k \in 1..N
  <2>1. m \in 0..N /\ N \in Nat
    BY ThroughIs, StreamAssumption
  <2> HIDE DEF m
  <2> QED
    BY <2>1
<1>2. {k \in 1..N : \E i \in 1..a : stream[i] = <<k, lengths[k]>>} = 1..m
  BY <1>1, EndedIs
<1> HIDE DEF m
<1>3. Cardinality(1..m) = IF 1 > m THEN 0 ELSE m - 1 + 1
  BY <1>1, FS_Interval
<1>4. Cardinality(1..m) = m
  BY <1>1, <1>3
<1> QED
  BY <1>2, <1>4 DEF m
----------------------------------------------------------------------------
(* What is told of the sections. *)

\* The sections from one number to another, each once and in their order.
Told(out, a, b) ==
  /\ out \in Seq(0..N) /\ Ascending(out)
  /\ \A i \in DOMAIN out : out[i] \in a+1..b
  /\ \A k \in a+1..b : Delivered(k, out)

LEMMA ToldNothing ==
  ASSUME NEW a \in Nat
  PROVE  Told(<<>>, a, a) /\ \A out : Told(out, a, a) => out = <<>>
<1>1. a+1..a = {}
  OBVIOUS
<1>2. Told(<<>>, a, a)
  BY <1>1 DEF Told, Ascending, Delivered
<1>3. ASSUME NEW out, Told(out, a, a) PROVE out = <<>>
  <2>1. out \in Seq(0..N) /\ \A i \in DOMAIN out : FALSE
    BY <1>1, <1>3 DEF Told
  <2> QED
    BY <2>1
<1> QED
  BY <1>2, <1>3

LEMMA ToldMore ==
  ASSUME NEW a \in Nat, NEW b \in Nat, a <= b, b + 1 \in 0..N, NEW out, Told(out, a, b)
  PROVE  Told(Append(out, b + 1), a, b + 1) /\ Append(out, b + 1) # <<>>
<1> DEFINE c == b + 1
           new == Append(out, c)
           l == Len(out)
<1>1. out \in Seq(0..N) /\ l \in Nat /\ DOMAIN out = 1..l /\ c \in 0..N
  BY LenProperties DEF Told
<1>2. /\ new \in Seq(0..N) /\ Len(new) = l + 1
      /\ \A i \in 1..l+1 : new[i] = IF i <= l THEN out[i] ELSE c
  BY <1>1, AppendProperties
<1>3. DOMAIN new = 1..l+1 /\ new # <<>>
  <2>1. Len(new) # 0
    BY <1>1, <1>2
  <2> QED
    BY <1>2, <2>1, LenProperties
<1> HIDE DEF new, l
<1>4. \A i \in 1..l : i \in 1..l+1 /\ new[i] = out[i] /\ out[i] \in a+1..b
  <2>1. \A i \in 1..l : i \in 1..l+1 /\ i <= l
    BY <1>1
  <2>2. \A i \in 1..l : out[i] \in a+1..b
    BY <1>1 DEF Told
  <2> QED
    BY <1>2, <2>1, <2>2
<1>5. l + 1 \in 1..l+1 /\ new[l + 1] = c
  BY <1>1, <1>2
<1>6. \A i \in 1..l+1 : i \in 1..l \/ i = l + 1
  BY <1>1
<1>7. a+1..b \subseteq a+1..c /\ c \in a+1..c /\ \A k \in a+1..c : k \in a+1..b \/ k = c
  OBVIOUS
<1>8. Ascending(new)
  <2> SUFFICES ASSUME NEW i \in 1..l+1, NEW j \in 1..l+1, i < j PROVE new[i] < new[j]
    BY <1>3 DEF Ascending
  <2>1. i \in 1..l
    BY <1>1
  <2>2. CASE j \in 1..l
    BY <1>1, <1>4, <2>1, <2>2 DEF Told, Ascending
  <2>3. CASE j = l + 1
    BY <1>4, <1>5, <2>1, <2>3
  <2> QED
    BY <1>6, <2>2, <2>3
<1>9. \A i \in DOMAIN new : new[i] \in a+1..c
  BY <1>3, <1>4, <1>5, <1>6, <1>7
<1>10. \A k \in a+1..c : Delivered(k, new)
  <2> TAKE k \in a+1..c
  <2>1. CASE k \in a+1..b
    <3>1. PICK i \in 1..l : out[i] = k
      BY <1>1, <2>1 DEF Told, Delivered
    <3> QED
      BY <1>3, <1>4, <3>1 DEF Delivered
  <2>2. CASE k = c
    BY <1>3, <1>5, <2>2 DEF Delivered
  <2> QED
    BY <1>7, <2>1, <2>2
<1>11. Told(new, a, c)
  BY <1>2, <1>8, <1>9, <1>10 DEF Told
<1> QED
  BY <1>3, <1>11 DEF new

\* What is told behind what was told before.
Lengthens(all, before, out) ==
  /\ all \in Seq(0..N) /\ Len(before) <= Len(all)
  /\ SubSeq(before, 1, Len(before)) = SubSeq(all, 1, Len(before))
  /\ \A k \in 0..N : Delivered(k, all) <=> Delivered(k, before) \/ Delivered(k, out)

LEMMA ToldBehind ==
  ASSUME NEW before \in Seq(0..N), Ascending(before), NEW m \in Nat, \A i \in DOMAIN before : before[i] \in 1..m,
         NEW a \in Nat, NEW b \in Nat, m <= a, a <= b, NEW out, Told(out, a, b)
  PROVE  /\ Lengthens(before \o out, before, out) /\ Ascending(before \o out)
         /\ \A i \in DOMAIN (before \o out) : (before \o out)[i] \in 1..b
<1> DEFINE all == before \o out
           l == Len(before)
           r == Len(out)
<1>1. /\ out \in Seq(0..N) /\ l \in Nat /\ r \in Nat /\ DOMAIN before = 1..l /\ DOMAIN out = 1..r
  BY LenProperties DEF Told
<1>2. /\ all \in Seq(0..N) /\ Len(all) = l + r
      /\ \A i \in 1..l+r : all[i] = IF i <= l THEN before[i] ELSE out[i - l]
  BY <1>1, ConcatProperties
<1>3. DOMAIN all = 1..l+r
  BY <1>2, LenProperties
<1> HIDE DEF all, l, r
<1>4. \A i \in 1..l : i \in 1..l+r /\ all[i] = before[i]
  BY <1>1, <1>2
<1>5. \A i \in 1..r : l + i \in 1..l+r /\ all[l + i] = out[i]
  <2> TAKE i \in 1..r
  <2>1. l + i \in 1..l+r /\ ~(l + i <= l) /\ (l + i) - l = i
    BY <1>1
  <2> QED
    BY <1>2, <2>1
<1>6. \A i \in 1..l+r : i \in 1..l \/ \E j \in 1..r : i = l + j
  <2> TAKE i \in 1..l+r
  <2>1. CASE i <= l
    BY <1>1, <2>1
  <2>2. CASE ~(i <= l)
    <3>1. i - l \in 1..r /\ i = l + (i - l)
      BY <1>1, <2>2
    <3> QED
      BY <3>1
  <2> QED
    BY <2>1, <2>2
<1>7. \A i \in 1..l : before[i] \in 1..m
  BY <1>1
<1>8. \A i \in 1..r : out[i] \in a+1..b
  BY <1>1 DEF Told
<1>9. \A i \in DOMAIN all : all[i] \in 1..b
  <2> TAKE i \in DOMAIN all
  <2>1. CASE i \in 1..l
    BY <1>4, <1>7, <2>1
  <2>2. CASE \E j \in 1..r : i = l + j
    <3>1. PICK j \in 1..r : i = l + j
      BY <2>2
    <3>2. all[i] \in a+1..b
      BY <1>5, <1>8, <3>1
    <3> QED
      BY <3>2
  <2> QED
    BY <1>3, <1>6, <2>1, <2>2
<1>10. Ascending(all)
  <2> SUFFICES ASSUME NEW i \in 1..l+r, NEW j \in 1..l+r, i < j PROVE all[i] < all[j]
    BY <1>3 DEF Ascending
  <2>1. CASE j \in 1..l
    <3>1. i \in 1..l
      BY <1>1, <2>1
    <3> QED
      BY <1>1, <1>4, <2>1, <3>1 DEF Ascending
  <2>2. CASE i \in 1..l /\ \E y \in 1..r : j = l + y
    <3>1. PICK y \in 1..r : j = l + y
      BY <2>2
    <3>2. all[i] \in 1..m /\ all[j] \in a+1..b
      BY <1>4, <1>5, <1>7, <1>8, <2>2, <3>1
    <3> QED
      BY <3>2
  <2>3. CASE (\E x \in 1..r : i = l + x) /\ (\E y \in 1..r : j = l + y)
    <3>1. PICK x \in 1..r : i = l + x
      BY <2>3
    <3>2. PICK y \in 1..r : j = l + y
      BY <2>3
    <3>3. x < y
      BY <1>1, <3>1, <3>2
    <3>4. out[x] < out[y]
      BY <1>1, <3>3 DEF Told, Ascending
    <3> QED
      BY <1>5, <3>1, <3>2, <3>4
  <2> QED
    BY <1>6, <2>1, <2>2, <2>3
<1>11. ASSUME NEW k \in 0..N PROVE Delivered(k, all) <=> Delivered(k, before) \/ Delivered(k, out)
  <2>1. ASSUME Delivered(k, all) PROVE Delivered(k, before) \/ Delivered(k, out)
    <3>1. PICK i \in 1..l+r : all[i] = k
      BY <1>3, <2>1 DEF Delivered
    <3>2. CASE i \in 1..l
      BY <1>1, <1>4, <3>1, <3>2 DEF Delivered
    <3>3. CASE \E j \in 1..r : i = l + j
      BY <1>1, <1>5, <3>1, <3>3 DEF Delivered
    <3> QED
      BY <1>6, <3>2, <3>3
  <2>2. ASSUME Delivered(k, before) PROVE Delivered(k, all)
    BY <1>1, <1>3, <1>4, <2>2 DEF Delivered
  <2>3. ASSUME Delivered(k, out) PROVE Delivered(k, all)
    BY <1>1, <1>3, <1>5, <2>3 DEF Delivered
  <2> QED
    BY <2>1, <2>2, <2>3
<1>12. SubSeq(before, 1, l) = SubSeq(all, 1, l)
  <2>1. \A i \in 1..l : before[0 + i] \in 0..N /\ all[0 + i] \in 0..N
    <3> TAKE i \in 1..l
    <3>0. i \in 1..Len(before)
      BY DEF l
    <3>1. 0 + i = i
      BY <1>1
    <3>2. before[i] \in 0..N
      BY <3>0, ElementOfSeq
    <3> QED
      BY <1>4, <3>1, <3>2
  <2>2. 0 \in Nat /\ l \in Nat
    BY <1>1
  <2>3. (\A i \in 1..l : before[0 + i] \in 0..N) /\ (\A i \in 1..l : all[0 + i] \in 0..N)
    BY <2>1
  <2>4. /\ SubSeq(before, 0 + 1, 0 + l) \in Seq(0..N) /\ Len(SubSeq(before, 0 + 1, 0 + l)) = l
        /\ \A i \in 1..l : SubSeq(before, 0 + 1, 0 + l)[i] = before[0 + i]
    BY <2>2, <2>3, SliceIs
  <2>5. /\ SubSeq(all, 0 + 1, 0 + l) \in Seq(0..N) /\ Len(SubSeq(all, 0 + 1, 0 + l)) = l
        /\ \A i \in 1..l : SubSeq(all, 0 + 1, 0 + l)[i] = all[0 + i]
    BY <2>2, <2>3, SliceIs
  <2>6. \A i \in 1..l : before[0 + i] = all[0 + i]
    <3> TAKE i \in 1..l
    <3>1. 0 + i = i
      OBVIOUS
    <3> QED
      BY <1>4, <3>1
  <2>7. SubSeq(before, 0 + 1, 0 + l) = SubSeq(all, 0 + 1, 0 + l)
    BY <2>4, <2>5, <2>6, SeqEqual
  <2>8. 0 + 1 = 1 /\ 0 + l = l
    BY <1>1
  <2> QED
    BY <2>7, <2>8
<1>13. Lengthens(all, before, out)
  <2>1. l <= Len(all)
    BY <1>1, <1>2
  <2> QED
    BY <1>2, <1>11, <1>12, <2>1 DEF Lengthens, l
<1> QED
  BY <1>9, <1>10, <1>13 DEF all
----------------------------------------------------------------------------
(* Sections in the stream. *)

\* From a byte of a section on to its end.
LEMMA GoesOn ==
  ASSUME Broadcast, NEW x \in 1..Len(stream), NEW m \in Nat, stream[x][2] + m <= lengths[stream[x][1]]
  PROVE  /\ x + m \in 1..Len(stream)
         /\ stream[x + m][1] = stream[x][1] /\ stream[x + m][2] = stream[x][2] + m
         /\ stream[x + m] = <<stream[x][1], stream[x][2] + m>>
         /\ EndsSection(stream[x + m]) <=> stream[x][2] + m = lengths[stream[x][1]]
         /\ Through(x + m) = IF stream[x][2] + m = lengths[stream[x][1]] THEN Through(x - 1) + 1 ELSE Through(x - 1)
<1> DEFINE k == stream[x][1]
           j == stream[x][2]
           t == Through(x - 1)
<1>1. /\ k \in 1..N /\ lengths[k] \in Nat /\ j \in 1..lengths[k] /\ stream[x] = <<k, j>> /\ k = t + 1
      /\ Len(stream) \in Nat /\ x \in Nat /\ t \in Nat
  <2>1. x - 1 \in 0..Len(stream) /\ x \in Nat
    BY ByteIs
  <2> QED
    BY <2>1, ByteIs, ThroughNext, ThroughIs
<1> HIDE DEF k, j, t
<1>2. x + m \in 1..Len(stream) /\ stream[x + m] = <<k, j + m>>
  <2>1. j + m <= lengths[k]
    BY DEF k, j
  <2> QED
    BY <1>1, <2>1, RunsOn
<1>3. stream[x + m][1] = k /\ stream[x + m][2] = j + m
  BY <1>2
<1>4. EndsSection(stream[x + m]) <=> j + m = lengths[k]
  BY <1>3 DEF EndsSection
<1>5. Through(x + m) = IF j + m = lengths[k] THEN t + 1 ELSE t
  <2>1. x + m # 0
    BY <1>2
  <2>2. Through(x + m) = IF j + m = lengths[k] THEN k ELSE k - 1
    BY <1>3, <1>4, <2>1 DEF Through
  <2>3. k - 1 = t
    BY <1>1
  <2> QED
    BY <1>1, <2>2, <2>3
<1> QED
  BY <1>2, <1>3, <1>4, <1>5 DEF k, j, t

\* Where no section begins, there is no more than the rest of one.
LEMMA NoStart ==
  ASSUME Broadcast, NEW at \in Nat, NEW m \in Nat, m > 0, at + m \in 1..Len(stream),
         \A i \in 1..m : stream[at + i][2] # 1
  PROVE  /\ Within(at) /\ stream[at + m][1] = stream[at + 1][1] /\ stream[at + 1][1] = Through(at) + 1
         /\ Through(at + m) <= Through(at) + 1
<1> DEFINE x == at + 1
           k == stream[x][1]
           j == stream[x][2]
           L == Len(stream)
<1>1. /\ L \in Nat /\ x \in 1..L /\ 1 \in 1..m /\ x - 1 = at /\ at \in 0..L /\ at + m \in 1..L
  <2>1. L \in Nat
    BY LenProperties DEF Broadcast, Streamed
  <2> QED
    BY <2>1
<1>2. /\ k \in 1..N /\ lengths[k] \in Nat /\ j \in 1..lengths[k] /\ k = Through(at) + 1
      /\ Through(at) \in Nat
  BY <1>1, ByteIs, ThroughNext, ThroughIs
<1>3. Within(at)
  BY <1>1 DEF Within
<1> HIDE DEF L
<1>4. j + (m - 1) <= lengths[k]
  <2> SUFFICES ASSUME ~(j + (m - 1) <= lengths[k]) PROVE FALSE
    OBVIOUS
  <2> DEFINE o == lengths[k] - j
             y == x + o
  <2> HIDE DEF x, k, j
  <2>1. o \in Nat /\ o < m - 1 /\ j + o = lengths[k]
    BY <1>2
  <2>2. stream[y] = <<k, lengths[k]>> /\ y \in 1..L
    <3> HIDE DEF o
    <3>1. stream[x][2] + o <= lengths[stream[x][1]]
      BY <1>2, <2>1 DEF k, j
    <3>2. x + o \in 1..Len(stream) /\ stream[x + o] = <<stream[x][1], stream[x][2] + o>>
      BY <1>1, <2>1, <3>1, GoesOn DEF L
    <3> QED
      BY <2>1, <3>2 DEF k, j, L
  <2>3. y < L /\ y + 1 = at + (o + 2) /\ o + 2 \in 1..m
    <3> HIDE DEF o
    <3>1. y = (at + 1) + o /\ m \in Nat /\ at + m <= L /\ L \in Nat
      BY <1>1 DEF x
    <3> HIDE DEF y
    <3> QED
      BY <2>1, <3>1
  <2> HIDE DEF y, o
  <2>4. stream[y + 1][2] = 1
    BY <1>2, <2>2, <2>3, RunsOut DEF L
  <2> QED
    BY <2>3, <2>4
<1>5. /\ stream[x + (m - 1)][1] = k
      /\ Through(x + (m - 1)) = IF j + (m - 1) = lengths[k] THEN Through(x - 1) + 1 ELSE Through(x - 1)
  <2>1. m - 1 \in Nat
    OBVIOUS
  <2> QED
    BY <1>1, <1>4, <2>1, GoesOn DEF L
<1>6. x + (m - 1) = at + m
  OBVIOUS
<1> HIDE DEF k, j, x
<1>7. Through(at + m) <= Through(at) + 1
  BY <1>1, <1>2, <1>5, <1>6
<1> QED
  BY <1>2, <1>3, <1>5, <1>6, <1>7 DEF k, x

\* The first bytes of a section.
LEMMA FirstBytes ==
  ASSUME lengths \in [1..N -> Lengths], NEW k \in 1..N, NEW m \in Nat, m <= lengths[k]
  PROVE  /\ SubSeq(Bytes(k), 1, m) \in Seq(Payloads) /\ Len(SubSeq(Bytes(k), 1, m)) = m
         /\ \A i \in 1..m : SubSeq(Bytes(k), 1, m)[i] = <<k, i>>
<1>1. /\ Bytes(k) \in Seq(Octets) /\ Len(Bytes(k)) = lengths[k] /\ lengths[k] \in Nat
      /\ \A i \in 1..lengths[k] : Bytes(k)[i] = <<k, i>>
  BY BytesAre, LengthsAre
<1>2. \A i \in 1..m : i \in 1..lengths[k] /\ 0 + i = i
  BY <1>1
<1>3. \A i \in 1..m : Bytes(k)[0 + i] \in Payloads
  <2> TAKE i \in 1..m
  <2>1. i \in 1..Len(Bytes(k)) /\ 0 + i = i
    BY <1>1, <1>2
  <2>2. Bytes(k)[i] \in Octets
    BY <1>1, <2>1, ElementOfSeq
  <2> QED
    BY <2>1, <2>2 DEF Payloads
<1>4. /\ SubSeq(Bytes(k), 0 + 1, 0 + m) \in Seq(Payloads) /\ Len(SubSeq(Bytes(k), 0 + 1, 0 + m)) = m
      /\ \A i \in 1..m : SubSeq(Bytes(k), 0 + 1, 0 + m)[i] = Bytes(k)[0 + i]
  BY <1>3, SliceIs
<1>5. 0 + 1 = 1 /\ 0 + m = m
  OBVIOUS
<1> QED
  BY <1>1, <1>2, <1>4, <1>5

\* A decoder that takes the next bytes of the section has those.
LEMMA MoreBytes ==
  ASSUME lengths \in [1..N -> Lengths], NEW k \in 1..N, NEW m \in Nat, NEW c \in Nat, m + c <= lengths[k],
         NEW bytes \in Seq(Payloads), Len(bytes) = Capacity, NEW pos \in 1..Capacity+1, pos + c <= Capacity + 1,
         \A i \in 1..c : bytes[pos + i - 1] = <<k, m + i>>
  PROVE  Taken(SubSeq(Bytes(k), 1, m), bytes, pos, c) = SubSeq(Bytes(k), 1, m + c)
<1> DEFINE old == SubSeq(Bytes(k), 1, m)
           new == SubSeq(Bytes(k), 1, m + c)
           all == Taken(old, bytes, pos, c)
<1>1. lengths[k] \in Nat /\ m <= lengths[k] /\ m + c \in Nat
  BY LengthsAre
<1>2. old \in Seq(Payloads) /\ Len(old) = m /\ \A i \in 1..m : old[i] = <<k, i>>
  BY <1>1, FirstBytes
<1>3. new \in Seq(Payloads) /\ Len(new) = m + c /\ \A i \in 1..m+c : new[i] = <<k, i>>
  BY <1>1, FirstBytes
<1> HIDE DEF old, new
<1>4. /\ all \in Seq(Payloads) /\ Len(all) = Len(old) + c
      /\ \A i \in 1..Len(old) + c : all[i] = IF i <= Len(old) THEN old[i] ELSE bytes[pos + (i - Len(old)) - 1]
  <2>1. TakenRight(all, old, bytes, pos, c)
    BY <1>2, TakenAre
  <2> HIDE DEF all
  <2> QED
    BY <2>1 DEF TakenRight
<1> HIDE DEF all
<1>5. ASSUME NEW i \in 1..m+c PROVE all[i] = new[i]
  <2>1. CASE i <= m
    <3>1. i \in 1..m
      BY <2>1
    <3> QED
      BY <1>2, <1>3, <1>4, <2>1, <3>1
  <2>2. CASE ~(i <= m)
    <3> DEFINE o == i - m
    <3>1. o \in 1..c /\ m + o = i
      BY <2>2
    <3>2. all[i] = bytes[pos + o - 1]
      BY <1>2, <1>4, <2>2
    <3> HIDE DEF o
    <3> QED
      BY <1>3, <3>1, <3>2
  <2> QED
    BY <2>1, <2>2
<1>6. all = new
  <2>1. Len(all) = m + c
    BY <1>2, <1>4
  <2> QED
    BY <1>3, <1>4, <1>5, <2>1, SeqEqual
<1> QED
  BY <1>6 DEF all, new, old

\* What the header of a section tells, and what was assembled of all its bytes.
LEMMA HeaderTells ==
  ASSUME lengths \in [1..N -> Lengths], NEW k \in 1..N, NEW garbage
  PROVE  /\ BodyLength(SubSeq(Bytes(k), 1, HeaderSize), garbage) = lengths[k] - HeaderSize
         /\ lengths[k] - HeaderSize \in 1..MaxBody
         /\ Assembled(SubSeq(Bytes(k), 1, lengths[k])) = k
<1> DEFINE l == lengths[k]
           header == SubSeq(Bytes(k), 1, HeaderSize)
           all == SubSeq(Bytes(k), 1, l)
<1>1. l \in Nat /\ HeaderSize \in Nat /\ HeaderSize > 0 /\ l > HeaderSize /\ l <= HeaderSize + MaxBody /\ MaxBody \in Nat
  BY LengthsAre, StreamAssumption
<1>2. header[1] = <<k, 1>>
  <2>1. 1 \in 1..HeaderSize /\ HeaderSize <= l
    BY <1>1
  <2> QED
    BY <1>1, <2>1, FirstBytes
<1>3. BodyLength(header, garbage) = l - HeaderSize
  <2> HIDE DEF l
  <2>1. header[1][1] = k
    <3> HIDE DEF header
    <3> QED
      BY <1>2
  <2>2. BodyLength(header, garbage) = lengths[header[1][1]] - HeaderSize
    BY DEF BodyLength
  <2> QED
    BY <2>1, <2>2 DEF l
<1>4. all = Bytes(k)
  <2>1. all \in Seq(Payloads) /\ Len(all) = l /\ \A i \in 1..l : all[i] = <<k, i>>
    BY <1>1, FirstBytes
  <2>2. Bytes(k) \in Seq(Octets) /\ Len(Bytes(k)) = l /\ \A i \in 1..l : Bytes(k)[i] = <<k, i>>
    BY BytesAre
  <2>3. Bytes(k) \in Seq(Payloads)
    BY <2>2, SeqMonotonic DEF Payloads
  <2> HIDE DEF all, l
  <2> QED
    BY <2>1, <2>2, <2>3, SeqEqual
<1>5. Assembled(all) = k
  <2>1. 1 \in 1..l
    BY <1>1
  <2>2. Bytes(k)[1] = <<k, 1>>
    BY <2>1, BytesAre
  <2>3. Bytes(k)[1][1] = k
    BY <2>2
  <2> HIDE DEF all, l
  <2>4. Assembled(all) = all[1][1]
    BY <1>4 DEF Assembled
  <2> QED
    BY <1>4, <2>3, <2>4
<1>6. l - HeaderSize \in 1..MaxBody
  <2> HIDE DEF l
  <2> QED
    BY <1>1
<1> HIDE DEF header, all
<1> QED
  BY <1>3, <1>5, <1>6 DEF header, all
----------------------------------------------------------------------------
(* Sections in a packet. *)

LEMMA CarriedIs ==
  ASSUME Broadcast, NEW n \in Cuts
  PROVE  Carried(PacketOf(n), sent, n) /\ IsPacket(PacketOf(n)) /\ PacketOf(n).cc = (cc + 1) % CCs
<1> DEFINE p == PacketOf(n)
<1>1. ~p.start => p.pointer = 0
  BY DEF PacketOf
<1>2. IsPacket(p) /\ CutsOf(p, n) /\ Cut(n)
  BY PacketIs, CutsAre
<1> HIDE DEF p
<1>3. sent \in Nat
  BY DEF Broadcast
<1> QED
  BY <1>1, <1>2, <1>3 DEF Carried, CutsOf, Cut, p

\* The sections that a packet has bytes of.
LEMMA CarriesAre ==
  ASSUME Broadcast, NEW p, IsPacket(p), NEW at, NEW n, Carried(p, at, n)
  PROVE  /\ Carries(p) \subseteq 1..N
         /\ \A i \in 1..n : stream[at + i][1] \in Carries(p)
         /\ \A k \in Carries(p) : \E i \in 1..n : k = stream[at + i][1]
<1>1. /\ at \in Nat /\ n \in 1..Capacity /\ at + n \in 1..Len(stream) /\ Capacity \in Nat /\ Len(stream) \in Nat
      /\ \A i \in 1..Capacity : p.bytes[i] = IF i <= n THEN stream[at + i] ELSE Stuffing
  BY StreamAssumption, LenProperties DEF Carried, Broadcast, Streamed
<1>2. DOMAIN p.bytes = 1..Capacity
  BY LenProperties DEF IsPacket
<1>3. \A i \in 1..n : at + i \in 1..Len(stream) /\ i \in 1..Capacity /\ i <= n
  BY <1>1
<1>4. \A i \in 1..n : stream[at + i][1] \in 1..N
  BY <1>3, ByteIs
<1>5. ASSUME NEW i \in 1..n PROVE stream[at + i][1] \in Carries(p)
  <2>1. i \in 1..Capacity /\ i <= n
    BY <1>3
  <2>2. p.bytes[i] = stream[at + i] /\ i \in DOMAIN p.bytes
    BY <1>1, <1>2, <2>1
  <2>3. stream[at + i][1] # 0
    <3>1. \A k \in 1..N : k # 0
      BY StreamAssumption
    <3> QED
      BY <1>4, <3>1
  <2> QED
    BY <2>2, <2>3 DEF Carries
<1>6. ASSUME NEW k \in Carries(p) PROVE \E i \in 1..n : k = stream[at + i][1]
  <2>1. PICK i \in 1..Capacity : k = p.bytes[i][1] /\ k # 0
    BY <1>2 DEF Carries
  <2>2. i <= n
    <3> SUFFICES ASSUME ~(i <= n) PROVE FALSE
      OBVIOUS
    <3>1. p.bytes[i] = Stuffing
      BY <1>1
    <3> QED
      BY <2>1, <3>1 DEF Stuffing
  <2>3. i \in 1..n /\ p.bytes[i] = stream[at + i]
    BY <1>1, <2>2
  <2> QED
    BY <2>1, <2>3
<1> QED
  BY <1>4, <1>5, <1>6

\* What a decoder has of a section at byte pos of a packet, or behind it, and the sections that
\* have ended.
Reading(s, pos, at, n) == IF pos \in 1..n THEN s = PartAt(at + pos) ELSE pos = Capacity + 1 /\ s = Left(at + n)
Passed(pos, at, n) == IF pos \in 1..n THEN Through(at + (pos - 1)) ELSE Through(at + n)

\* What a turn of a loop comes to: the section lacks more than the packet has, or has its header,
\* or is complete.
Runs(p, s, data, at, n, pos) ==
  LET available == Capacity - pos + 1 IN
  /\ n = Capacity /\ Through(at + n) = Through(at + (pos - 1))
  /\ Left(at + n) = [data |-> data, need |-> s.need - available, header |-> s.header]

Heads(p, s, data, at, n, pos, body) ==
  LET end == pos + s.need IN
  /\ body \in 1..MaxBody
  /\ Reading([data |-> data, need |-> body, header |-> TRUE], end, at, n)
  /\ Passed(end, at, n) = Through(at + (pos - 1))
  /\ \A i \in pos+1..end : i <= n => stream[at + i][2] # 1

Ends(p, s, data, at, n, pos) ==
  LET end == pos + s.need
      k == Through(at + (pos - 1)) + 1
  IN
  /\ Assembled(data) = k /\ k \in 1..N
  /\ end \in pos+1..n+1 /\ \A i \in pos+1..end-1 : stream[at + i][2] # 1
  /\ end <= n => /\ stream[at + end][2] = 1 /\ PartAt(at + end) = NewSection
                 /\ p.bytes[end] # Stuffing /\ Through(at + (end - 1)) = k
  /\ end = n + 1 => /\ Left(at + n) = NoSection /\ Through(at + n) = k
                    /\ end <= Capacity => p.bytes[end] = Stuffing

TakesOn(p, s, at, n, pos, garbage) ==
  LET available == Capacity - pos + 1
      taken == IF available >= s.need THEN s.need ELSE available
      data == Taken(s.data, p.bytes, pos, taken)
  IN
  /\ s.need \in Nat /\ s.need > 0 /\ s.header \in BOOLEAN
  /\ available < s.need => Runs(p, s, data, at, n, pos)
  /\ available >= s.need /\ ~s.header => Heads(p, s, data, at, n, pos, BodyLength(data, garbage))
  /\ available >= s.need /\ s.header => Ends(p, s, data, at, n, pos)

LEMMA NewPart ==
  ASSUME lengths \in [1..N -> Lengths], NEW k \in 1..N
  PROVE  Part(k, 0) = NewSection
<1>1. HeaderSize \in Nat /\ HeaderSize > 0
  BY StreamAssumption
<1>2. SubSeq(Bytes(k), 1, 0) = <<>>
  <2>1. 0 <= lengths[k]
    BY LengthsAre
  <2>2. SubSeq(Bytes(k), 1, 0) \in Seq(Payloads) /\ Len(SubSeq(Bytes(k), 1, 0)) = 0
    BY <2>1, FirstBytes
  <2> HIDE DEF Bytes
  <2> QED
    BY <2>2, EmptySeq
<1>3. 0 < HeaderSize /\ HeaderSize - 0 = HeaderSize /\ (0 >= HeaderSize) = FALSE
  BY <1>1
<1>4. Part(k, 0) = [data |-> SubSeq(Bytes(k), 1, 0), need |-> IF 0 < HeaderSize THEN HeaderSize - 0 ELSE lengths[k] - 0,
                    header |-> 0 >= HeaderSize]
  BY DEF Part
<1>5. (IF 0 < HeaderSize THEN HeaderSize - 0 ELSE lengths[k] - 0) = HeaderSize
  BY <1>3
<1> QED
  BY <1>2, <1>3, <1>4, <1>5, Zenon DEF NewSection

LEMMA Turns ==
  ASSUME Broadcast, NEW p, IsPacket(p), NEW at, NEW n, Carried(p, at, n), NEW pos \in 1..n, NEW garbage
  PROVE  TakesOn(p, PartAt(at + pos), at, n, pos, garbage)
<1> DEFINE x == at + pos
           k == stream[x][1]
           j == stream[x][2]
           m == j - 1
           l == lengths[k]
           H == HeaderSize
           t == Through(x - 1)
           s == PartAt(x)
           need == s.need
           available == Capacity - pos + 1
           taken == IF available >= need THEN need ELSE available
           data == Taken(s.data, p.bytes, pos, taken)
           L == Len(stream)
           end == pos + need
<1>1. /\ at \in Nat /\ n \in 1..Capacity /\ at + n \in 1..L /\ Capacity \in Nat /\ L \in Nat
      /\ n = Capacity \/ EndsSection(stream[at + n])
      /\ \A i \in 1..Capacity : p.bytes[i] = IF i <= n THEN stream[at + i] ELSE Stuffing
      /\ H \in Nat /\ H > 0 /\ lengths \in [1..N -> Lengths]
      /\ p.bytes \in Seq(Payloads) /\ Len(p.bytes) = Capacity
  BY StreamAssumption, LenProperties DEF Carried, Broadcast, Streamed, IsPacket
<1>2. x \in 1..L /\ x - 1 = at + (pos - 1) /\ x \in Nat
  <2> HIDE DEF L
  <2> QED
    BY <1>1
<1>3. /\ k \in 1..N /\ l \in Nat /\ j \in 1..l /\ k = t + 1 /\ l > H
      /\ t \in Nat
  <2>1. x - 1 \in 0..L
    BY <1>1, <1>2
  <2>2. k \in 1..N /\ l \in Nat /\ j \in 1..l /\ k = t + 1
    BY <1>2, ByteIs, ThroughNext
  <2>3. l > H
    BY <1>1, <2>2, LengthsAre
  <2>4. t \in 0..N
    BY <2>1, ThroughIs
  <2> QED
    BY <2>2, <2>3, <2>4
<1>4. m \in Nat /\ m < l /\ j = m + 1
  <2> HIDE DEF j, l
  <2> QED
    BY <1>3
<1>5. s = [data |-> SubSeq(Bytes(k), 1, m), need |-> IF m < H THEN H - m ELSE l - m, header |-> m >= H]
  BY DEF PartAt, Part
<1>6. /\ s.data = SubSeq(Bytes(k), 1, m) /\ need = (IF m < H THEN H - m ELSE l - m)
      /\ s.header = (m >= H)
  <2> HIDE DEF s, m, k, l, H
  <2> QED
    BY <1>5 DEF s
<1> HIDE DEF s
<1>7. ASSUME NEW i \in Nat, m + i < l
      PROVE  /\ x + i \in 1..L /\ stream[x + i] = <<k, m + i + 1>>
             /\ stream[x + i][1] = k /\ stream[x + i][2] = m + i + 1
             /\ EndsSection(stream[x + i]) <=> m + i + 1 = l
             /\ Through(x + i) = IF m + i + 1 = l THEN t + 1 ELSE t
  <2> HIDE DEF x
  <2>0. j + i <= l /\ j + i = m + i + 1
    <3> HIDE DEF j, l, m
    <3> QED
      BY <1>3, <1>4, <1>7
  <2>1. stream[x][2] + i <= lengths[stream[x][1]]
    BY <2>0
  <2>2. /\ x + i \in 1..Len(stream)
        /\ stream[x + i][1] = stream[x][1] /\ stream[x + i][2] = stream[x][2] + i
        /\ stream[x + i] = <<stream[x][1], stream[x][2] + i>>
        /\ EndsSection(stream[x + i]) <=> stream[x][2] + i = lengths[stream[x][1]]
        /\ Through(x + i) = IF stream[x][2] + i = lengths[stream[x][1]] THEN Through(x - 1) + 1 ELSE Through(x - 1)
    BY <1>2, <2>1, GoesOn
  <2> HIDE DEF m
  <2> QED
    BY <2>0, <2>2
<1> HIDE DEF k, j, l, H, L, x, m, t
\* The section has its last byte in the packet, or the packet is full.
<1>8. n = Capacity \/ l - m <= n - pos + 1
  <2> SUFFICES ASSUME EndsSection(stream[at + n]), ~(l - m <= n - pos + 1) PROVE FALSE
    BY <1>1
  <2> DEFINE i == n - pos
  <2>1. i \in Nat /\ m + i + 1 < l /\ at + n = x + i
    BY <1>1, <1>2, <1>3, <1>4 DEF x
  <2> HIDE DEF i
  <2>2. m + i < l /\ m + i + 1 # l
    BY <1>3, <1>4, <2>1
  <2> QED
    BY <1>7, <2>1, <2>2
<1>0. /\ available = Capacity - pos + 1 /\ end = pos + need /\ x = at + pos
      /\ taken = IF available >= need THEN need ELSE available
  BY DEF x
<1> HIDE DEF need, taken, available, end
<1>9. need \in Nat /\ need > 0 /\ need <= l - m /\ available \in Nat /\ available > 0
  BY <1>0, <1>1, <1>3, <1>4, <1>6
<1>10. /\ taken \in Nat /\ taken > 0 /\ taken <= need /\ taken <= available /\ taken <= n - pos + 1
       /\ m + taken <= l /\ pos + taken <= Capacity + 1
  BY <1>0, <1>1, <1>3, <1>4, <1>8, <1>9
<1>16. /\ at \in Nat /\ n \in Nat /\ pos \in Nat /\ pos >= 1 /\ pos <= n /\ n <= Capacity /\ Capacity \in Nat
       /\ m \in Nat /\ l \in Nat /\ m < l /\ H \in Nat /\ H < l /\ need \in Nat /\ need > 0 /\ need <= l - m
       /\ available = Capacity - pos + 1 /\ available \in Nat /\ end = pos + need /\ x = at + pos
       /\ taken \in Nat /\ taken <= n - pos + 1 /\ m + taken <= l
  BY <1>0, <1>1, <1>3, <1>4, <1>9, <1>10
<1>11. data = SubSeq(Bytes(k), 1, m + taken)
  <2>1. ASSUME NEW i \in 1..taken PROVE p.bytes[pos + i - 1] = <<k, m + i>>
    <3> DEFINE o == i - 1
               y == pos + i - 1
    <3>1. o \in Nat /\ m + o < l /\ m + o + 1 = m + i /\ y \in 1..Capacity /\ y <= n /\ at + y = x + o
      BY <1>16
    <3> HIDE DEF o, y
    <3>2. p.bytes[y] = stream[at + y]
      BY <1>1, <3>1
    <3>3. stream[x + o] = <<k, m + o + 1>>
      BY <1>7, <3>1
    <3> QED
      BY <3>1, <3>2, <3>3 DEF y
  <2>2. pos \in 1..Capacity+1
    BY <1>1
  <2>3. m + taken <= lengths[k]
    BY <1>10 DEF l
  <2>4. lengths \in [1..N -> Lengths] /\ k \in 1..N /\ m \in Nat /\ taken \in Nat
        /\ p.bytes \in Seq(Payloads) /\ Len(p.bytes) = Capacity /\ pos + taken <= Capacity + 1
    BY <1>1, <1>3, <1>4, <1>10
  <2>5. Taken(SubSeq(Bytes(k), 1, m), p.bytes, pos, taken) = SubSeq(Bytes(k), 1, m + taken)
    BY <2>1, <2>2, <2>3, <2>4, MoreBytes
  <2> QED
    BY <1>6, <2>5
<1> HIDE DEF data
<1>12. ASSUME available < need PROVE Runs(p, s, data, at, n, pos)
  <2>1. n = Capacity /\ taken = available /\ available < l - m
    BY <1>0, <1>1, <1>3, <1>4, <1>8, <1>9, <1>12
  <2>2. m + available < l /\ x + available = at + n + 1
    BY <1>0, <1>1, <1>3, <1>4, <1>9, <2>1
  <2>3. stream[x + available][1] = k /\ stream[x + available][2] = m + available + 1 /\ x + available \in 1..L
    BY <1>7, <1>9, <2>2
  <2>4. Through(at + n) = t
    <3> DEFINE o == available - 1
    <3>1. o \in Nat /\ m + o < l /\ m + o + 1 # l /\ x + o = at + n
      BY <1>16, <2>2
    <3> HIDE DEF o
    <3> QED
      BY <1>7, <3>1
  <2>5. Left(at + n) = Part(k, m + available)
    <3>1. m + available + 1 # 1
      BY <1>4, <1>9
    <3>2. Within(at + n)
      BY <2>2, <2>3, <3>1 DEF Within, L
    <3>3. PartAt(at + n + 1) = Part(k, m + available)
      <4>1. PartAt(x + available) = Part(stream[x + available][1], stream[x + available][2] - 1)
        BY DEF PartAt
      <4>2. (m + available + 1) - 1 = m + available
        BY <1>4, <1>9
      <4> QED
        BY <2>2, <2>3, <4>1, <4>2
    <3> QED
      BY <3>2, <3>3 DEF Left
  <2>6. Part(k, m + available) = [data |-> data, need |-> need - available, header |-> s.header]
    <3> DEFINE lacks == IF m + available < H THEN H - (m + available) ELSE l - (m + available)
               has == m + available >= H
    <3>1. need - available = lacks
      BY <1>1, <1>3, <1>4, <1>6, <1>9, <1>12
    <3>2. has <=> m >= H
      BY <1>1, <1>3, <1>4, <1>6, <1>9, <1>12
    <3>3. has = s.header
      <4>1. has \in BOOLEAN
        OBVIOUS
      <4> QED
        BY <1>6, <3>2
    <3>4. SubSeq(Bytes(k), 1, m + available) = data
      BY <1>11, <2>1
    <3>5. Part(k, m + available) = [data |-> SubSeq(Bytes(k), 1, m + available), need |-> lacks, header |-> has]
      BY DEF Part, H, l
    <3> HIDE DEF lacks, has
    <3> QED
      BY <3>1, <3>3, <3>4, <3>5
  <2>7. Runs(p, s, data, at, n, pos)
    <3>1. Through(at + n) = Through(at + (pos - 1))
      BY <1>2, <2>4 DEF t
    <3>2. Left(at + n) = [data |-> data, need |-> s.need - (Capacity - pos + 1), header |-> s.header]
      BY <2>5, <2>6 DEF need, available
    <3> QED
      BY <2>1, <3>1, <3>2 DEF Runs
  <2> QED
    BY <2>7
<1>13. ASSUME available >= need, ~s.header PROVE Heads(p, s, data, at, n, pos, BodyLength(data, garbage))
  <2>1. m < H
    <3>1. ~(m >= H)
      BY <1>6, <1>13
    <3> QED
      BY <1>16, <3>1
  <2>11. need = H - m /\ taken = need /\ m + taken = H /\ m + need = H
    BY <1>0, <1>1, <1>4, <1>6, <1>13, <2>1
  <2> DEFINE body == BodyLength(data, garbage)
             new == [data |-> data, need |-> body, header |-> TRUE]
  <2>2. body = l - H /\ body \in 1..MaxBody
    <3>1. data = SubSeq(Bytes(k), 1, HeaderSize)
      BY <1>11, <2>11 DEF H
    <3> QED
      BY <1>1, <1>3, <3>1, HeaderTells DEF l, H
  <2>3. new = Part(k, H)
    <3>1. Part(k, H) = [data |-> SubSeq(Bytes(k), 1, H), need |-> IF H < H THEN H - H ELSE l - H, header |-> H >= H]
      BY DEF Part, H, l
    <3>2. ~(H < H) /\ H >= H
      BY <1>1
    <3> HIDE DEF body
    <3> QED
      BY <1>11, <2>11, <2>2, <3>1, <3>2
  <2> HIDE DEF new
  <2>4. ASSUME NEW i \in pos+1..end PROVE stream[at + i][2] # 1 /\ stream[at + i][1] = k
    <3> DEFINE o == i - pos
    <3>1. o \in Nat /\ o > 0 /\ o <= need /\ m + o < l /\ x + o = at + i
      BY <1>16, <2>11
    <3> HIDE DEF o
    <3>2. stream[x + o][2] = m + o + 1 /\ stream[x + o][1] = k
      BY <1>7, <3>1
    <3>3. m + o + 1 # 1
      BY <1>4, <3>1
    <3> QED
      BY <3>1, <3>2, <3>3
  <2>5. /\ stream[at + end][1] = k /\ stream[at + end][2] = H + 1 /\ at + end \in 1..L /\ Through(at + (end - 1)) = t
        /\ end \in Nat
    <3> DEFINE o == need - 1
    <3>1. o \in Nat /\ m + need < l /\ m + o < l /\ m + o + 1 # l /\ m + need = H /\ x + need = at + end /\ x + o = at + (end - 1)
          /\ end \in Nat
      BY <1>16, <2>11
    <3> HIDE DEF o
    <3>2. stream[x + need][2] = m + need + 1 /\ stream[x + need][1] = k /\ x + need \in 1..L
      BY <1>7, <1>9, <3>1
    <3>3. Through(x + o) = t
      BY <1>7, <3>1
    <3> QED
      BY <3>1, <3>2, <3>3
  <2>6. PartAt(at + end) = Part(k, H)
    <3>1. PartAt(at + end) = Part(stream[at + end][1], stream[at + end][2] - 1)
      BY DEF PartAt
    <3>2. (H + 1) - 1 = H
      BY <1>1
    <3> QED
      BY <2>5, <3>1, <3>2
  <2>7. end <= n \/ (n = Capacity /\ end = n + 1)
    <3>1. CASE n = Capacity
      BY <1>13, <1>16, <3>1
    <3>2. CASE l - m <= n - pos + 1
      BY <1>16, <2>11, <3>2
    <3> QED
      BY <1>8, <3>1, <3>2
  <2>8. Reading(new, end, at, n) /\ Passed(end, at, n) = t
    <3>1. CASE end <= n
      <4>1. end \in 1..n
        BY <1>16, <3>1
      <4> QED
        BY <2>3, <2>5, <2>6, <4>1 DEF Reading, Passed
    <3>2. CASE n = Capacity /\ end = n + 1
      <4>1. ~(end \in 1..n) /\ at + end = at + n + 1 /\ at + (end - 1) = at + n /\ end = Capacity + 1
        BY <1>1, <3>2
      <4>2. Within(at + n)
        <5>1. H + 1 # 1
          BY <1>1
        <5> QED
          BY <2>5, <4>1, <5>1 DEF Within, L
      <4>3. Left(at + n) = Part(k, H)
        BY <2>6, <4>1, <4>2 DEF Left
      <4> QED
        BY <2>3, <2>5, <4>1, <4>3 DEF Reading, Passed
    <3> QED
      BY <2>7, <3>1, <3>2
  <2>9. Heads(p, s, data, at, n, pos, body)
    <3>1. t = Through(at + (pos - 1))
      BY <1>2 DEF t
    <3>2. end = pos + s.need
      BY DEF end, need
    <3> HIDE DEF body
    <3> QED
      BY <2>2, <2>4, <2>8, <3>1, <3>2 DEF Heads, new
  <2> QED
    BY <2>9
<1>14. ASSUME available >= need, s.header PROVE Ends(p, s, data, at, n, pos)
  <2>11. m >= H
    BY <1>6, <1>14
  <2>1. need = l - m /\ taken = need /\ m + taken = l
    BY <1>0, <1>1, <1>3, <1>4, <1>6, <1>14, <2>11
  <2>2. Assembled(data) = k /\ k = t + 1 /\ k \in 1..N
    <3>1. data = SubSeq(Bytes(k), 1, lengths[k])
      BY <1>11, <2>1 DEF l
    <3> QED
      BY <1>1, <1>3, <3>1, HeaderTells
  <2>3. end \in pos+1..n+1 /\ end \in Nat /\ at + end = x + need
    BY <1>16, <2>1
  <2>4. ASSUME NEW i \in pos+1..end-1 PROVE stream[at + i][2] # 1
    <3> DEFINE o == i - pos
    <3>1. o \in Nat /\ o > 0 /\ m + o < l /\ x + o = at + i
      BY <1>16, <2>1
    <3> HIDE DEF o
    <3>2. stream[x + o][2] = m + o + 1
      BY <1>7, <3>1
    <3>3. m + o + 1 # 1
      BY <1>4, <3>1
    <3> QED
      BY <3>1, <3>2, <3>3
  <2> DEFINE z == at + (end - 1)
  <2>5. Through(z) = k /\ stream[z] = <<k, lengths[k]>> /\ z \in 1..L
    <3> DEFINE o == need - 1
    <3>1. o \in Nat /\ m + o < l /\ m + o + 1 = l /\ x + o = z
      BY <1>16, <2>1
    <3> HIDE DEF o, z
    <3>2. stream[x + o] = <<k, m + o + 1>> /\ x + o \in 1..L /\ Through(x + o) = t + 1
      BY <1>7, <3>1
    <3> QED
      BY <1>3, <3>1, <3>2 DEF l
  <2>6. at + end = z + 1 /\ (end <= n => z < L /\ at + end \in 1..L) /\ (end = n + 1 => z = at + n /\ at + end = at + n + 1)
    <3>1. at + n <= L /\ at + n \in Nat /\ L \in Nat /\ at \in Nat /\ n \in Nat /\ end \in Nat /\ end > 0
      <4> HIDE DEF L
      <4> QED
        BY <1>1, <2>3
    <3> HIDE DEF L
    <3> QED
      BY <3>1
  <2>7. ASSUME z < L PROVE stream[z + 1][2] = 1
    <3> HIDE DEF z
    <3> QED
      BY <1>3, <2>5, <2>7, RunsOut DEF L
  <2>8. ASSUME end <= n
        PROVE  /\ stream[at + end][2] = 1 /\ PartAt(at + end) = NewSection
               /\ p.bytes[end] # Stuffing /\ Through(at + (end - 1)) = k
    <3>1. stream[at + end][2] = 1 /\ at + end \in 1..L
      BY <2>6, <2>7, <2>8
    <3>2. stream[at + end][1] \in 1..N
      <4> QED
        BY <3>1, ByteIs DEF L
    <3>3. PartAt(at + end) = NewSection
      <4>1. PartAt(at + end) = Part(stream[at + end][1], 0)
        BY <3>1 DEF PartAt
      <4> QED
        BY <1>1, <3>2, <4>1, NewPart
    <3>4. p.bytes[end] = stream[at + end]
      <4>1. end \in 1..Capacity
        BY <1>1, <2>3, <2>8
      <4> QED
        BY <1>1, <2>8, <4>1
    <3>5. p.bytes[end] # Stuffing
      <4> QED
        BY <3>1, <3>4 DEF Stuffing
    <3> QED
      BY <2>5, <3>1, <3>3, <3>5
  <2>9. ASSUME end = n + 1
        PROVE  /\ Left(at + n) = NoSection /\ Through(at + n) = k
               /\ end <= Capacity => p.bytes[end] = Stuffing
    <3>1. ~Within(at + n)
      <4>1. ASSUME Within(at + n) PROVE FALSE
        <5>1. at + n + 1 \in 1..L /\ stream[at + n + 1][2] # 1
          BY <4>1 DEF Within, L
        <5>2. z < L /\ z + 1 = at + n + 1
          BY <1>1, <2>6, <2>9, <5>1
        <5> HIDE DEF z
        <5> QED
          BY <2>7, <5>1, <5>2
      <4> QED
        BY <4>1
    <3>2. Left(at + n) = NoSection
      BY <3>1 DEF Left
    <3>3. end <= Capacity => p.bytes[end] = Stuffing
      <4> HAVE end <= Capacity
      <4>1. end \in 1..Capacity /\ ~(end <= n)
        BY <1>1, <2>3, <2>9
      <4> QED
        BY <1>1, <4>1
    <3>4. Through(at + n) = k
      <4> HIDE DEF z
      <4> QED
        BY <2>5, <2>6, <2>9
    <3> QED
      BY <3>2, <3>3, <3>4
  <2>10. Ends(p, s, data, at, n, pos)
    <3>1. k = Through(at + (pos - 1)) + 1 /\ Through(at + (pos - 1)) + 1 = k
      BY <1>2, <2>2 DEF t
    <3>2. end = pos + s.need
      BY DEF end, need
    <3> QED
      BY <2>2, <2>3, <2>4, <2>8, <2>9, <3>1, <3>2 DEF Ends
  <2> QED
    BY <2>10
<1>15. TakesOn(p, s, at, n, pos, garbage)
  <2>1. need = s.need /\ available = Capacity - pos + 1
        /\ taken = (IF available >= need THEN need ELSE available)
        /\ data = Taken(s.data, p.bytes, pos, taken)
    BY DEF need, available, taken, data
  <2>2. s.header \in BOOLEAN
    BY <1>6
  <2>3. ~(available < need /\ available >= need)
    BY <1>9
  <2> QED
    BY <1>9, <1>12, <1>13, <1>14, <2>1, <2>2, <2>3 DEF TakesOn
<1> QED
  BY <1>15 DEF s, x
----------------------------------------------------------------------------
(* The loops come to the end of a packet. *)

\* Where the place moves on with each turn until it is the last, it ends there.
LEMMA MovesToEnd ==
  ASSUME NEW c \in Nat, NEW K \in Nat, K >= c, NEW f,
         \A n \in 0..K : f[n].pos \in 1..c+1,
         \A n \in 1..K : f[n] = f[n-1] \/ f[n].pos > f[n-1].pos,
         \A n \in 1..K : f[n] = f[n-1] => f[n-1].pos = c + 1
  PROVE  f[K].pos = c + 1
<1> DEFINE T == {n \in 0..K : f[n].pos = c + 1 \/ f[n].pos >= n + 1}
<1>1. 0 \in T
  <2>1. 0 \in 0..K
    OBVIOUS
  <2>2. f[0].pos \in 1..c+1
    BY <2>1
  <2> QED
    BY <2>1, <2>2
<1>2. ASSUME NEW n \in 1..K, n - 1 \in T PROVE n \in T
  <2>1. n \in 0..K /\ n - 1 \in 0..K
    OBVIOUS
  <2>2. f[n].pos \in 1..c+1 /\ f[n-1].pos \in 1..c+1
    BY <2>1
  <2>3. f[n-1].pos = c + 1 \/ f[n-1].pos >= (n - 1) + 1
    BY <1>2
  <2>4. CASE f[n] = f[n-1]
    <3>1. f[n-1].pos = c + 1
      BY <2>4
    <3>2. f[n].pos = c + 1
      BY <2>4, <3>1
    <3> QED
      BY <2>1, <3>2
  <2>5. CASE f[n].pos > f[n-1].pos
    BY <2>1, <2>2, <2>3, <2>5
  <2> QED
    BY <2>4, <2>5
<1> HIDE DEF T
<1>3. 0..K \subseteq T
  BY <1>1, <1>2, IntervalInduction
<1>4. K \in T /\ f[K].pos \in 1..c+1
  BY <1>3
<1> QED
  BY <1>4 DEF T

LEMMA LoopEnds ==
  ASSUME NEW bytes, NEW garbage, NEW P, NEW s \in P,
         \A x \in P : /\ x.pos \in 1..Capacity+1 /\ Turn(x, bytes, garbage) \in P
                      /\ x.pos = Capacity + 1 \/ Turn(x, bytes, garbage).pos > x.pos
                      /\ x.pos = Capacity + 1 => Turn(x, bytes, garbage) = x
  PROVE  Loop(s, bytes, garbage) \in P /\ Loop(s, bytes, garbage).pos = Capacity + 1
<1> DEFINE K == 2 * Capacity
<1>1. K \in Nat /\ K >= Capacity /\ Capacity \in Nat /\ K \in 0..K
  BY StreamAssumption
<1>2. PICK f : /\ Loop(s, bytes, garbage) = f[K] /\ \A n \in 0..K : f[n] \in P
               /\ \A n \in 1..K : f[n] = Turn(f[n-1], bytes, garbage)
  BY LoopRuns
<1> HIDE DEF K
<1>3. \A n \in 0..K : f[n].pos \in 1..Capacity+1
  BY <1>2
<1>4. ASSUME NEW n \in 1..K
      PROVE  (f[n] = f[n-1] \/ f[n].pos > f[n-1].pos) /\ (f[n] = f[n-1] => f[n-1].pos = Capacity + 1)
  <2>1. n - 1 \in 0..K
    BY <1>1
  <2>2. f[n-1] \in P /\ f[n] = Turn(f[n-1], bytes, garbage) /\ f[n-1].pos \in 1..Capacity+1
    BY <1>2, <1>3, <2>1
  <2>3. f[n-1].pos = Capacity + 1 \/ f[n].pos > f[n-1].pos
    BY <2>2
  <2>4. f[n-1].pos = Capacity + 1 => f[n] = f[n-1]
    BY <2>2
  <2>5. f[n] = f[n-1] => ~(f[n].pos > f[n-1].pos)
    <3>1. ~(f[n-1].pos > f[n-1].pos)
      BY <1>1, <2>2
    <3> QED
      BY <3>1
  <2> QED
    BY <2>3, <2>4, <2>5
<1>5. f[K].pos = Capacity + 1
  BY <1>1, <1>3, <1>4, MovesToEnd
<1> QED
  BY <1>1, <1>2, <1>5

LEMMA ParseLoopEnds ==
  ASSUME NEW bytes, NEW garbage, NEW P, NEW s \in P,
         \A x \in P : /\ x.pos \in 1..Capacity+1 /\ ParseTurn(x, bytes, garbage) \in P
                      /\ x.pos = Capacity + 1 \/ ParseTurn(x, bytes, garbage).pos > x.pos
                      /\ x.pos = Capacity + 1 => ParseTurn(x, bytes, garbage) = x
  PROVE  ParseLoop(s, bytes, garbage) \in P /\ ParseLoop(s, bytes, garbage).pos = Capacity + 1
<1> DEFINE K == Capacity
<1>1. K \in Nat /\ K >= Capacity /\ Capacity \in Nat /\ K \in 0..K
  BY StreamAssumption
<1>2. PICK f : /\ ParseLoop(s, bytes, garbage) = f[K] /\ \A n \in 0..K : f[n] \in P
               /\ \A n \in 1..K : f[n] = ParseTurn(f[n-1], bytes, garbage)
  BY ParseLoopRuns
<1> HIDE DEF K
<1>3. \A n \in 0..K : f[n].pos \in 1..Capacity+1
  BY <1>2
<1>4. ASSUME NEW n \in 1..K
      PROVE  (f[n] = f[n-1] \/ f[n].pos > f[n-1].pos) /\ (f[n] = f[n-1] => f[n-1].pos = Capacity + 1)
  <2>1. n - 1 \in 0..K
    BY <1>1
  <2>2. f[n-1] \in P /\ f[n] = ParseTurn(f[n-1], bytes, garbage) /\ f[n-1].pos \in 1..Capacity+1
    BY <1>2, <1>3, <2>1
  <2>3. f[n-1].pos = Capacity + 1 \/ f[n].pos > f[n-1].pos
    BY <2>2
  <2>4. f[n-1].pos = Capacity + 1 => f[n] = f[n-1]
    BY <2>2
  <2>5. f[n] = f[n-1] => ~(f[n].pos > f[n-1].pos)
    <3>1. ~(f[n-1].pos > f[n-1].pos)
      BY <1>1, <2>2
    <3> QED
      BY <3>1
  <2> QED
    BY <2>3, <2>4, <2>5
<1>5. f[K].pos = Capacity + 1
  BY <1>1, <1>3, <1>4, MovesToEnd
<1> QED
  BY <1>1, <1>2, <1>5
----------------------------------------------------------------------------
(* libdvbpsi in a packet. *)

\* The section behind this one begins where the packet says, while it is still to come.
Points(p, next, pos, n) == next # 0 /\ pos <= n => p.start /\ next = p.pointer + 1 /\ pos <= p.pointer

\* Between two turns, from the place behind which the first section was begun.
PushOn(p, at, n, from, flag) ==
  {s \in PushStates :
     /\ Reading(s.section, s.pos, at, n) /\ Points(p, s.next, s.pos, n)
     /\ from <= Passed(s.pos, at, n) /\ Told(s.out, from, Passed(s.pos, at, n))
     /\ s.flag = (flag /\ s.out = <<>>)}

\* Where the pointer leads to.
LEMMA PointerIs ==
  ASSUME NEW p, IsPacket(p), NEW at, NEW n, Carried(p, at, n), p.start
  PROVE  /\ p.pointer + 1 \in 1..n /\ p.pointer \in Nat /\ stream[at + (p.pointer + 1)][2] = 1
         /\ \A i \in 1..p.pointer : stream[at + i][2] # 1
<1> DEFINE y == p.pointer + 1
<1>1. n \in 1..Capacity /\ y \in 1..n /\ p.pointer \in Nat /\ y \in 1..Capacity /\ y <= n
  BY StreamAssumption DEF Carried, IsPacket
<1>2. p.bytes[y][2] = 1
  BY DEF IsPacket
<1> HIDE DEF y
<1>3. p.bytes[y] = stream[at + y]
  BY <1>1 DEF Carried
<1> QED
  BY <1>1, <1>2, <1>3 DEF Carried, y

LEMMA PassedIs ==
  ASSUME Broadcast, NEW p, NEW at, NEW n, Carried(p, at, n), NEW pos \in 1..Capacity+1
  PROVE  /\ Passed(pos, at, n) \in 0..N /\ Through(at + n) \in 0..N /\ Passed(pos, at, n) <= Through(at + n)
         /\ Through(at) \in 0..N /\ Through(at) <= Passed(pos, at, n)
<1>1. /\ at \in Nat /\ n \in 1..Capacity /\ at + n \in 1..Len(stream) /\ Len(stream) \in Nat /\ Capacity \in Nat
  BY StreamAssumption, LenProperties DEF Carried, Broadcast, Streamed
<1>2. at + n \in 0..Len(stream) /\ at \in 0..Len(stream) /\ at <= at + n
  BY <1>1
<1>3. Through(at + n) \in 0..N /\ Through(at) \in 0..N /\ Through(at) <= Through(at + n)
  BY <1>2, ThroughIs, ThroughGrows
<1>4. CASE pos \in 1..n
  <2>1. at + (pos - 1) \in 0..Len(stream) /\ at + (pos - 1) <= at + n /\ at <= at + (pos - 1)
    BY <1>1, <1>4
  <2>2. /\ Through(at + (pos - 1)) \in 0..N /\ Through(at + (pos - 1)) <= Through(at + n)
        /\ Through(at) <= Through(at + (pos - 1))
    BY <1>2, <2>1, ThroughIs, ThroughGrows
  <2> QED
    BY <1>3, <1>4, <2>2 DEF Passed
<1>5. CASE pos \notin 1..n
  <2>1. Passed(pos, at, n) = Through(at + n)
    BY <1>5 DEF Passed
  <2>2. N \in Nat
    BY StreamAssumption
  <2> QED
    BY <1>3, <2>1, <2>2
<1> QED
  BY <1>4, <1>5

\* What a turn makes of what it has in hand.
TurnTo(t, s, data, garbage, bytes) ==
  LET need == s.section.need
      available == Capacity - s.pos + 1
      body == BodyLength(data, garbage)
      end == s.pos + need
      next == IF s.next = 0 /\ end <= Capacity /\ bytes[end] # Stuffing THEN end ELSE s.next
  IN
  /\ available < need =>
       /\ t.section = [data |-> data, need |-> need - available, header |-> s.section.header]
       /\ t.pos = Capacity + 1 /\ t.next = s.next /\ t.out = s.out /\ t.flag = s.flag
  /\ available >= need /\ ~s.section.header /\ body <= MaxBody =>
       /\ t.section = [data |-> data, need |-> body, header |-> TRUE]
       /\ t.pos = end /\ t.next = s.next /\ t.out = s.out /\ t.flag = s.flag
  /\ available >= need /\ s.section.header =>
       /\ t.out = Append(s.out, Assembled(data)) /\ t.flag = FALSE
       /\ next # 0 => t.section = NewSection /\ t.pos = next /\ t.next = 0
       /\ next = 0 => t.section = NoSection /\ t.pos = Capacity + 1 /\ t.next = 0

LEMMA TurnIs ==
  ASSUME NEW bytes, Len(bytes) = Capacity, NEW garbage, NEW s \in PushRecords, s.pos \in 1..Capacity,
         BodyLength(Taken(s.section.data, bytes, s.pos,
           IF Capacity - s.pos + 1 >= s.section.need THEN s.section.need ELSE Capacity - s.pos + 1), garbage) \in Nat
  PROVE  TurnTo(Turn(s, bytes, garbage), s,
                Taken(s.section.data, bytes, s.pos,
                  IF Capacity - s.pos + 1 >= s.section.need THEN s.section.need ELSE Capacity - s.pos + 1),
                garbage, bytes)
<1> DEFINE need == s.section.need
           available == Capacity - s.pos + 1
           taken == IF available >= need THEN need ELSE available
           data == Taken(s.section.data, bytes, s.pos, taken)
           body == BodyLength(data, garbage)
           end == s.pos + need
           next == IF s.next = 0 /\ end <= Capacity /\ bytes[end] # Stuffing THEN end ELSE s.next
           old == [s EXCEPT !.out = Append(s.out, Assembled(data)), !.flag = FALSE]
           t == Turn(s, bytes, garbage)
<1>1. Capacity \in Nat /\ s.pos \in 1..Capacity /\ need \in Nat /\ available # 0 /\ MaxBody \in Nat /\ body \in Nat
      /\ available \in Nat
  <2>1. Capacity \in Nat /\ s.pos \in 1..Capacity /\ need \in Nat /\ MaxBody \in Nat /\ body \in Nat
    BY StreamAssumption DEF PushRecords, SectionRecords
  <2> QED
    BY <2>1
<1>2. t = IF available < need
          THEN [s EXCEPT !.section.data = data, !.section.need = need - available, !.pos = Capacity + 1]
          ELSE IF ~s.section.header
          THEN IF body > MaxBody THEN TooLong(s, Capacity)
               ELSE [s EXCEPT !.section = [data |-> data, need |-> body, header |-> TRUE], !.pos = end]
          ELSE IF next # 0 THEN Begin(old, next) ELSE Finish(old, Capacity)
  BY <1>1 DEF Turn, Taken, HeaderComplete, SectionComplete
<1>3. s \in PushRecords /\ s.section \in SectionRecords
  BY DEF PushRecords
<1> HIDE DEF data, need, available, end, body, t
<1>4. ASSUME available < need
      PROVE  /\ t.section = [data |-> data, need |-> need - available, header |-> s.section.header]
             /\ t.pos = Capacity + 1 /\ t.next = s.next /\ t.out = s.out /\ t.flag = s.flag
  BY <1>2, <1>3, <1>4 DEF PushRecords, SectionRecords
<1>5. ASSUME available >= need, ~s.section.header, body <= MaxBody
      PROVE  /\ t.section = [data |-> data, need |-> body, header |-> TRUE]
             /\ t.pos = end /\ t.next = s.next /\ t.out = s.out /\ t.flag = s.flag
  <2>1. ~(available < need) /\ ~(body > MaxBody)
    BY <1>1, <1>5
  <2> QED
    BY <1>2, <1>3, <1>5, <2>1 DEF PushRecords
<1>6. ASSUME available >= need, s.section.header
      PROVE  /\ t.out = Append(s.out, Assembled(data)) /\ t.flag = FALSE
             /\ next # 0 => t.section = NewSection /\ t.pos = next /\ t.next = 0
             /\ next = 0 => t.section = NoSection /\ t.pos = Capacity + 1 /\ t.next = 0
  <2>1. ~(available < need)
    BY <1>1, <1>6
  <2>2. t = IF next # 0 THEN Begin(old, next) ELSE Finish(old, Capacity)
    BY <1>2, <1>6, <2>1
  <2>3. /\ old.out = Append(s.out, Assembled(data)) /\ old.flag = FALSE /\ old.next = s.next
        /\ old = [section |-> s.section, pos |-> s.pos, next |-> s.next, out |-> Append(s.out, Assembled(data)), flag |-> FALSE]
    <3> DEFINE more == Append(s.out, Assembled(data))
    <3>1. s = [section |-> s.section, pos |-> s.pos, next |-> s.next, out |-> s.out, flag |-> s.flag]
      BY <1>3 DEF PushRecords
    <3>2. old = [s EXCEPT !.out = more, !.flag = FALSE]
      OBVIOUS
    <3> HIDE DEF more, old
    <3>3. old = [section |-> s.section, pos |-> s.pos, next |-> s.next, out |-> more, flag |-> FALSE]
      BY <3>1, <3>2
    <3>4. old.out = more /\ old.flag = FALSE /\ old.next = s.next
      BY <3>3
    <3> QED
      BY <3>3, <3>4 DEF more
  <2>4. next = 0 => s.next = 0
    BY <1>1 DEF end
  <2> HIDE DEF next, old
  <2> QED
    BY <2>2, <2>3, <2>4 DEF Begin, Finish
<1>7. TurnTo(t, s, data, garbage, bytes)
  <2> HIDE DEF next
  <2> QED
    BY <1>4, <1>5, <1>6 DEF TurnTo, need, available, end, body, next
<1> QED
  BY <1>7 DEF t, data, available, need

LEMMA TurnOn ==
  ASSUME Broadcast, NEW p, IsPacket(p), NEW at, NEW n, Carried(p, at, n), NEW from \in Nat, NEW flag \in BOOLEAN,
         NEW garbage \in 1..MaxBody+1, NEW s \in PushOn(p, at, n, from, flag)
  PROVE  /\ s.pos \in 1..Capacity+1 /\ Turn(s, p.bytes, garbage) \in PushOn(p, at, n, from, flag)
         /\ s.pos = Capacity + 1 \/ Turn(s, p.bytes, garbage).pos > s.pos
         /\ s.pos = Capacity + 1 => Turn(s, p.bytes, garbage) = s
<1> DEFINE need == s.section.need
           available == Capacity - s.pos + 1
           taken == IF available >= need THEN need ELSE available
           data == Taken(s.section.data, p.bytes, s.pos, taken)
           body == BodyLength(data, garbage)
           t == Turn(s, p.bytes, garbage)
           end == s.pos + need
           next == IF s.next = 0 /\ end <= Capacity /\ p.bytes[end] # Stuffing THEN end ELSE s.next
           done == Through(at + (s.pos - 1))
           all == Through(at + n)
<1>1. /\ s \in PushStates /\ Reading(s.section, s.pos, at, n) /\ Points(p, s.next, s.pos, n)
      /\ from <= Passed(s.pos, at, n) /\ Told(s.out, from, Passed(s.pos, at, n))
      /\ s.flag = (flag /\ s.out = <<>>)
  BY DEF PushOn
<1>2. /\ s \in PushRecords /\ s.pos \in 1..Capacity+1 /\ s.section \in SectionRecords /\ s.next \in 0..Capacity
      /\ s.out \in Seq(0..N)
  BY <1>1 DEF PushStates, PushRecords
<1>3. /\ at \in Nat /\ n \in 1..Capacity /\ Capacity \in Nat /\ N \in Nat /\ p.bytes \in Seq(Payloads) /\ Len(p.bytes) = Capacity
      /\ lengths \in [1..N -> Lengths]
  BY StreamAssumption DEF Carried, IsPacket, Broadcast
<1>4. t \in PushStates
  BY <1>1, <1>3, TurnOK
<1>5. CASE s.pos \notin 1..n
  <2>1. s.pos = Capacity + 1
    BY <1>1, <1>5 DEF Reading
  <2>2. Len(p.bytes) - s.pos + 1 = 0
    BY <1>3, <2>1
  <2>3. t = s
    BY <2>2 DEF Turn
  <2> QED
    BY <1>2, <2>1, <2>3
<1>6. CASE s.pos \in 1..n
  <2> HIDE DEF t
  <2>1. s.pos \in 1..Capacity /\ s.pos <= n /\ s.pos # Capacity + 1
    BY <1>3, <1>6
  <2>2. s.section = PartAt(at + s.pos) /\ Passed(s.pos, at, n) = done
    BY <1>1, <1>6 DEF Reading, Passed
  <2>3. TakesOn(p, s.section, at, n, s.pos, garbage)
    BY <1>6, <2>2, Turns
  <2>4. /\ need \in Nat /\ need > 0 /\ s.section.header \in BOOLEAN
        /\ available < need => Runs(p, s.section, data, at, n, s.pos)
        /\ available >= need /\ ~s.section.header => Heads(p, s.section, data, at, n, s.pos, body)
        /\ available >= need /\ s.section.header => Ends(p, s.section, data, at, n, s.pos)
    BY <2>3 DEF TakesOn
  <2>5. TurnTo(t, s, data, garbage, p.bytes)
    <3>1. body \in Nat
      <4>1. body \in 1..MaxBody+1
        BY <1>3, BodyLengthIs
      <4> QED
        BY <4>1
    <3> QED
      BY <1>2, <1>3, <2>1, <3>1, TurnIs DEF t
  <2> HIDE DEF data, body
  <2>6. /\ available < need =>
             /\ t.section = [data |-> data, need |-> need - available, header |-> s.section.header]
             /\ t.pos = Capacity + 1 /\ t.next = s.next /\ t.out = s.out /\ t.flag = s.flag
        /\ available >= need /\ ~s.section.header /\ body <= MaxBody =>
             /\ t.section = [data |-> data, need |-> body, header |-> TRUE]
             /\ t.pos = end /\ t.next = s.next /\ t.out = s.out /\ t.flag = s.flag
        /\ available >= need /\ s.section.header =>
             /\ t.out = Append(s.out, Assembled(data)) /\ t.flag = FALSE
             /\ next # 0 => t.section = NewSection /\ t.pos = next /\ t.next = 0
             /\ next = 0 => t.section = NoSection /\ t.pos = Capacity + 1 /\ t.next = 0
    BY <2>5 DEF TurnTo, body
  <2>7. done \in 0..N /\ all \in 0..N /\ done <= all
    <3>1. s.pos \in 1..Capacity+1
      BY <1>2
    <3> QED
      BY <2>2, <3>1, PassedIs
  <2>8. from <= done /\ Told(s.out, from, done)
    BY <1>1, <2>2
  <2> HIDE DEF done, all
  <2>9. ASSUME Reading(t.section, t.pos, at, n), Points(p, t.next, t.pos, n), from <= Passed(t.pos, at, n),
               Told(t.out, from, Passed(t.pos, at, n)), t.flag = (flag /\ t.out = <<>>)
        PROVE  t \in PushOn(p, at, n, from, flag)
    BY <1>4, <2>9 DEF PushOn
  <2>10. Capacity + 1 \notin 1..n /\ Passed(Capacity + 1, at, n) = all
    BY <1>3 DEF Passed, all
  <2>15. /\ s.pos \in Nat /\ s.pos >= 1 /\ s.pos <= n /\ n \in Nat /\ n <= Capacity /\ Capacity \in Nat
         /\ need \in Nat /\ need > 0 /\ end = s.pos + need /\ end \in Nat
    BY <1>3, <2>1, <2>4
  <2>11. CASE available < need
    <3>1. Runs(p, s.section, data, at, n, s.pos)
      BY <2>4, <2>11
    <3>2. all = done /\ Left(at + n) = [data |-> data, need |-> need - available, header |-> s.section.header]
      BY <3>1 DEF Runs, all, done
    <3>3. /\ t.section = Left(at + n) /\ t.pos = Capacity + 1 /\ t.out = s.out /\ t.flag = s.flag
      BY <2>6, <2>11, <3>2
    <3>4. Reading(t.section, t.pos, at, n)
      BY <2>10, <3>3 DEF Reading
    <3>5. Points(p, t.next, t.pos, n)
      <4>1. ~(Capacity + 1 <= n)
        BY <1>3
      <4> QED
        BY <3>3, <4>1 DEF Points
    <3>6. t.pos > s.pos
      BY <1>3, <2>1, <3>3
    <3> QED
      BY <1>1, <1>2, <2>1, <2>8, <2>9, <2>10, <3>2, <3>3, <3>4, <3>5, <3>6 DEF t
  <2>12. CASE available >= need /\ ~s.section.header
    <3>1. Heads(p, s.section, data, at, n, s.pos, body)
      BY <2>4, <2>12
    <3>2. /\ body \in 1..MaxBody /\ Reading([data |-> data, need |-> body, header |-> TRUE], end, at, n)
          /\ Passed(end, at, n) = done /\ \A i \in s.pos+1..end : i <= n => stream[at + i][2] # 1
      BY <3>1 DEF Heads, done
    <3>3. body <= MaxBody
      BY <3>2, StreamAssumption
    <3>4. /\ t.section = [data |-> data, need |-> body, header |-> TRUE]
          /\ t.pos = end /\ t.next = s.next /\ t.out = s.out /\ t.flag = s.flag
      BY <2>6, <2>12, <3>3
    <3>5. Points(p, t.next, t.pos, n)
      <4> SUFFICES ASSUME s.next # 0, end <= n PROVE p.start /\ s.next = p.pointer + 1 /\ end <= p.pointer
        BY <3>4 DEF Points
      <4>1. p.start /\ s.next = p.pointer + 1 /\ s.pos <= p.pointer
        BY <1>1, <2>1 DEF Points
      <4>2. p.pointer + 1 \in 1..n /\ p.pointer \in Nat /\ stream[at + (p.pointer + 1)][2] = 1
        BY <4>1, PointerIs
      <4>3. p.pointer + 1 \notin s.pos+1..end
        <5>1. p.pointer + 1 <= n
          BY <1>3, <4>2
        <5> QED
          BY <3>2, <4>2, <5>1
      <4>4. end <= p.pointer
        <5> HIDE DEF end, need
        <5> QED
          BY <2>15, <4>1, <4>2, <4>3
      <4> QED
        BY <4>1, <4>4
    <3>6. end > s.pos
      BY <1>2, <1>3, <2>4
    <3> QED
      BY <1>1, <1>2, <2>1, <2>8, <2>9, <3>2, <3>4, <3>5, <3>6 DEF t
  <2>13. CASE available >= need /\ s.section.header
    <3> DEFINE k == done + 1
    <3>1. Ends(p, s.section, data, at, n, s.pos)
      BY <2>4, <2>13
    <3>2. /\ Assembled(data) = k /\ k \in 1..N
          /\ end \in s.pos+1..n+1 /\ \A i \in s.pos+1..end-1 : stream[at + i][2] # 1
          /\ end <= n => /\ stream[at + end][2] = 1 /\ PartAt(at + end) = NewSection
                         /\ p.bytes[end] # Stuffing /\ Through(at + (end - 1)) = k
          /\ end = n + 1 => /\ Left(at + n) = NoSection /\ all = k
                            /\ end <= Capacity => p.bytes[end] = Stuffing
      BY <3>1 DEF Ends, done, all
    <3>3. /\ t.out = Append(s.out, k) /\ t.flag = FALSE
          /\ next # 0 => t.section = NewSection /\ t.pos = next /\ t.next = 0
          /\ next = 0 => t.section = NoSection /\ t.pos = Capacity + 1 /\ t.next = 0
      BY <2>6, <2>13, <3>2
    <3>4. Told(Append(s.out, k), from, k) /\ Append(s.out, k) # <<>>
      <4>1. done \in Nat /\ done + 1 \in 0..N
        BY <2>7, <3>2
      <4> QED
        BY <2>8, <4>1, ToldMore
    <3>5. t.flag = (flag /\ t.out = <<>>)
      BY <3>3, <3>4
    <3>6. from <= k
      BY <2>7, <2>8
    <3> HIDE DEF k, next
    <3>7. CASE end <= n
      <4>1. next = end
        <5>1. end <= Capacity
          BY <1>3, <3>2, <3>7
        <5>2. CASE s.next = 0
          BY <3>2, <3>7, <5>1, <5>2 DEF next
        <5>3. CASE s.next # 0
          <6>1. p.start /\ s.next = p.pointer + 1 /\ s.pos <= p.pointer
            BY <1>1, <2>1, <5>3 DEF Points
          <6>2. /\ p.pointer + 1 \in 1..n /\ p.pointer \in Nat /\ stream[at + (p.pointer + 1)][2] = 1
                /\ \A i \in 1..p.pointer : stream[at + i][2] # 1
            BY <6>1, PointerIs
          <6>3. p.pointer + 1 \notin s.pos+1..end-1 /\ end \notin 1..p.pointer
            BY <3>2, <3>7, <6>2
          <6>4. p.pointer + 1 = end
            <7> HIDE DEF end
            <7> QED
              <8>1. end >= s.pos + 1
                BY <3>2
              <8>2. p.pointer + 1 >= end
                BY <2>15, <6>1, <6>2, <6>3, <8>1
              <8>3. end >= p.pointer + 1
                BY <2>15, <6>1, <6>2, <6>3, <8>1
              <8> QED
                BY <2>15, <6>2, <8>2, <8>3
          <6> QED
            BY <5>3, <6>1, <6>4 DEF next
        <5> QED
          BY <5>2, <5>3
      <4>2. end \in 1..n /\ end # 0
        <5> HIDE DEF end, need
        <5> QED
          BY <2>15, <3>7
      <4>3. t.section = NewSection /\ t.pos = end /\ t.next = 0
        BY <3>3, <4>1, <4>2
      <4>4. Reading(t.section, t.pos, at, n) /\ Passed(t.pos, at, n) = k
        BY <3>2, <3>7, <4>2, <4>3 DEF Reading, Passed
      <4>5. Points(p, t.next, t.pos, n)
        BY <4>3 DEF Points
      <4>6. t.pos > s.pos
        <5> HIDE DEF end
        <5> QED
          BY <1>2, <1>3, <3>2, <4>3
      <4> QED
        BY <2>1, <2>9, <1>2, <3>3, <3>4, <3>5, <3>6, <4>4, <4>5, <4>6 DEF t
    <3>8. CASE end = n + 1
      <4>1. s.next = 0
        <5> SUFFICES ASSUME s.next # 0 PROVE FALSE
          OBVIOUS
        <5>1. p.start /\ s.pos <= p.pointer
          BY <1>1, <2>1 DEF Points
        <5>2. p.pointer + 1 \in 1..n /\ p.pointer \in Nat /\ stream[at + (p.pointer + 1)][2] = 1
          BY <5>1, PointerIs
        <5>3. p.pointer + 1 \notin s.pos+1..end-1
          BY <3>2, <5>2
        <5> HIDE DEF end
        <5> QED
          BY <1>2, <1>3, <3>8, <5>1, <5>2, <5>3
      <4>2. next = 0
        <5> HIDE DEF end
        <5>1. ~(end <= Capacity /\ p.bytes[end] # Stuffing)
          BY <3>2, <3>8, Zenon
        <5> QED
          BY <4>1, <5>1 DEF next
      <4>3. t.section = NoSection /\ t.pos = Capacity + 1 /\ t.next = 0
        BY <3>3, <4>2
      <4>4. Reading(t.section, t.pos, at, n) /\ Passed(t.pos, at, n) = k
        <5> HIDE DEF end
        <5>1. Left(at + n) = NoSection /\ all = k
          BY <3>2, <3>8, Zenon
        <5> QED
          BY <2>10, <4>3, <5>1 DEF Reading
      <4>5. Points(p, t.next, t.pos, n)
        BY <4>3 DEF Points
      <4>6. t.pos > s.pos
        BY <1>3, <2>1, <4>3
      <4> QED
        BY <2>1, <2>9, <1>2, <3>3, <3>4, <3>5, <3>6, <4>4, <4>5, <4>6 DEF t
    <3>9. end <= n \/ end = n + 1
      <4> HIDE DEF end
      <4> QED
        BY <1>2, <1>3, <3>2
    <3> QED
      BY <3>7, <3>8, <3>9
  <2>14. available < need \/ available >= need
    BY <1>2, <1>3, <2>4
  <2> QED
    BY <2>4, <2>11, <2>12, <2>13, <2>14
<1> QED
  BY <1>5, <1>6
----------------------------------------------------------------------------
(* The handler in a packet. *)

ParseOn(p, at, n, from) ==
  {s \in ParseStates :
     /\ Reading(s.section, s.pos, at, n)
     /\ from <= Passed(s.pos, at, n) /\ Told(s.out, from, Passed(s.pos, at, n))}

ParseTurnTo(t, s, data, garbage, bytes) ==
  LET need == s.section.need
      available == Capacity - s.pos + 1
      body == BodyLength(data, garbage)
      end == s.pos + need
      more == end <= Capacity /\ bytes[end] # Stuffing
  IN
  /\ available < need =>
       /\ t.section = [data |-> data, need |-> need - available, header |-> s.section.header]
       /\ t.pos = Capacity + 1 /\ t.out = s.out
  /\ available >= need /\ ~s.section.header /\ body <= MaxBody =>
       /\ t.section = [data |-> data, need |-> body, header |-> TRUE]
       /\ t.pos = end /\ t.out = s.out
  /\ available >= need /\ s.section.header =>
       /\ t.out = Append(s.out, Assembled(data))
       /\ more => t.section = NewSection /\ t.pos = end
       /\ ~more => t.section = NoSection /\ t.pos = Capacity + 1

LEMMA ParseTurnIs ==
  ASSUME NEW bytes, Len(bytes) = Capacity, NEW garbage, NEW s \in ParseRecords, s.pos \in 1..Capacity,
         BodyLength(Taken(s.section.data, bytes, s.pos,
           IF Capacity - s.pos + 1 >= s.section.need THEN s.section.need ELSE Capacity - s.pos + 1), garbage) \in Nat
  PROVE  ParseTurnTo(ParseTurn(s, bytes, garbage), s,
                     Taken(s.section.data, bytes, s.pos,
                       IF Capacity - s.pos + 1 >= s.section.need THEN s.section.need ELSE Capacity - s.pos + 1),
                     garbage, bytes)
<1> DEFINE need == s.section.need
           available == Capacity - s.pos + 1
           taken == IF available >= need THEN need ELSE available
           data == Taken(s.section.data, bytes, s.pos, taken)
           body == BodyLength(data, garbage)
           end == s.pos + taken
           more == end <= Capacity /\ bytes[end] # Stuffing
           old == [s EXCEPT !.out = Append(s.out, Assembled(data))]
           t == ParseTurn(s, bytes, garbage)
<1>1. Capacity \in Nat /\ s.pos \in 1..Capacity /\ need \in Nat /\ available # 0 /\ MaxBody \in Nat /\ body \in Nat
      /\ available \in Nat
  <2>1. Capacity \in Nat /\ s.pos \in 1..Capacity /\ need \in Nat /\ MaxBody \in Nat /\ body \in Nat
    BY StreamAssumption DEF ParseRecords, SectionRecords
  <2> QED
    BY <2>1
<1>2. t = IF available < need
          THEN [s EXCEPT !.section.data = data, !.section.need = need - available, !.pos = end]
          ELSE IF ~s.section.header
          THEN IF body > MaxBody THEN Done(s, Capacity)
               ELSE [s EXCEPT !.pos = end, !.section = [data |-> data, need |-> body, header |-> TRUE]]
          ELSE IF more THEN [old EXCEPT !.section = NewSection, !.pos = end] ELSE Done(old, Capacity)
  BY <1>1 DEF ParseTurn, Taken
<1>3. s \in ParseRecords /\ s.section \in SectionRecords
  BY DEF ParseRecords
<1>4. /\ available < need => end = Capacity + 1
      /\ available >= need => end = s.pos + need
  <2>1. available = Capacity - s.pos + 1 /\ s.pos \in Nat
    BY <1>1
  <2> HIDE DEF need, available
  <2> QED
    BY <1>1, <2>1
<1> HIDE DEF data, need, available, end, body, t
<1>5. ASSUME available < need
      PROVE  /\ t.section = [data |-> data, need |-> need - available, header |-> s.section.header]
             /\ t.pos = Capacity + 1 /\ t.out = s.out
  BY <1>2, <1>3, <1>4, <1>5 DEF ParseRecords, SectionRecords
<1>6. ASSUME available >= need, ~s.section.header, body <= MaxBody
      PROVE  /\ t.section = [data |-> data, need |-> body, header |-> TRUE]
             /\ t.pos = end /\ t.out = s.out
  <2>1. ~(available < need) /\ ~(body > MaxBody)
    BY <1>1, <1>6
  <2> QED
    BY <1>2, <1>3, <1>6, <2>1 DEF ParseRecords
<1>7. ASSUME available >= need, s.section.header
      PROVE  /\ t.out = Append(s.out, Assembled(data))
             /\ more => t.section = NewSection /\ t.pos = end
             /\ ~more => t.section = NoSection /\ t.pos = Capacity + 1
  <2>1. ~(available < need)
    BY <1>1, <1>7
  <2>2. t = IF more THEN [old EXCEPT !.section = NewSection, !.pos = end] ELSE Done(old, Capacity)
    BY <1>2, <1>7, <2>1
  <2>3. old.out = Append(s.out, Assembled(data)) /\ old = [section |-> s.section, pos |-> s.pos, out |-> Append(s.out, Assembled(data))]
    <3> DEFINE all == Append(s.out, Assembled(data))
    <3>1. s = [section |-> s.section, pos |-> s.pos, out |-> s.out]
      BY <1>3 DEF ParseRecords
    <3>2. old = [s EXCEPT !.out = all]
      OBVIOUS
    <3> HIDE DEF all, old
    <3>3. old = [section |-> s.section, pos |-> s.pos, out |-> all]
      BY <3>1, <3>2
    <3>4. old.out = all
      BY <3>3
    <3> QED
      BY <3>3, <3>4 DEF all
  <2> HIDE DEF more, old
  <2> QED
    BY <2>2, <2>3 DEF Done
<1>8. ParseTurnTo(t, s, data, garbage, bytes)
  <2> DEFINE e == s.pos + need
             m == e <= Capacity /\ bytes[e] # Stuffing
  <2>1. available >= need => e = end /\ (m <=> more)
    BY <1>4
  <2> HIDE DEF more, e, m
  <2>2. ASSUME available >= need, ~s.section.header, body <= MaxBody
        PROVE  t.section = [data |-> data, need |-> body, header |-> TRUE] /\ t.pos = e /\ t.out = s.out
    BY <1>6, <2>1, <2>2
  <2>3. ASSUME available >= need, s.section.header
        PROVE  /\ t.out = Append(s.out, Assembled(data))
               /\ m => t.section = NewSection /\ t.pos = e
               /\ ~m => t.section = NoSection /\ t.pos = Capacity + 1
    BY <1>7, <2>1, <2>3
  <2> QED
    BY <1>5, <2>2, <2>3 DEF ParseTurnTo, need, available, body, e, m
<1> QED
  BY <1>8 DEF t, data, available, need

LEMMA ParseTurnOn ==
  ASSUME Broadcast, NEW p, IsPacket(p), NEW at, NEW n, Carried(p, at, n), NEW from \in Nat,
         NEW garbage \in 1..MaxBody+1, NEW s \in ParseOn(p, at, n, from)
  PROVE  /\ s.pos \in 1..Capacity+1 /\ ParseTurn(s, p.bytes, garbage) \in ParseOn(p, at, n, from)
         /\ s.pos = Capacity + 1 \/ ParseTurn(s, p.bytes, garbage).pos > s.pos
         /\ s.pos = Capacity + 1 => ParseTurn(s, p.bytes, garbage) = s
<1> DEFINE need == s.section.need
           available == Capacity - s.pos + 1
           taken == IF available >= need THEN need ELSE available
           data == Taken(s.section.data, p.bytes, s.pos, taken)
           body == BodyLength(data, garbage)
           t == ParseTurn(s, p.bytes, garbage)
           end == s.pos + need
           more == end <= Capacity /\ p.bytes[end] # Stuffing
           done == Through(at + (s.pos - 1))
           all == Through(at + n)
<1>1. /\ s \in ParseStates /\ Reading(s.section, s.pos, at, n)
      /\ from <= Passed(s.pos, at, n) /\ Told(s.out, from, Passed(s.pos, at, n))
  BY DEF ParseOn
<1>2. /\ s \in ParseRecords /\ s.pos \in 1..Capacity+1 /\ s.section \in SectionRecords /\ s.out \in Seq(0..N)
  BY <1>1 DEF ParseStates, ParseRecords
<1>3. /\ at \in Nat /\ n \in 1..Capacity /\ Capacity \in Nat /\ N \in Nat /\ p.bytes \in Seq(Payloads) /\ Len(p.bytes) = Capacity
      /\ lengths \in [1..N -> Lengths]
  BY StreamAssumption DEF Carried, IsPacket, Broadcast
<1>4. t \in ParseStates
  BY <1>1, <1>3, ParseTurnOK
<1>5. CASE s.pos \notin 1..n
  <2>1. s.pos = Capacity + 1
    BY <1>1, <1>5 DEF Reading
  <2>2. Len(p.bytes) - s.pos + 1 = 0
    BY <1>3, <2>1
  <2>3. t = s
    BY <2>2 DEF ParseTurn
  <2> QED
    BY <1>2, <2>1, <2>3
<1>6. CASE s.pos \in 1..n
  <2> HIDE DEF t
  <2>1. s.pos \in 1..Capacity /\ s.pos <= n /\ s.pos # Capacity + 1
    BY <1>3, <1>6
  <2>2. s.section = PartAt(at + s.pos) /\ Passed(s.pos, at, n) = done
    BY <1>1, <1>6 DEF Reading, Passed
  <2>3. TakesOn(p, s.section, at, n, s.pos, garbage)
    BY <1>6, <2>2, Turns
  <2>4. /\ need \in Nat /\ need > 0 /\ s.section.header \in BOOLEAN
        /\ available < need => Runs(p, s.section, data, at, n, s.pos)
        /\ available >= need /\ ~s.section.header => Heads(p, s.section, data, at, n, s.pos, body)
        /\ available >= need /\ s.section.header => Ends(p, s.section, data, at, n, s.pos)
    BY <2>3 DEF TakesOn
  <2>5. ParseTurnTo(t, s, data, garbage, p.bytes)
    <3>1. body \in Nat
      <4>1. body \in 1..MaxBody+1
        BY <1>3, BodyLengthIs
      <4> QED
        BY <4>1
    <3> QED
      BY <1>2, <1>3, <2>1, <3>1, ParseTurnIs DEF t
  <2> HIDE DEF data, body
  <2>6. /\ available < need =>
             /\ t.section = [data |-> data, need |-> need - available, header |-> s.section.header]
             /\ t.pos = Capacity + 1 /\ t.out = s.out
        /\ available >= need /\ ~s.section.header /\ body <= MaxBody =>
             /\ t.section = [data |-> data, need |-> body, header |-> TRUE]
             /\ t.pos = end /\ t.out = s.out
        /\ available >= need /\ s.section.header =>
             /\ t.out = Append(s.out, Assembled(data))
             /\ more => t.section = NewSection /\ t.pos = end
             /\ ~more => t.section = NoSection /\ t.pos = Capacity + 1
    BY <2>5 DEF ParseTurnTo, body
  <2>7. done \in 0..N /\ all \in 0..N /\ done <= all
    <3>1. s.pos \in 1..Capacity+1
      BY <1>2
    <3> QED
      BY <2>2, <3>1, PassedIs
  <2>8. from <= done /\ Told(s.out, from, done)
    BY <1>1, <2>2
  <2> HIDE DEF done, all
  <2>9. ASSUME Reading(t.section, t.pos, at, n), from <= Passed(t.pos, at, n), Told(t.out, from, Passed(t.pos, at, n))
        PROVE  t \in ParseOn(p, at, n, from)
    BY <1>4, <2>9 DEF ParseOn
  <2>10. Capacity + 1 \notin 1..n /\ Passed(Capacity + 1, at, n) = all
    BY <1>3 DEF Passed, all
  <2>15. /\ s.pos \in Nat /\ s.pos >= 1 /\ s.pos <= n /\ n \in Nat /\ n <= Capacity /\ Capacity \in Nat
         /\ need \in Nat /\ need > 0 /\ end = s.pos + need /\ end \in Nat
    BY <1>3, <2>1, <2>4
  <2>11. CASE available < need
    <3>1. Runs(p, s.section, data, at, n, s.pos)
      BY <2>4, <2>11
    <3>2. all = done /\ Left(at + n) = [data |-> data, need |-> need - available, header |-> s.section.header]
      BY <3>1 DEF Runs, all, done
    <3>3. /\ t.section = Left(at + n) /\ t.pos = Capacity + 1 /\ t.out = s.out
      BY <2>6, <2>11, <3>2
    <3>4. Reading(t.section, t.pos, at, n)
      BY <2>10, <3>3 DEF Reading
    <3>5. t.pos > s.pos
      BY <1>3, <2>1, <3>3
    <3> QED
      BY <1>2, <2>1, <2>8, <2>9, <2>10, <3>2, <3>3, <3>4, <3>5 DEF t
  <2>12. CASE available >= need /\ ~s.section.header
    <3>1. Heads(p, s.section, data, at, n, s.pos, body)
      BY <2>4, <2>12
    <3>2. /\ body \in 1..MaxBody /\ Reading([data |-> data, need |-> body, header |-> TRUE], end, at, n)
          /\ Passed(end, at, n) = done
      BY <3>1 DEF Heads, done
    <3>3. body <= MaxBody
      BY <3>2, StreamAssumption
    <3>4. /\ t.section = [data |-> data, need |-> body, header |-> TRUE]
          /\ t.pos = end /\ t.out = s.out
      BY <2>6, <2>12, <3>3
    <3>5. end > s.pos
      BY <1>2, <1>3, <2>4
    <3> QED
      BY <1>2, <2>1, <2>8, <2>9, <3>2, <3>4, <3>5 DEF t
  <2>13. CASE available >= need /\ s.section.header
    <3> DEFINE k == done + 1
    <3>1. Ends(p, s.section, data, at, n, s.pos)
      BY <2>4, <2>13
    <3>2. /\ Assembled(data) = k /\ k \in 1..N /\ end \in s.pos+1..n+1
          /\ end <= n => /\ PartAt(at + end) = NewSection
                         /\ p.bytes[end] # Stuffing /\ Through(at + (end - 1)) = k
          /\ end = n + 1 => /\ Left(at + n) = NoSection /\ all = k
                            /\ end <= Capacity => p.bytes[end] = Stuffing
      BY <3>1 DEF Ends, done, all
    <3>3. /\ t.out = Append(s.out, k)
          /\ more => t.section = NewSection /\ t.pos = end
          /\ ~more => t.section = NoSection /\ t.pos = Capacity + 1
      BY <2>6, <2>13, <3>2
    <3>4. Told(Append(s.out, k), from, k)
      <4>1. done \in Nat /\ done + 1 \in 0..N
        BY <2>7, <3>2
      <4> QED
        BY <2>8, <4>1, ToldMore
    <3>5. from <= k
      BY <2>7, <2>8
    <3> HIDE DEF k
    <3>6. end > s.pos
      <4> HIDE DEF end, need
      <4> QED
        BY <2>15
    <3>7. CASE end <= n
      <4>1. more
        <5> HIDE DEF end, need
        <5>1. end <= Capacity
          BY <2>15, <3>7
        <5> QED
          BY <3>2, <3>7, <5>1
      <4>2. end \in 1..n
        <5> HIDE DEF end, need
        <5> QED
          BY <2>15, <3>7
      <4>3. t.section = NewSection /\ t.pos = end
        BY <3>3, <4>1
      <4>4. Reading(t.section, t.pos, at, n) /\ Passed(t.pos, at, n) = k
        BY <3>2, <3>7, <4>2, <4>3 DEF Reading, Passed
      <4> QED
        BY <2>1, <2>9, <1>2, <3>3, <3>4, <3>5, <3>6, <4>3, <4>4 DEF t
    <3>8. CASE end = n + 1
      <4>1. ~more
        <5> HIDE DEF end
        <5> QED
          BY <3>2, <3>8, Zenon
      <4>2. t.section = NoSection /\ t.pos = Capacity + 1
        BY <3>3, <4>1
      <4>3. Reading(t.section, t.pos, at, n) /\ Passed(t.pos, at, n) = k
        <5> HIDE DEF end
        <5>1. Left(at + n) = NoSection /\ all = k
          BY <3>2, <3>8, Zenon
        <5> QED
          BY <2>10, <4>2, <5>1 DEF Reading
      <4>4. t.pos > s.pos
        BY <1>3, <2>1, <4>2
      <4> QED
        BY <2>1, <2>9, <1>2, <3>3, <3>4, <3>5, <4>3, <4>4 DEF t
    <3>9. end <= n \/ end = n + 1
      <4> HIDE DEF end
      <4> QED
        BY <1>2, <1>3, <3>2
    <3> QED
      BY <3>7, <3>8, <3>9
  <2>14. available < need \/ available >= need
    BY <1>2, <1>3, <2>4
  <2> QED
    BY <2>4, <2>11, <2>12, <2>13, <2>14
<1> QED
  BY <1>5, <1>6
----------------------------------------------------------------------------
(* A packet as a whole. *)

\* How many bytes of a packet a decoder leaves out: none while it has a section in hand, or else
\* those in front of the first one that begins.
Skipped(p, sec, n) == IF sec # NoSection THEN 0 ELSE IF p.start THEN p.pointer ELSE n

\* What comes of a packet.
ReadOf(p, sec, at, n, out, new) ==
  /\ Told(out, Through(at + Skipped(p, sec, n)), Through(at + n))
  /\ new = IF Skipped(p, sec, n) < n THEN Left(at + n) ELSE NoSection

LEMMA BeginsAt ==
  ASSUME Broadcast, NEW p, IsPacket(p), NEW at, NEW n, Carried(p, at, n), p.start
  PROVE  Reading(NewSection, p.pointer + 1, at, n) /\ Passed(p.pointer + 1, at, n) = Through(at + p.pointer)
<1> DEFINE y == p.pointer + 1
           x == at + y
<1>1. y \in 1..n /\ p.pointer \in Nat /\ stream[x][2] = 1
  BY PointerIs
<1>2. /\ at \in Nat /\ n \in 1..Capacity /\ at + n \in 1..Len(stream) /\ Len(stream) \in Nat /\ Capacity \in Nat
      /\ lengths \in [1..N -> Lengths]
  BY StreamAssumption, LenProperties DEF Carried, Broadcast, Streamed
<1>3. x \in 1..Len(stream) /\ y - 1 = p.pointer
  BY <1>1, <1>2
<1> HIDE DEF x, y
<1>4. stream[x][1] \in 1..N
  BY <1>3, ByteIs
<1>5. PartAt(x) = Part(stream[x][1], 0)
  BY <1>1 DEF PartAt
<1>6. PartAt(x) = NewSection
  BY <1>2, <1>4, <1>5, NewPart
<1> QED
  BY <1>1, <1>3, <1>6 DEF Reading, Passed, x, y

LEMMA GoesOnAt ==
  ASSUME Broadcast, NEW p, NEW at, NEW n, Carried(p, at, n), NEW sec, sec # NoSection, sec = Left(at)
  PROVE  Reading(sec, 1, at, n) /\ Passed(1, at, n) = Through(at) /\ stream[at + 1][2] # 1
<1>1. 1 \in 1..n /\ at \in Nat /\ at + (1 - 1) = at
  BY DEF Carried
<1>2. Within(at)
  BY DEF Left
<1>3. sec = PartAt(at + 1)
  BY <1>2 DEF Left
<1> QED
  BY <1>1, <1>2, <1>3 DEF Reading, Passed, Within

LEMMA PayloadOn ==
  ASSUME Broadcast, NEW p, IsPacket(p), NEW at, NEW n, Carried(p, at, n), NEW garbage \in 1..MaxBody+1,
         NEW sec, Assembly(sec), sec \in {NoSection, Left(at)}, NEW flag \in BOOLEAN, Payload(p, sec, flag, garbage)
  PROVE  \E out : /\ ReadOf(p, sec, at, n, out, section')
                  /\ gathered' = gathered \o out /\ discontinuity' = (flag /\ out = <<>>)
<1> DEFINE new == IF p.start THEN p.pointer + 1 ELSE 0
           idle == [section |-> NoSection, pos |-> 1, next |-> new, out |-> <<>>, flag |-> flag]
           s == IF sec # NoSection THEN Loop([idle EXCEPT !.section = sec], p.bytes, garbage)
                ELSE IF new # 0 THEN Loop(Begin(idle, new), p.bytes, garbage)
                ELSE idle
           m == Skipped(p, sec, n)
           from == Through(at + m)
           P == PushOn(p, at, n, from, flag)
<1>1. section' = s.section /\ discontinuity' = s.flag /\ gathered' = gathered \o s.out
  BY DEF Payload
<1>2. /\ p.bytes \in Seq(Payloads) /\ Len(p.bytes) = Capacity /\ new \in 0..Capacity
      /\ Capacity \in Nat /\ 1 \in 1..Capacity+1
  BY StreamAssumption DEF IsPacket
<1>3. /\ at \in Nat /\ n \in 1..Capacity /\ at + n \in 1..Len(stream) /\ Len(stream) \in Nat
  BY LenProperties DEF Carried, Broadcast, Streamed
<1>4. m \in 0..n /\ (sec # NoSection => m = 0) /\ (sec = NoSection /\ p.start => m = p.pointer)
      /\ (sec = NoSection /\ ~p.start => m = n)
  <2>1. p.start => p.pointer \in 0..n
    <3>1. p.start => p.pointer \in Nat /\ p.pointer + 1 \in 1..n
      BY PointerIs
    <3> QED
      BY <1>3, <3>1
  <2> QED
    BY <1>3, <2>1 DEF Skipped
<1> HIDE DEF m
<1>5. from \in Nat
  <2>1. at + m \in 0..Len(stream)
    BY <1>3, <1>4
  <2>2. from \in 0..N
    BY <2>1, ThroughIs
  <2> QED
    BY <2>2, StreamAssumption
<1> HIDE DEF from
<1>6. Told(<<>>, from, from) /\ from <= from
  BY <1>5, ToldNothing
<1>7. \A x \in P : /\ x.pos \in 1..Capacity+1 /\ Turn(x, p.bytes, garbage) \in P
                   /\ x.pos = Capacity + 1 \/ Turn(x, p.bytes, garbage).pos > x.pos
                   /\ x.pos = Capacity + 1 => Turn(x, p.bytes, garbage) = x
  BY <1>5, TurnOn
<1> HIDE DEF P
\* A loop that begins there comes to the end of the packet.
<1>8. ASSUME NEW t \in P, m < n, s = Loop(t, p.bytes, garbage)
      PROVE  ReadOf(p, sec, at, n, s.out, s.section) /\ s.flag = (flag /\ s.out = <<>>)
  <2>0. Loop(t, p.bytes, garbage) \in P /\ Loop(t, p.bytes, garbage).pos = Capacity + 1
    <3> HIDE DEF s
    <3> QED
      BY <1>7, <1>8, LoopEnds
  <2> HIDE DEF s
  <2>1. s \in P /\ s.pos = Capacity + 1
    BY <1>8, <2>0
  <2>2. /\ Reading(s.section, s.pos, at, n) /\ Told(s.out, from, Passed(s.pos, at, n))
        /\ s.flag = (flag /\ s.out = <<>>)
    BY <2>1 DEF P, PushOn
  <2>3. Capacity + 1 \notin 1..n
    BY <1>2, <1>3
  <2>4. s.section = Left(at + n) /\ Told(s.out, from, Through(at + n))
    BY <2>1, <2>2, <2>3 DEF Reading, Passed
  <2> QED
    BY <1>8, <2>2, <2>4 DEF ReadOf, from, m
<1>9. ReadOf(p, sec, at, n, s.out, s.section) /\ s.flag = (flag /\ s.out = <<>>)
  <2>1. CASE sec # NoSection
    <3> DEFINE t == [section |-> sec, pos |-> 1, next |-> new, out |-> <<>>, flag |-> flag]
    <3>1. [idle EXCEPT !.section = sec] = t
      OBVIOUS
    <3>2. s = Loop(t, p.bytes, garbage)
      BY <2>1, <3>1
    <3>3. t \in PushRecords /\ t.section = sec /\ t.pos = 1 /\ t.next = new /\ t.out = <<>> /\ t.flag = flag
      <4>1. t \in PushRecords
        <5> HIDE DEF new
        <5> QED
          BY <1>2, IdleOK
      <4> QED
        BY <4>1
    <3>4. Reading(sec, 1, at, n) /\ Passed(1, at, n) = from /\ stream[at + 1][2] # 1 /\ m = 0
      <4>1. Reading(sec, 1, at, n) /\ Passed(1, at, n) = Through(at) /\ stream[at + 1][2] # 1
        BY <2>1, GoesOnAt
      <4>2. m = 0 /\ at + 0 = at
        BY <1>3, <1>4, <2>1
      <4> QED
        BY <4>1, <4>2 DEF from
    <3>5. Points(p, new, 1, n)
      <4> SUFFICES ASSUME new # 0 PROVE p.start /\ new = p.pointer + 1 /\ 1 <= p.pointer
        BY DEF Points
      <4>1. p.start /\ new = p.pointer + 1
        OBVIOUS
      <4>2. p.pointer \in Nat /\ stream[at + (p.pointer + 1)][2] = 1
        BY <4>1, PointerIs
      <4>3. p.pointer # 0
        <5>1. p.pointer = 0 => at + (p.pointer + 1) = at + 1
          BY <1>3
        <5> QED
          BY <3>4, <4>2, <5>1
      <4> QED
        BY <4>1, <4>2, <4>3
    <3>6. m < n
      BY <1>3, <3>4
    <3> HIDE DEF t, new
    <3>7. t \in P
      <4>1. t \in PushStates
        BY <2>1, <3>3 DEF PushStates
      <4>2. Told(t.out, from, from) /\ t.flag = (flag /\ t.out = <<>>)
        BY <1>6, <3>3
      <4> QED
        BY <1>6, <3>3, <3>4, <3>5, <4>1, <4>2 DEF P, PushOn
    <3> HIDE DEF s
    <3> QED
      BY <1>8, <3>2, <3>6, <3>7
  <2>2. CASE sec = NoSection /\ p.start
    <3> DEFINE t == Begin(idle, new)
    <3>1. new = p.pointer + 1 /\ new # 0 /\ new \in 1..Capacity /\ m = p.pointer /\ m < n
      <4>1. p.pointer + 1 \in 1..n /\ p.pointer \in Nat
        BY <2>2, PointerIs
      <4>2. new = p.pointer + 1
        BY <2>2
      <4>3. m = p.pointer
        BY <1>4, <2>2
      <4> HIDE DEF new, s, idle
      <4> DEFINE b == p.pointer
      <4>4. b \in Nat /\ b + 1 \in 1..n /\ n \in 1..Capacity /\ Capacity \in Nat /\ new = b + 1 /\ m = b
        BY <1>2, <1>3, <4>1, <4>2, <4>3
      <4> HIDE DEF b
      <4>5. new # 0 /\ new \in 1..Capacity /\ m < n
        BY <4>4
      <4> QED
        BY <4>2, <4>3, <4>5
    <3>2. s = Loop(t, p.bytes, garbage)
      BY <2>2, <3>1
    <3>3. t \in PushStates /\ t.section = NewSection /\ t.pos = new /\ t.next = 0 /\ t.out = <<>> /\ t.flag = flag
      <4>1. idle \in PushRecords
        <5> HIDE DEF new
        <5> QED
          BY <1>2, FreshSections, IdleOK
      <4>2. /\ t.section = NewSection /\ t.pos = new /\ t.next = 0 /\ t.out = <<>> /\ t.flag = flag
        <5> HIDE DEF new
        <5> QED
          BY DEF Begin
      <4> HIDE DEF idle, new
      <4>3. t \in PushStates
        BY <3>1, <4>1, BeginOK
      <4> QED
        BY <4>2, <4>3
    <3> HIDE DEF t, s, new
    <3>4. Reading(NewSection, new, at, n) /\ Passed(new, at, n) = from
      BY <2>2, <3>1, BeginsAt DEF from
    <3>5. Points(p, 0, new, n)
      BY DEF Points
    <3>6. t \in P
      <4>1. Told(t.out, from, from) /\ t.flag = (flag /\ t.out = <<>>)
        BY <1>6, <3>3
      <4> QED
        BY <1>6, <3>3, <3>4, <3>5, <4>1 DEF P, PushOn
    <3> QED
      BY <1>8, <3>1, <3>2, <3>6
  <2>3. CASE sec = NoSection /\ ~p.start
    <3>1. s = idle
      BY <2>3
    <3>2. s.section = NoSection /\ s.flag = flag /\ s.out = <<>>
      BY <3>1
    <3> HIDE DEF s, idle, new
    <3>3. m = n /\ ~(m < n)
      BY <1>3, <1>4, <2>3
    <3>4. Told(<<>>, from, Through(at + n))
      BY <1>6, <3>3 DEF from
    <3> QED
      BY <3>2, <3>3, <3>4 DEF ReadOf, from, m
  <2> QED
    BY <2>1, <2>2, <2>3
<1> HIDE DEF s
<1> QED
  BY <1>1, <1>9

LEMMA DataOn ==
  ASSUME Broadcast, NEW p, IsPacket(p), NEW at, NEW n, Carried(p, at, n), NEW garbage \in 1..MaxBody+1,
         NEW before, Assembly(before), before \in {NoSection, Left(at)}, ~(p.start /\ before # NoSection),
         Data(p, before, garbage)
  PROVE  \E out : ReadOf(p, before, at, n, out, current') /\ parsed' = parsed \o out
<1> DEFINE begin == IF before = NoSection THEN NewSection ELSE before
           start == [section |-> begin, pos |-> p.pointer + 1, out |-> <<>>]
           none == [section |-> NoSection, pos |-> 1, out |-> <<>>]
           s == IF before = NoSection /\ ~p.start THEN none ELSE ParseLoop(start, p.bytes, garbage)
           m == Skipped(p, before, n)
           from == Through(at + m)
           P == ParseOn(p, at, n, from)
<1>1. current' = s.section /\ parsed' = parsed \o s.out
  BY DEF Data
<1>2. /\ p.bytes \in Seq(Payloads) /\ Len(p.bytes) = Capacity /\ p.pointer + 1 \in 1..Capacity+1
      /\ p.pointer \in Nat /\ Capacity \in Nat
  <2>1. p.bytes \in Seq(Payloads) /\ Len(p.bytes) = Capacity /\ p.pointer \in 0..Capacity-1
    BY DEF IsPacket
  <2>2. p.pointer + 1 \in 1..Capacity+1 /\ p.pointer \in Nat /\ Capacity \in Nat
    BY <2>1, StreamAssumption
  <2> QED
    BY <2>1, <2>2
<1>3. /\ at \in Nat /\ n \in 1..Capacity /\ at + n \in 1..Len(stream) /\ Len(stream) \in Nat
  BY LenProperties DEF Carried, Broadcast, Streamed
<1>4. m \in 0..n /\ (before # NoSection => m = 0) /\ (before = NoSection /\ p.start => m = p.pointer)
      /\ (before = NoSection /\ ~p.start => m = n) /\ (p.start => p.pointer < n)
  <2>1. p.start => p.pointer \in 0..n /\ p.pointer < n
    <3>1. p.start => p.pointer \in Nat /\ p.pointer + 1 \in 1..n
      BY PointerIs
    <3> QED
      BY <1>3, <3>1
  <2> QED
    BY <1>3, <2>1 DEF Skipped
<1> HIDE DEF m
<1>5. from \in Nat
  <2>1. at + m \in 0..Len(stream)
    BY <1>3, <1>4
  <2>2. from \in 0..N
    BY <2>1, ThroughIs
  <2> QED
    BY <2>2, StreamAssumption
<1> HIDE DEF from
<1>6. Told(<<>>, from, from) /\ from <= from
  BY <1>5, ToldNothing
<1>7. \A x \in P : /\ x.pos \in 1..Capacity+1 /\ ParseTurn(x, p.bytes, garbage) \in P
                   /\ x.pos = Capacity + 1 \/ ParseTurn(x, p.bytes, garbage).pos > x.pos
                   /\ x.pos = Capacity + 1 => ParseTurn(x, p.bytes, garbage) = x
  BY <1>5, ParseTurnOn
<1> HIDE DEF P
<1>8. ASSUME start \in P, m < n, s = ParseLoop(start, p.bytes, garbage)
      PROVE  ReadOf(p, before, at, n, s.out, s.section)
  <2> HIDE DEF start
  <2>0. ParseLoop(start, p.bytes, garbage) \in P /\ ParseLoop(start, p.bytes, garbage).pos = Capacity + 1
    <3> HIDE DEF s
    <3> QED
      BY <1>7, <1>8, ParseLoopEnds
  <2> HIDE DEF s
  <2>1. s \in P /\ s.pos = Capacity + 1
    BY <1>8, <2>0
  <2>2. Reading(s.section, s.pos, at, n) /\ Told(s.out, from, Passed(s.pos, at, n))
    BY <2>1 DEF P, ParseOn
  <2>3. Capacity + 1 \notin 1..n
    BY <1>2, <1>3
  <2>4. s.section = Left(at + n) /\ Told(s.out, from, Through(at + n))
    BY <2>1, <2>2, <2>3 DEF Reading, Passed
  <2> QED
    BY <1>8, <2>4 DEF ReadOf, from, m
\* A loop begins in a section, or where the packet says.
<1>9. ASSUME Reading(begin, p.pointer + 1, at, n), Passed(p.pointer + 1, at, n) = from
      PROVE  start \in P
  <2>1. Assembly(begin) /\ begin # NoSection
    BY FreshSections
  <2> HIDE DEF begin
  <2>2. begin \in SectionRecords /\ <<>> \in Seq(0..N)
    BY <2>1 DEF Assembly
  <2>3. start \in ParseRecords /\ start.section = begin /\ start.pos = p.pointer + 1 /\ start.out = <<>>
    BY <1>2, <2>2 DEF ParseRecords
  <2> HIDE DEF start
  <2>4. start \in ParseStates
    BY <2>1, <2>3 DEF ParseStates
  <2>5. Told(start.out, from, from)
    BY <1>6, <2>3
  <2> QED
    BY <1>6, <1>9, <2>3, <2>4, <2>5 DEF P, ParseOn
<1>10. ReadOf(p, before, at, n, s.out, s.section)
  <2>1. CASE before # NoSection
    <3>1. p.pointer = 0 /\ p.pointer + 1 = 1
      <4>1. p.pointer = 0
        BY <2>1 DEF Carried
      <4> QED
        BY <4>1
    <3>2. begin = before
      BY <2>1
    <3>3. Reading(before, 1, at, n) /\ Passed(1, at, n) = from
      <4>1. Reading(before, 1, at, n) /\ Passed(1, at, n) = Through(at)
        BY <2>1, GoesOnAt
      <4>2. m = 0 /\ at + 0 = at
        BY <1>3, <1>4, <2>1
      <4> QED
        BY <4>1, <4>2 DEF from
    <3>4. m < n
      BY <1>3, <1>4, <2>1
    <3>5. s = ParseLoop(start, p.bytes, garbage)
      BY <2>1
    <3> HIDE DEF s, start, begin
    <3>6. start \in P
      BY <1>9, <3>1, <3>2, <3>3
    <3> QED
      BY <1>8, <3>4, <3>5, <3>6
  <2>2. CASE before = NoSection /\ p.start
    <3>1. begin = NewSection
      BY <2>2
    <3>2. m < n
      BY <1>4, <2>2
    <3>3. s = ParseLoop(start, p.bytes, garbage)
      BY <2>2
    <3>4. m = p.pointer
      BY <1>4, <2>2
    <3>5. Reading(NewSection, p.pointer + 1, at, n) /\ Passed(p.pointer + 1, at, n) = from
      BY <2>2, <3>4, BeginsAt DEF from
    <3> HIDE DEF s, start, begin
    <3>6. start \in P
      BY <1>9, <3>1, <3>5
    <3> QED
      BY <1>8, <3>2, <3>3, <3>6
  <2>3. CASE before = NoSection /\ ~p.start
    <3>1. s = none
      BY <2>3
    <3>2. s.section = NoSection /\ s.out = <<>>
      BY <3>1
    <3> HIDE DEF s, none
    <3>3. m = n /\ ~(m < n)
      BY <1>3, <1>4, <2>3
    <3>4. Told(<<>>, from, Through(at + n))
      BY <1>6, <3>3 DEF from
    <3> QED
      BY <3>2, <3>3, <3>4 DEF ReadOf, from, m
  <2> QED
    BY <2>1, <2>2, <2>3
<1> HIDE DEF s
<1> QED
  BY <1>1, <1>10
----------------------------------------------------------------------------
(* Nothing is told twice, and nothing missed but what was torn. *)

\* Up to a place of the stream, a decoder has delivered each section but the bad ones, and has in
\* hand what there is of the next one.
Has(done, sec, at, bad) ==
  /\ done \in Seq(0..N) /\ Ascending(done) /\ \A i \in DOMAIN done : done[i] \in 1..Through(at)
  /\ \A k \in 1..Through(at) : k \notin bad => Delivered(k, done)
  /\ sec \in {NoSection, Left(at)}
  /\ Within(at) /\ stream[at + 1][1] \notin bad => sec = Left(at)

\* A section that ends in a part of the stream has a byte there.
LEMMA EndsThere ==
  ASSUME Broadcast, NEW at \in Nat, NEW n \in Nat, at + n \in 0..Len(stream), NEW k \in 1..Through(at + n),
         ~(k <= Through(at))
  PROVE  \E i \in 1..n : stream[at + i][1] = k
<1>1. at \in 0..Len(stream) /\ at + n \in 0..Len(stream) /\ Len(stream) \in Nat /\ N \in Nat
  BY LenProperties, StreamAssumption DEF Broadcast, Streamed
<1>2. PICK a \in 1..at+n : stream[a] = <<k, lengths[k]>>
  BY EndOf
<1>3. Through(a) = k /\ a \in 0..Len(stream)
  <2>1. a # 0 /\ stream[a][1] = k /\ EndsSection(stream[a])
    BY <1>2 DEF EndsSection
  <2> QED
    BY <1>1, <2>1 DEF Through
<1>4. ~(a <= at)
  <2> SUFFICES ASSUME a <= at PROVE FALSE
    OBVIOUS
  <2>1. Through(a) <= Through(at)
    BY <1>1, <1>3, ThroughGrows
  <2> QED
    BY <1>3, <2>1
<1>5. a - at \in 1..n /\ at + (a - at) = a
  BY <1>4
<1>6. stream[at + (a - at)][1] = k
  BY <1>2, <1>5
<1> QED
  BY <1>5, <1>6

\* A section that goes on behind a place has a byte in front of it.
LEMMA GoneOn ==
  ASSUME Broadcast, NEW i \in 1..Len(stream), Within(i)
  PROVE  stream[i + 1][1] = stream[i][1]
<1>1. i + 1 \in 1..Len(stream) /\ stream[i + 1][2] # 1 /\ (i + 1) - 1 = i /\ i + 1 > 1 /\ i # 0
  BY DEF Within
<1>2. stream[i + 1][1] = Through(i) + 1 /\ (EndsSection(stream[i]) <=> stream[i + 1][2] = 1)
  BY <1>1, ThroughNext
<1>3. Through(i) = stream[i][1] - 1 /\ stream[i][1] \in 1..N
  BY <1>1, <1>2, ByteIs DEF Through
<1> QED
  BY <1>2, <1>3

\* What goes on has bytes to come.
LEMMA SomeLeft ==
  ASSUME Broadcast, NEW at, Within(at)
  PROVE  Left(at) # NoSection
<1> DEFINE x == stream[at + 1]
           k == x[1]
           m == x[2] - 1
<1>1. k \in 1..N /\ x[2] \in 1..lengths[k] /\ lengths[k] \in Nat /\ HeaderSize \in Nat /\ HeaderSize > 0
  BY ByteIs, StreamAssumption DEF Within
<1>2. Left(at) = Part(k, m)
  BY DEF Left, PartAt
<1> HIDE DEF x
<1>3. m \in Nat /\ m < lengths[k]
  <2> HIDE DEF k
  <2> QED
    BY <1>1
<1> HIDE DEF k, m
<1>4. Part(k, m).need = IF m < HeaderSize THEN HeaderSize - m ELSE lengths[k] - m
  BY DEF Part
<1>5. Part(k, m).need # 0
  <2> DEFINE l == lengths[k]
  <2>1. l \in Nat /\ m < l
    BY <1>1, <1>3
  <2> HIDE DEF l
  <2>2. (IF m < HeaderSize THEN HeaderSize - m ELSE l - m) # 0
    BY <1>1, <1>3, <2>1
  <2> QED
    BY <1>4, <2>2 DEF l
<1> QED
  BY <1>2, <1>5 DEF NoSection

LEMMA HasWorse ==
  ASSUME NEW done, NEW sec, NEW at, NEW bad, Has(done, sec, at, bad), NEW worse, bad \subseteq worse
  PROVE  Has(done, sec, at, worse)
BY DEF Has

\* Where all that was sent is lost.
LEMMA HasLost ==
  ASSUME Broadcast, NEW at \in Nat, NEW n \in Nat, n > 0, at + n \in 1..Len(stream),
         NEW done, NEW sec, NEW bad, Has(done, sec, at, bad),
         NEW worse, bad \subseteq worse, \A i \in 1..n : stream[at + i][1] \in worse
  PROVE  Has(done, NoSection, at + n, worse)
<1> DEFINE a == Through(at)
           b == Through(at + n)
<1>1. a \in Nat /\ b \in Nat /\ a <= b /\ Len(stream) \in Nat /\ at + n \in 0..Len(stream)
  <2>1. Len(stream) \in Nat
    BY LenProperties DEF Broadcast, Streamed
  <2>2. at \in 0..Len(stream) /\ at + n \in 0..Len(stream) /\ at <= at + n
    BY <2>1
  <2>3. a \in 0..N /\ b \in 0..N /\ a <= b
    BY <2>2, ThroughIs, ThroughGrows
  <2> QED
    BY <2>1, <2>2, <2>3, StreamAssumption
<1>2. done \in Seq(0..N) /\ Ascending(done) /\ \A i \in DOMAIN done : done[i] \in 1..a
  BY DEF Has
<1>3. \A i \in DOMAIN done : done[i] \in 1..b
  <2>1. 1..a \subseteq 1..b
    <3> HIDE DEF a, b
    <3> QED
      BY <1>1
  <2> QED
    BY <1>2, <2>1
<1>4. ASSUME NEW k \in 1..b, k \notin worse PROVE Delivered(k, done)
  <2>1. k <= a
    <3> SUFFICES ASSUME ~(k <= a) PROVE FALSE
      OBVIOUS
    <3>1. PICK i \in 1..n : stream[at + i][1] = k
      BY <1>1, EndsThere
    <3> QED
      BY <1>4, <3>1
  <2>2. k \in 1..a
    <3> HIDE DEF a, b
    <3> QED
      BY <1>1, <2>1
  <2> QED
    BY <1>4, <2>2 DEF Has
<1>5. ASSUME Within(at + n) PROVE stream[at + n + 1][1] \in worse
  <2>1. stream[at + n + 1][1] = stream[at + n][1]
    BY <1>5, GoneOn
  <2>2. n \in 1..n
    OBVIOUS
  <2> QED
    BY <2>1, <2>2
<1> QED
  BY <1>2, <1>3, <1>4, <1>5 DEF Has

\* Of the bytes that a decoder leaves out, those of a section are of one that it had not from the
\* start.
LEMMA LeftOut ==
  ASSUME Broadcast, NEW p, IsPacket(p), NEW at, NEW n, Carried(p, at, n), NEW sec, Skipped(p, sec, n) # 0
  PROVE  /\ sec = NoSection /\ Skipped(p, sec, n) \in 1..n /\ Within(at)
         /\ Through(at + Skipped(p, sec, n)) <= Through(at) + 1 /\ stream[at + 1][1] = Through(at) + 1
         /\ stream[at + Skipped(p, sec, n)][1] = stream[at + 1][1]
<1> DEFINE m == Skipped(p, sec, n)
<1>1. /\ at \in Nat /\ n \in 1..Capacity /\ at + n \in 1..Len(stream) /\ Len(stream) \in Nat /\ Capacity \in Nat
  BY StreamAssumption, LenProperties DEF Carried, Broadcast, Streamed
<1>2. sec = NoSection /\ m = IF p.start THEN p.pointer ELSE n
  BY DEF Skipped
<1>3. m \in 1..n /\ \A i \in 1..m : stream[at + i][2] # 1
  <2>1. CASE p.start
    <3>1. p.pointer + 1 \in 1..n /\ p.pointer \in Nat /\ \A i \in 1..p.pointer : stream[at + i][2] # 1
      BY <2>1, PointerIs
    <3>2. m = p.pointer
      BY <1>2, <2>1
    <3> HIDE DEF m
    <3>3. m \in 1..n
      <4>1. m + 1 \in 1..n /\ m \in Nat /\ m # 0
        BY <3>1, <3>2 DEF m
      <4> QED
        BY <1>1, <4>1
    <3> QED
      BY <3>1, <3>2, <3>3
  <2>2. CASE ~p.start
    <3>1. m = n
      BY <1>2, <2>2
    <3>2. \A i \in 1..n : stream[at + i][2] # 1
      BY <2>2 DEF Carried
    <3> QED
      BY <1>1, <3>1, <3>2
  <2> QED
    BY <2>1, <2>2
<1> HIDE DEF m
<1>4. m \in Nat /\ m > 0 /\ at + m \in 1..Len(stream)
  BY <1>1, <1>3
<1> QED
  BY <1>1, <1>2, <1>3, <1>4, NoStart DEF m

LEMMA HasMore ==
  ASSUME Broadcast, NEW p, IsPacket(p), NEW at, NEW n, Carried(p, at, n),
         NEW done, NEW sec, NEW bad, Has(done, sec, at, bad), NEW out, NEW new, ReadOf(p, sec, at, n, out, new)
  PROVE  Has(done \o out, new, at + n, bad) /\ Lengthens(done \o out, done, out)
<1> DEFINE m == Skipped(p, sec, n)
           a == Through(at)
           f == Through(at + m)
           b == Through(at + n)
<1>1. /\ at \in Nat /\ n \in 1..Capacity /\ at + n \in 1..Len(stream) /\ Len(stream) \in Nat /\ Capacity \in Nat
  BY StreamAssumption, LenProperties DEF Carried, Broadcast, Streamed
<1>2. m \in 0..n
  <2>1. n \in Nat
    BY <1>1
  <2>2. m # 0 => m \in 1..n
    BY LeftOut
  <2> HIDE DEF m
  <2> QED
    BY <2>1, <2>2
<1>3. /\ m # 0 => sec = NoSection /\ Within(at) /\ f <= a + 1 /\ stream[at + 1][1] = a + 1
      /\ m # 0 => stream[at + m][1] = stream[at + 1][1]
  BY LeftOut
<1>4. Told(out, f, b) /\ new = IF m < n THEN Left(at + n) ELSE NoSection
  BY DEF ReadOf
<1> HIDE DEF m
<1>5. a \in Nat /\ f \in Nat /\ b \in Nat /\ a <= f /\ f <= b /\ b <= N /\ N \in Nat
  <2>1. at \in 0..Len(stream) /\ at + m \in 0..Len(stream) /\ at + n \in 0..Len(stream) /\ at <= at + m /\ at + m <= at + n
    BY <1>1, <1>2
  <2>2. a \in 0..N /\ f \in 0..N /\ b \in 0..N /\ a <= f /\ f <= b
    BY <2>1, ThroughIs, ThroughGrows
  <2> QED
    BY <2>2, StreamAssumption
<1>6. m = 0 => f = a
  BY <1>1
<1> HIDE DEF a, f, b
<1>7. done \in Seq(0..N) /\ Ascending(done) /\ \A i \in DOMAIN done : done[i] \in 1..a
  BY DEF Has, a
<1>8. /\ Lengthens(done \o out, done, out) /\ Ascending(done \o out)
      /\ \A i \in DOMAIN (done \o out) : (done \o out)[i] \in 1..b
  BY <1>4, <1>5, <1>7, ToldBehind
\* A section that was left out is a bad one.
<1>9. m # 0 => a + 1 \in bad
  <2> SUFFICES ASSUME m # 0, a + 1 \notin bad PROVE FALSE
    OBVIOUS
  <2>1. sec = NoSection /\ Within(at) /\ stream[at + 1][1] = a + 1
    BY <1>3
  <2>2. sec = Left(at)
    BY <2>1 DEF Has
  <2> QED
    BY <2>1, <2>2, SomeLeft
<1>10. ASSUME NEW k \in 1..b, k \notin bad PROVE Delivered(k, done \o out)
  <2>0. k \in 0..N
    BY <1>5
  <2>1. k \in 1..a \/ (k = a + 1 /\ m # 0) \/ k \in f+1..b
    <3>1. k \in Nat /\ 1 <= k /\ k <= b /\ (m # 0 => f <= a + 1)
      BY <1>3, <1>5
    <3>2. CASE m = 0
      BY <1>5, <1>6, <3>1, <3>2
    <3>3. CASE m # 0
      BY <1>5, <3>1, <3>3
    <3> QED
      BY <3>2, <3>3
  <2>2. CASE k \in 1..a
    <3>1. Delivered(k, done)
      BY <1>10, <2>2 DEF Has, a
    <3> QED
      BY <1>8, <2>0, <3>1 DEF Lengthens
  <2>3. CASE k \in f+1..b
    <3>1. Delivered(k, out)
      BY <1>4, <2>3 DEF Told
    <3> QED
      BY <1>8, <2>0, <3>1 DEF Lengthens
  <2> QED
    BY <1>9, <1>10, <2>1, <2>2, <2>3
<1>11. new \in {NoSection, Left(at + n)}
  BY <1>4
<1>12. ASSUME Within(at + n), stream[at + n + 1][1] \notin bad PROVE new = Left(at + n)
  <2> SUFFICES ASSUME ~(m < n) PROVE FALSE
    BY <1>4
  <2>1. m = n /\ m # 0
    BY <1>1, <1>2
  <2>2. stream[at + n + 1][1] = stream[at + n][1]
    BY <1>1, <1>12, GoneOn
  <2> QED
    BY <1>3, <1>9, <1>12, <2>1, <2>2
<1>13. done \o out \in Seq(0..N)
  BY <1>8 DEF Lengthens
<1> QED
  BY <1>8, <1>10, <1>11, <1>12, <1>13 DEF Has, b

\* A decoder that has not read the packet before, reads it late.
LEMMA HasAgain ==
  ASSUME Broadcast, NEW p, IsPacket(p), NEW at, NEW n, Carried(p, at, n),
         NEW done, NEW bad, Has(done, NoSection, at + n, bad), \A i \in DOMAIN done : done[i] \in 1..Through(at),
         NEW sec, NEW out, NEW new, ReadOf(p, sec, at, n, out, new)
  PROVE  Has(done \o out, new, at + n, bad) /\ Lengthens(done \o out, done, out)
<1> DEFINE m == Skipped(p, sec, n)
           a == Through(at)
           f == Through(at + m)
           b == Through(at + n)
<1>1. /\ at \in Nat /\ n \in 1..Capacity /\ at + n \in 1..Len(stream) /\ Len(stream) \in Nat /\ Capacity \in Nat
  BY StreamAssumption, LenProperties DEF Carried, Broadcast, Streamed
<1>2. m \in 0..n
  <2>1. n \in Nat
    BY <1>1
  <2>2. m # 0 => m \in 1..n
    BY LeftOut
  <2> HIDE DEF m
  <2> QED
    BY <2>1, <2>2
<1>4. Told(out, f, b) /\ new \in {NoSection, Left(at + n)}
  BY DEF ReadOf
<1> HIDE DEF m
<1>5. a \in Nat /\ f \in Nat /\ b \in Nat /\ a <= f /\ f <= b /\ b <= N /\ N \in Nat
  <2>1. at \in 0..Len(stream) /\ at + m \in 0..Len(stream) /\ at + n \in 0..Len(stream) /\ at <= at + m /\ at + m <= at + n
    BY <1>1, <1>2
  <2>2. a \in 0..N /\ f \in 0..N /\ b \in 0..N /\ a <= f /\ f <= b
    BY <2>1, ThroughIs, ThroughGrows
  <2> QED
    BY <2>2, StreamAssumption
<1> HIDE DEF f, b
<1>7. done \in Seq(0..N) /\ Ascending(done) /\ \A i \in DOMAIN done : done[i] \in 1..a
  BY DEF Has
<1> HIDE DEF a
<1>8. /\ Lengthens(done \o out, done, out) /\ Ascending(done \o out)
      /\ \A i \in DOMAIN (done \o out) : (done \o out)[i] \in 1..b
  BY <1>4, <1>5, <1>7, ToldBehind
<1>9. ASSUME NEW k \in 1..b, k \notin bad PROVE Delivered(k, done \o out)
  <2>1. k \in 0..N
    BY <1>5
  <2>2. Delivered(k, done)
    BY <1>9 DEF Has, b
  <2> QED
    BY <1>8, <2>1, <2>2 DEF Lengthens
<1>10. Within(at + n) => stream[at + n + 1][1] \in bad
  BY SomeLeft DEF Has
<1>11. done \o out \in Seq(0..N)
  BY <1>8 DEF Lengthens
<1> QED
  BY <1>4, <1>8, <1>9, <1>10, <1>11 DEF Has, b
----------------------------------------------------------------------------
(* What is delivered. *)

\* libdvbpsi tells by the counter how many packets were lost; it gives up what it had in hand.
PushKnows ==
  /\ burst < CCs - 1
  /\ counter = CCs => section = NoSection
  /\ counter # CCs => (counter + burst) % CCs = cc
  /\ Has(gathered, IF burst = 0 THEN section ELSE NoSection, sent, torn \cup repeated)

\* The last packet ends where the stream was sent to. Where libdvbpsi has noticed a gap and no
\* section since, none ends in it behind the pointer.
LastEnds(n) ==
  /\ Carried(last, sent - n, n)
  /\ ~wrapped /\ discontinuity /\ last.start => Through(sent - n + last.pointer) = Through(sent)

LastKnown ==
  last # NoPacket => burst = 0 /\ cc = last.cc /\ counter = last.cc /\ \E n \in 1..sent : LastEnds(n)

\* The handler has missed g packets; the last one, if it was among them, it has not read.
HandlerMissed(g) ==
  /\ ecc = CCs => current = NoSection
  /\ ecc # CCs => (ecc + g) % CCs = cc
  /\ Has(parsed, IF g = 0 THEN current ELSE NoSection, sent, tornHere)
  /\ last # NoPacket =>
       IF g = 0 THEN ecc # CCs
       ELSE \E n \in 1..sent :
              /\ Carried(last, sent - n, n) /\ \A i \in DOMAIN parsed : parsed[i] \in 1..Through(sent - n)
              /\ g = 1 => current \in {NoSection, Left(sent - n)}

HandlerKnows == unseen < CCs - 1 /\ \E g \in 0..unseen : HandlerMissed(g)

DeliveryInv ==
  /\ unseen \in Nat /\ wrapped \in BOOLEAN /\ LastKnown
  /\ ~wrapped => PushKnows
  /\ ~wrapped /\ ~mixed => HandlerKnows

\* Behind b lost packets the counter is that of the next one, of the last one, or of neither.
LEMMA CounterTells ==
  ASSUME NEW e \in 0..CCs-1, NEW b \in Nat, b < CCs - 1, cc \in 0..CCs-1, (e + b) % CCs = cc
  PROVE  /\ (cc + 1) % CCs = (e + (b + 1)) % CCs /\ (cc + 1) % CCs # e
         /\ (cc + 1) % CCs = (e + 1) % CCs <=> b = 0
         /\ cc = e <=> b = 0
         /\ cc = (e + 1) % CCs <=> b = 1
<1>0. CCs \in Nat \ {0} /\ CCs > 2
  BY StreamAssumption
<1>1. b \in 0..CCs-1 /\ b + 1 \in 1..CCs-1 /\ b + 1 \in 0..CCs-1 /\ (b # 0 => b \in 1..CCs-2 /\ b \in 1..CCs-1)
      /\ (b # 0 /\ b # 1 => b - 1 \in 1..CCs-2 /\ (b - 1) + 1 = b)
  BY <1>0
<1>2. (cc + 1) % CCs = (e + (b + 1)) % CCs
  BY <1>0, <1>1, NextModulo
<1>3. (e + (b + 1)) % CCs # e
  BY <1>0, <1>1, NotItself
<1>4. (e + (b + 1)) % CCs = (e + 1) % CCs <=> b = 0
  <2>1. b # 0 => (e + (b + 1)) % CCs # (e + 1) % CCs
    BY <1>0, <1>1, OnlyOneIsNext
  <2>2. b = 0 => b + 1 = 1
    BY <1>0
  <2> QED
    BY <2>1, <2>2
<1>5. cc = e <=> b = 0
  <2>1. b # 0 => (e + b) % CCs # e
    BY <1>0, <1>1, NotItself
  <2>2. b = 0 => (e + b) % CCs = e
    BY <1>0, <1>1, Modulo
  <2> QED
    BY <2>1, <2>2
<1>6. cc = (e + 1) % CCs <=> b = 1
  <2>1. b = 0 => cc # (e + 1) % CCs
    <3>1. (e + 1) % CCs # e
      BY <1>0, NotItself
    <3> QED
      BY <1>5, <3>1
  <2>2. b # 0 /\ b # 1 => (e + b) % CCs # (e + 1) % CCs
    <3> DEFINE d == b - 1
    <3>1. b # 0 /\ b # 1 => d \in 1..CCs-2 /\ d + 1 = b
      BY <1>1
    <3> HIDE DEF d
    <3>2. d \in 1..CCs-2 => (e + (d + 1)) % CCs # (e + 1) % CCs
      BY <1>0, OnlyOneIsNext
    <3> QED
      BY <3>1, <3>2
  <2>3. b = 0 \/ b = 1 \/ (b # 0 /\ b # 1)
    OBVIOUS
  <2> QED
    BY <2>1, <2>2, <2>3
<1> QED
  BY <1>2, <1>3, <1>4, <1>5, <1>6

\* The next packet is put to the section in hand, unless some were lost.
LEMMA PushNext ==
  ASSUME Broadcast, DecoderOK, burst \in Nat, PushKnows, NEW p, IsPacket(p), p.cc = (cc + 1) % CCs,
         NEW garbage, Push(p, garbage)
  PROVE  /\ counter' = p.cc
         /\ \E flag \in BOOLEAN : Payload(p, IF burst = 0 THEN section ELSE NoSection, flag, garbage)
<1>1. /\ counter' = p.cc /\ counter \in 0..CCs /\ discontinuity \in BOOLEAN /\ cc \in 0..CCs-1
      /\ CCs \in Nat /\ CCs > 2 /\ burst \in Nat /\ burst < CCs - 1 /\ TRUE \in BOOLEAN
  BY StreamAssumption DEF Push, DecoderOK, Broadcast, PushKnows
<1>2. CASE counter = CCs
  <2>1. section = NoSection
    BY <1>2 DEF PushKnows
  <2>2. FirstPacket(p, garbage)
    BY <1>2 DEF Push, Duplicate, InSequence, Gap, InvalidCC
  <2> QED
    BY <1>1, <2>1, <2>2 DEF FirstPacket
<1>3. CASE counter # CCs
  <2>1. counter \in 0..CCs-1 /\ (counter + burst) % CCs = cc
    BY <1>1, <1>3 DEF PushKnows
  <2>2. (cc + 1) % CCs # counter /\ ((cc + 1) % CCs = (counter + 1) % CCs <=> burst = 0)
    BY <1>1, <2>1, CounterTells
  <2>3. ~FirstPacket(p, garbage) /\ ~Duplicate(p)
    BY <1>3, <2>2 DEF FirstPacket, Duplicate, InvalidCC
  <2>4. CASE burst = 0
    <3>1. InSequence(p, garbage)
      BY <2>2, <2>3, <2>4 DEF Push, Gap, Expected
    <3> QED
      BY <1>1, <2>4, <3>1 DEF InSequence
  <2>5. CASE burst # 0
    <3>1. Gap(p, garbage)
      BY <2>2, <2>3, <2>5 DEF Push, InSequence, Expected
    <3> QED
      BY <1>1, <2>5, <3>1 DEF Gap
  <2> QED
    BY <2>4, <2>5
<1> QED
  BY <1>2, <1>3

\* No section is told where none is behind the pointer.
LEMMA NoneTold ==
  ASSUME Broadcast, NEW p, IsPacket(p), NEW at, NEW n, Carried(p, at, n), NEW sec, NEW new,
         ReadOf(p, sec, at, n, <<>>, new), p.start
  PROVE  Through(at + p.pointer) = Through(at + n)
<1> DEFINE m == Skipped(p, sec, n)
           f == Through(at + m)
           g == Through(at + p.pointer)
           b == Through(at + n)
<1>1. /\ at \in Nat /\ n \in 1..Capacity /\ at + n \in 1..Len(stream) /\ Len(stream) \in Nat /\ Capacity \in Nat
      /\ p.pointer \in Nat /\ p.pointer + 1 \in 1..n
  <2>1. /\ at \in Nat /\ n \in 1..Capacity /\ at + n \in 1..Len(stream) /\ Len(stream) \in Nat /\ Capacity \in Nat
    BY StreamAssumption, LenProperties DEF Carried, Broadcast, Streamed
  <2>2. p.pointer \in Nat /\ p.pointer + 1 \in 1..n
    BY PointerIs
  <2> QED
    BY <2>1, <2>2
<1>2. m = 0 \/ m = p.pointer
  BY DEF Skipped
<1>3. Told(<<>>, f, b)
  BY DEF ReadOf
<1> HIDE DEF m
<1>4. f \in Nat /\ g \in Nat /\ b \in Nat /\ f <= g /\ g <= b
  <2>1. /\ at + m \in 0..Len(stream) /\ at + p.pointer \in 0..Len(stream) /\ at + n \in 0..Len(stream)
        /\ at + m <= at + p.pointer /\ at + p.pointer <= at + n
    <3> DEFINE q == p.pointer
    <3>1. q \in Nat /\ q + 1 \in 1..n /\ (m = 0 \/ m = q)
      BY <1>1, <1>2
    <3> HIDE DEF q
    <3>2. /\ at + m \in 0..Len(stream) /\ at + q \in 0..Len(stream) /\ at + n \in 0..Len(stream)
          /\ at + m <= at + q /\ at + q <= at + n
      BY <1>1, <3>1
    <3> QED
      BY <3>2 DEF q
  <2>2. f \in 0..N /\ g \in 0..N /\ b \in 0..N /\ f <= g /\ g <= b
    BY <2>1, ThroughIs, ThroughGrows
  <2> QED
    BY <2>2, StreamAssumption
<1> HIDE DEF f, g, b
<1>5. ~(f < b)
  <2> SUFFICES ASSUME f < b PROVE FALSE
    OBVIOUS
  <2>1. b \in f+1..b
    BY <1>4
  <2>2. Delivered(b, <<>>)
    BY <1>3, <2>1 DEF Told
  <2> QED
    BY <2>2 DEF Delivered
<1>6. g = b
  BY <1>4, <1>5
<1> QED
  BY <1>6 DEF g, b

Longer(a, b) == Len(a) <= Len(b) /\ SubSeq(a, 1, Len(a)) = SubSeq(b, 1, Len(a))

\* What a packet gives to libdvbpsi.
LEMMA PushGives ==
  ASSUME Broadcast, DecoderOK, burst \in Nat, PushKnows, NEW p, IsPacket(p), NEW n, Carried(p, sent, n),
         p.cc = (cc + 1) % CCs, NEW garbage \in 1..MaxBody+1, Push(p, garbage)
  PROVE  /\ counter' = p.cc /\ Longer(gathered, gathered')
         /\ Has(gathered', section', sent + n, torn \cup repeated)
         /\ discontinuity' /\ p.start => Through(sent + p.pointer) = Through(sent + n)
<1> DEFINE sec == IF burst = 0 THEN section ELSE NoSection
           bad == torn \cup repeated
<1>1. counter' = p.cc /\ \E flag \in BOOLEAN : Payload(p, sec, flag, garbage)
  BY PushNext
<1>2. Has(gathered, sec, sent, bad)
  BY DEF PushKnows
<1>3. Assembly(sec)
  BY FreshSections DEF DecoderOK
<1> HIDE DEF sec, bad
<1>4. sec \in {NoSection, Left(sent)}
  BY <1>2 DEF Has
<1>5. PICK flag \in BOOLEAN : Payload(p, sec, flag, garbage)
  BY <1>1
<1>6. PICK out : /\ ReadOf(p, sec, sent, n, out, section')
                 /\ gathered' = gathered \o out /\ discontinuity' = (flag /\ out = <<>>)
  BY <1>3, <1>4, <1>5, PayloadOn
<1>7. Has(gathered \o out, section', sent + n, bad) /\ Lengthens(gathered \o out, gathered, out)
  BY <1>2, <1>6, HasMore
<1>8. Longer(gathered, gathered')
  BY <1>6, <1>7 DEF Lengthens, Longer
<1>9. Has(gathered', section', sent + n, bad)
  BY <1>6, <1>7
<1>10. ASSUME discontinuity', p.start PROVE Through(sent + p.pointer) = Through(sent + n)
  <2>1. out = <<>>
    BY <1>6, <1>10
  <2>2. ReadOf(p, sec, sent, n, <<>>, section')
    BY <1>6, <2>1
  <2> QED
    BY <1>10, <2>2, NoneTold
<1> QED
  BY <1>1, <1>8, <1>9, <1>10 DEF bad

\* The stream stays as it is.
LEMMA PushKnowsNext ==
  ASSUME UNCHANGED <<lengths, stream>>, NEW n, sent' = sent + n, burst' = 0, UNCHANGED <<torn, repeated>>,
         Has(gathered', section', sent + n, torn \cup repeated),
         NEW c \in 0..CCs-1, counter' = c, cc' = c
  PROVE  PushKnows'
<1>1. (c + 0) % CCs = c /\ c # CCs /\ 0 < CCs - 1
  BY StreamAssumption
<1>2. Has(gathered, section, sent, torn \cup repeated)'
  BY DEF Has, Through, Within, Left, PartAt, Part, Bytes, EndsSection, Ascending, Delivered
<1> QED
  BY <1>1, <1>2 DEF PushKnows

LEMMA LongerSame ==
  ASSUME NEW s \in Seq(0..N)
  PROVE  Longer(s, s)
<1>1. Len(s) \in Nat
  BY LenProperties
<1> QED
  BY <1>1 DEF Longer

LEMMA ArrivePush ==
  ASSUME ReceptionInv, LastKnown, ~wrapped => PushKnows, wrapped \in BOOLEAN, NEW n \in Cuts, Arrive(n)
  PROVE  LastKnown' /\ (~wrapped' => ~wrapped /\ PushKnows' /\ Longer(gathered, gathered'))
<1> DEFINE p == PacketOf(n)
<1>1. /\ sent' = sent + n /\ cc' = p.cc /\ last' = p /\ burst' = 0 /\ UNCHANGED <<lengths, stream, torn, repeated>>
      /\ wrapped' = (wrapped \/ CountsRound(unseen')) /\ Deliver(p)
  BY DEF Arrive
<1>2. /\ Broadcast /\ DecoderOK /\ burst \in Nat /\ sent \in Nat /\ n \in Nat /\ n > 0
  BY CutsAre, SequenceAssumption DEF ReceptionInv, LossesInv, Broadcast, Cut
<1>3. Carried(p, sent, n) /\ IsPacket(p) /\ p.cc = (cc + 1) % CCs
  BY <1>2, CarriedIs
<1> HIDE DEF p
<1>4. PICK garbage \in 1..MaxBody + 1 : Push(p, garbage)
  BY <1>1 DEF Deliver
<1>5. ASSUME ~wrapped
      PROVE  /\ counter' = p.cc /\ Longer(gathered, gathered')
             /\ Has(gathered', section', sent + n, torn \cup repeated)
             /\ discontinuity' /\ p.start => Through(sent + p.pointer) = Through(sent + n)
  BY <1>2, <1>3, <1>4, <1>5, PushGives
<1>6. counter' = p.cc /\ p.cc \in 0..CCs-1
  BY <1>3, <1>4 DEF Push, IsPacket
<1>7. ~wrapped' => ~wrapped
  BY <1>1
<1>8. LastKnown'
  <2>1. n \in 1..sent' /\ sent' - n = sent
    BY <1>1, <1>2
  <2>2. LastEnds(n)'
    <3>1. Carried(last', sent' - n, n)
      BY <1>1, <1>3, <2>1
    <3>2. ASSUME ~wrapped', discontinuity', p.start PROVE Through(sent + p.pointer) = Through(sent + n)
      BY <1>5, <1>7, <3>2
    <3>3. Carried(last, sent - n, n)'
      BY <1>1, <3>1 DEF Carried, EndsSection
    <3>4. (~wrapped /\ discontinuity /\ last.start => Through(sent - n + last.pointer) = Through(sent))'
      BY <1>1, <2>1, <3>2 DEF Through, EndsSection
    <3> QED
      BY <3>3, <3>4 DEF LastEnds
  <2> QED
    BY <1>1, <1>6, <2>1, <2>2 DEF LastKnown
<1>9. ASSUME ~wrapped' PROVE PushKnows' /\ Longer(gathered, gathered')
  BY <1>1, <1>5, <1>6, <1>7, <1>9, PushKnowsNext
<1> QED
  BY <1>7, <1>8, <1>9

\* The sections that a packet has bytes of.
LEMMA CarriesAll ==
  ASSUME Broadcast, NEW p, IsPacket(p), NEW at, NEW n, Carried(p, at, n), NEW bad
  PROVE  \A i \in 1..n : stream[at + i][1] \in bad \cup Carries(p)
BY CarriesAre

LEMMA LosePush ==
  ASSUME ReceptionInv, ~wrapped => PushKnows, wrapped \in BOOLEAN, NEW n \in Cuts, Lose(n)
  PROVE  LastKnown' /\ (~wrapped' => ~wrapped /\ PushKnows' /\ Longer(gathered, gathered'))
<1> DEFINE p == PacketOf(n)
           bad == torn \cup repeated
           worse == torn \cup Carries(p) \cup repeated
<1>1. /\ sent' = sent + n /\ cc' = p.cc /\ last' = NoPacket /\ burst' = burst + 1
      /\ UNCHANGED <<lengths, stream, repeated, counter, discontinuity, section, gathered>>
      /\ wrapped' = (wrapped \/ CountsRound(burst') \/ CountsRound(unseen'))
      /\ torn' = torn \cup Carries(p)
  BY DEF Lose, decoder
<1>2. /\ Broadcast /\ DecoderOK /\ burst \in Nat /\ sent \in Nat /\ n \in Nat /\ n > 0 /\ sent + n \in 1..Len(stream)
      /\ CCs \in Nat \ {0} /\ CCs > 2
  BY CutsAre, SequenceAssumption, StreamAssumption DEF ReceptionInv, LossesInv, Broadcast, Cut
<1>3. Carried(p, sent, n) /\ IsPacket(p) /\ p.cc = (cc + 1) % CCs
  BY <1>2, CarriedIs
<1> HIDE DEF p
<1>4. ~wrapped' => ~wrapped /\ burst' < CCs - 1
  <2>1. ~wrapped' => ~wrapped /\ ~CountsRound(burst')
    BY <1>1
  <2> QED
    BY <1>1, <1>2, <2>1 DEF CountsRound
<1>5. ASSUME ~wrapped' PROVE PushKnows' /\ Longer(gathered, gathered')
  <2> DEFINE sec == IF burst = 0 THEN section ELSE NoSection
  <2>1. PushKnows
    BY <1>4, <1>5
  <2>2. Has(gathered, sec, sent, bad)
    BY <2>1 DEF PushKnows
  <2>3. bad \subseteq worse /\ \A i \in 1..n : stream[sent + i][1] \in worse
    BY <1>2, <1>3, CarriesAll
  <2> HIDE DEF sec, bad, worse
  <2>4. Has(gathered, NoSection, sent + n, worse)
    BY <1>2, <2>2, <2>3, HasLost
  <2>5. Has(gathered, NoSection, sent, torn \cup repeated)'
    <3>1. torn' \cup repeated' = worse
      BY <1>1 DEF worse
    <3> QED
      BY <1>1, <2>4, <3>1 DEF Has, Through, Within, Left, PartAt, Part, Bytes, EndsSection, Ascending, Delivered, NoSection
  <2>6. counter # CCs => (counter + burst') % CCs = cc'
    <3> HAVE counter # CCs
    <3>1. counter \in 0..CCs-1 /\ (counter + burst) % CCs = cc /\ burst + 1 \in 0..CCs-1
      BY <1>1, <1>2, <1>4, <1>5, <2>1 DEF PushKnows, DecoderOK
    <3>2. (((counter + burst) % CCs) + 1) % CCs = (counter + (burst + 1)) % CCs
      BY <1>2, <3>1, NextModulo
    <3> QED
      BY <1>1, <1>3, <3>1, <3>2
  <2>7. burst' # 0
    BY <1>1, <1>2
  <2>8. PushKnows'
    BY <1>1, <1>4, <1>5, <2>1, <2>5, <2>6, <2>7 DEF PushKnows, NoSection
  <2> QED
    BY <1>1, <1>2, <2>8, LongerSame DEF DecoderOK
<1> QED
  BY <1>1, <1>4, <1>5 DEF LastKnown, NoPacket

\* A packet that comes once more is known by its counter, or has no section to tell.
LEMMA RepeatPush ==
  ASSUME ReceptionInv, LastKnown, ~wrapped => PushKnows, Repeat
  PROVE  LastKnown' /\ (~wrapped' => ~wrapped /\ PushKnows' /\ Longer(gathered, gathered'))
<1>1. /\ last # NoPacket /\ last' = NoPacket /\ Deliver(last) /\ repeated' = repeated \cup Carries(last)
      /\ UNCHANGED <<lengths, stream, sent, cc, burst, torn, wrapped>>
  BY DEF Repeat
<1>2. /\ Broadcast /\ DecoderOK /\ IsPacket(last) /\ sent \in Nat /\ CCs \in Nat /\ CCs > 2
  BY <1>1, StreamAssumption DEF ReceptionInv, LastOK, Broadcast
<1>3. PICK garbage \in 1..MaxBody + 1 : Push(last, garbage)
  BY <1>1 DEF Deliver
<1>4. burst = 0 /\ cc = last.cc /\ counter = last.cc
  BY <1>1 DEF LastKnown
<1>5. PICK n \in 1..sent : LastEnds(n)
  BY <1>1 DEF LastKnown
<1> DEFINE at == sent - n
           bad == torn \cup repeated
           worse == torn \cup (repeated \cup Carries(last))
<1>6. at + n = sent /\ Carried(last, at, n) /\ n \in 1..n
  BY <1>2, <1>5 DEF LastEnds
<1>7. last.cc \in 0..CCs-1 /\ (last.cc + 1) % CCs # last.cc /\ last.cc # CCs
  <2> DEFINE c == last.cc
  <2>1. c \in 0..CCs-1
    BY <1>2 DEF IsPacket
  <2> HIDE DEF c
  <2>2. (c + 1) % CCs # c /\ c # CCs
    BY <1>2, <2>1, NotItself
  <2> QED
    BY <2>1, <2>2 DEF c
<1>8. \/ UNCHANGED <<discontinuity, section, gathered>>
      \/ discontinuity /\ Payload(last, NoSection, TRUE, garbage)
  BY <1>3, <1>4, <1>7 DEF Push, FirstPacket, Duplicate, InSequence, Gap, InvalidCC, Expected
<1>9. counter' = last.cc
  BY <1>3 DEF Push
<1>10. ASSUME ~wrapped PROVE PushKnows' /\ Longer(gathered, gathered')
  <2>1. Has(gathered, section, sent, bad) /\ gathered \in Seq(0..N)
    BY <1>4, <1>10 DEF PushKnows, Has
  <2>2. bad \subseteq worse
    OBVIOUS
  <2> HIDE DEF at, bad
  <2>3. gathered' = gathered /\ Has(gathered, section', sent, worse)
    <3>1. CASE UNCHANGED <<discontinuity, section, gathered>>
      BY <2>1, <2>2, <3>1, HasWorse
    <3>2. CASE discontinuity /\ Payload(last, NoSection, TRUE, garbage)
      <4>1. PICK out : ReadOf(last, NoSection, at, n, out, section') /\ gathered' = gathered \o out
        BY <1>2, <1>6, <3>2, FreshSections, PayloadOn
      <4>2. Told(out, Through(at + Skipped(last, NoSection, n)), Through(sent)) /\ section' \in {NoSection, Left(sent)}
        BY <1>6, <4>1 DEF ReadOf
      <4>3. Through(at + Skipped(last, NoSection, n)) = Through(sent)
        <5>1. CASE last.start
          <6>1. Through(at + last.pointer) = Through(sent)
            BY <1>5, <1>10, <3>2, <5>1 DEF LastEnds, at
          <6> QED
            BY <5>1, <6>1 DEF Skipped
        <5>2. CASE ~last.start
          BY <1>6, <5>2 DEF Skipped
        <5> QED
          BY <5>1, <5>2
      <4>4. out = <<>>
        <5> DEFINE f == Through(sent)
        <5>1. f \in Nat
          <6>1. f \in 0..N
            BY <1>2, ThroughIs DEF Broadcast
          <6> QED
            BY <6>1, StreamAssumption
        <5>2. Told(out, f, f)
          BY <4>2, <4>3
        <5> HIDE DEF f
        <5> QED
          BY <5>1, <5>2, ToldNothing
      <4>5. gathered' = gathered
        BY <2>1, <4>1, <4>4
      <4>6. Within(sent) => stream[sent + 1][1] \in worse
        <5> HAVE Within(sent)
        <5>1. sent \in 1..Len(stream)
          BY <1>2, <1>5 DEF Broadcast
        <5>2. stream[sent + 1][1] = stream[sent][1]
          BY <1>2, <5>1, GoneOn
        <5>3. stream[at + n][1] \in Carries(last)
          BY <1>2, <1>6, CarriesAre
        <5> QED
          BY <1>6, <5>2, <5>3
      <4>7. Has(gathered, section, sent, worse)
        BY <2>1, <2>2, HasWorse
      <4> HIDE DEF worse
      <4> QED
        BY <4>2, <4>5, <4>6, <4>7 DEF Has
    <3> QED
      BY <1>8, <3>1, <3>2
  <2> HIDE DEF worse
  <2>4. Has(gathered, section, sent, torn \cup repeated)'
    <3>1. torn' \cup repeated' = worse
      BY <1>1 DEF worse
    <3> QED
      BY <1>1, <2>3, <3>1 DEF Has, Through, Within, Left, PartAt, Part, Bytes, EndsSection, Ascending, Delivered, NoSection
  <2>5. PushKnows'
    <3>1. counter' = counter /\ burst' = 0
      BY <1>1, <1>4, <1>9
    <3>2. counter' # CCs /\ burst' < CCs - 1
      BY <1>2, <1>7, <1>9, <3>1
    <3>3. (counter' + burst') % CCs = cc'
      BY <1>1, <1>4, <1>7, <1>10, <3>1 DEF PushKnows
    <3> QED
      BY <2>4, <3>1, <3>2, <3>3 DEF PushKnows
  <2> QED
    BY <2>1, <2>3, <2>5, LongerSame
<1> QED
  BY <1>1, <1>10 DEF LastKnown, NoPacket

\* Nothing changes of what libdvbpsi knows.
LEMMA StillPush ==
  ASSUME ReceptionInv, LastKnown, ~wrapped => PushKnows, UNCHANGED <<sender, decoder, network, history>>
  PROVE  LastKnown' /\ (~wrapped' => ~wrapped /\ PushKnows' /\ Longer(gathered, gathered'))
<1>1. UNCHANGED <<lengths, stream, sent, cc, last, counter, discontinuity, section, gathered, burst, torn, repeated, wrapped>>
  BY DEF sender, decoder, network, history
<1>2. LastKnown'
  BY <1>1 DEF LastKnown, LastEnds, Carried, Through, EndsSection, NoPacket
<1>3. gathered \in Seq(0..N)
  BY DEF ReceptionInv, DecoderOK
<1>4. PushKnows => PushKnows'
  BY <1>1 DEF PushKnows, Has, Through, Within, Left, PartAt, Part, Bytes, EndsSection, Ascending, Delivered, NoSection
<1> QED
  BY <1>1, <1>2, <1>3, <1>4, LongerSame

LEMMA PushDelivers ==
  ASSUME ReceptionInv, LastKnown, ~wrapped => PushKnows, wrapped \in BOOLEAN, [Next]_vars
  PROVE  LastKnown' /\ (~wrapped' => ~wrapped /\ PushKnows' /\ Longer(gathered, gathered'))
<1>1. CASE HandlerSwitched
  BY <1>1, StillPush DEF HandlerSwitched
<1>2. CASE UNCHANGED vars
  BY <1>2, StillPush DEF vars
<1> QED
  BY <1>1, <1>2, ArrivePush, LosePush, RepeatPush DEF Next

LEMMA ParseNext ==
  ASSUME Broadcast, HandlerOK, NEW g \in Nat, g < CCs - 1, HandlerMissed(g), NEW p, IsPacket(p), p.cc = (cc + 1) % CCs,
         NEW garbage, Parse(p, garbage)
  PROVE  ecc' = p.cc /\ Data(p, IF g = 0 THEN current ELSE NoSection, garbage)
<1>1. /\ ecc' = p.cc /\ p.cc \in 0..CCs-1 /\ ecc \in 0..CCs /\ cc \in 0..CCs-1 /\ CCs \in Nat /\ p.cc # CCs
  <2>1. /\ ecc' = p.cc /\ p.cc \in 0..CCs-1 /\ ecc \in 0..CCs /\ cc \in 0..CCs-1 /\ CCs \in Nat
    BY StreamAssumption DEF Parse, HandlerOK, Broadcast, IsPacket
  <2> DEFINE c == p.cc
  <2>2. c \in 0..CCs-1
    BY <2>1
  <2> HIDE DEF c
  <2>3. c # CCs
    BY <2>1, <2>2
  <2> QED
    BY <2>1, <2>3 DEF c
<1>2. CASE ecc = CCs
  <2>1. current = NoSection
    BY <1>2 DEF HandlerMissed
  <2>2. ParseInSequence(p, garbage)
    BY <1>1, <1>2 DEF Parse, ParseDuplicate, ParseGap, INVALID_CC
  <2> QED
    BY <1>1, <2>1, <2>2 DEF ParseInSequence
<1>3. CASE ecc # CCs
  <2>1. ecc \in 0..CCs-1 /\ (ecc + g) % CCs = cc
    BY <1>1, <1>3 DEF HandlerMissed
  <2>2. (cc + 1) % CCs # ecc /\ ((cc + 1) % CCs = (ecc + 1) % CCs <=> g = 0)
    BY <1>1, <2>1, CounterTells
  <2>3. ~ParseDuplicate(p)
    BY <2>2 DEF ParseDuplicate
  <2>4. CASE g = 0
    <3>1. ParseInSequence(p, garbage)
      BY <2>2, <2>3, <2>4 DEF Parse, ParseGap
    <3> QED
      BY <1>1, <2>4, <3>1 DEF ParseInSequence
  <2>5. CASE g # 0
    <3>1. ParseGap(p, garbage)
      BY <1>3, <2>2, <2>3, <2>5 DEF Parse, ParseInSequence, INVALID_CC
    <3> QED
      BY <1>1, <2>5, <3>1 DEF ParseGap
  <2> QED
    BY <2>4, <2>5
<1> QED
  BY <1>2, <1>3

\* The last packet comes once more: a handler that has read it leaves it out.
LEMMA ParseLast ==
  ASSUME Broadcast, HandlerOK, NEW g \in Nat, g < CCs - 1, HandlerMissed(g), last # NoPacket, IsPacket(last), cc = last.cc,
         NEW garbage, Parse(last, garbage)
  PROVE  /\ ecc' = last.cc
         /\ \/ g = 0 /\ UNCHANGED <<current, parsed>>
            \/ g # 0 /\ Data(last, IF g = 1 THEN current ELSE NoSection, garbage)
<1>1. /\ ecc' = last.cc /\ ecc \in 0..CCs /\ cc \in 0..CCs-1 /\ CCs \in Nat /\ last.cc = cc /\ cc # CCs
  <2>1. /\ ecc' = last.cc /\ ecc \in 0..CCs /\ cc \in 0..CCs-1 /\ CCs \in Nat /\ last.cc = cc
    BY StreamAssumption DEF Parse, HandlerOK, Broadcast
  <2> QED
    BY <2>1
<1>2. CASE ecc = CCs
  <2>1. current = NoSection /\ g # 0
    BY <1>2 DEF HandlerMissed
  <2>2. ParseInSequence(last, garbage)
    BY <1>1, <1>2 DEF Parse, ParseDuplicate, ParseGap, INVALID_CC
  <2> QED
    BY <1>1, <2>1, <2>2 DEF ParseInSequence
<1>3. CASE ecc # CCs
  <2>1. ecc \in 0..CCs-1 /\ (ecc + g) % CCs = cc
    BY <1>1, <1>3 DEF HandlerMissed
  <2>2. (cc = ecc <=> g = 0) /\ (cc = (ecc + 1) % CCs <=> g = 1)
    BY <1>1, <2>1, CounterTells
  <2>3. CASE g = 0
    <3>1. ParseDuplicate(last)
      <4>1. ~(cc = (ecc + 1) % CCs)
        BY <2>2, <2>3
      <4> QED
        BY <1>1, <1>3, <2>2, <2>3, <4>1 DEF Parse, ParseInSequence, ParseGap, INVALID_CC
    <3> QED
      BY <1>1, <2>3, <3>1 DEF ParseDuplicate
  <2>4. CASE g = 1
    <3>1. ParseInSequence(last, garbage)
      BY <1>1, <2>2, <2>4 DEF Parse, ParseDuplicate, ParseGap
    <3> QED
      BY <1>1, <2>4, <3>1 DEF ParseInSequence
  <2>5. CASE g # 0 /\ g # 1
    <3>1. ParseGap(last, garbage)
      BY <1>1, <1>3, <2>2, <2>5 DEF Parse, ParseDuplicate, ParseInSequence, INVALID_CC
    <3> QED
      BY <1>1, <2>5, <3>1 DEF ParseGap
  <2> QED
    BY <2>3, <2>4, <2>5
<1> QED
  BY <1>2, <1>3

\* The stream stays as it is.
LEMMA HandlerKnowsNext ==
  ASSUME UNCHANGED <<lengths, stream>>, NEW n, sent' = sent + n, tornHere' = tornHere,
         Has(parsed', current', sent + n, tornHere),
         NEW c \in 0..CCs-1, ecc' = c, cc' = c
  PROVE  HandlerMissed(0)'
<1>1. (c + 0) % CCs = c /\ c # CCs
  BY StreamAssumption
<1>2. Has(parsed, current, sent, tornHere)'
  BY DEF Has, Through, Within, Left, PartAt, Part, Bytes, EndsSection, Ascending, Delivered
<1> QED
  BY <1>1, <1>2 DEF HandlerMissed

LEMMA ArriveParsed ==
  ASSUME ReceptionInv, unseen \in Nat, ~wrapped /\ ~mixed => HandlerKnows, NEW n \in Cuts, Arrive(n), attached, ~wrapped', ~mixed'
  PROVE  ~wrapped /\ ~mixed /\ HandlerKnows' /\ Longer(parsed, parsed')
<1> DEFINE p == PacketOf(n)
<1>1. /\ sent' = sent + n /\ cc' = p.cc /\ last' = p /\ UNCHANGED <<lengths, stream>>
      /\ tornHere' = tornHere /\ unseen' = 0 /\ wrapped' = (wrapped \/ CountsRound(unseen')) /\ Deliver(p)
  BY DEF Arrive
<1>2. /\ Broadcast /\ HandlerOK /\ sent \in Nat /\ n \in Nat /\ CCs \in Nat /\ CCs > 2
  BY CutsAre, StreamAssumption DEF ReceptionInv, Broadcast, Cut
<1>3. Carried(p, sent, n) /\ IsPacket(p) /\ p.cc = (cc + 1) % CCs
  BY <1>2, CarriedIs
<1> HIDE DEF p
<1>4. PICK garbage \in 1..MaxBody + 1 : Parse(p, garbage)
  BY <1>1 DEF Deliver, PushToHandler
<1>5. ~wrapped /\ mixed \in BOOLEAN /\ p.cc \in 0..CCs-1
  BY <1>1, <1>2, <1>3 DEF HandlerOK, IsPacket
<1>6. ~mixed
  BY <1>4 DEF Parse, ParseDuplicate, ParseInSequence, ParseGap, Data
<1>7. PICK g \in 0..unseen : HandlerMissed(g) /\ unseen < CCs - 1
  BY <1>5, <1>6 DEF HandlerKnows
<1>8. g \in Nat /\ g < CCs - 1
  BY <1>2, <1>7
<1> DEFINE sec == IF g = 0 THEN current ELSE NoSection
<1>9. ecc' = p.cc /\ Data(p, sec, garbage)
  BY <1>2, <1>3, <1>4, <1>7, <1>8, ParseNext
<1>10. Has(parsed, sec, sent, tornHere) /\ Assembly(sec)
  BY <1>2, <1>7, FreshSections DEF HandlerMissed, HandlerOK
<1> HIDE DEF sec
<1>11. sec \in {NoSection, Left(sent)} /\ ~(p.start /\ sec # NoSection)
  BY <1>9, <1>10 DEF Has, Data
<1>12. PICK out : ReadOf(p, sec, sent, n, out, current') /\ parsed' = parsed \o out
  BY <1>2, <1>3, <1>9, <1>10, <1>11, DataOn
<1>13. Has(parsed \o out, current', sent + n, tornHere) /\ Lengthens(parsed \o out, parsed, out)
  BY <1>2, <1>3, <1>10, <1>12, HasMore
<1>14. Has(parsed', current', sent + n, tornHere)
  BY <1>12, <1>13
<1>15. HandlerMissed(0)'
  BY <1>1, <1>5, <1>9, <1>14, HandlerKnowsNext
<1>16. HandlerKnows'
  <2>1. unseen' < CCs - 1 /\ 0 \in 0..unseen'
    BY <1>1, <1>2
  <2> QED
    BY <1>15, <2>1 DEF HandlerKnows
<1> QED
  BY <1>5, <1>6, <1>12, <1>13, <1>16 DEF Lengthens, Longer

\* A packet goes by that the handler does not get.
LEMMA HandlerWithout ==
  ASSUME Broadcast, HandlerOK, unseen \in Nat, HandlerKnows, NEW n \in Cuts,
         sent' = sent + n, cc' = PacketOf(n).cc, last' = PacketOf(n) \/ last' = NoPacket, unseen' = unseen + 1,
         tornHere' = tornHere \cup Carries(PacketOf(n)), unseen' < CCs - 1,
         UNCHANGED <<lengths, stream, ecc, current, parsed>>
  PROVE  HandlerKnows' /\ Longer(parsed, parsed')
<1> DEFINE p == PacketOf(n)
           worse == tornHere \cup Carries(p)
<1>1. /\ Carried(p, sent, n) /\ IsPacket(p) /\ p.cc = (cc + 1) % CCs
      /\ sent \in Nat /\ n \in Nat /\ n > 0 /\ sent + n \in 1..Len(stream) /\ CCs \in Nat \ {0} /\ CCs > 2
      /\ cc \in 0..CCs-1 /\ ecc \in 0..CCs
  <2>1. Carried(p, sent, n) /\ IsPacket(p) /\ p.cc = (cc + 1) % CCs
    BY CarriedIs
  <2>2. sent \in Nat /\ n \in Nat /\ n > 0 /\ sent + n \in 1..Len(stream)
    BY CutsAre DEF Broadcast, Cut
  <2> QED
    BY <2>1, <2>2, StreamAssumption DEF Broadcast, HandlerOK
<1>2. PICK g \in 0..unseen : HandlerMissed(g)
  BY DEF HandlerKnows
<1> DEFINE h == g + 1
<1>3. g \in Nat /\ h \in 0..unseen' /\ h # 0 /\ h \in 0..CCs-1 /\ (h = 1 => g = 0)
  <2>1. unseen' = unseen + 1 /\ unseen \in Nat /\ g \in 0..unseen /\ unseen + 1 < CCs - 1
    OBVIOUS
  <2> QED
    BY <1>1, <2>1
<1> DEFINE sec == IF g = 0 THEN current ELSE NoSection
<1>4. Has(parsed, sec, sent, tornHere) /\ (ecc = CCs => current = NoSection)
  BY <1>2 DEF HandlerMissed
<1>5. tornHere \subseteq worse /\ \A i \in 1..n : stream[sent + i][1] \in worse
  BY <1>1, CarriesAll
<1>6. cc' = p.cc /\ tornHere' = worse /\ (last' = p \/ last' = NoPacket)
  OBVIOUS
<1> HIDE DEF p, sec, worse
<1>7. Has(parsed, NoSection, sent + n, worse)
  BY <1>1, <1>4, <1>5, HasLost
<1>8. Has(parsed, NoSection, sent, tornHere)'
  BY <1>6, <1>7 DEF Has, Through, Within, Left, PartAt, Part, Bytes, EndsSection, Ascending, Delivered, NoSection
<1>9. ecc # CCs => (ecc + h) % CCs = cc'
  <2> HAVE ecc # CCs
  <2>1. ecc \in 0..CCs-1 /\ (ecc + g) % CCs = cc
    BY <1>1, <1>2 DEF HandlerMissed
  <2>2. (((ecc + g) % CCs) + 1) % CCs = (ecc + h) % CCs
    BY <1>1, <1>3, <2>1, NextModulo
  <2> QED
    BY <1>1, <1>6, <2>1, <2>2
<1>10. ASSUME last' # NoPacket
       PROVE  \E m \in 1..sent' :
                /\ Carried(last, sent - m, m)' /\ \A i \in DOMAIN parsed' : parsed'[i] \in 1..Through(sent - m)'
                /\ h = 1 => current' \in {NoSection, Left(sent - m)'}
  <2>1. last' = p /\ sent' - n = sent /\ n \in 1..sent'
    BY <1>1, <1>6, <1>10
  <2>2. Carried(last', sent' - n, n)
    BY <1>1, <2>1
  <2>3. Carried(last, sent - n, n)'
    BY <2>2 DEF Carried, EndsSection
  <2>4. \A i \in DOMAIN parsed' : parsed'[i] \in 1..Through(sent - n)'
    <3>1. Through(sent - n)' = Through(sent)
      BY <2>1 DEF Through, EndsSection
    <3>2. \A i \in DOMAIN parsed : parsed[i] \in 1..Through(sent)
      BY <1>4 DEF Has
    <3> QED
      BY <3>1, <3>2
  <2>5. h = 1 => current' \in {NoSection, Left(sent - n)'}
    <3> HAVE h = 1
    <3>1. current \in {NoSection, Left(sent)}
      BY <1>3, <1>4 DEF Has, sec
    <3>2. Left(sent - n)' = Left(sent)
      BY <2>1 DEF Left, Within, PartAt, Part, Bytes, NoSection
    <3> QED
      BY <3>1, <3>2
  <2> QED
    BY <2>1, <2>3, <2>4, <2>5
<1> HIDE DEF h
<1>11. HandlerMissed(h)'
  <2>1. current' = current /\ ecc' = ecc /\ NoSection' = NoSection
    BY DEF NoSection
  <2>2. Has(parsed, IF h = 0 THEN current ELSE NoSection, sent, tornHere)'
    BY <1>3, <1>8
  <2>3. last' # NoPacket =>
          \E m \in 1..sent' :
                /\ Carried(last, sent - m, m)' /\ \A i \in DOMAIN parsed' : parsed'[i] \in 1..Through(sent - m)'
                /\ h = 1 => current' \in {NoSection, Left(sent - m)'}
    BY <1>10
  <2> QED
    BY <1>3, <1>4, <1>9, <2>1, <2>2, <2>3 DEF HandlerMissed, NoPacket
<1>12. HandlerKnows'
  BY <1>3, <1>11 DEF HandlerKnows
<1> QED
  BY <1>12, LongerSame DEF HandlerOK

\* The last packet comes once more to a handler that may have missed it.
LEMMA RepeatParsed ==
  ASSUME ReceptionInv, LastKnown, unseen \in Nat, ~wrapped /\ ~mixed => HandlerKnows, Repeat, attached, ~wrapped', ~mixed'
  PROVE  ~wrapped /\ ~mixed /\ HandlerKnows' /\ Longer(parsed, parsed')
<1>1. /\ last # NoPacket /\ last' = NoPacket /\ Deliver(last)
      /\ UNCHANGED <<lengths, stream, sent, cc, unseen, tornHere, wrapped>>
  BY DEF Repeat
<1>2. /\ Broadcast /\ HandlerOK /\ IsPacket(last) /\ sent \in Nat /\ CCs \in Nat /\ CCs > 2 /\ cc = last.cc
      /\ cc \in 0..CCs-1 /\ mixed \in BOOLEAN
  BY <1>1, StreamAssumption DEF ReceptionInv, LastOK, LastKnown, Broadcast, HandlerOK
<1>3. PICK garbage \in 1..MaxBody + 1 : Parse(last, garbage)
  BY <1>1 DEF Deliver, PushToHandler
<1>4. ~wrapped /\ ~mixed
  BY <1>1, <1>2, <1>3 DEF Parse, ParseDuplicate, ParseInSequence, ParseGap, Data
<1>5. PICK g \in 0..unseen : HandlerMissed(g) /\ unseen < CCs - 1
  BY <1>4 DEF HandlerKnows
<1>6. g \in Nat /\ g < CCs - 1 /\ 0 \in 0..unseen'
  <2>1. g \in Nat /\ g <= unseen /\ unseen \in Nat /\ unseen' = unseen /\ unseen < CCs - 1
    BY <1>1, <1>5
  <2> QED
    BY <1>2, <2>1
<1> DEFINE before == IF g = 1 THEN current ELSE NoSection
<1>7. /\ ecc' = last.cc
      /\ \/ g = 0 /\ UNCHANGED <<current, parsed>>
         \/ g # 0 /\ Data(last, before, garbage)
  BY <1>1, <1>2, <1>3, <1>5, <1>6, ParseLast
<1>8. Has(parsed, IF g = 0 THEN current ELSE NoSection, sent, tornHere)
  BY <1>5 DEF HandlerMissed
<1>9. Has(parsed', current', sent + 0, tornHere) /\ Longer(parsed, parsed')
  <2>0. sent + 0 = sent /\ parsed \in Seq(0..N)
    BY <1>2 DEF HandlerOK
  <2>1. CASE g = 0 /\ UNCHANGED <<current, parsed>>
    BY <1>8, <2>0, <2>1, LongerSame
  <2>2. CASE g # 0 /\ Data(last, before, garbage)
    <3>1. PICK n \in 1..sent : /\ Carried(last, sent - n, n) /\ \A i \in DOMAIN parsed : parsed[i] \in 1..Through(sent - n)
                               /\ g = 1 => current \in {NoSection, Left(sent - n)}
      BY <1>1, <1>5, <2>2 DEF HandlerMissed
    <3> DEFINE at == sent - n
    <3>2. at + n = sent
      BY <1>2
    <3>3. Assembly(before) /\ before \in {NoSection, Left(at)} /\ ~(last.start /\ before # NoSection)
      BY <1>2, <2>2, <3>1, FreshSections DEF HandlerOK, Data
    <3> HIDE DEF at, before
    <3>4. Carried(last, at, n) /\ \A i \in DOMAIN parsed : parsed[i] \in 1..Through(at)
      BY <3>1 DEF at
    <3>5. PICK out : ReadOf(last, before, at, n, out, current') /\ parsed' = parsed \o out
      BY <1>2, <2>2, <3>3, <3>4, DataOn
    <3>6. Has(parsed, NoSection, at + n, tornHere)
      BY <1>8, <2>2, <3>2
    <3>7. Has(parsed \o out, current', at + n, tornHere) /\ Lengthens(parsed \o out, parsed, out)
      BY <1>2, <3>4, <3>5, <3>6, HasAgain
    <3>8. Has(parsed', current', sent + 0, tornHere)
      BY <2>0, <3>2, <3>5, <3>7
    <3> QED
      BY <3>5, <3>7, <3>8 DEF Lengthens, Longer
  <2> QED
    BY <1>7, <2>1, <2>2
<1>10. HandlerMissed(0)'
  <2>1. sent' = sent + 0 /\ cc' = last.cc /\ last.cc \in 0..CCs-1
    BY <1>1, <1>2
  <2> QED
    BY <1>1, <1>7, <1>9, <2>1, HandlerKnowsNext
<1>11. HandlerKnows'
  BY <1>1, <1>5, <1>6, <1>10 DEF HandlerKnows
<1> QED
  BY <1>4, <1>9, <1>11

\* Nothing changes of what the handler knows.
LEMMA StillParsed ==
  ASSUME ReceptionInv, HandlerKnows, last' = last \/ last' = NoPacket,
         UNCHANGED <<lengths, stream, sent, cc, ecc, current, parsed, unseen, tornHere>>
  PROVE  HandlerKnows' /\ Longer(parsed, parsed')
<1>1. PICK g \in 0..unseen : HandlerMissed(g)
  BY DEF HandlerKnows
<1>2. Has(parsed, IF g = 0 THEN current ELSE NoSection, sent, tornHere)'
  BY <1>1 DEF HandlerMissed, Has, Through, Within, Left, PartAt, Part, Bytes, EndsSection, Ascending, Delivered, NoSection
<1>3. ASSUME last' # NoPacket, g # 0
      PROVE  \E n \in 1..sent' :
              /\ Carried(last, sent - n, n)' /\ \A i \in DOMAIN parsed' : parsed'[i] \in 1..Through(sent - n)'
              /\ g = 1 => current' \in {NoSection, Left(sent - n)'}
  <2>1. last' = last
    BY <1>3
  <2>2. PICK n \in 1..sent : /\ Carried(last, sent - n, n) /\ \A i \in DOMAIN parsed : parsed[i] \in 1..Through(sent - n)
                             /\ g = 1 => current \in {NoSection, Left(sent - n)}
    BY <1>1, <1>3, <2>1 DEF HandlerMissed, NoPacket
  <2>3. Carried(last, sent - n, n)'
    BY <2>1, <2>2 DEF Carried, EndsSection
  <2>4. Through(sent - n)' = Through(sent - n)
    BY DEF Through, EndsSection
  <2>5. Left(sent - n)' = Left(sent - n)
    BY DEF Left, Within, PartAt, Part, Bytes, NoSection
  <2> QED
    BY <2>2, <2>3, <2>4, <2>5
<1>4. HandlerMissed(g)'
  <2>1. (ecc' = CCs => current' = NoSection) /\ (ecc' # CCs => (ecc' + g) % CCs = cc')
    BY <1>1 DEF HandlerMissed
  <2>2. last' # NoPacket => (g = 0 => ecc' # CCs)
    BY <1>1 DEF HandlerMissed, NoPacket
  <2> QED
    BY <1>2, <1>3, <2>1, <2>2 DEF HandlerMissed, NoPacket, NoSection
<1> QED
  BY <1>4, LongerSame DEF HandlerKnows, ReceptionInv, HandlerOK

LEMMA HandlerDelivers ==
  ASSUME ReceptionInv, LastKnown, unseen \in Nat, ~wrapped /\ ~mixed => HandlerKnows, wrapped \in BOOLEAN, [Next]_vars,
         ~wrapped', ~mixed'
  PROVE  HandlerKnows' /\ Longer(parsed, parsed')
<1>0. CCs \in Nat /\ Broadcast /\ HandlerOK
  BY StreamAssumption DEF ReceptionInv
<1>1. ASSUME NEW n \in Cuts, Arrive(n) PROVE HandlerKnows' /\ Longer(parsed, parsed')
  <2>1. CASE attached
    BY <1>1, <2>1, ArriveParsed
  <2>2. CASE ~attached
    <3>1. /\ sent' = sent + n /\ cc' = PacketOf(n).cc /\ last' = PacketOf(n) /\ unseen' = unseen + 1
          /\ tornHere' = tornHere \cup Carries(PacketOf(n)) /\ Deliver(PacketOf(n))
          /\ wrapped' = (wrapped \/ CountsRound(unseen')) /\ UNCHANGED <<lengths, stream>>
      BY <1>1, <2>2 DEF Arrive
    <3>2. UNCHANGED <<ecc, current, parsed, mixed>>
      BY <2>2, <3>1 DEF Deliver, PushToHandler, handler
    <3>3. unseen' < CCs - 1 /\ HandlerKnows
      <4>1. ~CountsRound(unseen') /\ ~wrapped /\ ~mixed
        BY <3>1, <3>2
      <4> QED
        BY <1>0, <3>1, <4>1 DEF CountsRound
    <3> QED
      BY <1>0, <1>1, <3>1, <3>2, <3>3, HandlerWithout
  <2> QED
    BY <2>1, <2>2
<1>2. ASSUME NEW n \in Cuts, Lose(n) PROVE HandlerKnows' /\ Longer(parsed, parsed')
  <2>1. /\ sent' = sent + n /\ cc' = PacketOf(n).cc /\ last' = NoPacket /\ unseen' = unseen + 1
        /\ tornHere' = tornHere \cup Carries(PacketOf(n))
        /\ wrapped' = (wrapped \/ CountsRound(burst') \/ CountsRound(unseen'))
        /\ UNCHANGED <<lengths, stream, ecc, current, parsed, mixed>>
    BY <1>2 DEF Lose, handler
  <2>2. unseen' < CCs - 1 /\ HandlerKnows
    <3>1. ~CountsRound(unseen') /\ ~wrapped /\ ~mixed
      BY <2>1
    <3> QED
      BY <1>0, <2>1, <3>1 DEF CountsRound
  <2> QED
    BY <1>0, <1>2, <2>1, <2>2, HandlerWithout
<1>3. CASE Repeat
  <2>1. CASE attached
    BY <1>3, <2>1, RepeatParsed
  <2>2. CASE ~attached
    <3>1. last' = NoPacket /\ UNCHANGED <<lengths, stream, sent, cc, ecc, current, parsed, mixed, unseen, tornHere, wrapped>>
      BY <1>3, <2>2 DEF Repeat, Deliver, PushToHandler, handler
    <3> QED
      BY <3>1, StillParsed
  <2> QED
    BY <2>1, <2>2
<1>4. CASE HandlerSwitched
  <2>1. UNCHANGED <<lengths, stream, sent, cc, last, ecc, current, parsed, mixed, unseen, tornHere, wrapped>>
    BY <1>4 DEF HandlerSwitched, Attach, Dettach, sender, history
  <2> QED
    BY <2>1, StillParsed
<1>5. CASE UNCHANGED vars
  <2>1. UNCHANGED <<lengths, stream, sent, cc, last, ecc, current, parsed, mixed, unseen, tornHere, wrapped>>
    BY <1>5 DEF vars, sender, handler, history
  <2> QED
    BY <2>1, StillParsed
<1> QED
  BY <1>1, <1>2, <1>3, <1>4, <1>5 DEF Next

\* No section goes on where none has begun.
LEMMA NothingBegun ==
  ASSUME Broadcast
  PROVE  ~Within(0)
<1> SUFFICES ASSUME Within(0) PROVE FALSE
  OBVIOUS
<1>1. 0 + 1 \in 1..Len(stream) /\ stream[0 + 1][2] # 1
  BY DEF Within
<1>2. 0 + 1 = 1 /\ Len(stream) > 0
  <2>1. Len(stream) \in Nat
    BY LenProperties DEF Broadcast, Streamed
  <2> QED
    BY <1>1, <2>1
<1>3. stream[1] = <<1, 1>>
  BY <1>2, StreamAssumption DEF Broadcast, Streamed
<1> QED
  BY <1>1, <1>2, <1>3

LEMMA DeliveryOpens == Init => DeliveryInv
<1> SUFFICES ASSUME Init PROVE DeliveryInv
  OBVIOUS
<1>1. /\ sent = 0 /\ cc = 0 /\ last = NoPacket /\ counter = CCs /\ section = NoSection /\ gathered = <<>>
      /\ ecc = CCs /\ current = NoSection /\ parsed = <<>> /\ burst = 0 /\ unseen = 0 /\ wrapped = FALSE
  BY DEF Init, StreamInit, DecoderInit, HandlerInit, InvalidCC, INVALID_CC
<1>2. CCs \in Nat /\ CCs > 2 /\ wrapped \in BOOLEAN
  BY <1>1, StreamAssumption, Zenon
<1>3. Broadcast
  BY ReceptionOpens DEF ReceptionInv
<1>4. ~Within(0)
  BY <1>3, NothingBegun
<1>5. \A bad : Has(<<>>, NoSection, 0, bad)
  <2>1. Through(0) = 0 /\ 1..0 = {} /\ DOMAIN <<>> = {} /\ <<>> \in Seq(0..N)
    BY DEF Through
  <2> QED
    BY <1>4, <2>1 DEF Has, Ascending
<1>6. PushKnows
  BY <1>1, <1>2, <1>5 DEF PushKnows
<1>7. HandlerMissed(0) /\ 0 \in 0..unseen
  BY <1>1, <1>5 DEF HandlerMissed
<1> QED
  BY <1>1, <1>2, <1>6, <1>7 DEF DeliveryInv, HandlerKnows, LastKnown

LEMMA DeliveryKeeps ==
  ASSUME ReceptionInv, DeliveryInv, [Next]_vars
  PROVE  /\ DeliveryInv'
         /\ ~wrapped' => Longer(gathered, gathered') /\ (~mixed' => Longer(parsed, parsed'))
<1>1. LastKnown /\ unseen \in Nat /\ wrapped \in BOOLEAN /\ (~wrapped => PushKnows) /\ (~wrapped /\ ~mixed => HandlerKnows)
  BY DEF DeliveryInv
<1>2. LastKnown' /\ (~wrapped' => ~wrapped /\ PushKnows' /\ Longer(gathered, gathered'))
  BY <1>1, PushDelivers
<1>3. ~wrapped' /\ ~mixed' => HandlerKnows' /\ Longer(parsed, parsed')
  BY <1>1, HandlerDelivers
<1>4. unseen' \in Nat /\ wrapped' \in BOOLEAN
  <2>1. unseen' = 0 \/ unseen' = unseen + 1 \/ unseen' = unseen
    BY DEF Next, Arrive, Lose, Repeat, HandlerSwitched, vars, history
  <2>2. wrapped' \in BOOLEAN
    <3>1. wrapped' = wrapped \/ wrapped' = (wrapped \/ CountsRound(unseen'))
          \/ wrapped' = (wrapped \/ CountsRound(burst') \/ CountsRound(unseen'))
      BY DEF Next, Arrive, Lose, Repeat, HandlerSwitched, vars, history
    <3> QED
      BY <1>1, <3>1, Zenon
  <2> QED
    BY <1>1, <2>1, <2>2
<1> QED
  BY <1>2, <1>3, <1>4 DEF DeliveryInv

\* A decoder that only goes on with what was delivered does a step of the channel.
LEMMA ChannelSteps ==
  ASSUME ReceptionInv, DeliveryInv, ReceptionInv', DeliveryInv', [Next]_vars, ~wrapped'
  PROVE  PushStep /\ (~mixed' => HandlerStep)
<1>1. Longer(gathered, gathered') /\ (~mixed' => Longer(parsed, parsed'))
  BY DeliveryKeeps
<1>2. UNCHANGED <<lengths, stream>>
  BY DEF Next, Arrive, Lose, Repeat, HandlerSwitched, vars, sender
<1>3. Broadcast /\ sent \in 0..Len(stream) /\ sent' \in 0..Len(stream) /\ sent <= sent'
  <2>1. Broadcast /\ sent \in 0..Len(stream) /\ sent' \in 0..Len(stream)
    BY <1>2 DEF ReceptionInv, Broadcast
  <2>2. sent' = sent \/ \E n \in 1..Capacity : sent' = sent + n
    BY DEF Next, Arrive, Lose, Repeat, HandlerSwitched, vars, sender, Cuts
  <2> QED
    BY <2>1, <2>2
<1>4. Completed = Through(sent)
  BY <1>3, CompletedAre DEF Completed, Complete
<1>5. Completed' = Through(sent)'
  <2>1. Completed' = Through(sent')
    BY <1>2, <1>3, CompletedAre DEF Completed, Complete
  <2>2. Through(sent)' = Through(sent')
    BY <1>2 DEF Through, EndsSection
  <2> QED
    BY <2>1, <2>2
<1>6. Completed' \in Completed..N
  <2>1. Through(sent)' = Through(sent')
    BY <1>2 DEF Through, EndsSection
  <2>2. Through(sent) \in 0..N /\ Through(sent') \in 0..N /\ Through(sent) <= Through(sent') /\ N \in Nat
    BY <1>3, ThroughIs, ThroughGrows, StreamAssumption
  <2> DEFINE a == Through(sent)
             b == Through(sent')
  <2> HIDE DEF a, b
  <2>3. b \in a..N
    BY <2>2 DEF a, b
  <2> QED
    BY <1>4, <1>5, <2>1, <2>3 DEF a, b
<1>7. Ascending(gathered') /\ \A i \in DOMAIN gathered' : gathered'[i] \in 1..Completed'
  BY <1>5 DEF DeliveryInv, PushKnows, Has, Ascending
<1>8. ~mixed' => Ascending(parsed') /\ \A i \in DOMAIN parsed' : parsed'[i] \in 1..Completed'
  BY <1>5 DEF DeliveryInv, HandlerKnows, HandlerMissed, Has, Ascending
<1>9. PushStep
  <2>1. PushChannel!Next
    BY <1>1, <1>6, <1>7 DEF PushChannel!Next, PushChannel!Packet, PushChannel!InOrder, PushChannel!IsPrefix, Longer, Ascending
  <2> QED
    BY <2>1 DEF PushStep
<1>10. ~mixed' => HandlerStep
  <2> HAVE ~mixed'
  <2>1. HandlerChannel!Next
    BY <1>1, <1>6, <1>8 DEF HandlerChannel!Next, HandlerChannel!Packet, HandlerChannel!InOrder, HandlerChannel!IsPrefix, Longer, Ascending
  <2> QED
    BY <2>1 DEF HandlerStep
<1> QED
  BY <1>9, <1>10

\* libdvbpsi delivers what was sent, in order and once, whatever the network loses or repeats, as
\* long as the counter does not come round; and so do the handlers of the client, as long as no
\* section begins in the packet that ends another: each of their steps is one of SectionChannel.
THEOREM SectionsAreDelivered == Spec => DeliversWhatWasSent
<1>1. ReceptionInv /\ DeliveryInv /\ [Next]_vars => DeliveryInv'
  BY DeliveryKeeps
<1>2. ReceptionInv /\ DeliveryInv /\ ReceptionInv' /\ DeliveryInv' /\ [Next]_vars
      => [~wrapped' => PushStep /\ (~mixed' => HandlerStep)]_<<sent, gathered, parsed>>
  BY ChannelSteps
<1> QED
  BY <1>1, <1>2, ReceptionOpens, ReceptionKeeps, DeliveryOpens, PTL DEF Spec, DeliversWhatWasSent
----------------------------------------------------------------------------
(* The guide. *)

\* A section whose number no section before it has.
Unread(k) == \A j \in 1..k-1 : Uid(j) # Uid(k)

\* The number of the last section that has begun up to a place of the stream.
Upto(at) == IF at = 0 THEN 0 ELSE stream[at][1]

\* Up to a place of the stream, the guide has read no numbers but of sections that have begun, has
\* handed over the event of each unread section but the bad ones, and has in hand what there is of
\* the next one.
Guides(read, done, e, at, bad) ==
  /\ \A k \in 1..N : Unread(k) /\ Uid(k) \in read => k <= Upto(at)
  /\ \A k \in 1..Through(at) : Unread(k) /\ k \notin bad => Delivered(k, done)
  /\ Within(at) /\ Unread(stream[at + 1][1]) /\ stream[at + 1][1] \notin bad =>
       Follows(e, at) /\ e.left > 0 /\ e.from = stream[at + 1][1]

LEMMA UptoGrows ==
  ASSUME Broadcast, NEW a \in 0..Len(stream), NEW b \in 1..Len(stream), a <= b
  PROVE  Upto(a) <= stream[b][1]
<1>0. Len(stream) \in Nat /\ stream[b][1] \in 1..N /\ N \in Nat
  BY ByteIs, StreamAssumption
<1>1. CASE a = 0
  BY <1>0, <1>1 DEF Upto
<1>2. CASE a # 0
  <2>1. a \in 1..Len(stream) /\ a - 1 \in 0..Len(stream) /\ b - 1 \in 0..Len(stream) /\ a - 1 <= b - 1
    BY <1>0, <1>2
  <2>2. Through(a - 1) <= Through(b - 1) /\ Through(a - 1) \in 0..N /\ Through(b - 1) \in 0..N
    BY <2>1, ThroughGrows, ThroughIs
  <2>3. stream[a][1] = Through(a - 1) + 1 /\ stream[b][1] = Through(b - 1) + 1
    BY <2>1, ThroughNext
  <2> QED
    BY <1>0, <1>2, <2>2, <2>3 DEF Upto
<1> QED
  BY <1>1, <1>2

\* Two bytes of one section have as many between them in the stream as in the section.
LEMMA SameSection ==
  ASSUME Broadcast, NEW x \in 1..Len(stream), NEW m \in Nat, x + m \in 1..Len(stream), stream[x + m][1] = stream[x][1]
  PROVE  stream[x][2] + m <= lengths[stream[x][1]] /\ stream[x + m][2] = stream[x][2] + m
<1> DEFINE j == stream[x][2]
           l == lengths[stream[x][1]]
<1>1. /\ Len(stream) \in Nat /\ l \in Nat /\ j \in 1..l /\ stream[x][1] \in 1..N /\ N \in Nat
  BY ByteIs, StreamAssumption
<1> HIDE DEF j, l
<1>2. j + m <= l
  <2> SUFFICES ASSUME l < j + m PROVE FALSE
    BY <1>1
  <2> DEFINE c == l - j
  <2>1. c \in Nat /\ j + c = l /\ c < m
    BY <1>1
  <2> HIDE DEF c
  <2>2. x + c \in 1..Len(stream) /\ Through(x + c) = Through(x - 1) + 1
    <3>1. stream[x][2] + c = lengths[stream[x][1]]
      BY <2>1 DEF j, l
    <3>2. stream[x][2] + c <= lengths[stream[x][1]]
      BY <1>1, <3>1 DEF l
    <3> QED
      BY <2>1, <3>1, <3>2, GoesOn
  <2> DEFINE y == x + m
  <2>3. x + c \in 0..Len(stream) /\ y - 1 \in 0..Len(stream) /\ x + c <= y - 1 /\ x - 1 \in 0..Len(stream)
    <3>1. x \in Nat /\ x > 0 /\ m \in Nat /\ c \in Nat /\ c < m /\ x + m <= Len(stream) /\ Len(stream) \in Nat
      BY <1>1, <2>1
    <3> QED
      BY <3>1
  <2>6. y \in 1..Len(stream) /\ stream[y][1] = stream[x][1]
    OBVIOUS
  <2> HIDE DEF y
  <2>4. Through(x + c) <= Through(y - 1) /\ Through(y - 1) \in 0..N /\ Through(x - 1) \in 0..N
    BY <2>3, ThroughGrows, ThroughIs
  <2>5. stream[y][1] = Through(y - 1) + 1 /\ stream[x][1] = Through(x - 1) + 1
    BY <2>6, ThroughNext
  <2>7. Through(x + c) = Through(x - 1) + 1 /\ Through(y - 1) = Through(x - 1) /\ N \in Nat
    BY <1>1, <2>2, <2>4, <2>5, <2>6
  <2> QED
    BY <2>4, <2>7
<1>3. stream[x + m][2] = j + m
  BY <1>1, <1>2, GoesOn DEF j, l
<1> QED
  BY <1>2, <1>3 DEF j, l

\* Nothing was kept of what is read again; what no event follows needs none.
LEMMA NoneFollowed ==
  ASSUME NEW read, NEW done, NEW at, NEW bad, Guides(read, done, NoEvent, at, bad), NEW e
  PROVE  Guides(read, done, e, at, bad)
<1>1. \A k \in 1..N : k # 0
  OBVIOUS
<1>2. ~Follows(NoEvent, at)
  BY <1>1 DEF Follows, NoEvent
<1> QED
  BY <1>2 DEF Guides

\* The sections of a packet that the guide does not read are bad ones.
LEMMA GuideLost ==
  ASSUME Broadcast, NEW at \in Nat, NEW n \in Nat, n > 0, at + n \in 1..Len(stream),
         NEW read, NEW done, NEW e, NEW bad, Guides(read, done, e, at, bad),
         NEW worse, bad \subseteq worse, \A i \in 1..n : stream[at + i][1] \in worse
  PROVE  Guides(read, done, NoEvent, at + n, worse)
<1>1. at \in 0..Len(stream) /\ at <= at + n /\ at + n \in 0..Len(stream) /\ n \in 1..n /\ at + n # 0
  BY ByteIs
<1>2. Upto(at) <= stream[at + n][1] /\ Upto(at + n) = stream[at + n][1] /\ stream[at + n][1] \in 1..N /\ N \in Nat
  BY <1>1, UptoGrows, ByteIs, StreamAssumption DEF Upto
<1>3. Upto(at) \in Nat
  BY <1>1, ByteIs, StreamAssumption DEF Upto
<1>4. \A k \in 1..N : Unread(k) /\ Uid(k) \in read => k <= Upto(at + n)
  BY <1>2, <1>3 DEF Guides
<1>5. \A k \in 1..Through(at + n) : Unread(k) /\ k \notin worse => Delivered(k, done)
  <2> SUFFICES ASSUME NEW k \in 1..Through(at + n), Unread(k), k \notin worse PROVE Delivered(k, done)
    OBVIOUS
  <2>1. k <= Through(at)
    <3> SUFFICES ASSUME ~(k <= Through(at)) PROVE FALSE
      OBVIOUS
    <3>1. \E i \in 1..n : stream[at + i][1] = k
      BY <1>1, EndsThere
    <3> QED
      BY <3>1
  <2>2. k \in 1..Through(at)
    BY <1>1, <2>1, ThroughIs
  <2> QED
    BY <2>2 DEF Guides
<1>6. Within(at + n) => stream[at + n + 1][1] \in worse
  BY <1>1, GoneOn
<1> QED
  BY <1>4, <1>5, <1>6 DEF Guides

LEMMA BegunAt ==
  ASSUME NEW p, IsPacket(p), NEW at, NEW n, Carried(p, at, n), p.start
  PROVE  /\ p.pointer + 1 \in 1..n /\ p.pointer \in Nat /\ Begun(p) = stream[at + (p.pointer + 1)][1]
         /\ stream[at + 1][2] = 1 => p.pointer = 0
<1>1. p.pointer + 1 \in 1..n /\ p.pointer \in Nat /\ n \in 1..Capacity /\ Capacity \in Nat
  <2>1. n \in 1..Capacity /\ Capacity \in Nat
    BY StreamAssumption DEF Carried
  <2> QED
    BY <2>1, PointerIs
<1>2. 1 \in 1..Capacity - p.pointer /\ p.pointer + 1 \in 1..Capacity
  BY <1>1
<1>3. Beginning(p)[1] = p.bytes[p.pointer + 1]
  BY <1>2, BeginningIs
<1>4. p.bytes[p.pointer + 1] = stream[at + (p.pointer + 1)]
  <2>1. p.bytes[p.pointer + 1] = IF p.pointer + 1 <= n THEN stream[at + (p.pointer + 1)] ELSE Stuffing
    BY <1>2 DEF Carried
  <2> QED
    BY <1>1, <2>1
<1>5. stream[at + 1][2] = 1 => p.pointer = 0
  <2> SUFFICES ASSUME p.pointer # 0 PROVE stream[at + 1][2] # 1
    OBVIOUS
  <2>1. 1 \in 1..p.pointer
    BY <1>1
  <2> QED
    BY <2>1, PointerIs
<1> QED
  BY <1>1, <1>3, <1>4, <1>5 DEF Begun

\* An event that is handed over stays so.
LEMMA StillHanded ==
  ASSUME events \in Seq(0..N), events' = events \/ \E x \in 0..N : events' = Append(events, x),
         NEW k, Delivered(k, events)
  PROVE  Delivered(k, events')
<1>1. CASE events' = events
  BY <1>1
<1>2. ASSUME NEW x \in 0..N, events' = Append(events, x)
      PROVE  Delivered(k, events')
  <2>1. PICK i \in DOMAIN events : events[i] = k
    BY DEF Delivered
  <2>2. /\ Len(Append(events, x)) = Len(events) + 1 /\ Append(events, x) \in Seq(0..N)
        /\ \A j \in 1..Len(events) : Append(events, x)[j] = events[j]
    BY AppendProperties
  <2>3. DOMAIN events = 1..Len(events) /\ DOMAIN Append(events, x) = 1..Len(Append(events, x)) /\ Len(events) \in Nat
    BY <2>2, LenProperties
  <2>4. i \in 1..Len(events) /\ i \in DOMAIN Append(events, x)
    BY <2>1, <2>2, <2>3
  <2> QED
    BY <1>2, <2>1, <2>2, <2>4 DEF Delivered
<1> QED
  BY <1>1, <1>2

\* An event that follows the stream is kept until it is complete, and handed over then.
LEMMA KeepGives ==
  ASSUME lengths \in [1..N -> Lengths], events \in Seq(0..N), NEW e \in EventRecords, Keep(e), NEW at, Follows(e, at)
  PROVE  IF e.left > 0 THEN incomplete' = e ELSE Delivered(e.from, events')
<1>1. CASE e.left > 0
  BY <1>1 DEF Keep
<1>2. CASE ~(e.left > 0)
  <2>1. e.left = 0 /\ e.from \in 1..N /\ e.from \in 0..N
    BY <1>2, StreamAssumption DEF EventRecords, Follows
  <2>2. events' = Append(events, e.from)
    BY <1>2, <2>1, DescriptorsAre DEF Keep
  <2>3. /\ Len(Append(events, e.from)) = Len(events) + 1 /\ Append(events, e.from) \in Seq(0..N)
        /\ Append(events, e.from)[Len(events) + 1] = e.from
    BY <2>1, AppendProperties
  <2>4. Len(events) + 1 \in DOMAIN Append(events, e.from)
    BY <2>3, LenProperties
  <2> QED
    BY <1>2, <2>2, <2>3, <2>4 DEF Delivered
<1> QED
  BY <1>1, <1>2

LEMMA KeepAdds ==
  ASSUME NEW e \in EventRecords, Keep(e)
  PROVE  events' = events \/ \E x \in 0..N : events' = Append(events, x)
<1>1. (IF e.descriptors = Descriptors(e.from) THEN e.from ELSE 0) \in 0..N
  BY StreamAssumption DEF EventRecords
<1> QED
  BY <1>1 DEF Keep

\* A section that begins at the start of a packet is read, if none of its number was.
LEMMA BeginReads ==
  ASSUME NEW p, NEW kept, BeginSection(p, kept),
         ~(Len(Beginning(p)) < TableHeader), ~(Len(Beginning(p)) < TableHeader + EventHeader),
         Uid(Begun(p)) \notin uids
  PROVE  Keep(Fill(NewEvent(Begun(p)), Behind(p)))
BY DEF BeginSection, Begun, Beginning, Behind, NewEvent

\* What a packet that carries one section only leaves of its event.
LEMMA GuideContinues ==
  ASSUME Broadcast, EpgOK, NEW n \in Cuts, NEW kept, NEW k \in 1..N, events \in Seq(0..N),
         \A i \in 1..n : stream[sent + i][1] = k,
         Within(sent), Follows(kept, sent), kept.left > 0, kept.from = k,
         ~PacketOf(n).start => Continue(PacketOf(n), kept)
  PROVE  IF EndsSection(stream[sent + n]) THEN Delivered(k, events')
         ELSE Follows(incomplete', sent + n) /\ incomplete'.left > 0 /\ incomplete'.from = k
<1> DEFINE p == PacketOf(n)
           f == Fill(kept, p.bytes)
           d == TableHeader + EventHeader + Len(kept.descriptors)
<1>1. Carried(p, sent, n) /\ IsPacket(p) /\ lengths \in [1..N -> Lengths]
  BY CarriedIs DEF Broadcast
<1>2. sent \in Nat /\ n \in Nat /\ n > 0 /\ sent + n \in 1..Len(stream) /\ Len(stream) \in Nat /\ sent + 1 \in 1..Len(stream)
  <2>1. sent \in Nat /\ n \in 1..Capacity /\ sent + n \in 1..Len(stream) /\ Capacity \in Nat
    BY <1>1, StreamAssumption DEF Carried
  <2> QED
    BY <2>1, ByteIs DEF Within
<1> HIDE DEF p
<1>3. /\ stream[sent + 1] = <<k, d + 1>> /\ d + kept.left = lengths[k]
      /\ kept \in EventRecords /\ kept.left \in Nat /\ d \in Nat /\ lengths[k] \in Nat
  <2>1. /\ kept \in EventRecords /\ d + kept.left = lengths[k] /\ stream[sent + 1] = <<k, d + 1>>
    BY DEF Follows
  <2>2. kept.left \in Nat /\ Len(kept.descriptors) \in Nat
    BY <2>1, StreamAssumption, LenProperties DEF EventRecords
  <2>3. d \in Nat
    <3>1. TableHeader \in Nat /\ EventHeader \in Nat
      BY EpgAssumption
    <3> DEFINE q == Len(kept.descriptors)
    <3>2. q \in Nat
      BY <2>2
    <3> HIDE DEF q
    <3>3. TableHeader + EventHeader + q \in Nat
      BY <3>1, <3>2
    <3> QED
      BY <3>3 DEF q
  <2> QED
    BY <1>1, <2>1, <2>2, <2>3, LengthsAre
<1> HIDE DEF d
<1>4. \A i \in 1..n : stream[sent + i][2] = d + i /\ d + i <= lengths[k]
  <2> TAKE i \in 1..n
  <2> DEFINE x == sent + 1
             m == i - 1
  <2>1. x \in 1..Len(stream) /\ m \in Nat /\ x + m = sent + i /\ x + m \in 1..Len(stream)
    <3>1. i \in Nat /\ 1 <= i /\ i <= n /\ n \in Nat /\ sent \in Nat /\ sent + n <= Len(stream) /\ Len(stream) \in Nat
      BY <1>2
    <3>2. sent + i \in 1..Len(stream) /\ sent + 1 \in 1..Len(stream)
      BY <3>1
    <3>3. m \in Nat /\ x + m = sent + i
      BY <3>1
    <3> QED
      BY <3>2, <3>3
  <2>2. stream[x][1] = k /\ stream[x][2] = d + 1 /\ stream[sent + i][1] = k
    BY <1>3
  <2> HIDE DEF x, m
  <2>3. stream[x][2] + m <= lengths[stream[x][1]] /\ stream[x + m][2] = stream[x][2] + m
    BY <2>1, <2>2, SameSection
  <2>4. stream[sent + i][2] = (d + 1) + m /\ (d + 1) + m <= lengths[k] /\ m = i - 1
    BY <2>1, <2>2, <2>3 DEF m
  <2> QED
    BY <1>3, <2>4
<1>5. ~p.start
  <2>1. d # 0
    BY <1>2, <1>3 DEF Within
  <2>2. \A i \in 1..n : stream[sent + i][2] # 1
    <3> TAKE i \in 1..n
    <3>1. stream[sent + i][2] = d + i
      BY <1>4
    <3>2. d + i # 1
      BY <1>2, <1>3, <2>1
    <3> QED
      BY <3>1, <3>2
  <2> QED
    BY <1>1, <2>2 DEF Carried
<1>6. Filled(kept, p.bytes) = n /\ Follows(f, sent + n)
  BY <1>5, ContinuedOn DEF p
<1>7. f \in EventRecords /\ f.from = k /\ f.left = kept.left - n /\ f.left \in Nat
  <2>1. p.bytes \in Seq(Payloads)
    BY <1>1 DEF IsPacket
  <2>2. f \in EventRecords /\ f.from = k /\ f.left = kept.left - n
    BY <1>3, <1>6, <2>1, FillOK
  <2> QED
    BY <2>2, StreamAssumption DEF EventRecords
<1>8. Keep(f)
  <2>1. kept # NoEvent
    BY DEF NoEvent
  <2> QED
    BY <1>5, <2>1 DEF Continue, p
<1> HIDE DEF f
<1>9. IF f.left > 0 THEN incomplete' = f ELSE Delivered(k, events')
  BY <1>1, <1>6, <1>7, <1>8, KeepGives
<1>10. EndsSection(stream[sent + n]) <=> f.left = 0
  <2>1. n \in 1..n
    BY <1>2
  <2>2. stream[sent + n][2] = d + n /\ stream[sent + n][1] = k
    BY <1>4, <2>1
  <2>3. EndsSection(stream[sent + n]) <=> d + n = lengths[k]
    BY <2>2 DEF EndsSection
  <2> QED
    <3> DEFINE l == lengths[k]
               a == kept.left
               b == f.left
    <3>1. n \in Nat /\ d \in Nat /\ l \in Nat /\ a \in Nat /\ b \in Nat /\ d + a = l /\ b = a - n
      BY <1>2, <1>3, <1>7
    <3> HIDE DEF l, a, b
    <3>2. d + n = l <=> b = 0
      BY <3>1
    <3> QED
      BY <2>3, <3>2 DEF l, b
<1> QED
  BY <1>6, <1>7, <1>9, <1>10

LEMMA GuideBegins ==
  ASSUME Broadcast, EpgOK, NEW n \in Cuts, NEW kept, NEW k \in 1..N, events \in Seq(0..N),
         \A i \in 1..n : stream[sent + i][1] = k,
         ~Within(sent), Uid(k) \notin uids,
         PacketOf(n).start => BeginSection(PacketOf(n), kept)
  PROVE  IF EndsSection(stream[sent + n]) THEN Delivered(k, events')
         ELSE Follows(incomplete', sent + n) /\ incomplete'.left > 0 /\ incomplete'.from = k
<1> DEFINE p == PacketOf(n)
           h == TableHeader + EventHeader
           f == Fill(NewEvent(k), Behind(p))
<1>1. Carried(p, sent, n) /\ IsPacket(p) /\ lengths \in [1..N -> Lengths]
  BY CarriedIs DEF Broadcast
<1>2. /\ sent \in Nat /\ n \in 1..Capacity /\ Capacity \in Nat /\ n > 0 /\ 1 \in 1..n /\ n \in 1..n
      /\ sent + n \in 1..Len(stream) /\ Len(stream) \in Nat /\ sent + 1 \in 1..Len(stream)
  <2>1. sent \in Nat /\ n \in 1..Capacity /\ sent + n \in 1..Len(stream) /\ Capacity \in Nat
    BY <1>1, StreamAssumption DEF Carried
  <2> QED
    BY <2>1, ByteIs
<1> HIDE DEF p
<1>3. /\ h \in Nat /\ h <= Capacity /\ TableHeader \in Nat /\ EventHeader \in Nat
      /\ lengths[k] \in Nat /\ h <= lengths[k]
  <2>1. h \in Nat /\ h <= Capacity /\ TableHeader \in Nat /\ EventHeader \in Nat /\ \A m \in Lengths : m >= h
    BY EpgAssumption
  <2>2. lengths[k] \in Lengths
    BY <1>1
  <2> QED
    BY <1>1, <2>1, <2>2, LengthsAre
<1>4. stream[sent + 1][2] = 1 /\ stream[sent + 1][1] = k
  BY <1>2 DEF Within
<1>5. p.start /\ p.pointer = 0 /\ Begun(p) = k
  <2>1. p.start
    BY <1>1, <1>2, <1>4 DEF Carried
  <2>2. p.pointer = 0 /\ Begun(p) = stream[sent + (p.pointer + 1)][1]
    BY <1>1, <1>4, <2>1, BegunAt
  <2> QED
    BY <1>4, <2>1, <2>2
<1>6. Len(Beginning(p)) = Capacity
  BY <1>1, <1>2, <1>5, BeginningIs
<1>7. ~(Len(Beginning(p)) < TableHeader) /\ ~(Len(Beginning(p)) < h)
  BY <1>2, <1>3, <1>6
<1>8. Behind(p) \in Seq(Payloads) /\ Len(Behind(p)) = Capacity - h /\ Len(Behind(p)) \in Nat
  <2>1. Behind(p) \in Seq(Payloads) /\ Len(Behind(p)) = Capacity - p.pointer - TableHeader - EventHeader
    BY <1>1, <1>7, BehindIs
  <2>2. Capacity - 0 - TableHeader - EventHeader = Capacity - h /\ Capacity - h \in Nat
    BY <1>2, <1>3
  <2> QED
    BY <1>5, <2>1, <2>2
<1>9. NewEvent(k) \in EventRecords /\ NewEvent(k).from = k /\ NewEvent(k).left = lengths[k] - h
  BY <1>1, <1>3, NewEventIs DEF NewEvent
<1>10. /\ f \in EventRecords /\ f.from = k
       /\ f.left = IF lengths[k] > Capacity THEN lengths[k] - Capacity ELSE 0
  <2>1. /\ f \in EventRecords /\ f.from = k /\ f.left = NewEvent(k).left - Filled(NewEvent(k), Behind(p))
    BY <1>8, <1>9, FillOK
  <2>2. Filled(NewEvent(k), Behind(p)) = IF lengths[k] - h > Capacity - h THEN Capacity - h ELSE lengths[k] - h
    BY <1>8, <1>9 DEF Filled
  <2> QED
    BY <1>2, <1>3, <1>9, <2>1, <2>2
<1>11. \E at \in Nat : Follows(f, at) /\ (f.left > 0 => at = sent + n)
  BY <1>5, <1>7, BegunOn DEF p
<1>12. Keep(f)
  <2>1. BeginSection(p, kept)
    BY <1>5 DEF p
  <2> QED
    BY <1>5, <1>7, <2>1, BeginReads
<1> HIDE DEF f
<1>13. IF f.left > 0 THEN incomplete' = f ELSE Delivered(k, events')
  BY <1>1, <1>10, <1>11, <1>12, KeepGives
<1>14. EndsSection(stream[sent + n]) <=> f.left = 0
  <2> DEFINE x == sent + 1
             m == n - 1
  <2>1. x \in 1..Len(stream) /\ m \in Nat /\ x + m = sent + n /\ x + m \in 1..Len(stream) /\ n = 1 + m
    BY <1>2
  <2>2. stream[x][1] = k /\ stream[x][2] = 1 /\ stream[sent + n][1] = k
    BY <1>2, <1>4
  <2> HIDE DEF x, m
  <2>3. stream[x][2] + m <= lengths[stream[x][1]] /\ stream[x + m][2] = stream[x][2] + m
    BY <2>1, <2>2, SameSection
  <2>4. stream[sent + n][2] = n /\ n <= lengths[k]
    BY <2>1, <2>2, <2>3
  <2>5. EndsSection(stream[sent + n]) <=> n = lengths[k]
    BY <2>2, <2>4 DEF EndsSection
  <2>6. n = Capacity \/ EndsSection(stream[sent + n])
    BY <1>1 DEF Carried
  <2> QED
    BY <1>2, <1>3, <1>10, <2>4, <2>5, <2>6
<1>15. f.left \in Nat
  BY <1>10, StreamAssumption DEF EventRecords
<1>16. f.left > 0 => Follows(f, sent + n)
  BY <1>11
<1> QED
  BY <1>10, <1>13, <1>14, <1>15, <1>16

\* A packet that carries no two sections carries one.
LEMMA OneCarried ==
  ASSUME Broadcast, NEW p, IsPacket(p), NEW at, NEW n, Carried(p, at, n), ~(Cardinality(Carries(p)) > 1),
         NEW j \in 1..n
  PROVE  \A i \in 1..n : stream[at + i][1] = stream[at + j][1]
<1> DEFINE S == Carries(p)
<1>1. S \subseteq 1..N /\ \A i \in 1..n : stream[at + i][1] \in S
  BY CarriesAre
<1> HIDE DEF S
<1>2. IsFiniteSet(S) /\ Cardinality(S) \in Nat
  <2>1. IsFiniteSet(1..N)
    BY FS_Interval, StreamAssumption
  <2>2. IsFiniteSet(S)
    BY <1>1, <2>1, FS_Subset
  <2> QED
    BY <2>2, FS_CardinalityType
<1>3. S # {} /\ Cardinality(S) # 0
  BY <1>1, <1>2, FS_EmptySet
<1>4. Cardinality(S) = 1
  <2>1. ~(Cardinality(S) > 1)
    BY DEF S
  <2> QED
    BY <1>2, <1>3, <2>1
<1>5. PICK x : S = {x}
  BY <1>2, <1>4, FS_Singleton
<1> QED
  BY <1>1, <1>5

\* What an arrival adds to the sections read has begun.
LEMMA GuideHasRead ==
  ASSUME Broadcast, NEW p, IsPacket(p), NEW n, Carried(p, sent, n), NEW done, NEW e, NEW bad,
         Guides(uids, done, e, sent, bad),
         uids' = uids \/ (p.start /\ uids' = uids \cup {Uid(Begun(p))})
  PROVE  \A k \in 1..N : Unread(k) /\ Uid(k) \in uids' => k <= Upto(sent + n)
<1>1. /\ n \in 1..Capacity /\ Capacity \in Nat /\ sent \in Nat /\ sent + n \in 1..Len(stream)
      /\ Len(stream) \in Nat /\ sent \in 0..Len(stream) /\ N \in Nat
  BY ByteIs, StreamAssumption DEF Carried, Broadcast
<1>2. Upto(sent + n) = stream[sent + n][1] /\ stream[sent + n][1] \in 1..N
  BY <1>1, ByteIs DEF Upto
<1> SUFFICES ASSUME NEW k \in 1..N, Unread(k), Uid(k) \in uids' PROVE k <= Upto(sent + n)
  OBVIOUS
<1>3. CASE Uid(k) \in uids
  <2>1. k <= Upto(sent)
    BY <1>3 DEF Guides
  <2>2. Upto(sent) <= stream[sent + n][1]
    <3>1. sent <= sent + n
      BY <1>1
    <3> QED
      BY <1>1, <3>1, UptoGrows
  <2>3. Upto(sent) \in Nat
    <3>1. CASE sent = 0
      BY <3>1 DEF Upto
    <3>2. CASE sent # 0
      BY <1>1, <3>2, ByteIs DEF Upto
    <3> QED
      BY <3>1, <3>2
  <2> QED
    BY <1>1, <1>2, <2>1, <2>2, <2>3
<1>4. CASE Uid(k) \notin uids
  <2> DEFINE b == Begun(p)
             i == p.pointer + 1
  <2>1. p.start /\ Uid(k) = Uid(b)
    BY <1>4
  <2>2. i \in 1..n /\ b = stream[sent + i][1] /\ b \in 1..N
    BY <2>1, BegunAt, BegunIs
  <2> HIDE DEF b, i
  <2>3. sent + i \in 1..Len(stream) /\ sent + i \in 0..Len(stream) /\ sent + i <= sent + n /\ sent + i # 0
    BY <1>1, <2>2
  <2>4. b <= stream[sent + n][1]
    BY <1>1, <2>2, <2>3, UptoGrows DEF Upto
  <2>5. k <= b
    <3> SUFFICES ASSUME b < k PROVE FALSE
      BY <1>1, <2>2
    <3>1. b \in 1..k-1
      BY <1>1, <2>2
    <3> QED
      BY <2>1, <3>1 DEF Unread
  <2> QED
    BY <1>1, <1>2, <2>2, <2>4, <2>5
<1> QED
  BY <1>3, <1>4

\* A section that is alone in its packets and was not read before.
LEMMA GuideReads ==
  ASSUME Broadcast, EpgOK, NEW n \in Cuts, NEW kept, events \in Seq(0..N),
         NEW bad, Guides(uids, events, kept, sent, bad), PushToEpg(PacketOf(n)), kept = Kept(PacketOf(n)),
         NEW k \in 1..N, Unread(k), k \notin bad, \A i \in 1..n : stream[sent + i][1] = k
  PROVE  IF EndsSection(stream[sent + n]) THEN Delivered(k, events')
         ELSE Follows(incomplete', sent + n) /\ incomplete'.left > 0 /\ incomplete'.from = k
<1> DEFINE p == PacketOf(n)
<1>1. Carried(p, sent, n)
  BY CarriedIs
<1>2. /\ 1 \in 1..n /\ sent + 1 \in 1..Len(stream) /\ sent \in 0..Len(stream) /\ sent \in Nat /\ Len(stream) \in Nat
  <2>1. sent \in Nat /\ n \in 1..Capacity /\ sent + n \in 1..Len(stream) /\ Capacity \in Nat
    BY <1>1, StreamAssumption DEF Carried
  <2> QED
    BY <2>1, ByteIs
<1>3. stream[sent + 1][1] = k
  BY <1>2
<1>4. /\ p.start => BeginSection(p, kept)
      /\ ~p.start => Continue(p, kept)
  BY DEF PushToEpg
<1> HIDE DEF p
<1>5. CASE Within(sent)
  <2>1. Follows(kept, sent) /\ kept.left > 0 /\ kept.from = k
    BY <1>3, <1>5 DEF Guides
  <2> QED
    BY <1>4, <1>5, <2>1, GuideContinues DEF p
<1>6. CASE ~Within(sent)
  <2>1. ~(k <= Upto(sent))
    <3>1. stream[sent + 1][2] = 1
      BY <1>2, <1>6 DEF Within
    <3>2. CASE sent = 0
      BY <3>2, StreamAssumption DEF Upto
    <3>3. CASE sent # 0
      <4>1. sent \in 1..Len(stream) /\ sent + 1 > 1 /\ (sent + 1) - 1 = sent
        BY <1>2, <3>3
      <4>2. k = Through(sent) + 1 /\ EndsSection(stream[sent])
        BY <1>2, <1>3, <3>1, <4>1, ThroughNext
      <4>3. Through(sent) = stream[sent][1]
        BY <3>3, <4>2 DEF Through
      <4>4. Upto(sent) = stream[sent][1] /\ stream[sent][1] \in Nat
        BY <3>3, <4>1, ByteIs DEF Upto
      <4> QED
        BY <4>2, <4>3, <4>4
    <3> QED
      BY <3>2, <3>3
  <2>2. Uid(k) \notin uids
    BY <2>1 DEF Guides
  <2> QED
    BY <1>4, <1>6, <2>2, GuideBegins DEF p
<1> QED
  BY <1>5, <1>6

\* A packet moves the guide on.
LEMMA GuideMoves ==
  ASSUME Broadcast, EpgOK, NEW n \in Cuts, NEW kept, events \in Seq(0..N),
         NEW bad, Guides(uids, events, kept, sent, bad), PushToEpg(PacketOf(n)), kept = Kept(PacketOf(n)),
         NEW worse, bad \subseteq worse,
         Cardinality(Carries(PacketOf(n))) > 1 => Carries(PacketOf(n)) \subseteq worse
  PROVE  Guides(uids', events', incomplete', sent + n, worse)
<1> DEFINE p == PacketOf(n)
<1>1. Carried(p, sent, n) /\ IsPacket(p) /\ lengths \in [1..N -> Lengths]
  BY CarriedIs DEF Broadcast
<1>2. /\ n > 0 /\ n \in 1..n /\ n \in Nat /\ sent \in Nat /\ Len(stream) \in Nat
      /\ sent + n \in 1..Len(stream) /\ sent + n \in 0..Len(stream) /\ sent \in 0..Len(stream)
  <2>1. sent \in Nat /\ n \in 1..Capacity /\ sent + n \in 1..Len(stream) /\ Capacity \in Nat
    BY <1>1, StreamAssumption DEF Carried
  <2> QED
    BY <2>1, ByteIs
<1>3. kept \in EventRecords
  BY NoEventIs DEF Kept, EpgOK
<1>4. /\ uids' = uids \/ (p.start /\ uids' = uids \cup {Uid(Begun(p))})
      /\ events' = events \/ \E x \in 0..N : events' = Append(events, x)
  <2>1. CASE p.start
    <3>1. BeginSection(p, kept)
      BY <2>1 DEF PushToEpg
    <3>2. ~(Len(Beginning(p)) < TableHeader + EventHeader) => Fill(NewEvent(Begun(p)), Behind(p)) \in EventRecords
      BY <1>1, <2>1, BegunIs, NewEventIs, BehindIs, FillOK
    <3> HIDE DEF p
    <3> QED
      BY <2>1, <3>1, <3>2, BeginSectionIs, KeepAdds
  <2>2. CASE ~p.start
    <3>1. Continue(p, kept) /\ Fill(kept, p.bytes) \in EventRecords
      BY <1>1, <1>3, <2>2, FillOK DEF PushToEpg, IsPacket
    <3> HIDE DEF p
    <3> QED
      BY <3>1, KeepAdds DEF Continue
  <2> QED
    BY <2>1, <2>2
<1>5. \A k \in 1..N : Unread(k) /\ Uid(k) \in uids' => k <= Upto(sent + n)
  BY <1>1, <1>4, GuideHasRead
<1>6. ASSUME NEW i \in 1..n, stream[sent + i][1] \notin worse
      PROVE  \A j \in 1..n : stream[sent + j][1] = stream[sent + i][1]
  <2>1. ~(Cardinality(Carries(p)) > 1)
    BY <1>1, <1>6, CarriesAre
  <2> HIDE DEF p
  <2> QED
    BY <1>1, <1>6, <2>1, OneCarried
<1> HIDE DEF p
<1>7. \A k \in 1..Through(sent + n) : Unread(k) /\ k \notin worse => Delivered(k, events')
  <2> SUFFICES ASSUME NEW k \in 1..Through(sent + n), Unread(k), k \notin worse PROVE Delivered(k, events')
    OBVIOUS
  <2>0. Through(sent) \in 0..N /\ Through(sent + n) \in 0..N /\ N \in Nat /\ k \in 1..N
    BY <1>2, ThroughIs, StreamAssumption
  <2>1. CASE k <= Through(sent)
    <3>1. k \in 1..Through(sent)
      BY <2>0, <2>1
    <3>2. Delivered(k, events)
      BY <3>1 DEF Guides
    <3> QED
      BY <1>4, <3>2, StillHanded
  <2>2. CASE ~(k <= Through(sent))
    <3>0. \E i \in 1..n : stream[sent + i][1] = k
      BY <1>2, <2>2, EndsThere, Zenon
    <3>1. PICK i \in 1..n : stream[sent + i][1] = k
      BY <3>0
    <3>2. \A j \in 1..n : stream[sent + j][1] = k
      BY <1>6, <3>1
    <3>3. EndsSection(stream[sent + n])
      <4> SUFFICES ASSUME ~EndsSection(stream[sent + n]) PROVE FALSE
        OBVIOUS
      <4>1. Through(sent + n) = k - 1
        BY <1>2, <3>2 DEF Through
      <4> QED
        BY <2>0, <4>1
    <3>4. k \notin bad
      OBVIOUS
    <3> QED
      BY <2>0, <3>2, <3>3, <3>4, GuideReads
  <2> QED
    BY <2>1, <2>2
<1>8. ASSUME Within(sent + n), Unread(stream[sent + n + 1][1]), stream[sent + n + 1][1] \notin worse
      PROVE  Follows(incomplete', sent + n) /\ incomplete'.left > 0 /\ incomplete'.from = stream[sent + n + 1][1]
  <2> DEFINE k == stream[sent + n][1]
             i == sent + n
  <2>1. i \in 1..Len(stream) /\ Within(i)
    BY <1>2, <1>8
  <2> HIDE DEF i
  <2>2. stream[i + 1][1] = stream[i][1]
    BY <2>1, GoneOn
  <2>3. ~EndsSection(stream[i])
    <3>1. i + 1 \in 1..Len(stream) /\ stream[i + 1][2] # 1
      BY <2>1 DEF Within
    <3>2. i + 1 > 1 /\ (i + 1) - 1 = i
      BY <2>1, <1>2
    <3> QED
      BY <3>1, <3>2, ThroughNext
  <2>4. k = stream[sent + n + 1][1] /\ ~EndsSection(stream[sent + n])
    BY <2>2, <2>3 DEF i
  <2>5. k \in 1..N
    BY <1>2, ByteIs
  <2> HIDE DEF k
  <2>6. \A j \in 1..n : stream[sent + j][1] = k
    BY <1>2, <1>6, <1>8, <2>4 DEF k
  <2>7. Unread(k) /\ k \notin bad
    BY <1>8, <2>4
  <2>8. Follows(incomplete', sent + n) /\ incomplete'.left > 0 /\ incomplete'.from = k
    BY <2>4, <2>5, <2>6, <2>7, GuideReads
  <2> QED
    BY <2>4, <2>8
<1> QED
  BY <1>5, <1>7, <1>8 DEF Guides

\* A packet that the guide does not continue with is one behind a gap, and an event that was in hand
\* is lost with what the gap has torn.
GuideKnows ==
  ~wrapped =>
    Guides(uids, events, IF burst = 0 THEN incomplete ELSE NoEvent, sent, torn \cup repeated \cup shared)

LEMMA GuideKnowsNext ==
  ASSUME UNCHANGED <<lengths, stream>>, NEW at, sent' = at, NEW bad, torn' \cup repeated' \cup shared' = bad,
         NEW e, e = (IF burst' = 0 THEN incomplete' ELSE NoEvent), Guides(uids', events', e, at, bad)
  PROVE  GuideKnows'
BY DEF GuideKnows, Guides, Follows, Through, Within, Upto, Delivered, EndsSection, EventRecords, NoEvent

LEMMA KeptNow ==
  ASSUME ReceptionInv, GuideInv, ~wrapped, NEW n \in Cuts, NEW bad,
         Guides(uids, events, IF burst = 0 THEN incomplete ELSE NoEvent, sent, bad)
  PROVE  Guides(uids, events, Kept(PacketOf(n)), sent, bad)
<1>1. PacketOf(n).cc = (cc + 1) % CCs
  BY CarriedIs DEF ReceptionInv
<1>2. CASE burst # 0
  BY <1>2, NoneFollowed
<1>3. CASE burst = 0
  <2>1. epgCc # CCs => epgCc = cc
    <3> HAVE epgCc # CCs
    <3>1. epgCc \in 0..CCs-1 /\ (epgCc + 0) % CCs = cc /\ CCs \in Nat /\ CCs > 2
      BY <1>3, StreamAssumption DEF GuideInv, GapIsSeen, ReceptionInv, EpgOK
    <3> QED
      BY <3>1
  <2>2. Kept(PacketOf(n)) = incomplete
    BY <1>1, <2>1 DEF Kept, NextCc
  <2> QED
    BY <1>3, <2>2
<1> QED
  BY <1>2, <1>3

LEMMA ArriveGuides ==
  ASSUME ReceptionInv, GuideInv, GuideKnows, NEW n \in Cuts, Arrive(n)
  PROVE  GuideKnows'
<1> DEFINE p == PacketOf(n)
           bad == torn \cup repeated \cup shared
           worse == torn \cup repeated \cup shared'
<1>1. /\ sent' = sent + n /\ burst' = 0 /\ wrapped' = (wrapped \/ CountsRound(unseen')) /\ PushToEpg(p)
      /\ shared' = shared \cup (IF Cardinality(Carries(p)) > 1 THEN Carries(p) ELSE {})
      /\ UNCHANGED <<lengths, stream, torn, repeated>>
  BY DEF Arrive, Deliver, Shared
<1>2. Broadcast /\ EpgOK /\ events \in Seq(0..N)
  BY DEF ReceptionInv, GuideInv
<1> HIDE DEF p
<1>3. ASSUME ~wrapped PROVE Guides(uids', events', incomplete', sent + n, worse)
  <2>1. Guides(uids, events, Kept(p), sent, bad)
    BY <1>3, KeptNow DEF GuideKnows, p
  <2>2. bad \subseteq worse /\ (Cardinality(Carries(p)) > 1 => Carries(p) \subseteq worse)
    BY <1>1
  <2> HIDE DEF bad, worse
  <2> QED
    BY <1>1, <1>2, <2>1, <2>2, GuideMoves DEF p
<1>4. CASE wrapped
  BY <1>1, <1>4 DEF GuideKnows
<1>5. CASE ~wrapped
  <2>1. torn' \cup repeated' \cup shared' = worse
    BY <1>1
  <2>2. incomplete' = IF burst' = 0 THEN incomplete' ELSE NoEvent
    BY <1>1
  <2> HIDE DEF worse
  <2> QED
    BY <1>1, <1>3, <1>5, <2>1, <2>2, GuideKnowsNext
<1> QED
  BY <1>4, <1>5

LEMMA LoseGuides ==
  ASSUME ReceptionInv, GuideKnows, NEW n \in Cuts, Lose(n)
  PROVE  GuideKnows'
<1> DEFINE p == PacketOf(n)
           bad == torn \cup repeated \cup shared
           worse == (torn \cup Carries(p)) \cup repeated \cup shared'
           e == IF burst = 0 THEN incomplete ELSE NoEvent
<1>1. /\ sent' = sent + n /\ burst' = burst + 1 /\ torn' = torn \cup Carries(p)
      /\ wrapped' = (wrapped \/ CountsRound(burst') \/ CountsRound(unseen'))
      /\ shared' = shared \cup (IF Cardinality(Carries(p)) > 1 THEN Carries(p) ELSE {})
      /\ UNCHANGED <<lengths, stream, repeated, uids, events, incomplete>>
  BY DEF Lose, Shared, epg
<1>2. Carried(p, sent, n) /\ IsPacket(p) /\ Broadcast /\ burst \in Nat
  BY CarriedIs, SequenceAssumption DEF ReceptionInv, LossesInv
<1>3. sent \in Nat /\ n \in Nat /\ n > 0 /\ sent + n \in 1..Len(stream)
  BY <1>2, StreamAssumption DEF Carried
<1> HIDE DEF p
<1>4. CASE wrapped
  BY <1>1, <1>4 DEF GuideKnows
<1>5. CASE ~wrapped
  <2>1. Guides(uids, events, e, sent, bad)
    BY <1>5 DEF GuideKnows
  <2>2. bad \subseteq worse /\ Carries(p) \subseteq worse
    BY <1>1
  <2>3. \A i \in 1..n : stream[sent + i][1] \in worse
    BY <1>2, <2>2, CarriesAre
  <2>4. torn' \cup repeated' \cup shared' = worse
    BY <1>1
  <2>5. NoEvent = IF burst' = 0 THEN incomplete' ELSE NoEvent
    BY <1>1, <1>2
  <2> HIDE DEF bad, worse, e
  <2>6. Guides(uids', events', NoEvent, sent + n, worse)
    BY <1>1, <1>2, <1>3, <2>1, <2>2, <2>3, GuideLost
  <2> QED
    BY <1>1, <2>4, <2>5, <2>6, GuideKnowsNext
<1> QED
  BY <1>4, <1>5

LEMMA RepeatGuides ==
  ASSUME ReceptionInv, GuideInv, LastKnown, GuideKnows, Repeat
  PROVE  GuideKnows'
<1> DEFINE bad == torn \cup repeated \cup shared
           worse == torn \cup (repeated \cup Carries(last)) \cup shared
           e == IF burst = 0 THEN incomplete ELSE NoEvent
<1>1. /\ last # NoPacket /\ repeated' = repeated \cup Carries(last)
      /\ UNCHANGED <<lengths, stream, sent, burst, torn, shared, wrapped>>
  BY DEF Repeat
<1>2. Broadcast /\ IsPacket(last) /\ sent \in Nat /\ sent \in 0..Len(stream)
  BY <1>1 DEF ReceptionInv, LastOK, Broadcast
<1>3. incomplete' = NoEvent /\ UNCHANGED <<uids, events>>
  BY RepeatAgain
<1>4. PICK n \in 1..sent : Carried(last, sent - n, n)
  BY <1>1 DEF LastKnown, LastEnds
<1>5. Within(sent) => stream[sent + 1][1] \in worse
  <2> HAVE Within(sent)
  <2>1. sent \in 1..Len(stream) /\ n \in 1..n /\ (sent - n) + n = sent
    BY <1>2, <1>4
  <2>2. stream[sent + 1][1] = stream[sent][1]
    BY <1>2, <2>1, GoneOn
  <2>3. stream[(sent - n) + n][1] \in Carries(last)
    BY <1>2, <1>4, <2>1, CarriesAre
  <2> QED
    BY <2>1, <2>2, <2>3
<1>6. bad \subseteq worse /\ torn' \cup repeated' \cup shared' = worse
  BY <1>1
<1>7. NoEvent = IF burst' = 0 THEN incomplete' ELSE NoEvent
  BY <1>3
<1>8. CASE wrapped
  BY <1>1, <1>8 DEF GuideKnows
<1>9. CASE ~wrapped
  <2>1. Guides(uids, events, e, sent, bad)
    BY <1>9 DEF GuideKnows
  <2> HIDE DEF bad, worse, e
  <2>2. Guides(uids', events', NoEvent, sent, worse)
    BY <1>3, <1>5, <1>6, <2>1 DEF Guides
  <2> QED
    BY <1>1, <1>6, <1>7, <2>2, GuideKnowsNext
<1> QED
  BY <1>8, <1>9

LEMMA GuideKnowsFirst == Init => GuideKnows
<1> SUFFICES ASSUME Init PROVE GuideKnows
  OBVIOUS
<1>1. sent = 0 /\ uids = {} /\ events = <<>> /\ burst = 0 /\ incomplete = NoEvent
  BY DEF Init, StreamInit, EpgInit
<1>2. Broadcast
  BY ReceptionOpens DEF ReceptionInv
<1>3. ~Within(0)
  BY <1>2, NothingBegun
<1>4. Through(0) = 0 /\ 1..0 = {}
  BY DEF Through
<1> QED
  BY <1>1, <1>3, <1>4 DEF GuideKnows, Guides

LEMMA GuideKnowsOn == ReceptionInv /\ GuideInv /\ LastKnown /\ GuideKnows /\ [Next]_vars => GuideKnows'
<1> SUFFICES ASSUME ReceptionInv, GuideInv, LastKnown, GuideKnows, [Next]_vars PROVE GuideKnows'
  OBVIOUS
<1>1. CASE UNCHANGED <<lengths, stream, sent, epg, burst, torn, repeated, shared, wrapped>>
  BY <1>1 DEF epg, GuideKnows, Guides, Follows, Through, Within, Upto, Delivered, EndsSection, EventRecords, NoEvent
<1>2. CASE HandlerSwitched
  BY <1>1, <1>2 DEF HandlerSwitched, sender, network, history
<1>3. CASE UNCHANGED vars
  BY <1>1, <1>3 DEF vars, sender, network, history
<1> QED
  BY <1>2, <1>3, ArriveGuides, LoseGuides, RepeatGuides DEF Next

\* libdvbpsi misses no section whose packets have all arrived, also right behind a gap; nor do the
\* handlers of the client, as long as no section begins in the packet that ends another; nor does
\* the guide an event whose section had packets of its own that arrived once, unless it was read
\* before: for every size of packets and sections, and every pattern of losses and repetitions.
THEOREM NothingIsMissed == Spec => []NothingMissed
<1>1. ASSUME ReceptionInv, DeliveryInv, GuideKnows
      PROVE  NothingMissed
  <2>1. Broadcast /\ sent \in 0..Len(stream) /\ N \in Nat
    BY <1>1, StreamAssumption DEF ReceptionInv, Broadcast
  <2>2. ASSUME NEW k \in 1..N, Complete(k) PROVE k \in 1..Through(sent)
    BY <2>1, <2>2, EndedIs DEF Complete
  <2>3. PushMissesNothing
    BY <1>1, <2>2 DEF DeliveryInv, PushKnows, Has, PushMissesNothing
  <2>4. HandlerMissesNothing
    BY <1>1, <2>2 DEF DeliveryInv, HandlerKnows, HandlerMissed, Has, HandlerMissesNothing
  <2>5. EpgMissesNothing
    BY <1>1, <2>2 DEF GuideKnows, Guides, Unread, EpgMissesNothing
  <2> QED
    BY <2>3, <2>4, <2>5 DEF NothingMissed
<1>2. DeliveryInv => LastKnown
  BY DEF DeliveryInv
<1>3. ReceptionInv /\ DeliveryInv /\ [Next]_vars => DeliveryInv'
  BY DeliveryKeeps
<1> QED
  BY <1>1, <1>2, <1>3, ReceptionOpens, ReceptionKeeps, GuideOpens, GuideKeeps, DeliveryOpens, GuideKnowsFirst,
     GuideKnowsOn, PTL DEF Spec
=============================================================================
