------------------------------ MODULE PacketPush ------------------------------
(***************************************************************************)
(* dvbpsi_packet_push() of libdvbpsi: sections from the packets of a PID.  *)
(***************************************************************************)
EXTENDS TsStream

VARIABLES
  counter,         \* i_continuity_counter, CCs while it is invalid
  discontinuity,   \* b_discontinuity
  section,         \* p_current_section, with i_need and b_complete_header
  gathered         \* the sections handed to pf_gather

decoder == <<counter, discontinuity, section, gathered>>

InvalidCC == CCs

DecoderInit ==
  /\ counter = InvalidCC /\ discontinuity = TRUE
  /\ section = NoSection /\ gathered = <<>>

\* Where the loop of the code is in the packet: at byte `pos', with a new section
\* still to come at byte `next' unless that is 0.
Begin(s, at) == [s EXCEPT !.section = NewSection, !.pos = at, !.next = 0]
Finish(s, size) == [s EXCEPT !.section = NoSection, !.pos = size + 1]

TooLong(s, size) == IF s.next # 0 THEN Begin(s, s.next) ELSE Finish(s, size)

HeaderCompleteUnchecked(s, data, need, bytes, garbage) ==
  [s EXCEPT !.section = [data |-> data, need |-> BodyLength(data, garbage),
                         header |-> TRUE],
            !.pos = s.pos + need]
HeaderComplete(s, data, need, bytes, garbage) ==
  LET body == BodyLength(data, garbage) IN
  IF body > MaxBody THEN TooLong(s, Len(bytes))
  ELSE [s EXCEPT !.section = [data |-> data, need |-> body, header |-> TRUE],
                 !.pos = s.pos + need]

\* Whether the section has a CRC is asked before its table identifier and its syntax
\* indicator are known: no CRC is ever checked, and the section is handed on, whatever it
\* is made of. The next one begins where the packet says, or behind this one if there is
\* no stuffing.
SectionComplete(s, data, need, bytes) ==
  LET end == s.pos + need
      next == IF s.next = 0 /\ end <= Len(bytes) /\ bytes[end] # Stuffing
              THEN end ELSE s.next
      t == [s EXCEPT !.out = Append(s.out, Assembled(data)), !.flag = FALSE]
  IN IF next # 0 THEN Begin(t, next) ELSE Finish(t, Len(bytes))

\* One turn of the loop.
Turn(s, bytes, garbage) ==
  LET need == s.section.need
      available == Len(bytes) - s.pos + 1
      taken == IF available >= need THEN need ELSE available
      data == s.section.data \o SubSeq(bytes, s.pos, s.pos + taken - 1)
  IN IF available = 0 THEN s
     ELSE IF available < need
     THEN [s EXCEPT !.section.data = data, !.section.need = need - available,
                    !.pos = Len(bytes) + 1]
     ELSE IF ~s.section.header THEN HeaderComplete(s, data, need, bytes, garbage)
     ELSE SectionComplete(s, data, need, bytes)

\* The loop ends within as many turns as there are bytes, and again as many when it
\* goes back to the byte the pointer leads to.
Loop(s, bytes, garbage) ==
  LET after[n \in 0..2 * Capacity] ==
        IF n = 0 THEN s ELSE Turn(after[n-1], bytes, garbage)
  IN after[2 * Capacity]

Payload(packet, current, flag, garbage) ==
  LET new == IF packet.start THEN packet.pointer + 1 ELSE 0
      idle == [section |-> NoSection, pos |-> 1, next |-> new, out |-> <<>>, flag |-> flag]
      s == IF current # NoSection THEN Loop([idle EXCEPT !.section = current],
                                            packet.bytes, garbage)
           ELSE IF new # 0 THEN Loop(Begin(idle, new), packet.bytes, garbage)
           ELSE idle
  IN /\ section' = s.section /\ discontinuity' = s.flag
     /\ gathered' = gathered \o s.out

FirstPacket(packet, garbage) ==
  /\ counter = InvalidCC
  /\ Payload(packet, section, discontinuity, garbage)

\* A repeated packet is known by its counter, unless the counter was lost before and no
\* table decoder has noticed yet.
Duplicate(packet) ==
  /\ counter # InvalidCC /\ packet.cc = counter /\ ~discontinuity
  /\ UNCHANGED <<discontinuity, section, gathered>>

Expected == (counter + 1) % CCs

InSequence(packet, garbage) ==
  /\ counter # InvalidCC /\ packet.cc = Expected
  /\ Payload(packet, section, discontinuity, garbage)

GapKeepsSection(packet, garbage) ==
  /\ counter # InvalidCC /\ packet.cc # Expected
  /\ packet.cc = counter => discontinuity
  /\ Payload(packet, section, TRUE, garbage)
Gap(packet, garbage) ==
  /\ counter # InvalidCC /\ packet.cc # Expected
  /\ packet.cc = counter => discontinuity
  /\ Payload(packet, NoSection, TRUE, garbage)

Push(packet, garbage) ==
  /\ \/ FirstPacket(packet, garbage)
     \/ Duplicate(packet)
     \/ InSequence(packet, garbage)
     \/ Gap(packet, garbage)
  /\ counter' = packet.cc
=============================================================================
