------------------------------ MODULE PidHandler ------------------------------
(***************************************************************************)
(* AbstractPidHandler::push() of the client: sections from the packets of  *)
(* a PID, while the handler is attached. No handler of the client checks a *)
(* CRC.                                                                    *)
(***************************************************************************)
EXTENDS TsStream

VARIABLES
  attached,
  ecc,             \* the last continuity counter, CCs while it is invalid
  current,         \* the section under assembly
  parsed,          \* the sections handed to parseTable()
  mixed            \* history: has a packet begun a section inside another?

handler == <<attached, ecc, current, parsed, mixed>>

INVALID_CC == CCs

HandlerInit ==
  /\ attached = TRUE /\ ecc = INVALID_CC
  /\ current = NoSection /\ parsed = <<>> /\ mixed = FALSE

Done(s, size) == [s EXCEPT !.section = NoSection, !.pos = size + 1]

\* One turn of the loop of parse(), at byte `pos' of the packet.
ParseTurn(s, bytes, garbage) ==
  LET need == s.section.need
      available == Len(bytes) - s.pos + 1
      taken == IF available >= need THEN need ELSE available
      data == s.section.data \o SubSeq(bytes, s.pos, s.pos + taken - 1)
      end == s.pos + taken
  IN IF available = 0 THEN s
     ELSE IF available < need
     THEN [s EXCEPT !.section.data = data, !.section.need = need - available, !.pos = end]
     ELSE IF ~s.section.header
     THEN IF BodyLength(data, garbage) > MaxBody THEN Done(s, Len(bytes))
          ELSE [s EXCEPT !.pos = end, !.section =
                  [data |-> data, need |-> BodyLength(data, garbage), header |-> TRUE]]
     ELSE LET t == [s EXCEPT !.out = Append(s.out, Assembled(data))] IN
          IF end <= Len(bytes) /\ bytes[end] # Stuffing
          THEN [t EXCEPT !.section = NewSection, !.pos = end]
          ELSE Done(t, Len(bytes))

ParseLoop(s, bytes, garbage) ==
  LET after[n \in 0..Capacity] ==
        IF n = 0 THEN s ELSE ParseTurn(after[n-1], bytes, garbage)
  IN after[Capacity]

\* The pointer is followed whether or not a section is under assembly.
Data(packet, before, garbage) ==
  LET begin == IF before = NoSection THEN NewSection ELSE before
      s == IF before = NoSection /\ ~packet.start
           THEN [section |-> NoSection, pos |-> 1, out |-> <<>>]
           ELSE ParseLoop([section |-> begin, pos |-> packet.pointer + 1, out |-> <<>>],
                          packet.bytes, garbage)
  IN /\ current' = s.section
     /\ parsed' = parsed \o s.out
     /\ mixed' = (mixed \/ (packet.start /\ before # NoSection))

ParseDuplicate(packet) ==
  /\ packet.cc = ecc
  /\ UNCHANGED <<current, parsed, mixed>>

ParseInSequence(packet, garbage) ==
  /\ ecc = INVALID_CC \/ packet.cc = (ecc + 1) % CCs
  /\ Data(packet, current, garbage)

\* discontinuity() deletes the section under assembly.
ParseGap(packet, garbage) ==
  /\ ecc # INVALID_CC /\ packet.cc \notin {ecc, (ecc + 1) % CCs}
  /\ Data(packet, NoSection, garbage)

Parse(packet, garbage) ==
  /\ \/ ParseDuplicate(packet)
     \/ ParseInSequence(packet, garbage)
     \/ ParseGap(packet, garbage)
  /\ ecc' = packet.cc /\ UNCHANGED attached

PushToHandler(packet, garbage) ==
  IF attached THEN Parse(packet, garbage) ELSE UNCHANGED handler

Attach == ~attached /\ attached' = TRUE /\ UNCHANGED <<ecc, current, parsed, mixed>>
Dettach == attached /\ attached' = FALSE /\ UNCHANGED <<ecc, current, parsed, mixed>>
=============================================================================
