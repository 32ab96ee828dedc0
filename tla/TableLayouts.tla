---------------------------- MODULE TableLayouts ----------------------------
(***************************************************************************)
(* How libdvbpsi lays a table out in sections and reads it again: what it  *)
(* adds to a table, its generators and its decoders. A table is its        *)
(* descriptors and its entries (programs, streams, services, events ...)   *)
(* with theirs. A descriptor is a tag and a length. A section is what      *)
(* begins at which of its bytes, where its payload ends, and the length    *)
(* that its header tells.                                                  *)
(***************************************************************************)
EXTENDS DescriptorBytes

EmptyTable == [descriptors |-> <<>>, entries |-> <<>>]

AddToTable(t, d) == [t EXCEPT !.descriptors = Append(@, d)]
AddEntryToTable(t, id) == [t EXCEPT !.entries = Append(@, [id |-> id, descriptors |-> <<>>])]
AddToEntry(t, d) ==
  [t EXCEPT !.entries = Append(Front(@), [Last(@) EXCEPT !.descriptors = Append(@, d)])]

\* The functions that fill in a table. The last entry is the one being filled.
pat_program_add(t, id) == AddEntryToTable(t, id)
cat_descriptor_add(t, d) == AddToTable(t, d)
pmt_descriptor_add(t, d) == AddToTable(t, d)
pmt_es_add(t, id) == AddEntryToTable(t, id)
pmt_es_descriptor_add(t, d) == AddToEntry(t, d)
sdt_service_add(t, id) == AddEntryToTable(t, id)
sdt_service_descriptor_add(t, d) == AddToEntry(t, d)
nit_descriptor_add(t, d) == AddToTable(t, d)
nit_ts_add(t, id) == AddEntryToTable(t, id)
nit_ts_descriptor_add(t, d) == AddToEntry(t, d)
bat_bouquet_descriptor_add(t, d) == AddToTable(t, d)
bat_ts_add(t, id) == AddEntryToTable(t, id)
bat_ts_descriptor_add(t, d) == AddToEntry(t, d)
eit_event_add(t, id) == AddEntryToTable(t, id)
eit_event_descriptor_add(t, d) == AddToEntry(t, d)
tot_descriptor_add(t, d) == AddToTable(t, d)
rst_event_add(t, id) == AddEntryToTable(t, id)
sis_descriptor_add(t, d) == AddToTable(t, d)
EITAddEvent(t, id) == AddEntryToTable(t, id)
EITChannelAddDescriptor(t, d) == AddToEntry(t, d)
MGTAddDescriptor(t, d) == AddToTable(t, d)
MGTAddTable(t, id) == AddEntryToTable(t, id)
MGTTableAddDescriptor(t, d) == AddToEntry(t, d)
STTAddDescriptor(t, d) == AddToTable(t, d)
VCTAddDescriptor(t, d) == AddToTable(t, d)
VCTAddChannel(t, id) == AddEntryToTable(t, id)
VCTChannelAddDescriptor(t, d) == AddToEntry(t, d)
----------------------------------------------------------------------------
(* Writing. *)

NewPSISection(memory, syntax, header, length) ==
  [memory |-> memory, syntax |-> syntax, crc |-> syntax, end |-> header, length |-> length,
   info |-> 0, loop |-> 0, at |-> <<>>]

Reserve(s, n) == [s EXCEPT !.end = @ + n]
Put(s, item, n) ==
  [s EXCEPT !.at = (s.end :> item) @@ @, !.end = @ + n, !.length = @ + n]
PutDescriptor(s, d) == Put(s, d, d.length + 2)

\* The descriptors up to the first that would end behind `limit' + 2.
PutWhileFitting(s, descriptors, limit) ==
  FoldLeft(LAMBDA r, d : IF r.full \/ r.section.end + d.length > limit THEN [r EXCEPT !.full = TRUE]
                         ELSE [r EXCEPT !.section = PutDescriptor(@, d)],
           [section |-> s, full |-> FALSE], descriptors).section

\* The descriptors of a table go into as many sections as they take.
PutTableDescriptors(new, descriptors) ==
  FoldLeft(LAMBDA ss, d : IF Last(ss).end + d.length > 1018 THEN Append(ss, PutDescriptor(new, d))
                          ELSE Append(Front(ss), PutDescriptor(Last(ss), d)),
           <<new>>, descriptors)

\* Their length comes first; NIT and BAT have two bytes for another length behind them.
WithInfo(ss, new, gap) ==
  [i \in DOMAIN ss |-> Reserve([ss[i] EXCEPT !.info = ss[i].end - new.end], gap)]

\* The length of an entry up to the descriptor that leaves the section, and how many
\* descriptors remain behind it.
LookAhead(start, descriptors) ==
  FoldLeft(LAMBDA l, d : IF start + l.length > 1020 THEN l
                         ELSE [length |-> l.length + d.length + 2, rest |-> l.rest - 1],
           [length |-> 5, rest |-> Len(descriptors)], descriptors)

OpensHeaderTwice(start, l, new, room) == l.rest > 0 /\ start # new.end /\ l.length <= room - 12
\* A new section, unless this one is empty or the entry does not fit into an empty one.
Opens(start, l, new, room) == l.rest > 0 /\ start # new.end /\ l.length <= room

\* An entry stays in one section. `over' is what the length of its loop is too large by.
PutEntry(ss, e, new, size, room, over) ==
  LET start == Last(ss).end
      opened == IF Opens(start, LookAhead(start, e.descriptors), new, room) THEN Append(ss, new) ELSE ss
      s == Last(opened)
      filled == PutWhileFitting(Put(s, e.id, size), e.descriptors, 1018)
      header == [id |-> e.id, loop |-> filled.end - s.end - size + over]
  IN Append(Front(opened), [filled EXCEPT !.at = (s.end :> header) @@ @])

PutEntries(ss, entries, new, size, room, over) ==
  FoldLeft(LAMBDA sections, e : PutEntry(sections, e, new, size, room, over), ss, entries)
----------------------------------------------------------------------------
(* The generators. *)

PatSection == NewPSISection(1024, TRUE, 8, 9)
PatGenerate(t, max_pps) ==
  LET pps == IF max_pps <= 0 \/ max_pps > 253 THEN 253 ELSE max_pps
      n == Len(t.entries)
      part(k) == SubSeq(t.entries, (k - 1) * pps + 1, AtMost(k * pps, n))
      section(programs) ==
        [PatSection EXCEPT !.end = @ + 4 * Len(programs), !.length = @ + 4 * Len(programs),
                           !.at = [p \in {8 + 4 * (i - 1) : i \in DOMAIN programs} |->
                                     [id |-> programs[((p - 8) \div 4) + 1].id, loop |-> 0]]]
  IN IF n = 0 THEN <<PatSection>>
     ELSE [k \in 1..((n + pps - 1) \div pps) |-> section(part(k))]

CatGenerate(t) == PutTableDescriptors(NewPSISection(1024, TRUE, 8, 9), t.descriptors)

PmtGenerate(t) ==
  LET new == NewPSISection(1024, TRUE, 12, 13) IN
  PutEntries(WithInfo(PutTableDescriptors(new, t.descriptors), new, 0), t.entries, new, 5, 1008, 0)

SdtGenerate(t) ==
  LET new == NewPSISection(1024, TRUE, 11, 12) IN
  PutEntries(<<new>>, t.entries, new, 5, 1009, 0)

\* The loops of a transport stream are told to be one byte longer than they are.
NitGenerate(t) ==
  LET bare == NewPSISection(1024, TRUE, 10, 13)
      new == Reserve(bare, 2)
  IN PutEntries(WithInfo(PutTableDescriptors(bare, t.descriptors), bare, 2), t.entries, new, 6, 1008, 1)

BatGenerate(t) ==
  LET bare == NewPSISection(1024, TRUE, 10, 13)
      new == Reserve(bare, 2)
  IN PutEntries(WithInfo(PutTableDescriptors(bare, t.descriptors), bare, 2), t.entries, new, 6, 1008, 1)

NewEITSection == NewPSISection(4094, TRUE, 14, 15)
EventLength(e) == FoldLeft(LAMBDA n, d : n + d.length + 2, 12, e.descriptors)
EncodeEventHeaders(e, loop) == [id |-> e.id, loop |-> loop]
PutEvent(ss, e) ==
  LET opened == IF e.descriptors # <<>> /\ Last(ss).end + EventLength(e) > 4090
                THEN Append(ss, NewEITSection) ELSE ss
      s == Last(opened)
      filled == PutWhileFitting(Put(s, e.id, 12), e.descriptors, 4090)
  IN Append(Front(opened),
            [filled EXCEPT !.at = (s.end :> EncodeEventHeaders(e, filled.end - s.end - 12)) @@ @])
EitGenerate(t) == FoldLeft(PutEvent, <<NewEITSection>>, t.entries)

\* A TDT without descriptors, a TOT with them. The upper byte of the length of the loop is
\* lost. The CRC becomes part of the payload.
TotGenerate(t) ==
  IF t.descriptors = <<>> THEN <<NewPSISection(8, FALSE, 8, 5)>>
  ELSE LET s == PutWhileFitting(NewPSISection(4096, FALSE, 10, 7), t.descriptors, 4090) IN
       <<[s EXCEPT !.loop = (s.length - 7) % 256, !.end = @ + 4, !.length = @ + 4]>>

\* Every event is written one byte behind the one before, over its other eight bytes,
\* and the first one over the header of the section: a byte is that of the last event
\* written over it.
RstGenerate(t) ==
  LET n == AtMost(Len(t.entries), 114)
      over(p) == AtMost(p, n - 1)
      bytes == [p \in 3..(IF n = 0 THEN 0 ELSE n + 7) |-> <<t.entries[over(p) + 1].id, p - over(p)>>]
  IN <<[NewPSISection(1024, FALSE, 3, 3) EXCEPT !.end = @ + 9 * n, !.length = @ + 9 * n,
                                                !.at = bytes]>>

\* Without encryption an assertion fails; with descriptors the list is followed to its
\* end before one is written.
SisAborts(t, encrypted) == ~encrypted \/ t.descriptors # <<>>
SisGenerate(t) == <<NewPSISection(1024, FALSE, 16, 3)>>
----------------------------------------------------------------------------
(* Reading. *)

\* The header tells the length in 12 bits. libdvbpsi takes the CRC away only where the
\* syntax indicator is set.
BuildPSISection(s) == [s EXCEPT !.length = @ % 4096]
OnAir(s) == [s EXCEPT !.end = 3 + s.length - IF s.syntax THEN 4 ELSE 0]

\* The descriptors between two bytes, each in front of `limit', and the byte behind them.
Loop(s, from, end, limit) ==
  LET at[p \in Nat] ==
        IF p + 2 > end THEN [list |-> <<>>, next |-> p]
        ELSE LET d == s.at[p]
                 rest == at[p + 2 + d.length]
             IN [rest EXCEPT !.list = IF d.length + 2 <= limit - p THEN <<d>> \o @ ELSE @]
  IN at[from]

LoopUnclipped(s, p, length) == Loop(s, p, p + length, p + length)
LoopClipped(s, p, length) ==
  LET end == AtMost(p + length, s.end) IN Loop(s, p, end, end)

\* Entries with headers of the given size, up to a byte, and the byte behind them. Some
\* decoders give up on an entry that is longer than its section.
Entries(s, from, size, end, givesUp) ==
  LET at[p \in Nat] ==
        IF p + size > end THEN [list |-> <<>>, next |-> p]
        ELSE LET h == s.at[p]
                 loop == LoopClipped(s, p + size, h.loop)
                 rest == at[loop.next]
             IN IF givesUp /\ p + size + h.loop > s.end
                THEN [list |-> <<[id |-> h.id, descriptors |-> <<>>]>>, next |-> p + size]
                ELSE [rest EXCEPT !.list = <<[id |-> h.id, descriptors |-> loop.list]>> \o @]
  IN at[from]

\* A table is read from all its sections.
Read(descriptors, entries) ==
  [descriptors |-> FlattenSeq(descriptors), entries |-> FlattenSeq(entries)]
Nothing == <<>>
NoDescriptors(id) == [id |-> id, descriptors |-> <<>>]

PatDecode(ss) ==
  Read(Nothing, [i \in DOMAIN ss |->
    [k \in 1..((ss[i].end - 8) \div 4) |-> NoDescriptors(ss[i].at[8 + 4 * (k - 1)].id)]])

CatDecode(ss) == Read([i \in DOMAIN ss |-> Loop(ss[i], 8, ss[i].end, ss[i].end).list], Nothing)

PmtDecode(ss) ==
  Read([i \in DOMAIN ss |-> LoopUnclipped(ss[i], 12, ss[i].info).list],
       [i \in DOMAIN ss |-> Entries(ss[i], 12 + ss[i].info, 5, ss[i].end, FALSE).list])

SdtDecode(ss) == Read(Nothing, [i \in DOMAIN ss |-> Entries(ss[i], 11, 5, ss[i].end, TRUE).list])

NitDecode(ss) ==
  Read([i \in DOMAIN ss |-> LoopUnclipped(ss[i], 10, ss[i].info).list],
       [i \in DOMAIN ss |-> Entries(ss[i], 12 + ss[i].info, 6, ss[i].end, FALSE).list])

BatDecode(ss) ==
  Read([i \in DOMAIN ss |-> LoopClipped(ss[i], 10, ss[i].info).list],
       [i \in DOMAIN ss |-> Entries(ss[i], 12 + ss[i].info, 6, ss[i].end, FALSE).list])

\* The flag of free access is read from a bit of the length.
EventsFrom(s) ==
  LET at[p \in Nat] ==
        IF p >= s.end THEN <<>>
        ELSE LET h == s.at[p]
                 loop == LoopClipped(s, p + 12, h.loop)
             IN <<[id |-> [h.id EXCEPT !.free_ca = (h.loop \div 2048) % 2 = 0],
                   descriptors |-> loop.list]>> \o at[loop.next]
  IN at[14]
EitDecode(ss) == Read(Nothing, [i \in DOMAIN ss |-> EventsFrom(ss[i])])

\* The end of the loop is taken to be two bytes in front of where it is.
TotDecode(ss) ==
  Read([i \in DOMAIN ss |-> IF ss[i].memory = 8 THEN <<>>
                            ELSE Loop(ss[i], 10, 8 + ss[i].loop, ss[i].end).list], Nothing)

\* What is read of an event is the event only if none of its bytes is that of another.
StatusAt(s, p) ==
  LET byte(q) == IF q \in DOMAIN s.at THEN s.at[q] ELSE <<0, 0>>
      whole == {id \in {byte(q)[1] : q \in p..p + 8} : \A j \in 0..8 : byte(p + j) = <<id, j>>}
  IN IF whole = {} THEN NULL ELSE CHOOSE id \in whole : TRUE
RstDecode(ss) ==
  Read(Nothing, [i \in DOMAIN ss |->
    [k \in 1..((ss[i].end - 3) \div 9) |-> NoDescriptors(StatusAt(ss[i], 3 + 9 * (k - 1)))]])

\* The flag of encryption is shifted out of its byte, and asserted: every section aborts.
SisDecodeAborts(ss) == \E i \in DOMAIN ss : 6 < ss[i].end

\* ATSC: what is read behind the entries, or behind the fixed part, are descriptors.
AtscEitDecode(ss) ==
  Read(Nothing, [i \in DOMAIN ss |-> Entries(ss[i], 10, 12, ss[i].end, TRUE).list])

DecodeETTAborts(ss) == \E i \in DOMAIN ss : ss[i].length > 14

\* Each descriptor of the table is kept if the length of all of them, plus two, fits into
\* what is left of them.
LoopOfMgt(s) ==
  LET from == Entries(s, 11, 11, s.loop, TRUE).next + 2
      at[p \in Nat] ==
        IF p + 2 > from + s.info THEN <<>>
        ELSE (IF s.info + 2 <= from + s.info - p THEN <<s.at[p]>> ELSE <<>>)
             \o at[p + 2 + s.at[p].length]
  IN at[from]
MgtDecode(ss) ==
  Read([i \in DOMAIN ss |-> LoopOfMgt(ss[i])],
       [i \in DOMAIN ss |-> Entries(ss[i], 11, 11, ss[i].loop, TRUE).list])

\* Of the sections of an STT only the first one is read.
SttDecode(ss) ==
  Read([i \in DOMAIN ss \cap {1} |-> LoopUnclipped(ss[i], 16, ss[i].length - 17).list], Nothing)

VctDecode(ss) ==
  Read([i \in DOMAIN ss |->
          LoopUnclipped(ss[i], Entries(ss[i], 10, 32, ss[i].loop, TRUE).next + 2, ss[i].info).list],
       [i \in DOMAIN ss |-> Entries(ss[i], 10, 32, ss[i].loop, TRUE).list])
=============================================================================
