------------------------------ MODULE TableCoders ------------------------------
(***************************************************************************)
(* A table on its way through libdvbpsi: the application fills it in, the  *)
(* generator lays it out in sections, and a receiver decodes these. The    *)
(* ATSC tables have no generator here: a broadcaster lays them out.        *)
(***************************************************************************)
EXTENDS TableLayouts

CONSTANTS
  Kinds,        \* the tables to look at
  Crowds,       \* for each kind, descriptors that are added in one go: how many, and their length
  EntryCounts,  \* for each kind, how many entries are added in one go
  MaxPrograms,  \* programs in a section that an application may ask of a PAT
  MaxSections,  \* bound: sections of a PAT
  MaxCalls      \* how often an application adds to one table

VARIABLES
  kind, table,  \* the table of the application
  calls,        \* how often it has added to it
  step,         \* "filling", "generated", "decoded", or "aborted" where an assertion fails
  sections,     \* what the generator made of it
  decoded       \* what the receiver reads from the sections

vars == <<kind, table, calls, step, sections, decoded>>

AtscKinds == {"atsc_eit", "ett", "mgt", "stt", "vct"}
DescribedKinds == {"cat", "pmt", "nit", "bat", "tot", "sis", "mgt", "stt", "vct"}
DescribedEntries == {"pmt", "sdt", "nit", "bat", "eit", "atsc_eit", "mgt", "vct"}

AddDescriptor(t, d) ==
  CASE kind = "cat" -> cat_descriptor_add(t, d)
    [] kind = "pmt" -> pmt_descriptor_add(t, d)
    [] kind = "nit" -> nit_descriptor_add(t, d)
    [] kind = "bat" -> bat_bouquet_descriptor_add(t, d)
    [] kind = "tot" -> tot_descriptor_add(t, d)
    [] kind = "sis" -> sis_descriptor_add(t, d)
    [] kind = "mgt" -> MGTAddDescriptor(t, d)
    [] kind = "stt" -> STTAddDescriptor(t, d)
    [] kind = "vct" -> VCTAddDescriptor(t, d)

AddEntry(t, n) ==
  CASE kind = "pat" -> pat_program_add(t, n)
    [] kind = "pmt" -> pmt_es_add(t, n)
    [] kind = "sdt" -> sdt_service_add(t, n)
    [] kind = "nit" -> nit_ts_add(t, n)
    [] kind = "bat" -> bat_ts_add(t, n)
    [] kind = "eit" -> eit_event_add(t, [event |-> n, free_ca |-> n % 2 = 1])
    [] kind = "rst" -> rst_event_add(t, n)
    [] kind = "atsc_eit" -> EITAddEvent(t, n)
    [] kind = "mgt" -> MGTAddTable(t, n)
    [] kind = "vct" -> VCTAddChannel(t, n)

AddEntryDescriptor(t, d) ==
  CASE kind = "pmt" -> pmt_es_descriptor_add(t, d)
    [] kind = "sdt" -> sdt_service_descriptor_add(t, d)
    [] kind = "nit" -> nit_ts_descriptor_add(t, d)
    [] kind = "bat" -> bat_ts_descriptor_add(t, d)
    [] kind = "eit" -> eit_event_descriptor_add(t, d)
    [] kind = "atsc_eit" -> EITChannelAddDescriptor(t, d)
    [] kind = "mgt" -> MGTTableAddDescriptor(t, d)
    [] kind = "vct" -> VCTChannelAddDescriptor(t, d)

\* A broadcaster needs one section: entries behind a header, then the descriptors of the table.
BroadcastSection(header, size, t) ==
  LET entry(s, e) ==
        LET filled == FoldLeft(PutDescriptor, Put(s, e.id, size), e.descriptors)
            told == [id |-> e.id, loop |-> filled.end - s.end - size]
        IN [filled EXCEPT !.at = (s.end :> told) @@ @]
      filled == FoldLeft(entry, NewPSISection(4096, TRUE, header, header + 1), t.entries)
      behind == IF size = 0 THEN filled
                ELSE [Reserve(filled, 2) EXCEPT !.loop = filled.end, !.length = @ + 2]
      done == FoldLeft(PutDescriptor, behind, t.descriptors)
  IN [done EXCEPT !.info = done.end - behind.end]

Broadcast(t) ==
  CASE kind = "atsc_eit" -> BroadcastSection(10, 12, t)
    [] kind = "ett" -> BroadcastSection(13, 0, t)
    [] kind = "mgt" -> BroadcastSection(11, 11, t)
    [] kind = "stt" -> BroadcastSection(16, 0, t)
    [] kind = "vct" -> BroadcastSection(10, 32, t)

Generate(t, max_pps) ==
  CASE kind = "pat" -> PatGenerate(t, max_pps)
    [] kind = "cat" -> CatGenerate(t)
    [] kind = "pmt" -> PmtGenerate(t)
    [] kind = "sdt" -> SdtGenerate(t)
    [] kind = "nit" -> NitGenerate(t)
    [] kind = "bat" -> BatGenerate(t)
    [] kind = "eit" -> EitGenerate(t)
    [] kind = "tot" -> TotGenerate(t)
    [] kind = "rst" -> RstGenerate(t)
    [] kind = "sis" -> SisGenerate(t)

Decode(ss) ==
  CASE kind = "pat" -> PatDecode(ss)
    [] kind = "cat" -> CatDecode(ss)
    [] kind = "pmt" -> PmtDecode(ss)
    [] kind = "sdt" -> SdtDecode(ss)
    [] kind = "nit" -> NitDecode(ss)
    [] kind = "bat" -> BatDecode(ss)
    [] kind = "eit" -> EitDecode(ss)
    [] kind = "tot" -> TotDecode(ss)
    [] kind = "rst" -> RstDecode(ss)
    [] kind = "atsc_eit" -> AtscEitDecode(ss)
    [] kind = "mgt" -> MgtDecode(ss)
    [] kind = "stt" -> SttDecode(ss)
    [] kind = "vct" -> VctDecode(ss)
    [] OTHER -> EmptyTable
----------------------------------------------------------------------------
Init ==
  /\ kind \in Kinds /\ table = EmptyTable /\ calls = 0
  /\ step = "filling" /\ sections = NULL /\ decoded = NULL

Fill(t) ==
  /\ step = "filling" /\ calls < MaxCalls
  /\ table' = t /\ calls' = calls + 1
  /\ UNCHANGED <<kind, step, sections, decoded>>

\* A crowd of descriptors, told apart by their tags.
Crowd(c) == [i \in 1..c[1] |-> [tag |-> 10 * calls + i, length |-> c[2]]]

AddDescriptors ==
  /\ kind \in DescribedKinds
  /\ \E c \in Crowds[kind] : Fill(FoldLeft(AddDescriptor, table, Crowd(c)))

\* A crowd of entries, each of them added behind the others.
AddEntries ==
  \E n \in EntryCounts[kind] :
    LET added == [i \in 1..n |-> Last(AddEntry(EmptyTable, Len(table.entries) + i).entries)]
    IN Fill([table EXCEPT !.entries = @ \o added])

AddEntryDescriptors ==
  /\ kind \in DescribedEntries /\ table.entries # <<>>
  /\ \E c \in Crowds[kind] : Fill(FoldLeft(AddEntryDescriptor, table, Crowd(c)))

MakeSections ==
  /\ step = "filling"
  /\ \/ /\ kind \notin AtscKinds
        /\ \E max_pps \in IF kind = "pat" THEN MaxPrograms ELSE {0}, encrypted \in BOOLEAN :
             /\ max_pps > 0 => Len(table.entries) <= MaxSections * max_pps
             /\ IF kind = "sis" /\ SisAborts(table, encrypted)
                THEN step' = "aborted" /\ UNCHANGED sections
                ELSE LET made == Generate(table, max_pps) IN
                     /\ step' = "generated"
                     /\ sections' = [i \in DOMAIN made |-> BuildPSISection(made[i])]
     \/ /\ kind \in AtscKinds
        /\ step' = "generated" /\ sections' = <<Broadcast(table)>>
        /\ sections'[1].length <= 4093
  /\ UNCHANGED <<kind, table, calls, decoded>>

DecodeSections ==
  /\ step = "generated"
  /\ LET received == [i \in DOMAIN sections |-> OnAir(sections[i])] IN
     IF \/ kind = "sis" /\ SisDecodeAborts(received)
        \/ kind = "ett" /\ DecodeETTAborts(received)
     THEN step' = "aborted" /\ UNCHANGED decoded
     ELSE step' = "decoded" /\ decoded' = Decode(received)
  /\ UNCHANGED <<kind, table, calls, sections>>

Next == AddDescriptors \/ AddEntries \/ AddEntryDescriptors \/ MakeSections \/ DecodeSections

Spec == Init /\ [][Next]_vars
----------------------------------------------------------------------------
(* Properties.                                                             *)

Size(descriptors) == FoldLeft(LAMBDA n, d : n + d.length + 2, 0, descriptors)
Undescribed(t) == \E i \in DOMAIN t.entries : t.entries[i].descriptors = <<>>

\* The tables whose own descriptors arrive: not those of an MGT, and those of a TOT while
\* their length fits into a byte and the last of them is no stub.
KeepsDescriptors ==
  CASE kind = "mgt" -> table.descriptors = <<>>
    [] kind = "tot" -> table.descriptors = <<>>
                       \/ (Size(table.descriptors) < 256 /\ Last(table.descriptors).length >= 2)
    [] OTHER -> TRUE

\* An RST with events, and an EIT for the flag of free access, do not survive.
SameEntry(id, was) == IF kind = "eit" THEN id.event = was.event ELSE id = was

\* What it takes with its CRC, where one follows the payload.
Behind(s) == s.end + IF kind \in {"tot", "rst", "sis"} THEN 0 ELSE 4
InMemory == \A i \in DOMAIN sections : Behind(sections[i]) <= sections[i].memory

\* What a receiver decodes is what the application had put in: all entries in their order
\* and the descriptors of the table; of the descriptors of an entry the first ones. This
\* holds while no section outgrows its memory.
TableRoundTrip ==
  /\ step = "decoded" /\ kind \notin {"ett", "sis"} /\ ~(kind = "rst" /\ table.entries # <<>>)
  /\ InMemory
  =>
    /\ KeepsDescriptors => decoded.descriptors = table.descriptors
    /\ Len(decoded.entries) = Len(table.entries)
    /\ \A i \in DOMAIN table.entries :
         /\ SameEntry(decoded.entries[i].id, table.entries[i].id)
         /\ IsPrefix(decoded.entries[i].descriptors, table.entries[i].descriptors)

\* The largest entry of which nothing would have to be left out.
Room == CASE kind = "pmt" -> 1003 [] kind = "sdt" -> 1004 [] kind \in {"nit", "bat"} -> 1002
          [] kind = "eit" -> 4064 [] OTHER -> 4096

\* An entry whose descriptors fit into an empty section loses none of them, but for the
\* last one: the generators of PMT and SDT do not open a section for that, nor those of NIT
\* and BAT for the last two.
MayLose == CASE kind \in {"pmt", "sdt"} -> 1 [] kind \in {"nit", "bat"} -> 2 [] OTHER -> 0
EntryKept ==
  step = "decoded" /\ kind \in DescribedEntries /\ InMemory =>
    \A i \in DOMAIN table.entries :
      LET wanted == table.entries[i].descriptors IN
      Size(wanted) <= Room => Len(decoded.entries[i].descriptors) >= Len(wanted) - MayLose

\* A section and its CRC end inside the memory that was allocated for them. Entries without
\* descriptors never open a section; NIT, BAT and EIT may end two bytes too far, and an RST
\* takes one event too many.
WithinMemory ==
  step \in {"generated", "decoded"} =>
    \A i \in DOMAIN sections :
      LET behind == Behind(sections[i]) IN
      \/ behind <= sections[i].memory
      \/ kind \in DescribedEntries /\ Undescribed(table)
      \/ kind \in {"nit", "bat", "eit"} /\ behind <= sections[i].memory + 2
      \/ kind = "rst" /\ Len(table.entries) > 113
=============================================================================
