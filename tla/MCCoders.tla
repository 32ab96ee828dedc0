------------------------------- MODULE MCCoders -------------------------------
(***************************************************************************)
(* An application writes a descriptor, or fills a table whose sections are *)
(* nearly full, full, and more than that. The two share no variable: a     *)
(* behaviour is about one of them.                                         *)
(***************************************************************************)
EXTENDS MCDescriptors

CONSTANTS
  MaxPrograms,  \* programs in a section that an application may ask of a PAT
  MaxSections,  \* bound: sections of a PAT
  MaxCalls      \* how often an application adds to one table

VARIABLES table_kind, table, calls, step, sections, table_decoded

tables == <<table_kind, table, calls, step, sections, table_decoded>>

AllKinds == {"pat", "cat", "pmt", "sdt", "nit", "bat", "eit", "tot", "rst", "sis",
             "atsc_eit", "ett", "mgt", "stt", "vct"}

\* Four descriptors of 250 bytes overflow a section of 1024 bytes, and three of 253 with one
\* of 235, 236 or 237 fill it; an event of an EIT is full with fifteen of 255 and one of 209.
MCCrowds ==
  [k \in AllKinds |->
     CASE k \in {"pmt", "sdt", "nit", "bat", "cat"} ->
            {<<1, 0>>, <<1, 1>>, <<1, 235>>, <<1, 236>>, <<1, 237>>, <<3, 253>>, <<4, 250>>}
       [] k = "tot" -> {<<1, 0>>, <<1, 1>>, <<1, 253>>, <<1, 255>>, <<15, 255>>}
       [] OTHER -> {<<1, 0>>, <<1, 1>>, <<1, 209>>, <<1, 210>>, <<15, 255>>}]

MCEntryCounts ==
  [k \in AllKinds |->
     CASE k = "pat" -> {1, 253, 254}
       [] k \in {"pmt", "sdt"} -> {1, 2}
       [] k \in {"nit", "bat"} -> {1, 2}
       [] k = "rst" -> {1, 2, 113}
       [] k \in {"eit", "atsc_eit", "mgt", "vct"} -> {1, 2}
       [] OTHER -> {}]

Tables == INSTANCE TableCoders WITH kind <- table_kind, decoded <- table_decoded,
            Kinds <- AllKinds, Crowds <- MCCrowds, EntryCounts <- MCEntryCounts
----------------------------------------------------------------------------
NoTable ==
  /\ table_kind = NULL /\ table = NULL /\ calls = 0
  /\ step = NULL /\ sections = NULL /\ table_decoded = NULL

NoDescriptor ==
  /\ kind = NULL /\ content = NULL /\ generated = NULL
  /\ received = NULL /\ reader = NULL /\ decoded = NULL

MCInit == (Init /\ NoTable) \/ (NoDescriptor /\ Tables!Init)

MCNext ==
  \/ Next /\ UNCHANGED tables
  \/ table_kind # NULL /\ Tables!Next /\ UNCHANGED vars

MCSpec == MCInit /\ [][MCNext]_<<vars, tables>>

\* A descriptor that a generator of libdvbpsi has written is one for its decoder, which reads
\* what was written, and nothing else is (the exceptions are in Descriptors).
DescriptorArrives == RoundTrip /\ Recognised

\* A table that a generator has written arrives with all its entries, and each entry with all
\* its descriptors, however its sections were filled (the exceptions are in TableCoders).
TableArrives == Tables!TableRoundTrip /\ Tables!EntryKept

\* Generators write inside the memory they have asked for, and decoders read no more than
\* they were given, whatever a length inside says (the exceptions are in the modules).
MemorySafe == WritesInside /\ ReadsOnlyItsData /\ Tables!WithinMemory
=============================================================================
