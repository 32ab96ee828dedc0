----------------------------- MODULE TableGather -----------------------------
(***************************************************************************)
(* A table on the air and its decoder. The broadcaster repeats the         *)
(* sections of a table, and of the table that is to follow it, in a        *)
(* carousel; sections get lost, sometimes unnoticed; the application       *)
(* attaches decoders, detaches them, and is given the tables.              *)
(***************************************************************************)
EXTENDS TableDecoders

CONSTANTS
  Kinds,        \* the tables to look at
  Changing,     \* bound: the subtables, of 1 and 2, that change, get lost and are detached
  MaxChanges,   \* bound: how often the broadcaster prepares a new version (below 32)
  MaxLosses,    \* bound: sections lost
  MaxDetached   \* bound: how often the application detaches a decoder

VARIABLES
  kind,       \* the table
  sent,       \* for each subtable the version on the air and the one to follow
  decoder,    \* the decoder of a table with a PID of its own
  mux,        \* the demultiplexer of subtables and their decoders
  delivered,  \* for each subtable what the application was given last
  torn,       \* ever given: a table made of two versions
  partial,    \* ever given: a table with sections missing
  repeated,   \* ever given: the same table twice for no reason
  excused,    \* subtables with a loss noticed, another version announced, or detached,
              \* since they were delivered
  ended,      \* the program has crashed
  changes, losses, detached

vars == <<kind, sent, decoder, mux, delivered, torn, partial, repeated, excused, ended,
          changes, losses, detached>>
----------------------------------------------------------------------------
(* The table identifiers and extensions of the subtables.                  *)
Own == {"pat", "cat", "pmt", "rst"}
NoSyntax == {"rst", "tot", "sis"}
Single == {"rst", "tot", "sis", "atsc_ett", "atsc_stt"}
Atsc == {"atsc_eit", "atsc_ett", "atsc_mgt", "atsc_stt", "atsc_vct"}
Shared == {"sdt", "nit", "bat", "eit", "tot", "sis"} \cup Atsc

\* What the decoders keep of a table that they build.
Heads ==
  [version : Nat, current_next : BOOLEAN]
  \cup [extension : Nat, version : Nat, current_next : BOOLEAN]
  \cup [ts_id : Nat, version : Nat, current_next : BOOLEAN]
  \cup [source_id : Nat, version : Nat, current_next : BOOLEAN]
  \cup [protocol : Nat, version : Nat, current_next : BOOLEAN]

\* A table in the carousel: the extension, the version and the numbers of its sections,
\* whether it is in force, and the section to be sent next.
OnAir == [ext : Nat, gen : Nat, numbers : SUBSET (0..2), cn : BOOLEAN, pos : Nat]

\* The decoder of a table with a PID of its own.
Headers ==
  [id : Nat, ext : Nat, version : Nat, cn : BOOLEAN, num : Nat, last : Nat, syntax : BOOLEAN, gen : Nat]
Decoders ==
  [discontinuity : BOOLEAN, current_valid : BOOLEAN, current : Heads \cup {NULL},
   building : Heads \cup {NULL}, sections : SUBSET Headers, last : Nat, first : Nat]
  \cup
  [discontinuity : BOOLEAN, current_valid : BOOLEAN, current : Heads \cup {NULL},
   building : Heads \cup {NULL}, sections : SUBSET Headers, last : Nat, first : Nat,
   program_number : Nat]

\* A table that the application was given.
Given == [gen : Nat, cn : BOOLEAN]

ASSUME TableAssumption ==
  /\ Kinds \subseteq Own \cup Shared
  /\ MaxChanges \in 0..31
  /\ NULL \notin Heads \cup OnAir \cup Decoders \cup Given

Keys(table) ==
  CASE table = "pat" -> <<<<0, 1>>>>        [] table = "cat" -> <<<<1, 9>>>>
    [] table = "pmt" -> <<<<2, 1>>, <<2, 2>>>>
    [] table = "rst" -> <<<<113, 0>>>>      [] table = "sdt" -> <<<<66, 1>>, <<70, 2>>>>
    [] table = "nit" -> <<<<64, 1>>, <<65, 2>>>> [] table = "bat" -> <<<<74, 1>>, <<74, 2>>>>
    [] table = "eit" -> <<<<78, 1>>, <<80, 1>>>> [] table = "tot" -> <<<<112, 0>>, <<115, 0>>>>
    [] table = "sis" -> <<<<252, 0>>>>      [] table = "atsc_eit" -> <<<<203, 1>>, <<203, 2>>>>
    [] table = "atsc_ett" -> <<<<204, 0>>>> [] table = "atsc_mgt" -> <<<<199, 0>>>>
    [] table = "atsc_stt" -> <<<<205, 0>>>> [] table = "atsc_vct" -> <<<<200, 1>>, <<201, 1>>>>

Subtables == 1..Len(Keys(kind))
Wanted == IF kind = "pmt" THEN {1} ELSE Subtables

\* The numbers of the sections. Those of an EIT have a gap between two segments.
Shapes(table) ==
  IF table \in Single THEN {{0}}
  ELSE IF table = "eit" THEN {{0}, {0, 2}, {0, 1, 2}} ELSE {{0}, {0, 1}}
LastOf(numbers) == CHOOSE n \in numbers : \A m \in numbers : m <= n
After(n, numbers) ==
  IF n = LastOf(numbers) THEN 0 ELSE CHOOSE m \in numbers : m > n /\ \A l \in numbers : l > n => m <= l

Section(i, t) ==
  Parsed([id |-> Keys(kind)[i][1], ext |-> t.ext, version |-> t.gen % 32, cn |-> t.cn,
          num |-> t.pos, last |-> LastOf(t.numbers), syntax |-> kind \notin NoSyntax, gen |-> t.gen])
----------------------------------------------------------------------------
AttachTable(table, m, id, ext) ==
  CASE table = "sdt" -> SdtAttach(m, id, ext)          [] table = "nit" -> NitAttach(m, id, ext)
    [] table = "bat" -> BatAttach(m, id, ext)          [] table = "eit" -> EitAttach(m, id, ext)
    [] table = "tot" -> TotAttach(m, id, ext)          [] table = "sis" -> SisAttach(m, id, ext)
    [] table = "atsc_eit" -> AtscEitAttach(m, id, ext) [] table = "atsc_ett" -> AttachETT(m, id, ext)
    [] table = "atsc_mgt" -> AttachMGT(m, id, ext)     [] table = "atsc_stt" -> AttachSTT(m, id, ext)
    [] table = "atsc_vct" -> AttachVCT(m, id, ext)     [] OTHER -> m

DetachTable(table, m, id, ext) ==
  CASE table = "sdt" -> SdtDetach(m, id, ext)          [] table = "nit" -> NitDetach(m, id, ext)
    [] table = "bat" -> BatDetach(m, id, ext)          [] table = "eit" -> EitDetach(m, id, ext)
    [] table = "tot" -> TotDetach(m, id, ext)          [] table = "sis" -> SisDetach(m, id, ext)
    [] table = "atsc_eit" -> AtscEitDetach(m, id, ext) [] table = "atsc_ett" -> DetachETT(m, id, ext)
    [] table = "atsc_mgt" -> DetachMGT(m, id, ext)     [] table = "atsc_stt" -> DetachSTT(m, id, ext)
    [] table = "atsc_vct" -> DetachVCT(m, id, ext)

AttachDirectly(table) ==
  CASE table = "pat" -> PatAttach    [] table = "cat" -> CatAttach
    [] table = "pmt" -> PmtAttach(1) [] table = "rst" -> RstAttach
    [] OTHER -> NULL

DetachDirectly(table) ==
  CASE table = "pat" -> PatDetach [] table = "cat" -> CatDetach
    [] table = "pmt" -> PmtDetach [] table = "rst" -> RstDetach

Gather(table, d, flag, s) ==
  CASE table = "pat" -> PatGather(d, flag, s) [] table = "cat" -> CatGather(d, flag, s)
    [] table = "pmt" -> PmtGather(d, flag, s) [] table = "rst" -> RstGather(d, flag, s)
    [] table = "sdt" -> SdtGather(d, flag, s) [] table = "nit" -> NitGather(d, flag, s)
    [] table = "bat" -> BatGather(d, flag, s) [] table = "eit" -> EitGather(d, flag, s)
    [] table = "tot" -> TotGather(d, flag, s) [] table = "sis" -> SisGather(d, flag, s)
    [] table = "atsc_eit" -> AtscEitGather(d, flag, s) [] table = "atsc_ett" -> EttGather(d, flag, s)
    [] table = "atsc_mgt" -> MgtGather(d, flag, s)     [] table = "atsc_stt" -> SttGather(d, flag, s)
    [] table = "atsc_vct" -> VctGather(d, flag, s)
----------------------------------------------------------------------------
Table(i, gen, numbers, cn) ==
  [ext |-> Keys(kind)[i][2], gen |-> gen, numbers |-> numbers, cn |-> cn, pos |-> 0]

Init ==
  /\ kind \in Kinds
  /\ \E shape \in [Subtables -> Shapes(kind)] :
       /\ \A i \in Subtables : i \in Changing \/ shape[i] = {0}
       /\ sent = [i \in Subtables |-> [now |-> Table(i, 0, shape[i], TRUE), next |-> NULL]]
  /\ decoder = AttachDirectly(kind) /\ mux = NewDemux
  /\ delivered = [i \in Subtables |-> NULL]
  /\ torn = FALSE /\ partial = FALSE /\ repeated = FALSE /\ ended = FALSE
  /\ excused = {} /\ changes = 0 /\ losses = 0 /\ detached = 0

\* The broadcaster adds the version to follow to the carousel, then puts it into force.
Announce(i) ==
  /\ ~ended /\ i \in Changing /\ kind \notin NoSyntax /\ sent[i].next = NULL /\ changes < MaxChanges
  /\ \E numbers \in Shapes(kind) :
       sent' = [sent EXCEPT ![i].next = Table(i, sent[i].now.gen + 1, numbers, FALSE)]
  /\ changes' = changes + 1 /\ excused' = excused \cup {i}
  /\ UNCHANGED <<kind, decoder, mux, delivered, torn, partial, repeated, ended, losses, detached>>

Apply(i) ==
  /\ ~ended /\ sent[i].next # NULL
  /\ sent' = [sent EXCEPT ![i] = [now |-> [sent[i].next EXCEPT !.cn = TRUE], next |-> NULL]]
  /\ UNCHANGED <<kind, decoder, mux, delivered, torn, partial, repeated, excused, ended,
                 changes, losses, detached>>

\* Which subtable of the carousel the section belongs to.
Advanced(i, which) == [sent EXCEPT ![i][which].pos = After(@, sent[i][which].numbers)]

\* What the application is given: the contents of the sections and their numbers.
Receive(i, t, table, cn) ==
  LET gens == {s.gen : s \in table}
      given == [gen |-> t.gen, cn |-> cn]
  IN /\ torn' = (torn \/ gens # {t.gen})
     /\ partial' = (partial \/ {s.num : s \in table} # t.numbers)
     /\ repeated' = (repeated \/ (delivered[i] = given /\ i \notin excused))
     /\ delivered' = [delivered EXCEPT ![i] = given]
     /\ excused' = IF sent[i].next = NULL THEN excused \ {i} ELSE excused

NothingReceived == UNCHANGED <<delivered, torn, partial, repeated, excused>>

\* Detached() in front of the next section calls back for a decoder (dvbpsi_Demux).
Attached(s) == IF GetSubDec(mux, s.id, s.ext) THEN mux ELSE AttachTable(kind, mux, s.id, s.ext)

Demux(s) ==
  UNION {{[mux |-> [discontinuity |-> r.discontinuity,
                    subdecs |-> With(m.subdecs, <<s.id, s.ext>>, r.decoder)],
           decoder |-> NULL, got |-> r.decoder, table |-> r.table, ended |-> r.ended] :
            r \in Gather(kind, m.subdecs[<<s.id, s.ext>>], m.discontinuity, s)} : m \in {Attached(s)}}

Direct(s) ==
  IF decoder = NULL
  THEN {[mux |-> mux, decoder |-> NULL, got |-> NULL, table |-> NULL, ended |-> FALSE]}
  ELSE {[mux |-> mux, decoder |-> r.decoder, got |-> r.decoder, table |-> r.table, ended |-> r.ended] :
          r \in Gather(kind, decoder, FALSE, s)}

Send(i, which) ==
  /\ ~ended /\ sent[i][which] # NULL
  /\ sent' = Advanced(i, which)
  /\ \E s \in {Section(i, sent[i][which])} :
     \E r \in IF kind \in Own THEN Direct(s) ELSE Demux(s) :
       /\ mux' = r.mux /\ decoder' = r.decoder /\ ended' = r.ended
       /\ IF r.table = NULL THEN NothingReceived
          ELSE Receive(i, sent[i][which], r.table, r.got.current.current_next)
  /\ UNCHANGED <<kind, changes, losses, detached>>

\* Lost packets are noticed by their counter, unless it has come round.
Lose(i, which, noticed) ==
  /\ ~ended /\ i \in Changing /\ sent[i][which] # NULL /\ losses < MaxLosses
  /\ losses' = losses + 1 /\ sent' = Advanced(i, which)
  /\ IF kind \in Own
     THEN /\ mux' = mux
          /\ decoder' = IF noticed /\ decoder # NULL THEN [decoder EXCEPT !.discontinuity = TRUE]
                        ELSE decoder
     ELSE /\ mux' = IF noticed THEN [mux EXCEPT !.discontinuity = TRUE] ELSE mux
          /\ decoder' = decoder
  /\ excused' = IF noticed THEN Subtables ELSE excused
  /\ UNCHANGED <<kind, delivered, torn, partial, repeated, ended, changes, detached>>

\* The application detaches the decoder, and attaches one again.
DetachDecoder(i) ==
  /\ ~ended /\ i \in Changing /\ detached < MaxDetached
  /\ detached' = detached + 1 /\ excused' = excused \cup {i}
  /\ IF kind \in Own
     THEN /\ i = 1 /\ decoder # NULL /\ decoder' = DetachDirectly(kind) /\ mux' = mux
     ELSE /\ mux' = DetachTable(kind, mux, Keys(kind)[i][1], Keys(kind)[i][2])
          /\ mux' # mux /\ decoder' = decoder
  /\ UNCHANGED <<kind, sent, delivered, torn, partial, repeated, ended, changes, losses>>

AttachDecoder ==
  /\ ~ended /\ kind \in Own /\ decoder = NULL
  /\ decoder' = AttachDirectly(kind)
  /\ UNCHANGED <<kind, sent, mux, delivered, torn, partial, repeated, excused, ended,
                 changes, losses, detached>>

Next ==
  \/ AttachDecoder
  \/ \E i \in Subtables :
       \/ Announce(i) \/ Apply(i) \/ DetachDecoder(i)
       \/ \E which \in {"now", "next"} :
            Send(i, which) \/ \E noticed \in BOOLEAN : Lose(i, which, noticed)

\* The carousel goes on, a version announced comes into force, and the application
\* attaches its decoder again.
Fairness ==
  /\ WF_vars(AttachDecoder)
  /\ \A i \in 1..2 : WF_vars(i \in Subtables /\ Apply(i))
  /\ \A i \in 1..2 : WF_vars(i \in Subtables /\ Send(i, "now"))

Spec == Init /\ [][Next]_vars /\ Fairness
----------------------------------------------------------------------------
(* Properties.                                                             *)

\* A table is delivered with all its sections, all of one version, though two are on the air
\* and sections between them are lost. An EIT may lack some: when a section of it is lost and
\* the flag that tells so is cleared by another subtable, it is taken for a gap.
WholeTable == ~torn /\ (kind # "eit" => ~partial)

\* A table is delivered once, as long as no loss is noticed and no other version has been on
\* the air with it. Only the time and the running status are delivered with every section.
DeliveredOnce == kind \notin {"rst", "tot"} => ~repeated

\* Once there are no more changes and losses, the application comes to have the table in
\* force. No ATSC table of several sections and no splice information is ever delivered.
IsCurrent(i) ==
  /\ delivered[i] # NULL
  /\ delivered[i].gen = sent[i].now.gen /\ delivered[i].cn = sent[i].now.cn
BecomesCurrent == <>[](kind \notin Atsc \cup {"sis"} => \A i \in Wanted : IsCurrent(i))
=============================================================================
