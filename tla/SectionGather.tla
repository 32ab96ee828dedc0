---------------------------- MODULE SectionGather ----------------------------
(***************************************************************************)
(* What all tables of libdvbpsi share: the state of a decoder, its list of *)
(* gathered sections (dvbpsi.c, psi.c), and the demultiplexer that finds   *)
(* the decoder of a subtable (demux.c).                                    *)
(*                                                                         *)
(* A section is a record of its header; `gen' stands for its contents.     *)
(* A gather function is a set of results: the decoder and the flag of the  *)
(* demultiplexer behind it, the table delivered, and whether the program   *)
(* is still there.                                                         *)
(***************************************************************************)
EXTENDS Integers, Sequences

CONSTANT NULL

With(f, key, value) == [x \in DOMAIN f \cup {key} |-> IF x = key THEN value ELSE f[x]]

NewDecoder ==
  [discontinuity |-> TRUE, current_valid |-> FALSE, current |-> NULL,
   building |-> NULL, sections |-> {}, last |-> 0, first |-> 0]

DecoderReset(d, force) == [d EXCEPT !.current_valid = @ /\ ~force, !.sections = {}]

ReInit(d, force) == [DecoderReset(d, force) EXCEPT !.building = NULL]

\* Every number from 0 to the last one is there.
SectionsCompleted(d) == 0..d.last \subseteq {s.num : s \in d.sections}

\* A section with the same number is replaced.
SectionAdd(d, s) == [d EXCEPT !.sections = {t \in @ : t.num # s.num} \cup {s}]

CheckPSISection(s, ids) == s.id \in ids /\ (s.syntax \/ s.id \in {112, 115})

\* A section without the syntax indicator has no number, version or extension.
Parsed(s) ==
  IF s.syntax THEN s
  ELSE [s EXCEPT !.ext = 0, !.version = 0, !.cn = TRUE, !.num = 0, !.last = 0]

Result(d, flag, table) == [decoder |-> d, discontinuity |-> flag, table |-> table, ended |-> FALSE]

DecodedOnce(d, s) == d.current_valid /\ d.current.version = s.version

AlreadyDecoded(d, s) ==
  d.current_valid /\ d.current.version = s.version /\ d.current.current_next = s.cn

DeliveredForgotten(d, flag) == Result(ReInit([d EXCEPT !.current = d.building], TRUE), flag, d.sections)

\* Save the current information, decode and delete the sections, signal the table.
Delivered(d, flag) ==
  Result(ReInit([d EXCEPT !.current = d.building, !.current_valid = TRUE], FALSE), flag, d.sections)

\* The first section of a table creates it.
AddSection(d, s, new) ==
  SectionAdd(IF d.building # NULL THEN d
             ELSE [d EXCEPT !.building = new, !.last = s.last, !.first = s.num], s)

\* An EIT has gaps in its numbers: it counts as complete when the carousel has come round to
\* the first section received and the last section is there.
IsCompleteEIT(d, s) ==
  /\ IF d.first > 0 THEN s.num \in {d.first - 1, d.first} ELSE s.num = d.last
  /\ \E t \in d.sections : t.num = d.last

\* Start over behind a discontinuity, or when the section belongs to another table.
Ready(d, lost, differs) ==
  LET clean == [d EXCEPT !.discontinuity = @ /\ ~lost] IN
  IF lost \/ differs THEN ReInit(clean, TRUE) ELSE clean

Gathered(d, flag, lost, s, new, differs, gaps) ==
  LET added == AddSection(Ready(d, lost, d.building # NULL /\ differs), s, new) IN
  IF ~lost /\ d.building = NULL /\ AlreadyDecoded(d, s) THEN Result(d, flag, NULL)
  ELSE IF IF gaps THEN IsCompleteEIT(added, s) ELSE SectionsCompleted(added)
  THEN Delivered(added, flag) ELSE Result(added, flag, NULL)

\* The decoder of a table of its own uses its own flag.
GatherOwn(d, flag, s, new, differs) ==
  {Gathered(d, flag, d.discontinuity, s, new, differs, FALSE)}

\* Most subtables use, and clear, the one flag of the demultiplexer.
GatherShared(d, flag, s, new, differs, gaps) ==
  {Gathered(d, FALSE, flag, s, new, differs, gaps)}

\* The ATSC tables give up when the table has been created: the section that creates it
\* is deleted and the number of the last section not stored.
GatherAtsc(d, flag, s, new, differs) ==
  LET ready == Ready(d, flag, d.building # NULL /\ differs)
      added == SectionAdd(ready, s)
  IN IF ~flag /\ d.building = NULL /\ AlreadyDecoded(d, s) THEN Result(d, flag, NULL)
     ELSE IF ready.building = NULL
     THEN Result([ready EXCEPT !.building = new], FALSE, NULL)
     ELSE IF SectionsCompleted(added) THEN Delivered(added, FALSE) ELSE Result(added, FALSE, NULL)
----------------------------------------------------------------------------
(* demux.c *)

NewDemux == [discontinuity |-> TRUE, subdecs |-> <<>>]

GetSubDec(mux, id, ext) == <<id, ext>> \in DOMAIN mux.subdecs

AttachSubDecoder(mux, id, ext, decoder) ==
  [mux EXCEPT !.subdecs = With(@, <<id, ext>>, decoder)]

DetachSubDecoder(mux, id, ext) ==
  [mux EXCEPT !.subdecs = [k \in DOMAIN @ \ {<<id, ext>>} |-> @[k]]]

\* Attach the decoder of a subtable unless there is one for the extension `asked'.
Attach(mux, id, asked, ext, decoder) ==
  IF GetSubDec(mux, id, asked) THEN mux ELSE AttachSubDecoder(mux, id, ext, decoder)

Detach(mux, id, ext) == IF GetSubDec(mux, id, ext) THEN DetachSubDecoder(mux, id, ext) ELSE mux
=============================================================================
