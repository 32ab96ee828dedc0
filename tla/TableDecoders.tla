---------------------------- MODULE TableDecoders ----------------------------
(***************************************************************************)
(* The decoders of the tables: how each one is attached, what it keeps of  *)
(* the table that it builds, which sections it takes for parts of the same *)
(* table, and how it gathers them.                                         *)
(***************************************************************************)
EXTENDS SectionGather

\* The fields of a table by which all decoders recognise it, and the extension.
Header(s) == [version |-> s.version, current_next |-> s.cn]
Extended(s) == [extension |-> s.ext, version |-> s.version, current_next |-> s.cn]

OtherVersion(d, s) == d.building.version # s.version \/ d.last # s.last
OtherTable(d, s) == d.building.extension # s.ext \/ OtherVersion(d, s)
----------------------------------------------------------------------------
(* Tables with a PID of their own. *)

PatAttach == NewDecoder
PatDetach == NULL
PatNew(s) == [ts_id |-> s.ext, version |-> s.version, current_next |-> s.cn]
CheckPAT(d, s) == d.building.ts_id # s.ext \/ OtherVersion(d, s)
PatGather(d, flag, s) ==
  IF CheckPSISection(s, {0}) THEN GatherOwn(d, flag, s, PatNew(s), CheckPAT(d, s))
  ELSE {Result(d, flag, NULL)}

CatAttach == NewDecoder
CatDetach == NULL
CatNew(s) == Header(s)
CheckCAT(d, s) == OtherVersion(d, s)
CatGather(d, flag, s) ==
  IF CheckPSISection(s, {1}) THEN GatherOwn(d, flag, s, CatNew(s), CheckCAT(d, s))
  ELSE {Result(d, flag, NULL)}

\* One program of those on the PID.
PmtAttach(program) == With(NewDecoder, "program_number", program)
PmtDetach == NULL
PmtNew(s) == Header(s)
CheckPMT(d, s) == OtherVersion(d, s)
PmtGather(d, flag, s) ==
  IF CheckPSISection(s, {2}) /\ d.program_number = s.ext
  THEN GatherOwn(d, flag, s, PmtNew(s), CheckPMT(d, s))
  ELSE {Result(d, flag, NULL)}

\* Neither a version nor a table under construction is looked at.
RstAttach == NewDecoder
RstDetach == NULL
RstNew(s) == Header(s)
RstReset(d, force) == ReInit(d, force)
RstSectionAdd(d, s) == AddSection(d, s, RstNew(s))
RstSectionCheck(s) == s.id = 113 /\ ~s.syntax
RstGather(d, flag, s) ==
  LET added == RstSectionAdd(IF d.discontinuity
                             THEN RstReset([d EXCEPT !.discontinuity = FALSE], TRUE) ELSE d, s) IN
  {IF ~RstSectionCheck(s) THEN Result(d, flag, NULL)
   ELSE IF SectionsCompleted(added) THEN Delivered(added, flag) ELSE Result(added, flag, NULL)}
----------------------------------------------------------------------------
(* Subtables of DVB. *)

SdtAttach(mux, id, ext) == Attach(mux, id, ext, ext, NewDecoder)
SdtDetach(mux, id, ext) == Detach(mux, id, ext)
SdtNew(s) == Extended(s)
CheckSDTAnyVersion(d, s) == d.building.extension # s.ext \/ d.last # s.last
CheckSDT(d, s) == OtherTable(d, s)
SdtGather(d, flag, s) ==
  IF CheckPSISection(s, {66, 70}) THEN GatherShared(d, flag, s, SdtNew(s), CheckSDT(d, s), FALSE)
  ELSE {Result(d, flag, NULL)}

\* The decoder of the NIT never learns of a discontinuity behind its first section.
NitAttach(mux, id, ext) == Attach(mux, id, ext, ext, With(NewDecoder, "network_id", ext))
NitDetach(mux, id, ext) == Detach(mux, id, ext)
NitNew(s) == Extended(s)
CheckNIT(d, s) == OtherVersion(d, s)
NitGather(d, flag, s) ==
  IF CheckPSISection(s, {64, 65}) /\ d.network_id = s.ext
  THEN GatherOwn(d, flag, s, NitNew(s), CheckNIT(d, s))
  ELSE {Result(d, flag, NULL)}

BatAttach(mux, id, ext) == Attach(mux, id, ext, ext, NewDecoder)
BatDetach(mux, id, ext) == Detach(mux, id, ext)
BatNew(s) == Extended(s)
CheckBAT(d, s) == OtherTable(d, s)
BatGather(d, flag, s) ==
  IF CheckPSISection(s, {74}) THEN GatherShared(d, flag, s, BatNew(s), CheckBAT(d, s), FALSE)
  ELSE {Result(d, flag, NULL)}

EitAttach(mux, id, ext) == Attach(mux, id, ext, ext, NewDecoder)
EitDetach(mux, id, ext) == Detach(mux, id, ext)
EitNew(s) == Extended(s)
CheckEIT(d, s) == OtherTable(d, s)
EitGather(d, flag, s) ==
  IF CheckPSISection(s, 78..111) THEN GatherShared(d, flag, s, EitNew(s), CheckEIT(d, s), TRUE)
  ELSE {Result(d, flag, NULL)}

\* The time is delivered with every section.
TotAttach(mux, id, ext) == Attach(mux, id, ext, ext, NewDecoder)
TotDetach(mux, id, ext) == Detach(mux, id, ext)
TotNew(s) == Extended(s)
CheckTOT(d, s) == OtherTable(d, s)
TotGather(d, flag, s) ==
  LET known == [d EXCEPT !.discontinuity = FALSE]
      added == AddSection(IF ~d.discontinuity /\ d.building # NULL /\ CheckTOT(d, s)
                          THEN ReInit(known, TRUE) ELSE known, s, TotNew(s)) IN
  {IF ~CheckPSISection(s, {112, 115}) THEN Result(d, flag, NULL)
   ELSE IF SectionsCompleted(added) THEN Delivered(added, flag) ELSE Result(added, flag, NULL)}

\* A splice information section has no syntax indicator: it is refused.
SisAttach(mux, id, ext) == Attach(mux, id, 0, 0, NewDecoder)
SisDetach(mux, id, ext) == Detach(mux, id, 0)
SisNew(s) == Extended(s)
CheckSIS(d, s) == OtherTable(d, s)
SisGather(d, flag, s) ==
  IF CheckPSISection(s, {252}) THEN GatherShared(d, flag, s, SisNew(s), CheckSIS(d, s), FALSE)
  ELSE {Result(d, flag, NULL)}
----------------------------------------------------------------------------
(* Subtables of ATSC. *)

AtscEitAttach(mux, id, ext) == Attach(mux, id, ext, ext, NewDecoder)
AtscEitDetach(mux, id, ext) == Detach(mux, id, ext)
AtscEitNew(s) == [source_id |-> s.ext, version |-> s.version, current_next |-> s.cn]
CheckAtscEIT(d, s) == d.building.source_id # s.ext \/ OtherVersion(d, s)
AtscEitGather(d, flag, s) ==
  IF CheckPSISection(s, {203})
  THEN {GatherAtsc(d, flag, s, AtscEitNew(s), CheckAtscEIT(d, s))}
  ELSE {Result(d, flag, NULL)}

\* The protocol version, which is 0, is compared with the extension, which is 0 as well.
\* The text is copied to a null pointer.
AttachETT(mux, id, ext) == Attach(mux, id, ext, ext, NewDecoder)
DetachETT(mux, id, ext) == Detach(mux, id, ext)
EttNew(s) == [protocol |-> 0, version |-> s.version, current_next |-> s.cn]
CheckETT(d, s) == d.building.protocol # s.ext \/ OtherVersion(d, s)
EttGather(d, flag, s) ==
  IF CheckPSISection(s, {204})
  THEN LET r == GatherAtsc(d, flag, s, EttNew(s), CheckETT(d, s)) IN
       {[r EXCEPT !.ended = r.table # NULL]}
  ELSE {Result(d, flag, NULL)}

\* The extension is compared with a field that is never written. The sections are
\* deleted, and then the last of them once more.
AttachMGT(mux, id, ext) == Attach(mux, id, ext, ext, NewDecoder)
DetachMGT(mux, id, ext) == Detach(mux, id, ext)
MgtNew(s) == Header(s)
CheckMGT(d, s, unwritten) == unwritten # s.ext \/ OtherVersion(d, s)
MgtGather(d, flag, s) ==
  IF CheckPSISection(s, {199})
  THEN LET results == {GatherAtsc(d, flag, s, MgtNew(s), CheckMGT(d, s, unwritten))
                         : unwritten \in {0, 1}} IN
       results \cup {[r EXCEPT !.ended = TRUE] : r \in {x \in results : x.table # NULL}}
  ELSE {Result(d, flag, NULL)}

AttachSTT(mux, id, ext) == Attach(mux, id, 0, ext, NewDecoder)
DetachSTT(mux, id, ext) == Detach(mux, id, 0)
SttNew(s) == Extended(s)
CheckSTT(d, s) == OtherVersion(d, s)
SttGather(d, flag, s) ==
  IF CheckPSISection(s, {205})
  THEN {GatherAtsc(d, flag, s, SttNew(s), CheckSTT(d, s))}
  ELSE {Result(d, flag, NULL)}

AttachVCT(mux, id, ext) == Attach(mux, id, ext, ext, NewDecoder)
DetachVCT(mux, id, ext) == Detach(mux, id, ext)
VctNew(s) == Extended(s)
CheckVCT(d, s) == OtherTable(d, s)
VctGather(d, flag, s) ==
  IF CheckPSISection(s, {200, 201})
  THEN {GatherAtsc(d, flag, s, VctNew(s), CheckVCT(d, s))}
  ELSE {Result(d, flag, NULL)}
=============================================================================
