-------------------------- MODULE TableGatherProofs --------------------------
(***************************************************************************)
(* No decoder of a table ever delivers sections of two versions, or a      *)
(* table that is not whole, and none delivers a table twice that it was    *)
(* given once: for all kinds of tables, and however many losses, changes   *)
(* (fewer than the version numbers) and detached decoders.                 *)
(***************************************************************************)
EXTENDS TableGather, TLAPS

(* What is on the air. *)

TableNames == Own \cup Shared
ShapesSent == {{0}, {0, 1}, {0, 2}, {0, 1, 2}}

Tables(i) ==
  [ext : {Keys(kind)[i][2]}, gen : 0..changes, numbers : ShapesSent, cn : BOOLEAN, pos : Nat]

TableOK(i, t) ==
  /\ t \in Tables(i) /\ t.pos \in t.numbers
  /\ t.numbers \in Shapes(kind)
  /\ kind \in NoSyntax => t.gen = 0

SentOK ==
  /\ kind \in TableNames /\ changes \in 0..31
  /\ DOMAIN sent = Subtables
  /\ \A i \in Subtables :
       /\ DOMAIN sent[i] = {"now", "next"}
       /\ TableOK(i, sent[i].now)
       /\ sent[i].next # NULL => TableOK(i, sent[i].next) /\ sent[i].next.gen = sent[i].now.gen + 1

(* What a decoder holds. The version of a section is its generation, since  *)
(* there are not so many.                                                   *)

\* Section s fits to the tables on the air at position i of the keys.
Fits(s, i) ==
  /\ \A which \in {"now", "next"} :
       sent[i][which] # NULL /\ s.gen = sent[i][which].gen => s.num \in sent[i][which].numbers
  /\ s.gen <= sent[i].now.gen \/ (sent[i].next # NULL /\ s.gen <= sent[i].next.gen)

SectionOK(key, s) ==
  /\ s.gen \in Nat /\ s.version = s.gen
  /\ kind \in NoSyntax => s.gen = 0
  /\ \A i \in Subtables : Keys(kind)[i] = key => Fits(s, i)

Fields == {"discontinuity", "current_valid", "current", "building", "sections", "last", "first"}

DecoderOK(key, d) ==
  /\ Fields \subseteq DOMAIN d /\ d.discontinuity \in BOOLEAN
  /\ \A s \in d.sections : SectionOK(key, s) /\ d.building # NULL /\ d.building.version = s.version
  /\ d.building # NULL /\ kind \in NoSyntax => d.building.version = 0

\* The decoder of a table with a PID of its own, and of the first program of a PMT.
OwnOK(d) ==
  /\ DecoderOK(Keys(kind)[1], d)
  /\ kind = "pmt" => "program_number" \in DOMAIN d /\ d.program_number = 1

\* The decoders of a demultiplexer.
SubdecsOK(m) ==
  /\ DOMAIN m = {"discontinuity", "subdecs"} /\ m.discontinuity \in BOOLEAN
  /\ \A key \in DOMAIN m.subdecs : DecoderOK(key, m.subdecs[key])

Held == SentOK /\ (decoder # NULL => OwnOK(decoder)) /\ SubdecsOK(mux)
----------------------------------------------------------------------------
(* The steps of a decoder. *)

\* The fields that do not belong to a table under construction.
Same(d, e) ==
  /\ DOMAIN e = DOMAIN d
  /\ "program_number" \in DOMAIN d => e.program_number = d.program_number

LEMMA ReInitOK ==
  ASSUME NEW key, NEW d, DecoderOK(key, d), NEW force
  PROVE  /\ DecoderOK(key, ReInit(d, force)) /\ Same(d, ReInit(d, force))
         /\ ReInit(d, force).building = NULL /\ ReInit(d, force).sections = {}
<1> DEFINE v == d.current_valid /\ ~force
           e == [d EXCEPT !.current_valid = v, !.sections = {}]
<1>0. DecoderReset(d, force) = e
  BY DEF DecoderReset
<1> HIDE DEF v
<1>1. e.sections = {} /\ DOMAIN e = DOMAIN d /\ "building" \in DOMAIN e /\ "sections" \in DOMAIN e
      /\ e.discontinuity = d.discontinuity /\ e.discontinuity \in BOOLEAN
      /\ ("program_number" \in DOMAIN d => e.program_number = d.program_number)
  BY DEF DecoderOK, Fields
<1> HIDE DEF e
<1> DEFINE g == [e EXCEPT !.building = NULL]
<1>2. ReInit(d, force) = g
  BY <1>0 DEF ReInit
<1>3. /\ g.building = NULL /\ g.sections = {} /\ DOMAIN g = DOMAIN d
      /\ g.discontinuity \in BOOLEAN
      /\ ("program_number" \in DOMAIN d => g.program_number = d.program_number)
  BY <1>1
<1> HIDE DEF g
<1>4. DecoderOK(key, g) /\ Same(d, g)
  BY <1>3 DEF DecoderOK, Same
<1> QED
  BY <1>2, <1>3, <1>4

LEMMA FlagCleared ==
  ASSUME NEW key, NEW d, DecoderOK(key, d), NEW v \in BOOLEAN
  PROVE  /\ DecoderOK(key, [d EXCEPT !.discontinuity = v]) /\ Same(d, [d EXCEPT !.discontinuity = v])
         /\ [d EXCEPT !.discontinuity = v].building = d.building
         /\ [d EXCEPT !.discontinuity = v].last = d.last
<1> DEFINE e == [d EXCEPT !.discontinuity = v]
<1>1. /\ e.building = d.building /\ e.sections = d.sections /\ DOMAIN e = DOMAIN d
      /\ e.last = d.last /\ e.discontinuity \in BOOLEAN
      /\ ("program_number" \in DOMAIN d => e.program_number = d.program_number)
  BY DEF DecoderOK, Fields
<1> HIDE DEF e
<1>2. DecoderOK(key, e) /\ Same(d, e)
  BY <1>1 DEF DecoderOK, Same
<1> QED
  BY <1>1, <1>2 DEF e

\* A table created in front of its first section.
LEMMA BuildingOK ==
  ASSUME NEW key, NEW d, DecoderOK(key, d), d.building = NULL,
         NEW new \in Heads, kind \in NoSyntax => new.version = 0,
         NEW e, DOMAIN e = DOMAIN d, e.building = new, e.sections = d.sections,
         e.discontinuity = d.discontinuity,
         "program_number" \in DOMAIN d => e.program_number = d.program_number
  PROVE  DecoderOK(key, e) /\ Same(d, e)
BY TableAssumption DEF DecoderOK, Same

LEMMA SectionAddOK ==
  ASSUME NEW key, NEW d, DecoderOK(key, d), NEW s, SectionOK(key, s),
         d.building # NULL, d.building.version = s.version
  PROVE  /\ DecoderOK(key, SectionAdd(d, s)) /\ Same(d, SectionAdd(d, s))
         /\ s \in SectionAdd(d, s).sections
         /\ SectionAdd(d, s).last = d.last
         /\ \A x \in SectionAdd(d, s).sections : x.version = s.version
<1> DEFINE S == {t \in d.sections : t.num # s.num} \cup {s}
           e == [d EXCEPT !.sections = S]
<1>1. SectionAdd(d, s) = e
  BY DEF SectionAdd
<1>2. \A x \in S : SectionOK(key, x) /\ x.version = d.building.version
  BY DEF DecoderOK
<1>3. s \in S
  OBVIOUS
<1> HIDE DEF S
<1>4. /\ e.sections = S /\ e.building = d.building /\ e.last = d.last /\ DOMAIN e = DOMAIN d
        /\ e.discontinuity = d.discontinuity
      /\ ("program_number" \in DOMAIN d => e.program_number = d.program_number)
  BY DEF DecoderOK, Fields
<1> HIDE DEF e
<1>5. DecoderOK(key, e) /\ Same(d, e)
  BY <1>2, <1>4 DEF DecoderOK, Same
<1> QED
  BY <1>1, <1>2, <1>3, <1>4, <1>5

LEMMA AddSectionOK ==
  ASSUME NEW key, NEW d, DecoderOK(key, d), NEW s, SectionOK(key, s),
         d.building # NULL => d.building.version = s.version,
         NEW new \in Heads, new.version = s.version
  PROVE  /\ DecoderOK(key, AddSection(d, s, new)) /\ Same(d, AddSection(d, s, new))
         /\ s \in AddSection(d, s, new).sections
         /\ d.building # NULL => AddSection(d, s, new).last = d.last
         /\ d.building = NULL => AddSection(d, s, new).last = s.last
         /\ \A x \in AddSection(d, s, new).sections : x.version = s.version
<1>1. CASE d.building # NULL
  <2>1. AddSection(d, s, new) = SectionAdd(d, s)
    BY <1>1 DEF AddSection
  <2> QED
    BY <1>1, <2>1, SectionAddOK
<1>2. CASE d.building = NULL
  <2> DEFINE e == [d EXCEPT !.building = new, !.last = s.last, !.first = s.num]
  <2>1. AddSection(d, s, new) = SectionAdd(e, s)
    BY <1>2 DEF AddSection
  <2>2. /\ e.building = new /\ e.sections = d.sections /\ e.last = s.last /\ DOMAIN e = DOMAIN d
        /\ e.discontinuity = d.discontinuity
        /\ ("program_number" \in DOMAIN d => e.program_number = d.program_number)
    BY DEF DecoderOK, Fields
  <2> HIDE DEF e
  <2>3. kind \in NoSyntax => new.version = 0
    BY DEF SectionOK
  <2>4. DecoderOK(key, e) /\ Same(d, e)
    BY <1>2, <2>2, <2>3, BuildingOK
  <2>5. e.building # NULL /\ e.building.version = s.version
    BY <2>2, TableAssumption
  <2> QED
    BY <1>2, <2>1, <2>2, <2>4, <2>5, SectionAddOK DEF Same
<1> QED
  BY <1>1, <1>2
----------------------------------------------------------------------------
(* The gather functions. *)

\* What is delivered behind section s: sections of its version, s among them, and all
\* numbers up to the last one if this is tested.
Whole(key, s, table) ==
  /\ s \in table
  /\ \A x \in table : SectionOK(key, x) /\ x.version = s.version
  /\ kind \notin Single \cup {"eit"} => \A n \in 0..s.last : \E x \in table : x.num = n

Good(key, d, s, r) ==
  /\ DecoderOK(key, r.decoder) /\ Same(d, r.decoder) /\ r.discontinuity \in BOOLEAN
  /\ r.table # NULL => Whole(key, s, r.table)

LEMMA NothingGood ==
  ASSUME NEW key, NEW d, DecoderOK(key, d), NEW s, NEW flag \in BOOLEAN
  PROVE  Good(key, d, s, Result(d, flag, NULL))
BY DEF Good, Result, Same

LEMMA DeliveredGood ==
  ASSUME NEW key, NEW d, NEW e, DecoderOK(key, e), Same(d, e), NEW s, NEW flag \in BOOLEAN,
         Whole(key, s, e.sections)
  PROVE  Good(key, d, s, Delivered(e, flag))
<1> DEFINE g == [e EXCEPT !.current = e.building, !.current_valid = TRUE]
<1>1. /\ g.building = e.building /\ g.sections = e.sections /\ DOMAIN g = DOMAIN e
      /\ g.discontinuity = e.discontinuity
      /\ ("program_number" \in DOMAIN e => g.program_number = e.program_number)
  BY DEF DecoderOK, Fields
<1>2. Delivered(e, flag) = Result(ReInit(g, FALSE), flag, e.sections)
  BY DEF Delivered
<1> HIDE DEF g
<1>3. DecoderOK(key, g) /\ Same(e, g)
  BY <1>1 DEF DecoderOK, Same
<1>4. DecoderOK(key, ReInit(g, FALSE)) /\ Same(g, ReInit(g, FALSE))
  BY <1>3, ReInitOK
<1>5. Same(d, ReInit(g, FALSE))
  BY <1>3, <1>4 DEF Same
<1> DEFINE r == Delivered(e, flag)
<1>6. r.decoder = ReInit(g, FALSE) /\ r.table = e.sections /\ r.discontinuity = flag
  BY <1>2 DEF Result
<1> QED
  BY <1>4, <1>5, <1>6 DEF Good

LEMMA CompleteIsWhole ==
  ASSUME NEW key, NEW e, DecoderOK(key, e), NEW s, s \in e.sections,
         \A x \in e.sections : x.version = s.version,
         kind \notin Single \cup {"eit"} => e.last = s.last /\ SectionsCompleted(e)
  PROVE  Whole(key, s, e.sections)
BY DEF Whole, DecoderOK, SectionsCompleted

LEMMA ReadyOK ==
  ASSUME NEW key, NEW d, DecoderOK(key, d), NEW lost \in BOOLEAN, NEW differs \in BOOLEAN
  PROVE  /\ DecoderOK(key, Ready(d, lost, differs)) /\ Same(d, Ready(d, lost, differs))
         /\ lost \/ differs => Ready(d, lost, differs).building = NULL
         /\ ~(lost \/ differs) => /\ Ready(d, lost, differs).building = d.building
                                  /\ Ready(d, lost, differs).last = d.last
<1> DEFINE v == d.discontinuity /\ ~lost
           clean == [d EXCEPT !.discontinuity = v]
<1>1. Ready(d, lost, differs) = IF lost \/ differs THEN ReInit(clean, TRUE) ELSE clean
  BY DEF Ready
<1>v. v \in BOOLEAN
  OBVIOUS
<1> HIDE DEF v
<1>2. /\ DecoderOK(key, clean) /\ Same(d, clean)
      /\ clean.building = d.building /\ clean.last = d.last
  BY <1>v, FlagCleared
<1> HIDE DEF clean
<1>3. /\ DecoderOK(key, ReInit(clean, TRUE)) /\ Same(clean, ReInit(clean, TRUE))
      /\ ReInit(clean, TRUE).building = NULL
  BY <1>2, ReInitOK
<1> QED
  BY <1>1, <1>2, <1>3 DEF Same

\* A test for a difference that looks at the version and the last number.
Looks(d, s, differs) == d.building # NULL /\ ~differs => d.building.version = s.version /\ d.last = s.last

LEMMA GatheredGood ==
  ASSUME NEW key, NEW d, DecoderOK(key, d), NEW s, SectionOK(key, s),
         NEW flag \in BOOLEAN, NEW lost \in BOOLEAN, NEW new \in Heads, new.version = s.version,
         NEW differs \in BOOLEAN, Looks(d, s, differs),
         NEW gaps \in BOOLEAN, gaps => kind = "eit"
  PROVE  Good(key, d, s, Gathered(d, flag, lost, s, new, differs, gaps))
<1> DEFINE other == d.building # NULL /\ differs
           e == Ready(d, lost, other)
           added == AddSection(e, s, new)
<1>1. /\ DecoderOK(key, e) /\ Same(d, e)
      /\ lost \/ other => e.building = NULL
      /\ ~(lost \/ other) => e.building = d.building /\ e.last = d.last
  BY ReadyOK
<1> HIDE DEF e
<1>2. e.building # NULL => e.building.version = s.version /\ e.last = s.last
  BY <1>1 DEF Looks
<1>3. /\ DecoderOK(key, added) /\ Same(e, added) /\ s \in added.sections
      /\ added.last = s.last
      /\ \A x \in added.sections : x.version = s.version
  BY <1>1, <1>2, AddSectionOK
<1> HIDE DEF added
<1>4. Same(d, added)
  BY <1>1, <1>3 DEF Same
<1>5. Good(key, d, s, Result(d, flag, NULL)) /\ Good(key, d, s, Result(added, flag, NULL))
  BY <1>3, <1>4, NothingGood DEF Good, Result
<1>6. CASE IF gaps THEN IsCompleteEIT(added, s) ELSE SectionsCompleted(added)
  <2>1. Whole(key, s, added.sections)
    BY <1>3, <1>6, CompleteIsWhole
  <2>2. Good(key, d, s, Delivered(added, flag))
    BY <1>3, <1>4, <2>1, DeliveredGood
  <2> QED
    BY <1>5, <1>6, <2>2 DEF Gathered, added, e
<1>7. CASE ~IF gaps THEN IsCompleteEIT(added, s) ELSE SectionsCompleted(added)
  BY <1>5, <1>7 DEF Gathered, added, e
<1> QED
  BY <1>6, <1>7

LEMMA GatherAtscGood ==
  ASSUME NEW key, NEW d, DecoderOK(key, d), NEW s, SectionOK(key, s),
         NEW flag \in BOOLEAN, NEW new \in Heads, new.version = s.version,
         NEW differs \in BOOLEAN, Looks(d, s, differs)
  PROVE  Good(key, d, s, GatherAtsc(d, flag, s, new, differs))
<1> DEFINE other == d.building # NULL /\ differs
           e == Ready(d, flag, other)
           added == SectionAdd(e, s)
           made == [e EXCEPT !.building = new]
           r == GatherAtsc(d, flag, s, new, differs)
<1>1. /\ DecoderOK(key, e) /\ Same(d, e)
      /\ flag \/ other => e.building = NULL
      /\ ~(flag \/ other) => e.building = d.building /\ e.last = d.last
  BY ReadyOK
<1>2. \/ r = Result(d, flag, NULL)
      \/ e.building = NULL /\ r = Result(made, FALSE, NULL)
      \/ e.building # NULL /\ SectionsCompleted(added) /\ r = Delivered(added, FALSE)
      \/ e.building # NULL /\ r = Result(added, FALSE, NULL)
  BY DEF GatherAtsc
<1> HIDE DEF e, r
<1>3. CASE r = Result(d, flag, NULL)
  BY <1>3, NothingGood DEF r
<1>4. CASE e.building = NULL /\ r = Result(made, FALSE, NULL)
  <2>1. /\ made.building = new /\ made.sections = e.sections /\ DOMAIN made = DOMAIN e
        /\ made.discontinuity = e.discontinuity
        /\ ("program_number" \in DOMAIN e => made.program_number = e.program_number)
    BY <1>1 DEF DecoderOK, Fields
  <2> HIDE DEF made
  <2>2. kind \in NoSyntax => new.version = 0
    BY DEF SectionOK
  <2>3. DecoderOK(key, made) /\ Same(e, made)
    BY <1>1, <1>4, <2>1, <2>2, BuildingOK
  <2> QED
    BY <1>1, <1>4, <2>3 DEF Good, Result, Same, r
<1>5. CASE /\ e.building # NULL
           /\ \/ r = Delivered(added, FALSE) /\ SectionsCompleted(added)
              \/ r = Result(added, FALSE, NULL)
  <2>1. e.building.version = s.version /\ e.last = s.last
    BY <1>1, <1>5 DEF Looks
  <2>2. /\ DecoderOK(key, added) /\ Same(e, added) /\ s \in added.sections
        /\ added.last = s.last
        /\ \A x \in added.sections : x.version = s.version
    BY <1>1, <1>5, <2>1, SectionAddOK
  <2> HIDE DEF added
  <2>3. Same(d, added)
    BY <1>1, <2>2 DEF Same
  <2>4. CASE r = Result(added, FALSE, NULL)
    BY <2>2, <2>3, <2>4 DEF Good, Result, r
  <2>5. CASE r = Delivered(added, FALSE) /\ SectionsCompleted(added)
    <3>1. Whole(key, s, added.sections)
      BY <2>2, <2>5, CompleteIsWhole
    <3> QED
      BY <2>2, <2>3, <2>5, <3>1, DeliveredGood DEF r
  <2> QED
    BY <1>5, <2>4, <2>5
<1> QED
  BY <1>2, <1>3, <1>4, <1>5

\* The tables without a version are not tested for one.
LEMMA AddedGood ==
  ASSUME NEW key, NEW d, NEW e, DecoderOK(key, e), Same(d, e), NEW s, SectionOK(key, s),
         kind \in NoSyntax, kind \in Single, NEW flag \in BOOLEAN, NEW new \in Heads, new.version = s.version,
         NEW added, added = AddSection(e, s, new)
  PROVE  /\ Good(key, d, s, Delivered(added, flag))
         /\ Good(key, d, s, Result(added, flag, NULL))
<1>1. e.building # NULL => e.building.version = s.version
  BY DEF DecoderOK, SectionOK
<1>2. /\ DecoderOK(key, added) /\ Same(e, added) /\ s \in added.sections
      /\ \A x \in added.sections : x.version = s.version
  BY <1>1, AddSectionOK
<1>3. Same(d, added)
  BY <1>2 DEF Same
<1>4. Whole(key, s, added.sections)
  BY <1>2, CompleteIsWhole
<1> QED
  BY <1>2, <1>3, <1>4, DeliveredGood DEF Good, Result
----------------------------------------------------------------------------
(* The tables. *)

\* The numbers in the header of a section.
HeaderOK(s) == s.ext \in Nat /\ s.version \in Nat /\ s.cn \in BOOLEAN

LEMMA NewHeads ==
  ASSUME NEW s, HeaderOK(s)
  PROVE  /\ {Header(s), Extended(s), PatNew(s), AtscEitNew(s), EttNew(s)} \subseteq Heads
         /\ \A new \in {Header(s), Extended(s), PatNew(s), AtscEitNew(s), EttNew(s)} :
              new.version = s.version
BY DEF HeaderOK, Heads, Header, Extended, PatNew, AtscEitNew, EttNew

LEMMA Comparisons ==
  ASSUME NEW d, NEW s
  PROVE  /\ Looks(d, s, OtherVersion(d, s)) /\ Looks(d, s, OtherTable(d, s))
         /\ Looks(d, s, CheckPAT(d, s)) /\ Looks(d, s, CheckAtscEIT(d, s))
         /\ Looks(d, s, CheckETT(d, s)) /\ \A u : Looks(d, s, CheckMGT(d, s, u))
BY DEF Looks, OtherVersion, OtherTable, CheckPAT, CheckAtscEIT, CheckETT, CheckMGT

LEMMA AtscResult ==
  ASSUME NEW d, NEW flag, NEW s, NEW new, NEW differs
  PROVE  DOMAIN GatherAtsc(d, flag, s, new, differs) = {"decoder", "discontinuity", "table", "ended"}
BY DEF GatherAtsc, Result, Delivered

\* Where the program ends with the table delivered the decoder is what it would be.
LEMMA EndedGood ==
  ASSUME NEW key, NEW d, NEW s, NEW r, Good(key, d, s, r), NEW ends,
         DOMAIN r = {"decoder", "discontinuity", "table", "ended"}
  PROVE  Good(key, d, s, [r EXCEPT !.ended = ends])
BY DEF Good

LEMMA GatherGood ==
  ASSUME kind \in TableNames, NEW key, NEW d, DecoderOK(key, d), NEW s, SectionOK(key, s), HeaderOK(s),
         NEW flag \in BOOLEAN, NEW r \in Gather(kind, d, flag, s)
  PROVE  Good(key, d, s, r)
<1>0. Good(key, d, s, Result(d, flag, NULL))
  BY NothingGood
<1>h. /\ {Header(s), Extended(s), PatNew(s), AtscEitNew(s), EttNew(s)} \subseteq Heads
      /\ \A new \in {Header(s), Extended(s), PatNew(s), AtscEitNew(s), EttNew(s)} :
           new.version = s.version
  BY NewHeads
<1>d. d.discontinuity \in BOOLEAN
  BY DEF DecoderOK
<1>o. ASSUME NEW new \in Heads, new.version = s.version, NEW differs \in BOOLEAN, Looks(d, s, differs),
             r \in GatherOwn(d, flag, s, new, differs)
      PROVE  Good(key, d, s, r)
  BY <1>d, <1>o, GatheredGood DEF GatherOwn
<1>s. ASSUME NEW new \in Heads, new.version = s.version, NEW differs \in BOOLEAN, Looks(d, s, differs),
             NEW gaps \in BOOLEAN, gaps => kind = "eit",
             r \in GatherShared(d, flag, s, new, differs, gaps)
      PROVE  Good(key, d, s, r)
  BY <1>s, GatheredGood DEF GatherShared
<1>a. ASSUME NEW new \in Heads, new.version = s.version, NEW differs \in BOOLEAN, Looks(d, s, differs)
      PROVE  Good(key, d, s, GatherAtsc(d, flag, s, new, differs))
  BY <1>a, GatherAtscGood
<1>v. OtherVersion(d, s) \in BOOLEAN /\ Looks(d, s, OtherVersion(d, s))
  BY Comparisons DEF OtherVersion
<1>t. OtherTable(d, s) \in BOOLEAN /\ Looks(d, s, OtherTable(d, s))
  BY Comparisons DEF OtherTable
<1>pat. CASE kind = "pat"
  <2>1. CheckPAT(d, s) \in BOOLEAN /\ Looks(d, s, CheckPAT(d, s))
    BY Comparisons DEF CheckPAT
  <2>2. r = Result(d, flag, NULL) \/ r \in GatherOwn(d, flag, s, PatNew(s), CheckPAT(d, s))
    BY <1>pat DEF Gather, PatGather
  <2> QED
    BY <1>0, <1>h, <1>o, <2>1, <2>2
<1>cat. CASE kind = "cat"
  <2>1. r = Result(d, flag, NULL) \/ r \in GatherOwn(d, flag, s, Header(s), OtherVersion(d, s))
    BY <1>cat DEF Gather, CatGather, CatNew, CheckCAT
  <2> QED
    BY <1>0, <1>h, <1>o, <1>v, <2>1
<1>pmt. CASE kind = "pmt"
  <2>1. r = Result(d, flag, NULL) \/ r \in GatherOwn(d, flag, s, Header(s), OtherVersion(d, s))
    BY <1>pmt DEF Gather, PmtGather, PmtNew, CheckPMT
  <2> QED
    BY <1>0, <1>h, <1>o, <1>v, <2>1
<1>nit. CASE kind = "nit"
  <2>1. r = Result(d, flag, NULL) \/ r \in GatherOwn(d, flag, s, Extended(s), OtherVersion(d, s))
    BY <1>nit DEF Gather, NitGather, NitNew, CheckNIT
  <2> QED
    BY <1>0, <1>h, <1>o, <1>v, <2>1
<1>sdt. CASE kind = "sdt"
  <2>1. \/ r = Result(d, flag, NULL)
        \/ r \in GatherShared(d, flag, s, Extended(s), OtherTable(d, s), FALSE)
    BY <1>sdt DEF Gather, SdtGather, SdtNew, CheckSDT
  <2> QED
    BY <1>sdt, <1>0, <1>h, <1>s, <1>t, <2>1
<1>bat. CASE kind = "bat"
  <2>1. \/ r = Result(d, flag, NULL)
        \/ r \in GatherShared(d, flag, s, Extended(s), OtherTable(d, s), FALSE)
    BY <1>bat DEF Gather, BatGather, BatNew, CheckBAT
  <2> QED
    BY <1>bat, <1>0, <1>h, <1>s, <1>t, <2>1
<1>eit. CASE kind = "eit"
  <2>1. \/ r = Result(d, flag, NULL)
        \/ r \in GatherShared(d, flag, s, Extended(s), OtherTable(d, s), TRUE)
    BY <1>eit DEF Gather, EitGather, EitNew, CheckEIT
  <2> QED
    BY <1>eit, <1>0, <1>h, <1>s, <1>t, <2>1
<1>sis. CASE kind = "sis"
  <2>1. \/ r = Result(d, flag, NULL)
        \/ r \in GatherShared(d, flag, s, Extended(s), OtherTable(d, s), FALSE)
    BY <1>sis DEF Gather, SisGather, SisNew, CheckSIS
  <2> QED
    BY <1>sis, <1>0, <1>h, <1>s, <1>t, <2>1
<1>atsc_stt. CASE kind = "atsc_stt"
  <2>1. r = Result(d, flag, NULL) \/ r = GatherAtsc(d, flag, s, Extended(s), OtherVersion(d, s))
    BY <1>atsc_stt DEF Gather, SttGather, SttNew, CheckSTT
  <2> QED
    BY <1>0, <1>h, <1>a, <1>v, <2>1
<1>atsc_vct. CASE kind = "atsc_vct"
  <2>1. r = Result(d, flag, NULL) \/ r = GatherAtsc(d, flag, s, Extended(s), OtherTable(d, s))
    BY <1>atsc_vct DEF Gather, VctGather, VctNew, CheckVCT
  <2> QED
    BY <1>0, <1>h, <1>a, <1>t, <2>1
<1>atsc_eit. CASE kind = "atsc_eit"
  <2>1. CheckAtscEIT(d, s) \in BOOLEAN /\ Looks(d, s, CheckAtscEIT(d, s))
    BY Comparisons DEF CheckAtscEIT
  <2>2. \/ r = Result(d, flag, NULL)
        \/ r = GatherAtsc(d, flag, s, AtscEitNew(s), CheckAtscEIT(d, s))
    BY <1>atsc_eit DEF Gather, AtscEitGather
  <2> QED
    BY <1>0, <1>h, <1>a, <2>1, <2>2
<1>atsc_ett. CASE kind = "atsc_ett"
  <2> DEFINE g == GatherAtsc(d, flag, s, EttNew(s), CheckETT(d, s))
  <2>1. CheckETT(d, s) \in BOOLEAN /\ Looks(d, s, CheckETT(d, s))
    BY Comparisons DEF CheckETT
  <2>2. Good(key, d, s, g)
    BY <1>h, <1>a, <2>1
  <2>3. r = Result(d, flag, NULL) \/ r = [g EXCEPT !.ended = g.table # NULL]
    BY <1>atsc_ett DEF Gather, EttGather
  <2>4. DOMAIN g = {"decoder", "discontinuity", "table", "ended"}
    BY AtscResult
  <2> QED
    BY <1>0, <2>2, <2>3, <2>4, EndedGood
<1>atsc_mgt. CASE kind = "atsc_mgt"
  <2> DEFINE g(u) == GatherAtsc(d, flag, s, Header(s), CheckMGT(d, s, u))
  <2>1. \A u : CheckMGT(d, s, u) \in BOOLEAN /\ Looks(d, s, CheckMGT(d, s, u))
    BY Comparisons DEF CheckMGT
  <2>2. \A u : Good(key, d, s, g(u))
    BY <1>h, <1>a, <2>1
  <2>3. \/ r = Result(d, flag, NULL)
        \/ \E u \in {0, 1} : r = g(u) \/ r = [g(u) EXCEPT !.ended = TRUE]
    BY <1>atsc_mgt DEF Gather, MgtGather, MgtNew
  <2>4. \A u : DOMAIN g(u) = {"decoder", "discontinuity", "table", "ended"}
    BY AtscResult
  <2> HIDE DEF g
  <2> QED
    BY <1>0, <2>2, <2>3, <2>4, EndedGood
<1>rst. CASE kind = "rst"
  <2> DEFINE known == [d EXCEPT !.discontinuity = FALSE]
             e == IF d.discontinuity THEN ReInit(known, TRUE) ELSE d
             added == AddSection(e, s, Header(s))
  <2>1. DecoderOK(key, known) /\ Same(d, known)
    BY FlagCleared
  <2> HIDE DEF known
  <2>2. DecoderOK(key, ReInit(known, TRUE)) /\ Same(d, ReInit(known, TRUE))
    BY <2>1, ReInitOK DEF Same
  <2>3. DecoderOK(key, e) /\ Same(d, e)
    BY <2>2 DEF Same
  <2>4. r \in {Result(d, flag, NULL), Delivered(added, flag), Result(added, flag, NULL)}
    BY <1>rst DEF Gather, RstGather, RstSectionAdd, RstReset, RstNew, known
  <2> HIDE DEF e
  <2>5. kind \in NoSyntax /\ kind \in Single
    BY <1>rst DEF NoSyntax, Single
  <2>6. Good(key, d, s, Delivered(added, flag)) /\ Good(key, d, s, Result(added, flag, NULL))
    BY <1>h, <2>3, <2>5, AddedGood
  <2> QED
    BY <1>0, <2>4, <2>6
<1>tot. CASE kind = "tot"
  <2> DEFINE known == [d EXCEPT !.discontinuity = FALSE]
             e == IF ~d.discontinuity /\ d.building # NULL /\ CheckTOT(d, s)
                  THEN ReInit(known, TRUE) ELSE known
             added == AddSection(e, s, Extended(s))
  <2>1. DecoderOK(key, known) /\ Same(d, known)
    BY FlagCleared
  <2> HIDE DEF known
  <2>2. DecoderOK(key, ReInit(known, TRUE)) /\ Same(d, ReInit(known, TRUE))
    BY <2>1, ReInitOK DEF Same
  <2>3. DecoderOK(key, e) /\ Same(d, e)
    BY <2>1, <2>2
  <2>4. r \in {Result(d, flag, NULL), Delivered(added, flag), Result(added, flag, NULL)}
    BY <1>tot DEF Gather, TotGather, TotNew, known
  <2> HIDE DEF e
  <2>5. kind \in NoSyntax /\ kind \in Single
    BY <1>tot DEF NoSyntax, Single
  <2>6. Good(key, d, s, Delivered(added, flag)) /\ Good(key, d, s, Result(added, flag, NULL))
    BY <1>h, <2>3, <2>5, AddedGood
  <2> QED
    BY <1>0, <2>4, <2>6
<1> QED
  BY <1>pat, <1>cat, <1>pmt, <1>rst, <1>sdt, <1>nit, <1>bat, <1>eit,
     <1>tot, <1>sis, <1>atsc_eit, <1>atsc_ett, <1>atsc_mgt, <1>atsc_stt, <1>atsc_vct
  DEF TableNames, Own, Shared, Atsc
----------------------------------------------------------------------------
(* The carousel. *)

LEMMA KeyFacts ==
  ASSUME kind \in TableNames
  PROVE  /\ 1 \in Subtables /\ Subtables \subseteq Nat
         /\ \A i \in Subtables :
              /\ Keys(kind)[i] = <<Keys(kind)[i][1], Keys(kind)[i][2]>>
              /\ Keys(kind)[i][1] \in Nat /\ Keys(kind)[i][2] \in Nat
              /\ kind \in NoSyntax => Keys(kind)[i][2] = 0
              /\ kind \in Own /\ kind # "pmt" => i = 1
              /\ kind = "pmt" /\ i # 1 => Keys(kind)[i][2] # 1
         /\ \A i, j \in Subtables : Keys(kind)[i] = Keys(kind)[j] => i = j
<1>pat. CASE kind = "pat"
  BY <1>pat DEF Keys, Subtables, NoSyntax, Own
<1>cat. CASE kind = "cat"
  BY <1>cat DEF Keys, Subtables, NoSyntax, Own
<1>pmt. CASE kind = "pmt"
  BY <1>pmt DEF Keys, Subtables, NoSyntax, Own
<1>rst. CASE kind = "rst"
  BY <1>rst DEF Keys, Subtables, NoSyntax, Own
<1>sdt. CASE kind = "sdt"
  BY <1>sdt DEF Keys, Subtables, NoSyntax, Own
<1>nit. CASE kind = "nit"
  BY <1>nit DEF Keys, Subtables, NoSyntax, Own
<1>bat. CASE kind = "bat"
  BY <1>bat DEF Keys, Subtables, NoSyntax, Own
<1>eit. CASE kind = "eit"
  BY <1>eit DEF Keys, Subtables, NoSyntax, Own
<1>tot. CASE kind = "tot"
  BY <1>tot DEF Keys, Subtables, NoSyntax, Own
<1>sis. CASE kind = "sis"
  BY <1>sis DEF Keys, Subtables, NoSyntax, Own
<1>atsc_eit. CASE kind = "atsc_eit"
  BY <1>atsc_eit DEF Keys, Subtables, NoSyntax, Own
<1>atsc_ett. CASE kind = "atsc_ett"
  BY <1>atsc_ett DEF Keys, Subtables, NoSyntax, Own
<1>atsc_mgt. CASE kind = "atsc_mgt"
  BY <1>atsc_mgt DEF Keys, Subtables, NoSyntax, Own
<1>atsc_stt. CASE kind = "atsc_stt"
  BY <1>atsc_stt DEF Keys, Subtables, NoSyntax, Own
<1>atsc_vct. CASE kind = "atsc_vct"
  BY <1>atsc_vct DEF Keys, Subtables, NoSyntax, Own
<1> QED
  BY <1>pat, <1>cat, <1>pmt, <1>rst, <1>sdt, <1>nit, <1>bat, <1>eit,
     <1>tot, <1>sis, <1>atsc_eit, <1>atsc_ett, <1>atsc_mgt, <1>atsc_stt, <1>atsc_vct
  DEF TableNames, Own, Shared, Atsc

LEMMA ShapeFacts ==
  /\ Shapes(kind) \subseteq ShapesSent
  /\ kind # "eit" => Shapes(kind) \subseteq {{0}, {0, 1}}
  /\ kind \in Single \cup NoSyntax => Shapes(kind) = {{0}}
  /\ ShapesSent \subseteq SUBSET (0..2)
BY DEF Shapes, ShapesSent, Single, NoSyntax

LEMMA LastFacts ==
  ASSUME NEW numbers \in ShapesSent
  PROVE  /\ LastOf(numbers) \in numbers
         /\ numbers \subseteq 0..LastOf(numbers)
         /\ numbers \in {{0}, {0, 1}} => 0..LastOf(numbers) = numbers
<1>1. \E n \in numbers : \A m \in numbers : m <= n
  <2>1. CASE numbers = {0}
    BY <2>1
  <2>2. CASE numbers = {0, 1}
    BY <2>2
  <2>3. CASE numbers = {0, 2} \/ numbers = {0, 1, 2}
    BY <2>3
  <2> QED
    BY <2>1, <2>2, <2>3 DEF ShapesSent
<1>2. LastOf(numbers) \in numbers /\ \A m \in numbers : m <= LastOf(numbers)
  BY <1>1 DEF LastOf
<1> QED
  BY <1>2 DEF ShapesSent

LEMMA AfterFacts ==
  ASSUME NEW numbers \in ShapesSent, NEW n \in numbers
  PROVE  After(n, numbers) \in numbers
<1>1. CASE n = LastOf(numbers)
  BY <1>1 DEF After, ShapesSent
<1>2. CASE n # LastOf(numbers)
  <2>1. LastOf(numbers) \in numbers /\ \A m \in numbers : m <= LastOf(numbers)
    BY LastFacts DEF ShapesSent
  <2>2. \E m \in numbers : m > n /\ \A l \in numbers : l > n => m <= l
    BY <1>2, <2>1 DEF ShapesSent
  <2>3. After(n, numbers) = CHOOSE m \in numbers : m > n /\ \A l \in numbers : l > n => m <= l
    BY <1>2 DEF After
  <2> QED
    BY <2>2, <2>3
<1> QED
  BY <1>1, <1>2

LEMMA TableFacts ==
  ASSUME SentOK, NEW i \in Subtables, NEW t, TableOK(i, t)
  PROVE  /\ t \in OnAir /\ t # NULL /\ t.numbers \in ShapesSent
         /\ t.ext = Keys(kind)[i][2] /\ t.gen % 32 = t.gen
<1>1. t \in OnAir
  BY KeyFacts DEF SentOK, TableOK, Tables, OnAir, ShapesSent
<1>2. t # NULL
  BY <1>1, TableAssumption
<1>3. t.gen \in 0..31
  BY DEF TableOK, Tables, SentOK
<1> QED
  BY <1>1, <1>2, <1>3 DEF TableOK, Tables

\* What the section of a table on the air is.
LEMMA SectionFacts ==
  ASSUME SentOK, NEW i \in Subtables, NEW which \in {"now", "next"}, sent[i][which] # NULL,
         NEW t, t = sent[i][which], NEW s, s = Section(i, t)
  PROVE  /\ TableOK(i, t)
         /\ <<s.id, s.ext>> = Keys(kind)[i] /\ s.id \in Nat /\ HeaderOK(s) /\ s.gen = t.gen
         /\ s.num = t.pos /\ s.last = LastOf(t.numbers)
         /\ SectionOK(Keys(kind)[i], s)
<1>1. TableOK(i, t)
  BY DEF SentOK
<1>2. /\ t \in OnAir /\ t.numbers \in ShapesSent
      /\ t.ext = Keys(kind)[i][2] /\ t.gen % 32 = t.gen
  BY <1>1, TableFacts
<1>k. kind \in TableNames
  BY DEF SentOK
<1>3. /\ Keys(kind)[i] = <<Keys(kind)[i][1], Keys(kind)[i][2]>>
      /\ Keys(kind)[i][1] \in Nat /\ Keys(kind)[i][2] \in Nat
      /\ kind \in NoSyntax => Keys(kind)[i][2] = 0
      /\ \A j \in Subtables : Keys(kind)[j] = Keys(kind)[i] => i = j
  BY <1>k, KeyFacts
<1>4. /\ s.id = Keys(kind)[i][1] /\ s.ext = Keys(kind)[i][2] /\ s.version = t.gen
      /\ s.cn \in BOOLEAN /\ s.num = t.pos /\ s.last = LastOf(t.numbers) /\ s.gen = t.gen
      /\ kind \in NoSyntax => s.gen = 0
  <2>1. CASE kind \in NoSyntax
    <3>1. t.gen = 0 /\ t.numbers = {0} /\ t.pos = 0
      BY <1>1, <2>1, ShapeFacts DEF TableOK
    <3>2. LastOf({0}) = 0
      BY <3>1, <1>2, LastFacts
    <3>3. /\ s.id = Keys(kind)[i][1] /\ s.ext = 0 /\ s.version = 0 /\ s.cn = TRUE /\ s.num = 0
          /\ s.last = 0 /\ s.gen = t.gen
      BY <2>1 DEF Section, Parsed
    <3> QED
      BY <1>3, <2>1, <3>1, <3>2, <3>3
  <2>2. CASE kind \notin NoSyntax
    BY <1>2, <2>2 DEF Section, Parsed, OnAir
  <2> QED
    BY <2>1, <2>2
<1>5. t.gen \in Nat /\ t.pos \in t.numbers /\ t.cn \in BOOLEAN
  BY <1>1, <1>2 DEF TableOK, OnAir
<1>6. Fits(s, i)
  <2>1. /\ sent[i].now.gen \in Nat
        /\ sent[i].next # NULL => sent[i].next.gen = sent[i].now.gen + 1
    BY DEF SentOK, TableOK, Tables
  <2>2. \A w \in {"now", "next"} : sent[i][w] # NULL /\ s.gen = sent[i][w].gen => w = which
    <3>1. CASE which = "now"
      BY <1>4, <2>1, <3>1
    <3>2. CASE which = "next"
      BY <1>4, <2>1, <3>2
    <3> QED
      BY <3>1, <3>2
  <2>3. s.gen <= sent[i].now.gen \/ (sent[i].next # NULL /\ s.gen <= sent[i].next.gen)
    BY <1>4, <1>5
  <2> QED
    BY <1>4, <1>5, <2>2, <2>3 DEF Fits
<1>7. SectionOK(Keys(kind)[i], s)
  BY <1>3, <1>4, <1>5, <1>6 DEF SectionOK
<1> QED
  BY <1>1, <1>3, <1>4, <1>5, <1>7 DEF HeaderOK

\* A table that is whole has the sections sent, and no others.
LEMMA WholeFacts ==
  ASSUME SentOK, NEW i \in Subtables, NEW which \in {"now", "next"}, sent[i][which] # NULL,
         NEW t, t = sent[i][which], NEW s, s = Section(i, t),
         NEW table, Whole(Keys(kind)[i], s, table)
  PROVE  /\ {x.gen : x \in table} = {t.gen}
         /\ kind # "eit" => {x.num : x \in table} = t.numbers
<1>1. TableOK(i, t) /\ s.gen = t.gen /\ s.num = t.pos /\ s.last = LastOf(t.numbers)
      /\ SectionOK(Keys(kind)[i], s)
  BY SectionFacts
<1>2. \A x \in table : SectionOK(Keys(kind)[i], x) /\ x.gen = t.gen
  BY <1>1 DEF Whole, SectionOK
<1>3. s \in table
  BY DEF Whole
<1>4. \A x \in table : x.num \in t.numbers
  BY <1>2 DEF SectionOK, Fits
<1>5. ASSUME kind # "eit" PROVE t.numbers \subseteq {x.num : x \in table}
  <2>1. t.numbers \in Shapes(kind)
    BY <1>1 DEF TableOK
  <2>2. CASE kind \in Single
    <3>1. t.numbers = {0}
      BY <2>1, <2>2, ShapeFacts
    <3> QED
      BY <1>1, <1>3, <3>1 DEF TableOK
  <2>3. CASE kind \notin Single
    <3>1. t.numbers \in {{0}, {0, 1}} /\ t.numbers \in ShapesSent
      BY <1>5, <2>1, ShapeFacts
    <3>2. 0..s.last = t.numbers
      BY <1>1, <3>1, LastFacts
    <3>3. \A n \in 0..s.last : \E x \in table : x.num = n
      BY <1>5, <2>3 DEF Whole
    <3> QED
      BY <3>2, <3>3
  <2> QED
    BY <2>2, <2>3
<1> QED
  BY <1>1, <1>2, <1>3, <1>4, <1>5
----------------------------------------------------------------------------
(* What the carousel does leaves the decoders alone. *)

\* The tables on the air are the same but for the sections to be sent next.
Kept ==
  /\ UNCHANGED kind
  /\ \A i \in Subtables : \A which \in {"now", "next"} :
       /\ sent'[i][which] # NULL <=> sent[i][which] # NULL
       /\ sent[i][which] # NULL =>
            sent'[i][which].gen = sent[i][which].gen /\ sent'[i][which].numbers = sent[i][which].numbers

\* Whatever fits what is on the air goes on fitting it.
Fitting ==
  /\ UNCHANGED kind
  /\ \A i \in Subtables : \A s : s.gen \in Nat /\ Fits(s, i) => Fits(s, i)'

LEMMA DecoderFits ==
  ASSUME Fitting, NEW key, NEW d, DecoderOK(key, d)
  PROVE  DecoderOK(key, d)'
<1>1. Subtables' = Subtables
  BY DEF Fitting, Subtables
<1>2. \A s : SectionOK(key, s) => SectionOK(key, s)'
  BY <1>1 DEF SectionOK, Fitting
<1> QED
  BY <1>2 DEF DecoderOK, Fitting

LEMMA KeptFits ==
  ASSUME SentOK, Kept
  PROVE  Fitting
<1>1. \A i \in Subtables : sent[i].now # NULL
  BY TableFacts DEF SentOK
<1>2. \A i \in Subtables : \A s : Fits(s, i) => Fits(s, i)'
  BY <1>1 DEF Kept, Fits
<1> QED
  BY <1>2 DEF Kept, Fitting

LEMMA AdvancedKeeps ==
  ASSUME SentOK, NEW i \in Subtables, NEW which \in {"now", "next"}, sent[i][which] # NULL,
         sent' = Advanced(i, which), UNCHANGED <<kind, changes>>
  PROVE  SentOK' /\ Fitting
<1> DEFINE t == sent[i][which]
           u == [t EXCEPT !.pos = After(t.pos, t.numbers)]
<1>1. TableOK(i, t) /\ t \in OnAir /\ t.numbers \in ShapesSent
  BY TableFacts DEF SentOK
<1>2. u \in OnAir /\ TableOK(i, u) /\ u.gen = t.gen /\ u.numbers = t.numbers
  <2>1. After(t.pos, t.numbers) \in t.numbers
    BY <1>1, AfterFacts DEF TableOK
  <2>2. After(t.pos, t.numbers) \in Nat
    BY <1>1, <2>1 DEF ShapesSent
  <2> QED
    BY <1>1, <2>1, <2>2 DEF OnAir, TableOK, Tables
<1>3. u # NULL
  BY <1>2, TableAssumption
<1>4. sent' = [sent EXCEPT ![i] = [sent[i] EXCEPT ![which] = u]]
  BY DEF Advanced
<1> HIDE DEF u
<1>5. /\ DOMAIN sent' = Subtables /\ \A j \in Subtables : DOMAIN sent'[j] = {"now", "next"}
      /\ sent'[i][which] = u
      /\ \A j \in Subtables, w \in {"now", "next"} : j # i \/ w # which => sent'[j][w] = sent[j][w]
  BY <1>4 DEF SentOK
<1>6. Kept
  BY <1>2, <1>3, <1>5 DEF Kept
<1>7. Subtables' = Subtables
  BY DEF Subtables
<1>8. \A j \in Subtables : \A x : TableOK(j, x) => TableOK(j, x)'
  BY DEF TableOK, Tables
<1>9. \A j \in Subtables :
        /\ TableOK(j, sent'[j].now)
        /\ sent'[j].next # NULL => /\ TableOK(j, sent'[j].next)
                                   /\ sent'[j].next.gen = sent'[j].now.gen + 1
  BY <1>2, <1>3, <1>5 DEF SentOK
<1> QED
  BY <1>5, <1>6, <1>7, <1>8, <1>9, KeptFits DEF SentOK

LEMMA AnnounceKeeps ==
  ASSUME SentOK, NEW i \in Subtables, Announce(i)
  PROVE  SentOK' /\ Fitting
<1>1. PICK numbers \in Shapes(kind) :
        sent' = [sent EXCEPT ![i].next = Table(i, sent[i].now.gen + 1, numbers, FALSE)]
  BY DEF Announce
<1> DEFINE u == Table(i, sent[i].now.gen + 1, numbers, FALSE)
<1>2. kind' = kind /\ kind \notin NoSyntax /\ sent[i].next = NULL /\ changes' = changes + 1
      /\ changes' \in 0..31
  BY TableAssumption DEF Announce, SentOK
<1>3. /\ TableOK(i, sent[i].now) /\ sent[i].now.gen \in 0..changes
      /\ kind \in TableNames /\ changes \in 0..31
  BY DEF SentOK, TableOK, Tables
<1>4. numbers \in ShapesSent /\ 0 \in numbers
  BY ShapeFacts DEF ShapesSent
<1>5. u \in [ext : {Keys(kind)[i][2]}, gen : 0..changes', numbers : ShapesSent, cn : BOOLEAN, pos : Nat]
      /\ u.pos = 0 /\ u.numbers = numbers /\ u.gen = sent[i].now.gen + 1
  BY <1>2, <1>3, <1>4 DEF Table
<1> HIDE DEF u
<1>6. /\ DOMAIN sent' = Subtables /\ \A j \in Subtables : DOMAIN sent'[j] = {"now", "next"}
      /\ sent'[i].next = u /\ sent'[i].now = sent[i].now
      /\ \A j \in Subtables : j # i => sent'[j] = sent[j]
  BY <1>1 DEF SentOK, u
<1>7. Subtables' = Subtables
  BY <1>2 DEF Subtables
<1>8. \A j \in Subtables : \A x : TableOK(j, x) => TableOK(j, x)'
  BY <1>2, <1>3 DEF TableOK, Tables
<1>9. \A x : x = u => TableOK(i, x)'
  BY <1>2, <1>4, <1>5 DEF TableOK, Tables
<1>10. SentOK'
  <2>1. \A j \in Subtables :
          /\ \A x : x = sent'[j].now => TableOK(j, x)'
          /\ sent'[j].next # NULL => /\ \A x : x = sent'[j].next => TableOK(j, x)'
                                     /\ sent'[j].next.gen = sent'[j].now.gen + 1
    <3> SUFFICES ASSUME NEW j \in Subtables
                 PROVE  /\ \A x : x = sent'[j].now => TableOK(j, x)'
                        /\ sent'[j].next # NULL => /\ \A x : x = sent'[j].next => TableOK(j, x)'
                                                   /\ sent'[j].next.gen = sent'[j].now.gen + 1
      OBVIOUS
    <3>1. CASE j = i
      BY <1>3, <1>5, <1>6, <1>8, <1>9, <3>1
    <3>2. CASE j # i
      BY <1>6, <1>8, <3>2 DEF SentOK
    <3> QED
      BY <3>1, <3>2
  <2> QED
    BY <1>2, <1>3, <1>6, <1>7, <2>1 DEF SentOK
<1>11. ASSUME NEW j \in Subtables, NEW s, s.gen \in Nat, Fits(s, j) PROVE Fits(s, j)'
  <2>1. CASE j # i
    BY <1>6, <1>11, <2>1 DEF Fits
  <2>2. CASE j = i
    BY <1>2, <1>3, <1>5, <1>6, <1>11, <2>2 DEF Fits
  <2> QED
    BY <2>1, <2>2
<1> QED
  BY <1>2, <1>10, <1>11 DEF Fitting

LEMMA ApplyKeeps ==
  ASSUME SentOK, NEW i \in Subtables, Apply(i)
  PROVE  SentOK' /\ Fitting
<1> DEFINE t == sent[i].next
           u == [t EXCEPT !.cn = TRUE]
<1>1. TableOK(i, t) /\ t.gen = sent[i].now.gen + 1 /\ sent[i].now.gen \in Nat
  BY DEF Apply, SentOK, TableOK, Tables
<1>2. TableOK(i, u) /\ u.gen = t.gen /\ u.numbers = t.numbers
  BY <1>1 DEF TableOK, Tables
<1>3. UNCHANGED <<kind, changes>> /\ t # NULL
  BY DEF Apply
<1> HIDE DEF u
<1>4. /\ DOMAIN sent' = Subtables /\ \A j \in Subtables : DOMAIN sent'[j] = {"now", "next"}
      /\ sent'[i].now = u /\ sent'[i].next = NULL
      /\ \A j \in Subtables : j # i => sent'[j] = sent[j]
  BY DEF Apply, SentOK, u
<1>5. Subtables' = Subtables
  BY <1>3 DEF Subtables
<1>6. \A j \in Subtables : \A x : TableOK(j, x) => TableOK(j, x)'
  BY <1>3 DEF TableOK, Tables
<1>7. \A j \in Subtables :
        /\ TableOK(j, sent'[j].now)
        /\ sent'[j].next # NULL => /\ TableOK(j, sent'[j].next)
                                   /\ sent'[j].next.gen = sent'[j].now.gen + 1
  BY <1>2, <1>4 DEF SentOK
<1>8. SentOK'
  BY <1>3, <1>4, <1>5, <1>6, <1>7 DEF SentOK
<1>9. ASSUME NEW j \in Subtables, NEW s, s.gen \in Nat, Fits(s, j) PROVE Fits(s, j)'
  <2>1. CASE j # i
    BY <1>4, <1>9, <2>1 DEF Fits
  <2>2. CASE j = i
    BY <1>1, <1>2, <1>3, <1>4, <1>9, <2>2 DEF Fits
  <2> QED
    BY <2>1, <2>2
<1> QED
  BY <1>3, <1>8, <1>9 DEF Fitting
----------------------------------------------------------------------------
(* Decoders attached and detached. *)

LEMMA NewDecoderOK ==
  ASSUME NEW key
  PROVE  /\ DecoderOK(key, NewDecoder)
         /\ \A value : DecoderOK(key, With(NewDecoder, "network_id", value))
         /\ \A value : /\ DecoderOK(key, With(NewDecoder, "program_number", value))
                       /\ "program_number" \in DOMAIN With(NewDecoder, "program_number", value)
                       /\ With(NewDecoder, "program_number", value).program_number = value
<1>1. DecoderOK(key, NewDecoder) /\ NewDecoder.sections = {} /\ NewDecoder.building = NULL
  BY DEF DecoderOK, NewDecoder, Fields
<1>2. ASSUME NEW field, field \notin Fields, NEW value
      PROVE  DecoderOK(key, With(NewDecoder, field, value))
  <2> DEFINE d == With(NewDecoder, field, value)
  <2>1. /\ Fields \subseteq DOMAIN d /\ d.sections = {} /\ d.building = NULL
        /\ d.discontinuity = TRUE
    BY <1>2 DEF With, NewDecoder, Fields
  <2> HIDE DEF d
  <2> QED
    BY <2>1 DEF DecoderOK, d
<1>3. \A value : /\ "program_number" \in DOMAIN With(NewDecoder, "program_number", value)
                 /\ With(NewDecoder, "program_number", value).program_number = value
  BY DEF With
<1> QED
  BY <1>1, <1>2, <1>3 DEF Fields

LEMMA AttachDirectlyOK ==
  ASSUME kind \in Own
  PROVE  /\ DecoderOK(Keys(kind)[1], AttachDirectly(kind))
         /\ kind = "pmt" => /\ "program_number" \in DOMAIN AttachDirectly(kind)
                            /\ AttachDirectly(kind).program_number = 1
BY NewDecoderOK DEF Own, AttachDirectly, PatAttach, CatAttach, PmtAttach, RstAttach

LEMMA DetachDirectlyNull ==
  ASSUME kind \in Own
  PROVE  DetachDirectly(kind) = NULL
BY DEF Own, DetachDirectly, PatDetach, CatDetach, PmtDetach, RstDetach

LEMMA NoExtension ==
  ASSUME kind \in {"sis", "atsc_stt"}, NEW i \in Subtables
  PROVE  Keys(kind)[i][2] = 0
<1>1. CASE kind = "sis"
  BY <1>1 DEF Keys, Subtables
<1>2. CASE kind = "atsc_stt"
  BY <1>2 DEF Keys, Subtables
<1> QED
  BY <1>1, <1>2

\* The decoder attached for a subtable is a new one.
LEMMA AttachTableIs ==
  ASSUME kind \in Shared, NEW id, NEW ext, kind \in {"sis", "atsc_stt"} => ext = 0,
         <<id, ext>> \notin DOMAIN mux.subdecs
  PROVE  AttachTable(kind, mux, id, ext) \in
           {AttachSubDecoder(mux, id, ext, NewDecoder),
            AttachSubDecoder(mux, id, ext, With(NewDecoder, "network_id", ext))}
<1> DEFINE m == AttachTable(kind, mux, id, ext)
           one == AttachSubDecoder(mux, id, ext, NewDecoder)
           two == AttachSubDecoder(mux, id, ext, With(NewDecoder, "network_id", ext))
<1> SUFFICES m \in {one, two}
  OBVIOUS
<1>0. Attach(mux, id, ext, ext, NewDecoder) = one
      /\ Attach(mux, id, ext, ext, With(NewDecoder, "network_id", ext)) = two
  BY DEF Attach, GetSubDec
<1> HIDE DEF one, two
<1>sdt. CASE kind = "sdt"
  BY <1>0, <1>sdt DEF AttachTable, SdtAttach
<1>nit. CASE kind = "nit"
  BY <1>0, <1>nit DEF AttachTable, NitAttach
<1>bat. CASE kind = "bat"
  BY <1>0, <1>bat DEF AttachTable, BatAttach
<1>eit. CASE kind = "eit"
  BY <1>0, <1>eit DEF AttachTable, EitAttach
<1>tot. CASE kind = "tot"
  BY <1>0, <1>tot DEF AttachTable, TotAttach
<1>sis. CASE kind = "sis"
  BY <1>0, <1>sis DEF AttachTable, SisAttach
<1>atsc_eit. CASE kind = "atsc_eit"
  BY <1>0, <1>atsc_eit DEF AttachTable, AtscEitAttach
<1>atsc_ett. CASE kind = "atsc_ett"
  BY <1>0, <1>atsc_ett DEF AttachTable, AttachETT
<1>atsc_mgt. CASE kind = "atsc_mgt"
  BY <1>0, <1>atsc_mgt DEF AttachTable, AttachMGT
<1>atsc_stt. CASE kind = "atsc_stt"
  BY <1>0, <1>atsc_stt DEF AttachTable, AttachSTT
<1>atsc_vct. CASE kind = "atsc_vct"
  BY <1>0, <1>atsc_vct DEF AttachTable, AttachVCT
<1> QED
  BY <1>sdt, <1>nit, <1>bat, <1>eit, <1>tot, <1>sis, <1>atsc_eit, <1>atsc_ett,
     <1>atsc_mgt, <1>atsc_stt, <1>atsc_vct
  DEF Shared, Atsc

LEMMA AttachTableOK ==
  ASSUME kind \in Shared, SubdecsOK(mux), NEW id, NEW ext, kind \in {"sis", "atsc_stt"} => ext = 0,
         <<id, ext>> \notin DOMAIN mux.subdecs, NEW m, m = AttachTable(kind, mux, id, ext)
  PROVE  SubdecsOK(m) /\ <<id, ext>> \in DOMAIN m.subdecs /\ m.discontinuity = mux.discontinuity
<1> DEFINE one == AttachSubDecoder(mux, id, ext, NewDecoder)
           two == AttachSubDecoder(mux, id, ext, With(NewDecoder, "network_id", ext))
<1>1. m \in {one, two}
  BY AttachTableIs
<1>2. ASSUME NEW d, DecoderOK(<<id, ext>>, d), m = AttachSubDecoder(mux, id, ext, d)
      PROVE  SubdecsOK(m) /\ <<id, ext>> \in DOMAIN m.subdecs /\ m.discontinuity = mux.discontinuity
  <2> DEFINE f == With(mux.subdecs, <<id, ext>>, d)
  <2>1. /\ DOMAIN f = DOMAIN mux.subdecs \cup {<<id, ext>>} /\ f[<<id, ext>>] = d
        /\ \A key \in DOMAIN mux.subdecs : key # <<id, ext>> => f[key] = mux.subdecs[key]
    BY DEF With
  <2> HIDE DEF f
  <2>2. \A key \in DOMAIN f : DecoderOK(key, f[key])
    BY <1>2, <2>1 DEF SubdecsOK
  <2>3. DOMAIN m = DOMAIN mux /\ m.discontinuity = mux.discontinuity /\ m.subdecs = f
    BY <1>2 DEF AttachSubDecoder, SubdecsOK, f
  <2> QED
    BY <2>1, <2>2, <2>3 DEF SubdecsOK
<1> QED
  BY <1>1, <1>2, NewDecoderOK

\* Detaching a subtable takes its own decoder away.
LEMMA DetachTableIs ==
  ASSUME kind \in Shared, NEW id, NEW ext, kind \in {"sis", "atsc_stt"} => ext = 0
  PROVE  DetachTable(kind, mux, id, ext) = Detach(mux, id, ext)
<1>sdt. CASE kind = "sdt"
  BY <1>sdt DEF DetachTable, SdtDetach
<1>nit. CASE kind = "nit"
  BY <1>nit DEF DetachTable, NitDetach
<1>bat. CASE kind = "bat"
  BY <1>bat DEF DetachTable, BatDetach
<1>eit. CASE kind = "eit"
  BY <1>eit DEF DetachTable, EitDetach
<1>tot. CASE kind = "tot"
  BY <1>tot DEF DetachTable, TotDetach
<1>sis. CASE kind = "sis"
  BY <1>sis DEF DetachTable, SisDetach
<1>atsc_eit. CASE kind = "atsc_eit"
  BY <1>atsc_eit DEF DetachTable, AtscEitDetach
<1>atsc_ett. CASE kind = "atsc_ett"
  BY <1>atsc_ett DEF DetachTable, DetachETT
<1>atsc_mgt. CASE kind = "atsc_mgt"
  BY <1>atsc_mgt DEF DetachTable, DetachMGT
<1>atsc_stt. CASE kind = "atsc_stt"
  BY <1>atsc_stt DEF DetachTable, DetachSTT
<1>atsc_vct. CASE kind = "atsc_vct"
  BY <1>atsc_vct DEF DetachTable, DetachVCT
<1> QED
  BY <1>sdt, <1>nit, <1>bat, <1>eit, <1>tot, <1>sis, <1>atsc_eit, <1>atsc_ett,
     <1>atsc_mgt, <1>atsc_stt, <1>atsc_vct
  DEF Shared, Atsc

LEMMA DetachTableOK ==
  ASSUME kind \in Shared, SubdecsOK(mux), NEW id, NEW ext,
         kind \in {"sis", "atsc_stt"} => ext = 0, NEW m, m = DetachTable(kind, mux, id, ext)
  PROVE  SubdecsOK(m)
<1>1. m = Detach(mux, id, ext)
  BY DetachTableIs
<1>2. CASE m = DetachSubDecoder(mux, id, ext)
  <2> DEFINE f == [k \in DOMAIN mux.subdecs \ {<<id, ext>>} |-> mux.subdecs[k]]
  <2>1. \A key \in DOMAIN f : DecoderOK(key, f[key])
    BY DEF SubdecsOK
  <2> HIDE DEF f
  <2>2. DOMAIN m = DOMAIN mux /\ m.discontinuity = mux.discontinuity /\ m.subdecs = f
    BY <1>2 DEF DetachSubDecoder, SubdecsOK, f
  <2> QED
    BY <2>1, <2>2 DEF SubdecsOK
<1> QED
  BY <1>1, <1>2 DEF Detach
----------------------------------------------------------------------------
(* The steps. *)

LEMMA DirectOK ==
  ASSUME Held, kind \in Own, NEW i \in Subtables, NEW s, HeaderOK(s), SectionOK(Keys(kind)[i], s),
         <<s.id, s.ext>> = Keys(kind)[i], NEW r \in Direct(s)
  PROVE  /\ r.mux = mux /\ (r.decoder # NULL => OwnOK(r.decoder))
         /\ r.table # NULL => Whole(Keys(kind)[i], s, r.table)
<1>1. CASE decoder = NULL
  BY <1>1 DEF Direct
<1>2. CASE decoder # NULL
  <2>1. PICK g \in Gather(kind, decoder, FALSE, s) :
          r = [mux |-> mux, decoder |-> g.decoder, got |-> g.decoder, table |-> g.table,
               ended |-> g.ended]
    BY <1>2 DEF Direct
  <2>2. r.mux = mux /\ r.decoder = g.decoder /\ r.table = g.table
    BY <2>1
  <2>k. kind \in TableNames
    BY DEF TableNames
  <2>3. OwnOK(decoder)
    BY <1>2 DEF Held
  <2>4. CASE i = 1
    <3>1. Good(Keys(kind)[i], decoder, s, g)
      BY <2>3, <2>4, <2>k, GatherGood DEF OwnOK
    <3>2. OwnOK(g.decoder)
      BY <2>3, <2>4, <3>1 DEF Good, OwnOK, Same
    <3> QED
      BY <2>2, <3>1, <3>2 DEF Good
  <2>5. CASE i # 1
    <3>1. kind = "pmt" /\ s.ext # 1
      BY <2>5, <2>k, KeyFacts
    <3>2. decoder.program_number # s.ext
      BY <2>3, <3>1 DEF OwnOK
    <3>3. g = Result(decoder, FALSE, NULL)
      BY <3>1, <3>2 DEF Gather, PmtGather
    <3> QED
      BY <2>2, <2>3, <3>3 DEF Result
  <2> QED
    BY <2>4, <2>5
<1> QED
  BY <1>1, <1>2

LEMMA DemuxOK ==
  ASSUME Held, kind \in Shared, NEW i \in Subtables, NEW s, HeaderOK(s), SectionOK(Keys(kind)[i], s),
         <<s.id, s.ext>> = Keys(kind)[i], NEW r \in Demux(s)
  PROVE  /\ SubdecsOK(r.mux) /\ r.decoder = NULL
         /\ r.table # NULL => Whole(Keys(kind)[i], s, r.table)
<1> DEFINE key == <<s.id, s.ext>>
           m == Attached(s)
<1>k. kind \in TableNames
  BY DEF TableNames
<1>1. SubdecsOK(m) /\ key \in DOMAIN m.subdecs
  <2>1. SubdecsOK(mux)
    BY DEF Held
  <2>2. kind \in {"sis", "atsc_stt"} => s.ext = 0
    BY <1>k, KeyFacts, NoExtension
  <2>3. CASE key \in DOMAIN mux.subdecs
    BY <2>1, <2>3 DEF Attached, GetSubDec
  <2>4. CASE key \notin DOMAIN mux.subdecs
    <3>1. m = AttachTable(kind, mux, s.id, s.ext)
      BY <2>4 DEF Attached, GetSubDec
    <3> HIDE DEF m
    <3> QED
      BY <2>1, <2>2, <2>4, <3>1, AttachTableOK
  <2> QED
    BY <2>3, <2>4
<1> HIDE DEF m
<1>2. PICK g \in Gather(kind, m.subdecs[key], m.discontinuity, s) :
        r = [mux |-> [discontinuity |-> g.discontinuity, subdecs |-> With(m.subdecs, key, g.decoder)],
             decoder |-> NULL, got |-> g.decoder, table |-> g.table, ended |-> g.ended]
  BY DEF Demux, m
<1> DEFINE f == With(m.subdecs, key, g.decoder)
<1>3. /\ DOMAIN f = DOMAIN m.subdecs /\ f[key] = g.decoder
      /\ \A k \in DOMAIN m.subdecs : k # key => f[k] = m.subdecs[k]
  BY <1>1 DEF With
<1> HIDE DEF f
<1>4. /\ r.mux = [discontinuity |-> g.discontinuity, subdecs |-> f]
      /\ r.decoder = NULL /\ r.table = g.table
  BY <1>2 DEF f
<1>5. Good(key, m.subdecs[key], s, g)
  BY <1>1, <1>k, GatherGood DEF SubdecsOK
<1>6. \A k \in DOMAIN f : DecoderOK(k, f[k])
  BY <1>1, <1>3, <1>5 DEF SubdecsOK, Good
<1>7. SubdecsOK(r.mux)
  BY <1>4, <1>5, <1>6 DEF SubdecsOK, Good
<1> QED
  BY <1>4, <1>5, <1>7 DEF Good

LEMMA HeldFits ==
  ASSUME Fitting
  PROVE  /\ \A d : OwnOK(d) => OwnOK(d)'
         /\ \A m : SubdecsOK(m) => SubdecsOK(m)'
<1>1. \A key, d : DecoderOK(key, d) => DecoderOK(key, d)'
  BY DecoderFits
<1> QED
  BY <1>1 DEF OwnOK, SubdecsOK, Fitting

LEMMA SendHolds ==
  ASSUME Held, WholeTable, NEW i \in Subtables, NEW which \in {"now", "next"}, Send(i, which)
  PROVE  Held' /\ WholeTable'
<1> DEFINE t == sent[i][which]
           s == Section(i, t)
<1>1. sent[i][which] # NULL /\ sent' = Advanced(i, which) /\ UNCHANGED <<kind, changes>>
  BY DEF Send
<1>2. SentOK /\ SentOK' /\ Fitting
  BY <1>1, AdvancedKeeps DEF Held
<1>3. /\ <<s.id, s.ext>> = Keys(kind)[i] /\ HeaderOK(s) /\ SectionOK(Keys(kind)[i], s)
  BY <1>1, <1>2, SectionFacts
<1>4. PICK r \in IF kind \in Own THEN Direct(s) ELSE Demux(s) :
        /\ mux' = r.mux /\ decoder' = r.decoder
        /\ IF r.table = NULL THEN NothingReceived
           ELSE Receive(i, t, r.table, r.got.current.current_next)
  BY DEF Send
<1> HIDE DEF s
<1>5. /\ SubdecsOK(r.mux) /\ (r.decoder # NULL => OwnOK(r.decoder))
      /\ r.table # NULL => Whole(Keys(kind)[i], s, r.table)
  <2>1. CASE kind \in Own
    BY <1>3, <1>4, <2>1, DirectOK DEF Held
  <2>2. CASE kind \notin Own
    <3>1. kind \in Shared
      BY <1>2, <2>2 DEF SentOK, TableNames
    <3> QED
      BY <1>3, <1>4, <2>2, <3>1, DemuxOK
  <2> QED
    BY <2>1, <2>2
<1>6. Held'
  BY <1>2, <1>4, <1>5, HeldFits DEF Held
<1>7. WholeTable'
  <2>1. CASE r.table = NULL
    BY <1>1, <1>4, <2>1 DEF NothingReceived, WholeTable
  <2>2. CASE r.table # NULL
    <3>1. /\ {x.gen : x \in r.table} = {t.gen}
          /\ kind # "eit" => {x.num : x \in r.table} = t.numbers
      BY <1>1, <1>2, <1>5, <2>2, WholeFacts DEF s
    <3>2. Receive(i, t, r.table, r.got.current.current_next)
      BY <1>4, <2>2
    <3> HIDE DEF t
    <3> QED
      BY <1>1, <3>1, <3>2 DEF Receive, WholeTable
  <2> QED
    BY <2>1, <2>2
<1> QED
  BY <1>6, <1>7

LEMMA LoseHolds ==
  ASSUME Held, WholeTable, NEW i \in Subtables, NEW which \in {"now", "next"}, NEW noticed \in BOOLEAN,
         Lose(i, which, noticed)
  PROVE  Held' /\ WholeTable'
<1>1. sent[i][which] # NULL /\ sent' = Advanced(i, which) /\ UNCHANGED <<kind, changes, torn, partial>>
  BY DEF Lose
<1>2. SentOK' /\ Fitting
  BY <1>1, AdvancedKeeps DEF Held
<1>3. \A d : d = decoder' /\ d # NULL => OwnOK(d)
  <2>1. CASE decoder' = decoder
    BY <2>1 DEF Held
  <2>2. CASE decoder # NULL /\ decoder' = [decoder EXCEPT !.discontinuity = TRUE]
    <3> DEFINE e == [decoder EXCEPT !.discontinuity = TRUE]
    <3>1. OwnOK(decoder)
      BY <2>2 DEF Held
    <3>2. DecoderOK(Keys(kind)[1], e) /\ Same(decoder, e)
      BY <3>1, FlagCleared DEF OwnOK
    <3>3. OwnOK(e)
      BY <3>1, <3>2 DEF OwnOK, Same
    <3> QED
      BY <2>2, <3>3
  <2> QED
    BY <2>1, <2>2 DEF Lose
<1>4. \A m : m = mux' => SubdecsOK(m)
  BY DEF Lose, Held, SubdecsOK
<1>5. Held'
  BY <1>2, <1>3, <1>4, HeldFits DEF Held
<1> QED
  BY <1>1, <1>5 DEF WholeTable

LEMMA NextHolds ==
  ASSUME Held, WholeTable, [Next]_vars
  PROVE  Held' /\ WholeTable'
<1>1. CASE AttachDecoder
  <2>1. OwnOK(AttachDirectly(kind)) /\ decoder' = AttachDirectly(kind) /\ kind \in Own
    BY <1>1, AttachDirectlyOK DEF AttachDecoder, OwnOK
  <2>2. UNCHANGED <<kind, sent, mux, torn, partial, changes>>
    BY <1>1 DEF AttachDecoder
  <2>3. Fitting
    BY <2>2 DEF Fitting, Fits
  <2>4. SentOK'
    BY <2>2 DEF Held, SentOK, TableOK, Tables, Subtables
  <2>5. Held'
    BY <2>1, <2>2, <2>3, <2>4, HeldFits DEF Held
  <2> QED
    BY <2>2, <2>5 DEF WholeTable
<1>2. ASSUME NEW i \in Subtables, Announce(i) \/ Apply(i)
      PROVE  Held' /\ WholeTable'
  <2>1. SentOK' /\ Fitting
    BY <1>2, AnnounceKeeps, ApplyKeeps DEF Held
  <2>2. UNCHANGED <<kind, decoder, mux, torn, partial>>
    BY <1>2 DEF Announce, Apply
  <2>3. Held'
    BY <2>1, <2>2, HeldFits DEF Held
  <2> QED
    BY <2>2, <2>3 DEF WholeTable
<1>3. ASSUME NEW i \in Subtables, DetachDecoder(i)
      PROVE  Held' /\ WholeTable'
  <2>1. UNCHANGED <<kind, sent, torn, partial, changes>>
    BY <1>3 DEF DetachDecoder
  <2>2. Fitting
    BY <2>1 DEF Fitting, Fits
  <2>3. SentOK'
    BY <2>1 DEF Held, SentOK, TableOK, Tables, Subtables
  <2>4. kind \in Own \/ kind \in Shared
    BY DEF Held, SentOK, TableNames
  <2>e. kind \in {"sis", "atsc_stt"} => Keys(kind)[i][2] = 0
    BY NoExtension
  <2>5. /\ \A d : d = decoder' /\ d # NULL => OwnOK(d)
        /\ \A m : m = mux' => SubdecsOK(m)
    BY <1>3, <2>4, <2>e, DetachDirectlyNull, DetachTableOK DEF DetachDecoder, Held
  <2>6. Held'
    BY <2>2, <2>3, <2>5, HeldFits DEF Held
  <2> QED
    BY <2>1, <2>6 DEF WholeTable
<1>4. CASE UNCHANGED vars
  <2>1. UNCHANGED <<kind, sent, decoder, mux, torn, partial, changes>>
    BY <1>4 DEF vars
  <2>2. Fitting
    BY <2>1 DEF Fitting, Fits
  <2>3. SentOK'
    BY <2>1 DEF Held, SentOK, TableOK, Tables, Subtables
  <2>4. Held'
    BY <2>1, <2>2, <2>3, HeldFits DEF Held
  <2> QED
    BY <2>1, <2>4 DEF WholeTable
<1> QED
  BY <1>1, <1>2, <1>3, <1>4, SendHolds, LoseHolds DEF Next

LEMMA InitHolds ==
  ASSUME Init
  PROVE  Held /\ WholeTable
<1>1. kind \in TableNames
  BY TableAssumption DEF Init, TableNames
<1>2. PICK shape \in [Subtables -> Shapes(kind)] :
        sent = [i \in Subtables |-> [now |-> Table(i, 0, shape[i], TRUE), next |-> NULL]]
  BY DEF Init
<1>3. SentOK
  <2>1. \A i \in Subtables : TableOK(i, Table(i, 0, shape[i], TRUE))
    <3> SUFFICES ASSUME NEW i \in Subtables PROVE TableOK(i, Table(i, 0, shape[i], TRUE))
      OBVIOUS
    <3>1. shape[i] \in Shapes(kind) /\ shape[i] \in ShapesSent /\ 0 \in shape[i]
      BY ShapeFacts DEF ShapesSent
    <3>2. changes = 0
      BY DEF Init
    <3> QED
      BY <3>1, <3>2 DEF TableOK, Tables, Table
  <2>2. changes \in 0..31
    BY DEF Init
  <2> QED
    BY <1>1, <1>2, <2>1, <2>2 DEF SentOK
<1>4. decoder # NULL => OwnOK(decoder)
  <2>1. CASE kind \in Own
    BY <2>1, AttachDirectlyOK DEF Init, OwnOK
  <2>2. CASE kind \in Shared
    BY <2>2 DEF Init, AttachDirectly, Shared, Atsc
  <2> QED
    BY <1>1, <2>1, <2>2 DEF TableNames
<1>5. SubdecsOK(mux)
  BY DEF Init, NewDemux, SubdecsOK
<1> QED
  BY <1>3, <1>4, <1>5 DEF Held, Init, WholeTable

\* No table is ever delivered that is made of two versions, nor, but for an EIT, one that lacks
\* a section: whatever kind it is of, though sections are lost unnoticed, the next version
\* is announced in between, and decoders are detached, as long as the version numbers do not
\* come round.
THEOREM TablesAreWhole == Spec => []WholeTable
<1>1. Init => Held /\ WholeTable
  BY InitHolds
<1>2. Held /\ WholeTable /\ [Next]_vars => Held' /\ WholeTable'
  BY NextHolds
<1> QED
  BY <1>1, <1>2, PTL DEF Spec
----------------------------------------------------------------------------
(* No table is delivered twice. What the application was given last is     *)
(* what the decoder remembers, and a decoder refuses what it remembers.    *)

\* The decoder of subtable i, among the one with a PID of its own and those of a demultiplexer.
ServedBy(i, d, m) ==
  IF kind \in Own THEN {x \in {d} : i = 1 /\ x # NULL}
  ELSE {m.subdecs[key] : key \in {Keys(kind)[i]} \cap DOMAIN m.subdecs}

\* The flag that makes decoder d start over, its own or that of the demultiplexer.
Lost(d, flag) == IF kind \in Own \cup {"nit"} THEN d.discontinuity ELSE flag

\* The decoder refuses the sections of the version in force.
Knows(d, gen) ==
  /\ d.building = NULL /\ d.current_valid = TRUE
  /\ d.current.version = gen /\ d.current.current_next = TRUE

\* The application was given the version in force last: the decoder knows it, unless it was
\* given from sections that announced it; then the decoder is to give it once more, as in force.
Remembered(i, d, m, last, gen) ==
  /\ last = [gen |-> gen, cn |-> TRUE] =>
       \E x \in ServedBy(i, d, m) : Lost(x, m.discontinuity) = FALSE /\ Knows(x, gen)
  /\ last = [gen |-> gen, cn |-> FALSE] =>
       \A x \in ServedBy(i, d, m) : x.building # NULL => x.building.current_next = TRUE

\* What a decoder is made of: all that is told apart of it but the sections.
Shaped(d) ==
  /\ kind \in Own => DOMAIN d = IF kind = "pmt" THEN Fields \cup {"program_number"} ELSE Fields
  /\ kind = "pmt" => d.program_number \in Nat
  /\ d.building \in Heads \cup {NULL} /\ d.last \in Nat /\ d.first \in Nat

\* What holds of subtable i, with the tables on the air, what was given last, whether another
\* delivery is excused, and the decoders.
ToldWith(i, on, last, out, d, m) ==
  /\ on.now.cn = TRUE
  /\ kind \in Own /\ i # 1 => last = NULL
  /\ \A x \in ServedBy(i, d, m) : Shaped(x)
  /\ ~out => on.next = NULL /\ Remembered(i, d, m, last, on.now.gen)

ToldOf(i) == ToldWith(i, sent[i], delivered[i], i \in excused, decoder, mux)

Told == ~repeated /\ DOMAIN delivered = Subtables /\ \A i \in Subtables : ToldOf(i)

ToldOnce == kind \notin {"rst", "tot"} => Told
----------------------------------------------------------------------------
(* What the steps of a decoder do to the fields by which it remembers.     *)

LEMMA ReInitFields ==
  ASSUME NEW d, Fields \subseteq DOMAIN d, NEW force
  PROVE  /\ DOMAIN ReInit(d, force) = DOMAIN d /\ ReInit(d, force).building = NULL
         /\ ReInit(d, force).discontinuity = d.discontinuity
         /\ ReInit(d, force).current = d.current
         /\ ReInit(d, force).current_valid = (d.current_valid /\ ~force)
         /\ ReInit(d, force).last = d.last /\ ReInit(d, force).first = d.first
         /\ Same(d, ReInit(d, force))
<1> DEFINE e == ReInit(d, force)
           v == d.current_valid /\ ~force
           g == [d EXCEPT !.current_valid = v, !.sections = {}]
<1>0. DecoderReset(d, force) = g
  BY DEF DecoderReset
<1>v. v = (d.current_valid /\ ~force)
  OBVIOUS
<1> HIDE DEF v
<1>1. /\ DOMAIN g = DOMAIN d /\ g.discontinuity = d.discontinuity /\ g.current = d.current
      /\ g.current_valid = v /\ g.last = d.last /\ g.first = d.first
      /\ ("program_number" \in DOMAIN d => g.program_number = d.program_number)
  BY DEF Fields
<1> HIDE DEF g
<1>2. e = [g EXCEPT !.building = NULL]
  BY <1>0 DEF ReInit
<1> HIDE DEF e
<1>3. DOMAIN e = DOMAIN g /\ e.building = NULL /\ e.discontinuity = g.discontinuity
      /\ e.current = g.current /\ e.current_valid = g.current_valid
      /\ e.last = g.last /\ e.first = g.first
      /\ ("program_number" \in DOMAIN g => e.program_number = g.program_number)
  BY <1>1, <1>2 DEF Fields
<1> QED
  BY <1>1, <1>3, <1>v DEF Same, e

LEMMA ResultFields ==
  ASSUME NEW d, NEW flag, NEW table
  PROVE  /\ Result(d, flag, table).decoder = d /\ Result(d, flag, table).discontinuity = flag
         /\ Result(d, flag, table).table = table
BY DEF Result

\* What is left of decoder e when it has delivered its table.
Leaves(e, flag, r) ==
  /\ r.decoder.building = NULL /\ r.decoder.current = e.building /\ r.decoder.current_valid = TRUE
  /\ r.decoder.discontinuity = e.discontinuity /\ r.discontinuity = flag
  /\ r.decoder.last = e.last /\ r.decoder.first = e.first /\ Same(e, r.decoder)

LEMMA DeliveredFields ==
  ASSUME NEW e, Fields \subseteq DOMAIN e, NEW flag
  PROVE  Leaves(e, flag, Delivered(e, flag))
<1> DEFINE r == Delivered(e, flag)
           g == [e EXCEPT !.current = e.building, !.current_valid = TRUE]
<1>1. /\ DOMAIN g = DOMAIN e /\ g.discontinuity = e.discontinuity /\ g.current = e.building
      /\ g.current_valid = TRUE /\ g.last = e.last /\ g.first = e.first
      /\ ("program_number" \in DOMAIN e => g.program_number = e.program_number)
  BY DEF Fields
<1>2. r = Result(ReInit(g, FALSE), flag, e.sections)
  BY DEF Delivered
<1> HIDE DEF g
<1> DEFINE h == ReInit(g, FALSE)
<1>3. /\ h.building = NULL /\ h.discontinuity = g.discontinuity /\ h.current = g.current
      /\ h.current_valid = (g.current_valid /\ ~FALSE)
      /\ h.last = g.last /\ h.first = g.first /\ Same(g, h)
  BY <1>1, ReInitFields
<1>4. r.decoder = h /\ r.discontinuity = flag
  BY <1>2 DEF Result
<1> HIDE DEF h
<1>5. h.current_valid = TRUE
  BY <1>1, <1>3
<1> QED
  BY <1>1, <1>3, <1>4, <1>5 DEF Same, Leaves

LEMMA ReadyFields ==
  ASSUME NEW d, Fields \subseteq DOMAIN d, d.discontinuity \in BOOLEAN,
         NEW lost \in BOOLEAN, NEW differs \in BOOLEAN
  PROVE  /\ DOMAIN Ready(d, lost, differs) = DOMAIN d
         /\ lost = d.discontinuity => Ready(d, lost, differs).discontinuity = FALSE
         /\ Ready(d, lost, differs).building = IF lost \/ differs THEN NULL ELSE d.building
         /\ Ready(d, lost, differs).last = d.last /\ Ready(d, lost, differs).first = d.first
         /\ Same(d, Ready(d, lost, differs))
<1> DEFINE e == Ready(d, lost, differs)
           v == d.discontinuity /\ ~lost
           clean == [d EXCEPT !.discontinuity = v]
<1>1. e = IF lost \/ differs THEN ReInit(clean, TRUE) ELSE clean
  BY DEF Ready
<1>v. v = (d.discontinuity /\ ~lost)
  OBVIOUS
<1> HIDE DEF v
<1>2. /\ DOMAIN clean = DOMAIN d /\ clean.discontinuity = v /\ clean.building = d.building
      /\ clean.last = d.last /\ clean.first = d.first
      /\ ("program_number" \in DOMAIN d => clean.program_number = d.program_number)
  BY DEF Fields
<1> HIDE DEF clean
<1> DEFINE h == ReInit(clean, TRUE)
<1>3. /\ DOMAIN h = DOMAIN clean /\ h.discontinuity = clean.discontinuity /\ h.building = NULL
      /\ h.last = clean.last /\ h.first = clean.first /\ Same(clean, h)
  BY <1>2, ReInitFields
<1> QED
  BY <1>1, <1>2, <1>3, <1>v DEF Same

LEMMA SectionAddFields ==
  ASSUME NEW d, Fields \subseteq DOMAIN d, NEW s, NEW e, e = SectionAdd(d, s)
  PROVE  /\ DOMAIN e = DOMAIN d /\ e.building = d.building /\ e.discontinuity = d.discontinuity
         /\ e.last = d.last /\ e.first = d.first /\ Same(d, e)
<1> DEFINE S == {t \in d.sections : t.num # s.num} \cup {s}
<1>1. e = [d EXCEPT !.sections = S]
  BY DEF SectionAdd
<1> HIDE DEF S
<1> QED
  BY <1>1 DEF Fields, Same

LEMMA AddSectionFields ==
  ASSUME NEW d, Fields \subseteq DOMAIN d, NEW s, NEW new, NEW e, e = AddSection(d, s, new)
  PROVE  /\ DOMAIN e = DOMAIN d /\ e.discontinuity = d.discontinuity
         /\ e.building = IF d.building # NULL THEN d.building ELSE new
         /\ e.last \in {d.last, s.last} /\ e.first \in {d.first, s.num} /\ Same(d, e)
<1> DEFINE g == [d EXCEPT !.building = new, !.last = s.last, !.first = s.num]
<1>1. /\ DOMAIN g = DOMAIN d /\ g.building = new /\ g.discontinuity = d.discontinuity
      /\ g.last = s.last /\ g.first = s.num /\ Same(d, g)
  BY DEF Fields, Same
<1> HIDE DEF g
<1>2. e = SectionAdd(IF d.building # NULL THEN d ELSE g, s)
  BY DEF AddSection, g
<1>3. CASE d.building # NULL
  BY <1>2, <1>3, SectionAddFields
<1>4. CASE d.building = NULL
  <2>1. e = SectionAdd(g, s)
    BY <1>2, <1>4
  <2>2. /\ DOMAIN e = DOMAIN g /\ e.building = g.building /\ e.discontinuity = g.discontinuity
        /\ e.last = g.last /\ e.first = g.first /\ Same(g, e)
    BY <1>1, <2>1, SectionAddFields
  <2> QED
    BY <1>1, <1>4, <2>2 DEF Same
<1> QED
  BY <1>3, <1>4

\* A decoder that has delivered a table is not mistaken for none.
LEMMA DeliveredIsThere ==
  ASSUME kind \in Own, NEW e, Shaped(e), e.discontinuity \in BOOLEAN, e.building # NULL, NEW flag
  PROVE  Delivered(e, flag).decoder # NULL
<1> DEFINE v == TRUE /\ ~FALSE
           g == [e EXCEPT !.current = e.building, !.current_valid = TRUE]
           f == [g EXCEPT !.current_valid = g.current_valid /\ ~FALSE, !.sections = {}]
           h == [f EXCEPT !.building = NULL]
<1>1. Delivered(e, flag).decoder = h
  BY DEF Delivered, Result, ReInit, DecoderReset
<1>2. /\ DOMAIN g = DOMAIN e /\ g.current = e.building /\ g.current_valid = TRUE /\ g.last = e.last
      /\ g.first = e.first /\ g.discontinuity = e.discontinuity
      /\ kind = "pmt" => g.program_number = e.program_number
  BY DEF Shaped, Fields, Own
<1> HIDE DEF g
<1>3. g.current_valid /\ ~FALSE
  BY <1>2
<1>4. /\ DOMAIN f = DOMAIN e /\ f.current = e.building /\ f.current_valid \in BOOLEAN
      /\ f.last = e.last /\ f.first = e.first /\ f.discontinuity = e.discontinuity /\ f.sections = {}
      /\ kind = "pmt" => f.program_number = e.program_number
  BY <1>2, <1>3 DEF Shaped, Fields, Own
<1> HIDE DEF f
<1>5. /\ DOMAIN h = DOMAIN e /\ h.current = e.building /\ h.current_valid \in BOOLEAN
      /\ h.last = e.last /\ h.first = e.first /\ h.discontinuity = e.discontinuity /\ h.sections = {}
      /\ h.building = NULL
      /\ kind = "pmt" => h.program_number = e.program_number
  BY <1>4 DEF Shaped, Fields, Own
<1>6. h = [x \in DOMAIN h |-> h[x]]
  OBVIOUS
<1> HIDE DEF h
<1>7. h \in Decoders
  BY <1>5, <1>6 DEF Decoders, Shaped, Fields, Own
<1> QED
  BY <1>1, <1>7, TableAssumption
----------------------------------------------------------------------------
(* The gather functions. *)

\* Whether the table built behind section s is in force: the table that was being built, or s.
InForce(d, s) == {s.cn} \cup {b.current_next : b \in {d.building} \ {NULL}}

\* What a gather function leaves of decoder d and of the flag: it raises none; it builds what
\* it built before, or what s starts; it refuses what it knows; and once it has delivered a
\* table it knows that one.
Behaves(d, flag, s, r) ==
  /\ r.discontinuity \in {flag, FALSE} /\ Shaped(r.decoder)
  /\ r.decoder.building # NULL => r.decoder.building.current_next \in InForce(d, s)
  /\ Lost(d, flag) = FALSE /\ Knows(d, s.version) /\ s.cn = TRUE => r.decoder = d /\ r.table = NULL
  /\ r.table # NULL =>
       /\ r.decoder.building = NULL /\ r.decoder.current_valid = TRUE
       /\ r.decoder.current.version = s.version /\ r.decoder.current.current_next \in InForce(d, s)
       /\ Lost(r.decoder, r.discontinuity) = FALSE
       /\ kind \in Own => r.decoder # NULL

LEMMA NothingBehaves ==
  ASSUME NEW d, Shaped(d), NEW s, NEW flag, NEW r, r = Result(d, flag, NULL)
  PROVE  Behaves(d, flag, s, r)
BY DEF Behaves, Result, InForce

\* A new table, with the version of the section that starts it.
Starts(new, s) == new \in Heads /\ new.version = s.version /\ new.current_next = s.cn

LEMMA StartsNot ==
  ASSUME NEW new, NEW s, Starts(new, s)
  PROVE  new # NULL
BY TableAssumption DEF Starts

\* The numbers of a section, and the shape of a decoder that keeps them.
Numbered(s) == s.last \in Nat /\ s.num \in Nat

LEMMA ShapeKept ==
  ASSUME NEW d, Shaped(d), Fields \subseteq DOMAIN d, NEW e, Same(d, e), e.building \in Heads \cup {NULL},
         e.last \in Nat, e.first \in Nat
  PROVE  Shaped(e)
<1>1. CASE kind = "pmt"
  <2>1. kind \in Own
    BY <1>1 DEF Own
  <2> QED
    BY <1>1, <2>1 DEF Shaped, Same
<1>2. CASE kind # "pmt"
  BY <1>2 DEF Shaped, Same
<1> QED
  BY <1>1, <1>2

LEMMA GatheredBehaves ==
  ASSUME NEW key, NEW d, DecoderOK(key, d), Shaped(d), NEW s, Numbered(s), NEW flag \in BOOLEAN,
         NEW lost \in BOOLEAN, lost = Lost(d, flag),
         NEW out \in {flag, FALSE}, kind \notin Own \cup {"nit"} => out = FALSE,
         NEW new, Starts(new, s), NEW differs \in BOOLEAN, Looks(d, s, differs), NEW gaps \in BOOLEAN,
         NEW r, r = Gathered(d, out, lost, s, new, differs, gaps)
  PROVE  Behaves(d, flag, s, r)
<1> DEFINE other == d.building # NULL /\ differs
           e == Ready(d, lost, other)
           added == AddSection(e, s, new)
<1>d. Fields \subseteq DOMAIN d /\ d.discontinuity \in BOOLEAN
  BY DEF DecoderOK
<1>o. other \in BOOLEAN
  OBVIOUS
<1> HIDE DEF other
<1>1. /\ DOMAIN e = DOMAIN d /\ (lost = d.discontinuity => e.discontinuity = FALSE)
      /\ e.building = IF lost \/ other THEN NULL ELSE d.building
      /\ e.last = d.last /\ e.first = d.first /\ Same(d, e)
  <2>1. DOMAIN e = DOMAIN d /\ (e.building = IF lost \/ other THEN NULL ELSE d.building)
    BY <1>d, <1>o, ReadyFields
  <2>2. lost = d.discontinuity => e.discontinuity = FALSE
    BY <1>d, <1>o, ReadyFields
  <2>3. e.last = d.last /\ e.first = d.first /\ Same(d, e)
    BY <1>d, <1>o, ReadyFields
  <2> QED
    BY <2>1, <2>2, <2>3
<1>b. e.discontinuity \in BOOLEAN
  BY <1>o, ReadyOK DEF DecoderOK
<1>r. \/ ~lost /\ d.building = NULL /\ AlreadyDecoded(d, s) /\ r = Result(d, out, NULL)
      \/ /\ ~(~lost /\ d.building = NULL /\ AlreadyDecoded(d, s))
         /\ r \in {Delivered(added, out), Result(added, out, NULL)}
  BY DEF Gathered, other
<1> HIDE DEF e
<1>2. /\ DOMAIN added = DOMAIN d /\ added.discontinuity = e.discontinuity
      /\ (lost = d.discontinuity => added.discontinuity = FALSE)
      /\ added.building = IF e.building # NULL THEN e.building ELSE new
      /\ added.last \in {e.last, s.last} /\ added.first \in {e.first, s.num} /\ Same(e, added)
  <2>1. Fields \subseteq DOMAIN e
    BY <1>d, <1>1
  <2>2. /\ DOMAIN added = DOMAIN e /\ added.discontinuity = e.discontinuity
        /\ added.building = IF e.building # NULL THEN e.building ELSE new
        /\ added.last \in {e.last, s.last} /\ added.first \in {e.first, s.num} /\ Same(e, added)
    BY <2>1, AddSectionFields
  <2> QED
    BY <1>1, <2>2
<1>3. added.building.version = s.version /\ added.building.current_next \in InForce(d, s)
  <2>1. CASE e.building = NULL
    BY <1>2, <2>1 DEF Starts, InForce
  <2>2. CASE e.building # NULL
    BY <1>1, <1>2, <2>2 DEF Looks, InForce, other
  <2> QED
    BY <2>1, <2>2
<1>4. Lost(d, flag) = FALSE /\ Knows(d, s.version) /\ s.cn = TRUE
        => ~lost /\ d.building = NULL /\ AlreadyDecoded(d, s)
  BY DEF Knows, AlreadyDecoded
<1>s. Shaped(added) /\ added.building # NULL
  <2>1. added.building \in Heads /\ added.building # NULL
    BY <1>1, <1>2, StartsNot DEF Starts, Shaped
  <2>2. added.last \in Nat /\ added.first \in Nat /\ Same(d, added)
    BY <1>1, <1>2 DEF Shaped, Numbered, Same
  <2> QED
    BY <1>d, <2>1, <2>2, ShapeKept
<1> HIDE DEF added
<1>6. CASE r = Result(d, out, NULL)
  <2>1. r.decoder = d /\ r.discontinuity = out /\ r.table = NULL
    BY <1>6, ResultFields
  <2> QED
    BY <2>1 DEF Behaves, InForce
<1>7. CASE r = Result(added, out, NULL) /\ ~(~lost /\ d.building = NULL /\ AlreadyDecoded(d, s))
  <2>1. r.decoder = added /\ r.discontinuity = out /\ r.table = NULL
    BY <1>7, ResultFields
  <2> QED
    BY <1>3, <1>4, <1>7, <1>s, <2>1 DEF Behaves
<1>8. CASE r = Delivered(added, out) /\ ~(~lost /\ d.building = NULL /\ AlreadyDecoded(d, s))
  <2>0. Fields \subseteq DOMAIN added /\ r = Delivered(added, out)
    BY <1>d, <1>2, <1>8
  <2>1. /\ r.decoder.building = NULL /\ r.decoder.current = added.building
        /\ r.decoder.current_valid = TRUE /\ r.decoder.discontinuity = added.discontinuity
        /\ r.discontinuity = out
    <3>1. Leaves(added, out, Delivered(added, out))
      BY <2>0, DeliveredFields
    <3> QED
      BY <2>0, <3>1 DEF Leaves
  <2>2. Lost(r.decoder, r.discontinuity) = FALSE
    BY <1>2, <1>d, <2>1 DEF Lost
  <2>3. Shaped(r.decoder) /\ (kind \in Own => r.decoder # NULL)
    <3>1. Fields \subseteq DOMAIN added /\ added.discontinuity \in BOOLEAN
      BY <1>b, <1>d, <1>2
    <3>2. Leaves(added, out, Delivered(added, out))
      BY <3>1, DeliveredFields
    <3>3. Shaped(Delivered(added, out).decoder)
      BY <1>s, <3>1, <3>2, ShapeKept DEF Shaped, Leaves
    <3>4. kind \in Own => Delivered(added, out).decoder # NULL
      BY <1>s, <3>1, DeliveredIsThere
    <3> QED
      BY <1>8, <3>3, <3>4
  <2> QED
    BY <1>3, <1>4, <1>8, <2>1, <2>2, <2>3 DEF Behaves
<1> QED
  BY <1>r, <1>6, <1>7, <1>8

LEMMA AtscBehaves ==
  ASSUME NEW key, NEW d, DecoderOK(key, d), Shaped(d), NEW s, Numbered(s), NEW flag \in BOOLEAN,
         kind \in Atsc,
         NEW new, Starts(new, s), NEW differs \in BOOLEAN, Looks(d, s, differs),
         NEW r, r = GatherAtsc(d, flag, s, new, differs)
  PROVE  Behaves(d, flag, s, r)
<1> DEFINE other == d.building # NULL /\ differs
           e == Ready(d, flag, other)
           added == SectionAdd(e, s)
           made == [e EXCEPT !.building = new]
<1>d. Fields \subseteq DOMAIN d /\ d.discontinuity \in BOOLEAN
  BY DEF DecoderOK
<1>l. \A x, f : Lost(x, f) = f
  BY DEF Lost, Atsc, Own
<1>1. /\ DOMAIN e = DOMAIN d
      /\ e.building = IF flag \/ other THEN NULL ELSE d.building
  BY <1>d, ReadyFields
<1>n. e.last \in Nat /\ e.first \in Nat
  BY <1>d, ReadyFields DEF Shaped
<1>k. kind \notin Own
  BY DEF Atsc, Own
<1>p. \A x : x.building \in Heads \cup {NULL} /\ x.last \in Nat /\ x.first \in Nat => Shaped(x)
  BY <1>k DEF Shaped, Own
<1>r. \/ ~flag /\ d.building = NULL /\ AlreadyDecoded(d, s) /\ r = Result(d, flag, NULL)
      \/ /\ ~(~flag /\ d.building = NULL /\ AlreadyDecoded(d, s))
         /\ \/ r = Result(made, FALSE, NULL)
            \/ e.building # NULL /\ r \in {Delivered(added, FALSE), Result(added, FALSE, NULL)}
  BY DEF GatherAtsc
<1> HIDE DEF e
<1>2. DOMAIN added = DOMAIN d /\ added.building = e.building
  BY <1>d, <1>1, SectionAddFields
<1>s. Shaped(added)
  <2>1. Fields \subseteq DOMAIN e
    BY <1>d, <1>1
  <2>2. added.last = e.last /\ added.first = e.first
    BY <2>1, SectionAddFields
  <2>3. added.building \in Heads \cup {NULL}
    BY <1>1, <1>2 DEF Shaped
  <2> QED
    BY <1>n, <1>p, <2>2, <2>3
<1>3. e.building # NULL => e.building.version = s.version /\ e.building.current_next \in InForce(d, s)
  BY <1>1 DEF Looks, InForce
<1>4. Knows(d, s.version) /\ s.cn = TRUE => d.building = NULL /\ AlreadyDecoded(d, s)
  BY DEF Knows, AlreadyDecoded
<1>5. made.building = new /\ Shaped(made)
  <2>1. made.building = new /\ made.last = e.last /\ made.first = e.first
    BY <1>d, <1>1 DEF Fields
  <2> HIDE DEF made
  <2> QED
    BY <1>n, <1>p, <2>1 DEF Starts
<1> HIDE DEF added, other, made
<1>6. CASE r = Result(d, flag, NULL)
  BY <1>6 DEF Behaves, Result, InForce
<1>7. CASE r = Result(made, FALSE, NULL) /\ ~(~flag /\ d.building = NULL /\ AlreadyDecoded(d, s))
  <2>1. r.decoder = made /\ r.discontinuity = FALSE /\ r.table = NULL
    BY <1>7 DEF Result
  <2> QED
    BY <1>4, <1>5, <1>7, <1>l, <2>1 DEF Behaves, Starts, InForce
<1>8. CASE /\ r \in {Delivered(added, FALSE), Result(added, FALSE, NULL)} /\ e.building # NULL
           /\ ~(~flag /\ d.building = NULL /\ AlreadyDecoded(d, s))
  <2>1. CASE r = Result(added, FALSE, NULL)
    <3>1. r.decoder = added /\ r.discontinuity = FALSE /\ r.table = NULL
      BY <2>1 DEF Result
    <3> QED
      BY <1>2, <1>3, <1>4, <1>8, <1>l, <1>s, <3>1 DEF Behaves
  <2>2. CASE r = Delivered(added, FALSE)
    <3>0. Fields \subseteq DOMAIN added
      BY <1>d, <1>2
    <3>1. /\ r.decoder.building = NULL /\ r.decoder.current = added.building
          /\ r.decoder.current_valid = TRUE /\ r.discontinuity = FALSE
      <4>1. Leaves(added, FALSE, Delivered(added, FALSE))
        BY <3>0, DeliveredFields
      <4> QED
        BY <2>2, <4>1 DEF Leaves
    <3>2. Shaped(r.decoder)
      <4>1. Leaves(added, FALSE, Delivered(added, FALSE))
        BY <3>0, DeliveredFields
      <4>2. added.last \in Nat /\ added.first \in Nat
        BY <1>s DEF Shaped
      <4> QED
        BY <1>p, <2>2, <4>1, <4>2 DEF Leaves
    <3> QED
      BY <1>2, <1>3, <1>4, <1>8, <1>k, <1>l, <3>1, <3>2 DEF Behaves
  <2> QED
    BY <1>8, <2>1, <2>2
<1> QED
  BY <1>r, <1>6, <1>7, <1>8
----------------------------------------------------------------------------
(* The tables. *)

LEMMA Starters ==
  ASSUME NEW s, HeaderOK(s)
  PROVE  \A new \in {Header(s), Extended(s), PatNew(s), AtscEitNew(s), EttNew(s)} : Starts(new, s)
<1>1. ASSUME NEW new \in {Header(s), Extended(s), PatNew(s), AtscEitNew(s), EttNew(s)}
      PROVE  new.current_next = s.cn
  BY DEF Header, Extended, PatNew, AtscEitNew, EttNew
<1>2. ASSUME NEW new \in {Header(s), Extended(s), PatNew(s), AtscEitNew(s), EttNew(s)}
      PROVE  new \in Heads /\ new.version = s.version
  BY NewHeads
<1> QED
  BY <1>1, <1>2 DEF Starts

LEMMA EndedBehaves ==
  ASSUME NEW d, NEW flag, NEW s, NEW r, Behaves(d, flag, s, r), NEW ends,
         DOMAIN r = {"decoder", "discontinuity", "table", "ended"}
  PROVE  Behaves(d, flag, s, [r EXCEPT !.ended = ends])
<1> DEFINE e == [r EXCEPT !.ended = ends]
<1>1. e.decoder = r.decoder /\ e.discontinuity = r.discontinuity /\ e.table = r.table
  OBVIOUS
<1> HIDE DEF e
<1> QED
  BY <1>1 DEF Behaves, e

LEMMA GatherBehaves ==
  ASSUME kind \in TableNames \ {"rst", "tot"}, NEW key, NEW d, DecoderOK(key, d), Shaped(d),
         NEW s, HeaderOK(s), Numbered(s), NEW flag \in BOOLEAN, NEW r \in Gather(kind, d, flag, s)
  PROVE  Behaves(d, flag, s, r)
<1>0. r = Result(d, flag, NULL) => Behaves(d, flag, s, r)
  BY NothingBehaves
<1>h. \A new \in {Header(s), Extended(s), PatNew(s), AtscEitNew(s), EttNew(s)} : Starts(new, s)
  BY Starters
<1>d. d.discontinuity \in BOOLEAN
  BY DEF DecoderOK
<1>o. ASSUME kind \in Own \cup {"nit"}, NEW new, Starts(new, s), NEW differs \in BOOLEAN,
             Looks(d, s, differs), r \in GatherOwn(d, flag, s, new, differs)
      PROVE  Behaves(d, flag, s, r)
  <2>1. r = Gathered(d, flag, d.discontinuity, s, new, differs, FALSE)
    BY <1>o DEF GatherOwn
  <2>2. d.discontinuity = Lost(d, flag)
    BY <1>o DEF Lost
  <2> QED
    BY <1>d, <1>o, <2>1, <2>2, GatheredBehaves
<1>s. ASSUME kind \notin Own \cup {"nit"}, NEW new, Starts(new, s), NEW differs \in BOOLEAN,
             Looks(d, s, differs), NEW gaps \in BOOLEAN,
             r \in GatherShared(d, flag, s, new, differs, gaps)
      PROVE  Behaves(d, flag, s, r)
  <2>1. r = Gathered(d, FALSE, flag, s, new, differs, gaps)
    BY <1>s DEF GatherShared
  <2>2. flag = Lost(d, flag)
    BY <1>s DEF Lost
  <2> QED
    BY <1>s, <2>1, <2>2, GatheredBehaves
<1>a. ASSUME kind \in Atsc, NEW new, Starts(new, s), NEW differs \in BOOLEAN, Looks(d, s, differs)
      PROVE  Behaves(d, flag, s, GatherAtsc(d, flag, s, new, differs))
  BY <1>a, AtscBehaves
<1>v. OtherVersion(d, s) \in BOOLEAN /\ Looks(d, s, OtherVersion(d, s))
  BY Comparisons DEF OtherVersion
<1>t. OtherTable(d, s) \in BOOLEAN /\ Looks(d, s, OtherTable(d, s))
  BY Comparisons DEF OtherTable
<1>pat. CASE kind = "pat"
  <2>0. kind \in Own \cup {"nit"}
    BY <1>pat DEF Own
  <2>1. CheckPAT(d, s) \in BOOLEAN /\ Looks(d, s, CheckPAT(d, s))
    BY Comparisons DEF CheckPAT
  <2>2. r = Result(d, flag, NULL) \/ r \in GatherOwn(d, flag, s, PatNew(s), CheckPAT(d, s))
    BY <1>pat DEF Gather, PatGather
  <2> QED
    BY <1>0, <1>h, <1>o, <2>1, <2>0, <2>2
<1>cat. CASE kind = "cat"
  <2>0. kind \in Own \cup {"nit"}
    BY <1>cat DEF Own
  <2>2. r = Result(d, flag, NULL) \/ r \in GatherOwn(d, flag, s, Header(s), OtherVersion(d, s))
    BY <1>cat DEF Gather, CatGather, CatNew, CheckCAT
  <2> QED
    BY <1>0, <1>h, <1>o, <1>v, <2>0, <2>2
<1>pmt. CASE kind = "pmt"
  <2>0. kind \in Own \cup {"nit"}
    BY <1>pmt DEF Own
  <2>2. r = Result(d, flag, NULL) \/ r \in GatherOwn(d, flag, s, Header(s), OtherVersion(d, s))
    BY <1>pmt DEF Gather, PmtGather, PmtNew, CheckPMT
  <2> QED
    BY <1>0, <1>h, <1>o, <1>v, <2>0, <2>2
<1>nit. CASE kind = "nit"
  <2>0. kind \in Own \cup {"nit"}
    BY <1>nit DEF Own
  <2>2. r = Result(d, flag, NULL) \/ r \in GatherOwn(d, flag, s, Extended(s), OtherVersion(d, s))
    BY <1>nit DEF Gather, NitGather, NitNew, CheckNIT
  <2> QED
    BY <1>0, <1>h, <1>o, <1>v, <2>0, <2>2
<1>sdt. CASE kind = "sdt"
  <2>0. kind \notin Own \cup {"nit"}
    BY <1>sdt DEF Own
  <2>1. \/ r = Result(d, flag, NULL)
        \/ r \in GatherShared(d, flag, s, Extended(s), OtherTable(d, s), FALSE)
    BY <1>sdt DEF Gather, SdtGather, SdtNew, CheckSDT
  <2> QED
    BY <1>0, <1>h, <1>s, <1>t, <2>0, <2>1
<1>bat. CASE kind = "bat"
  <2>0. kind \notin Own \cup {"nit"}
    BY <1>bat DEF Own
  <2>1. \/ r = Result(d, flag, NULL)
        \/ r \in GatherShared(d, flag, s, Extended(s), OtherTable(d, s), FALSE)
    BY <1>bat DEF Gather, BatGather, BatNew, CheckBAT
  <2> QED
    BY <1>0, <1>h, <1>s, <1>t, <2>0, <2>1
<1>eit. CASE kind = "eit"
  <2>0. kind \notin Own \cup {"nit"}
    BY <1>eit DEF Own
  <2>1. \/ r = Result(d, flag, NULL)
        \/ r \in GatherShared(d, flag, s, Extended(s), OtherTable(d, s), TRUE)
    BY <1>eit DEF Gather, EitGather, EitNew, CheckEIT
  <2> QED
    BY <1>0, <1>h, <1>s, <1>t, <2>0, <2>1
<1>sis. CASE kind = "sis"
  <2>0. kind \notin Own \cup {"nit"}
    BY <1>sis DEF Own
  <2>1. \/ r = Result(d, flag, NULL)
        \/ r \in GatherShared(d, flag, s, Extended(s), OtherTable(d, s), FALSE)
    BY <1>sis DEF Gather, SisGather, SisNew, CheckSIS
  <2> QED
    BY <1>0, <1>h, <1>s, <1>t, <2>0, <2>1
<1>atsc_stt. CASE kind = "atsc_stt"
  <2>0. kind \in Atsc
    BY <1>atsc_stt DEF Atsc
  <2>2. \/ r = Result(d, flag, NULL)
        \/ r = GatherAtsc(d, flag, s, Extended(s), OtherVersion(d, s))
    BY <1>atsc_stt DEF Gather, SttGather, SttNew, CheckSTT
  <2> QED
    BY <1>0, <1>h, <1>a, <1>v, <2>0, <2>2
<1>atsc_vct. CASE kind = "atsc_vct"
  <2>0. kind \in Atsc
    BY <1>atsc_vct DEF Atsc
  <2>2. \/ r = Result(d, flag, NULL)
        \/ r = GatherAtsc(d, flag, s, Extended(s), OtherTable(d, s))
    BY <1>atsc_vct DEF Gather, VctGather, VctNew, CheckVCT
  <2> QED
    BY <1>0, <1>h, <1>a, <1>t, <2>0, <2>2
<1>atsc_eit. CASE kind = "atsc_eit"
  <2>0. kind \in Atsc
    BY <1>atsc_eit DEF Atsc
  <2>1. CheckAtscEIT(d, s) \in BOOLEAN /\ Looks(d, s, CheckAtscEIT(d, s))
    BY Comparisons DEF CheckAtscEIT
  <2>2. \/ r = Result(d, flag, NULL)
        \/ r = GatherAtsc(d, flag, s, AtscEitNew(s), CheckAtscEIT(d, s))
    BY <1>atsc_eit DEF Gather, AtscEitGather
  <2> QED
    BY <1>0, <1>h, <1>a, <2>1, <2>0, <2>2
<1>atsc_ett. CASE kind = "atsc_ett"
  <2> DEFINE g == GatherAtsc(d, flag, s, EttNew(s), CheckETT(d, s))
  <2>0. kind \in Atsc
    BY <1>atsc_ett DEF Atsc
  <2>1. CheckETT(d, s) \in BOOLEAN /\ Looks(d, s, CheckETT(d, s))
    BY Comparisons DEF CheckETT
  <2>2. Behaves(d, flag, s, g)
    BY <1>h, <1>a, <2>0, <2>1
  <2>3. r = Result(d, flag, NULL) \/ r = [g EXCEPT !.ended = g.table # NULL]
    BY <1>atsc_ett DEF Gather, EttGather
  <2>4. DOMAIN g = {"decoder", "discontinuity", "table", "ended"}
    BY AtscResult
  <2> HIDE DEF g
  <2> QED
    BY <1>0, <2>2, <2>3, <2>4, EndedBehaves
<1>atsc_mgt. CASE kind = "atsc_mgt"
  <2> DEFINE g(u) == GatherAtsc(d, flag, s, Header(s), CheckMGT(d, s, u))
  <2>0. kind \in Atsc
    BY <1>atsc_mgt DEF Atsc
  <2>1. \A u : CheckMGT(d, s, u) \in BOOLEAN /\ Looks(d, s, CheckMGT(d, s, u))
    BY Comparisons DEF CheckMGT
  <2>2. \A u : Behaves(d, flag, s, g(u))
    BY <1>h, <1>a, <2>0, <2>1
  <2>3. \/ r = Result(d, flag, NULL)
        \/ \E u \in {0, 1} : r = g(u) \/ r = [g(u) EXCEPT !.ended = TRUE]
    BY <1>atsc_mgt DEF Gather, MgtGather, MgtNew
  <2>4. \A u : DOMAIN g(u) = {"decoder", "discontinuity", "table", "ended"}
    BY AtscResult
  <2> HIDE DEF g
  <2> QED
    BY <1>0, <2>2, <2>3, <2>4, EndedBehaves
<1> QED
  BY <1>pat, <1>cat, <1>pmt, <1>sdt, <1>nit, <1>bat, <1>eit,
     <1>sis, <1>atsc_eit, <1>atsc_ett, <1>atsc_mgt, <1>atsc_stt, <1>atsc_vct
  DEF TableNames, Own, Shared, Atsc
----------------------------------------------------------------------------
(* A section at a decoder. *)

\* Section s of subtable i goes to its decoder d, one there was or a new one, and g comes of it.
Goes(i, s, r, d, flag, g) ==
  /\ kind \in Own => i = 1
  /\ r.mux.discontinuity \in {mux.discontinuity, FALSE}
  /\ ServedBy(i, decoder, mux) = {d} \/ (ServedBy(i, decoder, mux) = {} /\ d.building = NULL)
  /\ Lost(d, flag) = Lost(d, mux.discontinuity) /\ Behaves(d, flag, s, g)
  /\ ServedBy(i, r.decoder, r.mux) \subseteq {g.decoder}
  /\ r.got = g.decoder /\ r.table = g.table
  /\ g.table # NULL \/ g.decoder = d => ServedBy(i, r.decoder, r.mux) = {g.decoder}
  /\ g.table # NULL => Lost(g.decoder, r.mux.discontinuity) = Lost(g.decoder, g.discontinuity)

\* What a section does: nothing, or it goes to the decoder of its subtable. No other decoder
\* changes, and the flag is not raised.
Reaches(i, s, r) ==
  /\ r.mux.discontinuity \in {mux.discontinuity, FALSE}
  /\ \A j \in Subtables : j # i => ServedBy(j, r.decoder, r.mux) = ServedBy(j, decoder, mux)
  /\ \/ r.table = NULL /\ ServedBy(i, r.decoder, r.mux) = ServedBy(i, decoder, mux)
     \/ \E d, flag, g : Goes(i, s, r, d, flag, g)

LEMMA DirectReaches ==
  ASSUME Held, kind \in Own \ {"rst"}, decoder # NULL => Shaped(decoder),
         NEW i \in Subtables, NEW s, HeaderOK(s), Numbered(s), <<s.id, s.ext>> = Keys(kind)[i],
         NEW r \in Direct(s)
  PROVE  Reaches(i, s, r)
<1>k. kind \in TableNames \ {"rst", "tot"} /\ kind \in Own
  BY DEF TableNames, Own
<1>1. CASE decoder = NULL
  <2>1. r.mux = mux /\ r.decoder = NULL /\ r.table = NULL
    BY <1>1 DEF Direct
  <2> QED
    BY <1>1, <2>1 DEF Reaches
<1>2. CASE decoder # NULL
  <2>1. PICK g \in Gather(kind, decoder, FALSE, s) :
          r = [mux |-> mux, decoder |-> g.decoder, got |-> g.decoder, table |-> g.table,
               ended |-> g.ended]
    BY <1>2 DEF Direct
  <2>2. r.mux = mux /\ r.decoder = g.decoder /\ r.got = g.decoder /\ r.table = g.table
    BY <2>1
  <2>3. OwnOK(decoder)
    BY <1>2 DEF Held
  <2>4. CASE i = 1
    <3>1. Behaves(decoder, FALSE, s, g)
      BY <1>2, <1>k, <2>3, GatherBehaves DEF OwnOK
    <3>2. /\ ServedBy(i, decoder, mux) = {decoder}
          /\ ServedBy(i, r.decoder, r.mux) = {x \in {g.decoder} : x # NULL}
          /\ \A j \in Subtables : j # i => /\ ServedBy(j, r.decoder, r.mux) = {}
                                           /\ ServedBy(j, decoder, mux) = {}
      BY <1>k, <1>2, <2>2, <2>4 DEF ServedBy
    <3>3. \A x, a, b : Lost(x, a) = Lost(x, b)
      BY <1>k DEF Lost
    <3>4. g.table # NULL => g.decoder # NULL
      BY <1>k, <3>1 DEF Behaves
    <3>5. Goes(i, s, r, decoder, FALSE, g)
      <4>1. Lost(decoder, FALSE) = Lost(decoder, mux.discontinuity)
        BY <3>3
      <4>2. Lost(g.decoder, r.mux.discontinuity) = Lost(g.decoder, g.discontinuity)
        BY <3>3
      <4>3. /\ ServedBy(i, r.decoder, r.mux) \subseteq {g.decoder}
            /\ g.table # NULL \/ g.decoder = decoder => ServedBy(i, r.decoder, r.mux) = {g.decoder}
        BY <1>2, <3>2, <3>4
      <4> QED
        BY <2>2, <2>4, <3>1, <3>2, <4>1, <4>2, <4>3 DEF Goes
    <3> QED
      BY <2>2, <3>2, <3>5 DEF Reaches
  <2>5. CASE i # 1
    <3>1. kind = "pmt" /\ s.ext # 1
      BY <1>k, <2>5, KeyFacts
    <3>2. decoder.program_number # s.ext
      BY <2>3, <3>1 DEF OwnOK
    <3>3. g = Result(decoder, FALSE, NULL)
      BY <3>1, <3>2 DEF Gather, PmtGather
    <3>4. r.decoder = decoder /\ r.table = NULL
      BY <2>2, <3>3 DEF Result
    <3> QED
      BY <2>2, <3>4 DEF Reaches
  <2> QED
    BY <2>4, <2>5
<1> QED
  BY <1>1, <1>2

LEMMA NewShaped ==
  /\ kind # "pmt" => Shaped(NewDecoder)
  /\ kind = "pmt" => Shaped(With(NewDecoder, "program_number", 1))
  /\ \A value : kind \notin Own => Shaped(With(NewDecoder, "network_id", value))
  /\ NewDecoder.building = NULL /\ With(NewDecoder, "program_number", 1).building = NULL
  /\ \A value : With(NewDecoder, "network_id", value).building = NULL
<1>1. NewDecoder.building = NULL /\ NewDecoder.last = 0 /\ NewDecoder.first = 0 /\ DOMAIN NewDecoder = Fields
  BY DEF NewDecoder, Fields
<1>2. kind # "pmt" => Shaped(NewDecoder)
  BY <1>1 DEF Shaped
<1>3. (kind = "pmt" => Shaped(With(NewDecoder, "program_number", 1)))
      /\ With(NewDecoder, "program_number", 1).building = NULL
  <2> DEFINE d == With(NewDecoder, "program_number", 1)
  <2>1. /\ d.building = NULL /\ d.last = 0 /\ d.first = 0 /\ d.program_number = 1
        /\ DOMAIN d = Fields \cup {"program_number"}
    BY <1>1 DEF With, Fields
  <2> HIDE DEF d
  <2>2. kind = "pmt" => Shaped(d)
    BY <2>1 DEF Shaped
  <2> QED
    BY <2>1, <2>2 DEF d
<1>4. ASSUME NEW value
      PROVE  /\ kind \notin Own => Shaped(With(NewDecoder, "network_id", value))
             /\ With(NewDecoder, "network_id", value).building = NULL
  <2> DEFINE d == With(NewDecoder, "network_id", value)
  <2>1. d.building = NULL /\ d.last = 0 /\ d.first = 0
    BY <1>1 DEF With, Fields
  <2> HIDE DEF d
  <2>2. kind \notin Own => Shaped(d)
    BY <2>1 DEF Shaped, Own
  <2> QED
    BY <2>1, <2>2 DEF d
<1> QED
  BY <1>1, <1>2, <1>3, <1>4

\* The decoder in front of a section: the one there was, or a new one.
LEMMA AttachedFacts ==
  ASSUME Held, kind \in Shared, NEW i \in Subtables, NEW s, <<s.id, s.ext>> = Keys(kind)[i],
         \A x \in ServedBy(i, decoder, mux) : Shaped(x)
  PROVE  LET m == Attached(s)
             key == Keys(kind)[i]
         IN  /\ key \in DOMAIN m.subdecs /\ m.discontinuity = mux.discontinuity
             /\ Shaped(m.subdecs[key]) /\ DecoderOK(key, m.subdecs[key])
             /\ key \in DOMAIN mux.subdecs \/ m.subdecs[key].building = NULL
             /\ DOMAIN m.subdecs = DOMAIN mux.subdecs \cup {key}
             /\ \A k \in DOMAIN mux.subdecs : m.subdecs[k] = mux.subdecs[k]
<1> DEFINE m == Attached(s)
           key == Keys(kind)[i]
<1>k. kind \in TableNames /\ kind \notin Own
  BY DEF TableNames, Shared, Atsc, Own
<1>m. SubdecsOK(mux)
  BY DEF Held
<1>1. CASE key \in DOMAIN mux.subdecs
  <2>1. m = mux
    BY <1>1 DEF Attached, GetSubDec
  <2>2. mux.subdecs[key] \in ServedBy(i, decoder, mux)
    BY <1>1, <1>k DEF ServedBy
  <2> HIDE DEF m, key
  <2> QED
    BY <1>1, <1>m, <2>1, <2>2 DEF SubdecsOK, key, m
<1>2. CASE key \notin DOMAIN mux.subdecs
  <2>1. m = AttachTable(kind, mux, s.id, s.ext)
    BY <1>2 DEF Attached, GetSubDec
  <2>2. kind \in {"sis", "atsc_stt"} => s.ext = 0
    BY <1>k, KeyFacts, NoExtension
  <2>3. PICK d \in {NewDecoder, With(NewDecoder, "network_id", s.ext)} :
          m = AttachSubDecoder(mux, s.id, s.ext, d)
    BY <1>2, <2>1, <2>2, AttachTableIs
  <2>4. Shaped(d) /\ DecoderOK(key, d) /\ d.building = NULL
    <3>1. kind # "pmt" /\ "network_id" \notin Fields
      BY <1>k DEF Own, Fields
    <3>2. CASE d = NewDecoder
      BY <3>1, <3>2, NewShaped, NewDecoderOK
    <3>3. CASE d = With(NewDecoder, "network_id", s.ext)
      BY <1>k, <3>3, NewShaped, NewDecoderOK
    <3> QED
      BY <3>2, <3>3
  <2> HIDE DEF m
  <2>5. m.discontinuity = mux.discontinuity /\ m.subdecs = With(mux.subdecs, key, d)
    BY <1>m, <2>3 DEF AttachSubDecoder, SubdecsOK
  <2>6. /\ DOMAIN m.subdecs = DOMAIN mux.subdecs \cup {key} /\ m.subdecs[key] = d
        /\ \A k \in DOMAIN mux.subdecs : k # key => m.subdecs[k] = mux.subdecs[k]
    BY <2>5 DEF With
  <2> HIDE DEF key
  <2> QED
    BY <1>2, <2>4, <2>5, <2>6 DEF key, m
<1> QED
  BY <1>1, <1>2

LEMMA DemuxReaches ==
  ASSUME Held, kind \in Shared \ {"tot"}, NEW i \in Subtables, NEW s, HeaderOK(s), Numbered(s),
         \A x \in ServedBy(i, decoder, mux) : Shaped(x),
         <<s.id, s.ext>> = Keys(kind)[i], NEW r \in Demux(s)
  PROVE  Reaches(i, s, r)
<1> DEFINE key == Keys(kind)[i]
           m == Attached(s)
           d == m.subdecs[key]
<1>k. kind \in TableNames \ {"rst", "tot"} /\ kind \notin Own
  BY DEF TableNames, Shared, Atsc, Own
<1>1. /\ key \in DOMAIN m.subdecs /\ m.discontinuity = mux.discontinuity
      /\ Shaped(d) /\ DecoderOK(key, d)
      /\ key \in DOMAIN mux.subdecs \/ d.building = NULL
      /\ DOMAIN m.subdecs = DOMAIN mux.subdecs \cup {key}
      /\ \A k \in DOMAIN mux.subdecs : m.subdecs[k] = mux.subdecs[k]
  BY AttachedFacts
<1>2. PICK g \in Gather(kind, d, m.discontinuity, s) :
        r = [mux |-> [discontinuity |-> g.discontinuity, subdecs |-> With(m.subdecs, key, g.decoder)],
             decoder |-> NULL, got |-> g.decoder, table |-> g.table, ended |-> g.ended]
  BY DEF Demux
<1> HIDE DEF m
<1> DEFINE f == With(m.subdecs, key, g.decoder)
<1>3. /\ DOMAIN f = DOMAIN mux.subdecs \cup {key} /\ f[key] = g.decoder
      /\ \A k \in DOMAIN mux.subdecs : k # key => f[k] = mux.subdecs[k]
  BY <1>1 DEF With
<1>4. /\ r.mux = [discontinuity |-> g.discontinuity, subdecs |-> f]
      /\ r.decoder = NULL /\ r.got = g.decoder /\ r.table = g.table
  BY <1>2
<1> HIDE DEF f
<1>5. r.mux.discontinuity = g.discontinuity /\ r.mux.subdecs = f
  BY <1>4
<1>6. mux.discontinuity \in BOOLEAN
  BY DEF Held, SubdecsOK
<1>7. Behaves(d, mux.discontinuity, s, g)
  BY <1>1, <1>2, <1>6, <1>k, GatherBehaves
<1>8. /\ ServedBy(i, r.decoder, r.mux) = {g.decoder}
      /\ ServedBy(i, decoder, mux) = {d} \/ (ServedBy(i, decoder, mux) = {} /\ d.building = NULL)
  BY <1>1, <1>3, <1>5, <1>k DEF ServedBy
<1>9. \A j \in Subtables : j # i => ServedBy(j, r.decoder, r.mux) = ServedBy(j, decoder, mux)
  <2>1. \A j \in Subtables : j # i => Keys(kind)[j] # key
    BY <1>k, KeyFacts
  <2> HIDE DEF key
  <2> QED
    BY <1>3, <1>5, <1>k, <2>1 DEF ServedBy
<1> HIDE DEF d
<1>10. Goes(i, s, r, d, mux.discontinuity, g)
  BY <1>4, <1>5, <1>7, <1>8, <1>k DEF Goes, Behaves
<1> QED
  BY <1>5, <1>7, <1>9, <1>10 DEF Reaches, Behaves
----------------------------------------------------------------------------
(* The steps, and what is remembered.                                      *)

LEMMA ToldNext ==
  ASSUME UNCHANGED kind, NEW i,
         ToldWith(i, sent'[i], delivered'[i], i \in excused', decoder', mux')
  PROVE  ToldOf(i)'
BY DEF ToldOf, ToldWith, Remembered, ServedBy, Shaped, Lost

\* Nothing is forgotten of a subtable whose decoder stays, unless its table changes.
LEMMA StaysToldNext ==
  ASSUME UNCHANGED kind, NEW i, ToldOf(i), ServedBy(i, decoder', mux') = ServedBy(i, decoder, mux),
         mux'.discontinuity \in {mux.discontinuity, FALSE}, delivered'[i] = delivered[i],
         i \in excused => i \in excused', sent'[i].now.cn = TRUE,
         sent'[i].now.gen = sent[i].now.gen, sent[i].next = NULL => sent'[i].next = NULL
  PROVE  ToldOf(i)'
<1>1. \A x : Lost(x, mux.discontinuity) = FALSE => Lost(x, mux'.discontinuity) = FALSE
  BY DEF Lost
<1>2. \A last, gen : Remembered(i, decoder, mux, last, gen) => Remembered(i, decoder', mux', last, gen)
  BY <1>1 DEF Remembered
<1>3. ToldWith(i, sent'[i], delivered'[i], i \in excused', decoder', mux')
  BY <1>2 DEF ToldOf, ToldWith
<1> QED
  BY <1>3, ToldNext

LEMMA ExcusedToldNext ==
  ASSUME UNCHANGED kind, NEW i, sent'[i].now.cn = TRUE, i \in excused',
         kind \in Own /\ i # 1 => delivered'[i] = NULL,
         \A x \in ServedBy(i, decoder', mux') : Shaped(x)
  PROVE  ToldOf(i)'
<1>1. ToldWith(i, sent'[i], delivered'[i], i \in excused', decoder', mux')
  BY DEF ToldWith
<1> QED
  BY <1>1, ToldNext

\* A section of the version in force is in force, and has its version.
LEMMA SectionInForce ==
  ASSUME SentOK, NEW i \in Subtables, NEW which \in {"now", "next"}, sent[i][which] # NULL
  PROVE  /\ Section(i, sent[i][which]).version = sent[i][which].gen
         /\ Numbered(Section(i, sent[i][which]))
         /\ sent[i][which].cn = TRUE => Section(i, sent[i][which]).cn = TRUE
<1> DEFINE t == sent[i][which]
           s == Section(i, t)
<1>1. /\ TableOK(i, t) /\ s.gen = t.gen /\ s.num = t.pos /\ s.last = LastOf(t.numbers)
      /\ SectionOK(Keys(kind)[i], s)
  BY SectionFacts
<1>2. t.numbers \in ShapesSent /\ t \in OnAir
  BY <1>1, TableFacts
<1>3. s.last \in Nat /\ s.num \in Nat
  <2>1. LastOf(t.numbers) \in t.numbers /\ t.numbers \subseteq 0..2
    BY <1>2, LastFacts, ShapeFacts
  <2> QED
    BY <1>1, <1>2, <2>1 DEF OnAir
<1>4. t.cn = TRUE => s.cn = TRUE
  BY DEF Section, Parsed
<1>5. s.version = t.gen
  BY <1>1 DEF SectionOK
<1> QED
  BY <1>3, <1>4, <1>5 DEF Numbered

\* A section of subtable i, of the version in force if no other has been on the air.
Timely(i, s) == s.cn \in BOOLEAN /\ (i \notin excused => s.version = sent[i].now.gen /\ s.cn = TRUE)

\* What comes of a section is no table that the application was given already, and the table
\* is remembered then.
Tells(i, s, r) ==
  /\ r.table = NULL => ToldWith(i, sent[i], delivered[i], i \in excused, r.decoder, r.mux)
  /\ r.table # NULL =>
       /\ r.got.current.current_next \in BOOLEAN
       /\ i \notin excused => delivered[i] # [gen |-> sent[i].now.gen, cn |-> r.got.current.current_next]
       /\ s.version = sent[i].now.gen /\ sent[i].next = NULL =>
            Remembered(i, r.decoder, r.mux,
                       [gen |-> sent[i].now.gen, cn |-> r.got.current.current_next], sent[i].now.gen)

\* The decoder of the section is told of it: nothing is delivered again.
LEMMA GoesTold ==
  ASSUME kind \notin {"rst", "tot"}, NEW i, ToldOf(i), NEW s, Timely(i, s),
         NEW r, NEW d, NEW flag, NEW g, Goes(i, s, r, d, flag, g)
  PROVE  Tells(i, s, r)
<1> DEFINE before == ServedBy(i, decoder, mux)
           after == ServedBy(i, r.decoder, r.mux)
           cn == r.got.current.current_next
           gen == sent[i].now.gen
<1>t. s.cn \in BOOLEAN /\ (i \notin excused => s.version = gen /\ s.cn = TRUE)
  BY DEF Timely
<1>m. r.mux.discontinuity \in {mux.discontinuity, FALSE}
  BY DEF Goes
<1>1. /\ before = {d} \/ (before = {} /\ d.building = NULL)
      /\ Lost(d, flag) = Lost(d, mux.discontinuity) /\ Behaves(d, flag, s, g)
      /\ after \subseteq {g.decoder} /\ r.got = g.decoder /\ r.table = g.table
      /\ g.table # NULL \/ g.decoder = d => after = {g.decoder}
      /\ g.table # NULL => Lost(g.decoder, r.mux.discontinuity) = Lost(g.decoder, g.discontinuity)
  BY DEF Goes
<1>2. /\ sent[i].now.cn = TRUE /\ (kind \in Own /\ i # 1 => delivered[i] = NULL)
      /\ \A x \in before : Shaped(x)
      /\ i \notin excused => sent[i].next = NULL /\ Remembered(i, decoder, mux, delivered[i], gen)
  BY DEF ToldOf, ToldWith
<1>3. InForce(d, s) \subseteq BOOLEAN
  <2>1. d.building = NULL \/ d.building \in Heads
    BY <1>1, <1>2 DEF Shaped
  <2>2. d.building \in Heads => d.building.current_next \in BOOLEAN
    BY DEF Heads
  <2> QED
    BY <1>t, <2>1, <2>2 DEF InForce
<1>4. ASSUME i \notin excused, delivered[i] = [gen |-> gen, cn |-> TRUE]
      PROVE  g.decoder = d /\ g.table = NULL /\ before = {d} /\ Lost(d, mux.discontinuity) = FALSE
             /\ Knows(d, gen)
  <2>1. \E x \in before : Lost(x, mux.discontinuity) = FALSE /\ Knows(x, gen)
    BY <1>2, <1>4 DEF Remembered
  <2>2. before = {d} /\ Lost(d, mux.discontinuity) = FALSE /\ Knows(d, gen)
    BY <1>1, <2>1
  <2> QED
    BY <1>1, <1>4, <1>t, <2>2 DEF Behaves
<1>5. ASSUME i \notin excused, delivered[i] = [gen |-> gen, cn |-> FALSE]
      PROVE  InForce(d, s) = {TRUE}
  <2>1. \A x \in before : x.building # NULL => x.building.current_next = TRUE
    BY <1>2, <1>5 DEF Remembered
  <2>2. d.building # NULL => d.building.current_next = TRUE
    BY <1>1, <2>1
  <2> QED
    BY <1>5, <1>t, <2>2 DEF InForce
<1> HIDE DEF before, after
<1>6. ASSUME r.table = NULL
      PROVE  ToldWith(i, sent[i], delivered[i], i \in excused, r.decoder, r.mux)
  <2>1. \A x \in after : Shaped(x)
    BY <1>1 DEF Behaves
  <2>2. ASSUME i \notin excused, delivered[i] = [gen |-> gen, cn |-> TRUE]
        PROVE  \E x \in after : Lost(x, r.mux.discontinuity) = FALSE /\ Knows(x, gen)
    <3>1. d \in after
      BY <1>1, <1>4, <2>2
    <3> QED
      BY <1>4, <1>m, <2>2, <3>1 DEF Lost
  <2>3. ASSUME i \notin excused, delivered[i] = [gen |-> gen, cn |-> FALSE]
        PROVE  \A x \in after : x.building # NULL => x.building.current_next = TRUE
    BY <1>1, <1>5, <2>3 DEF Behaves
  <2> QED
    BY <1>2, <2>1, <2>2, <2>3 DEF ToldWith, Remembered, after
<1>7. ASSUME r.table # NULL
      PROVE  /\ cn \in BOOLEAN
             /\ i \notin excused => delivered[i] # [gen |-> gen, cn |-> cn]
             /\ s.version = gen /\ sent[i].next = NULL =>
                  Remembered(i, r.decoder, r.mux, [gen |-> gen, cn |-> cn], gen)
  <2>1. /\ after = {g.decoder} /\ cn \in InForce(d, s) /\ Lost(g.decoder, r.mux.discontinuity) = FALSE
        /\ g.decoder.building = NULL /\ g.decoder.current_valid = TRUE
        /\ g.decoder.current.version = s.version /\ g.decoder.current.current_next = cn
    BY <1>1, <1>7 DEF Behaves
  <2>2. cn \in BOOLEAN
    BY <1>3, <2>1
  <2>3. i \notin excused => delivered[i] # [gen |-> gen, cn |-> cn]
    <3>1. CASE cn = TRUE
      BY <1>1, <1>4, <1>7, <3>1
    <3>2. CASE cn = FALSE
      BY <1>5, <2>1, <3>2
    <3> QED
      BY <2>2, <3>1, <3>2
  <2>4. ASSUME s.version = gen
        PROVE  Remembered(i, r.decoder, r.mux, [gen |-> gen, cn |-> cn], gen)
    <3>1. [gen |-> gen, cn |-> cn] = [gen |-> gen, cn |-> TRUE] => cn = TRUE
      OBVIOUS
    <3>2. cn = TRUE => Knows(g.decoder, gen)
      BY <2>1, <2>4 DEF Knows
    <3> HIDE DEF cn
    <3> QED
      BY <2>1, <3>1, <3>2 DEF Remembered, after
  <2> QED
    BY <2>2, <2>3, <2>4
<1> QED
  BY <1>6, <1>7 DEF Tells

LEMMA AdvancedSame ==
  ASSUME SentOK, NEW i \in Subtables, NEW which \in {"now", "next"}, sent[i][which] # NULL,
         sent' = Advanced(i, which)
  PROVE  \A j \in Subtables :
           /\ sent'[j].now.cn = sent[j].now.cn /\ sent'[j].now.gen = sent[j].now.gen
           /\ sent[j].next = NULL => sent'[j].next = NULL
<1> DEFINE t == sent[i][which]
           u == [t EXCEPT !.pos = After(t.pos, t.numbers)]
<1>1. t \in OnAir
  BY TableFacts DEF SentOK
<1>2. u.cn = t.cn /\ u.gen = t.gen
  BY <1>1 DEF OnAir
<1>3. sent' = [sent EXCEPT ![i] = [sent[i] EXCEPT ![which] = u]]
  BY DEF Advanced
<1> HIDE DEF u
<1>4. /\ sent'[i][which] = u
      /\ \A j \in Subtables, w \in {"now", "next"} : j # i \/ w # which => sent'[j][w] = sent[j][w]
  BY <1>3 DEF SentOK
<1>5. CASE which = "now"
  BY <1>2, <1>4, <1>5
<1>6. CASE which = "next"
  BY <1>4, <1>6
<1> QED
  BY <1>5, <1>6

LEMMA SendTold ==
  ASSUME Held, Told, kind \notin {"rst", "tot"}, NEW i \in Subtables, NEW which \in {"now", "next"},
         Send(i, which)
  PROVE  Told'
<1> DEFINE t == sent[i][which]
           s == Section(i, t)
<1>1. SentOK /\ sent[i][which] # NULL /\ sent' = Advanced(i, which) /\ UNCHANGED kind
  BY DEF Send, Held
<1>2. Subtables' = Subtables
  BY <1>1 DEF Subtables
<1>3. \A j \in Subtables : ToldOf(j)
  BY DEF Told
<1>4. \A j \in Subtables :
        /\ sent'[j].now.cn = sent[j].now.cn /\ sent'[j].now.gen = sent[j].now.gen
        /\ sent[j].next = NULL => sent'[j].next = NULL
  BY <1>1, AdvancedSame
<1>5. \A j \in Subtables : sent'[j].now.cn = TRUE
  BY <1>3, <1>4 DEF ToldOf, ToldWith
<1>6. /\ s.version = t.gen /\ Numbered(s) /\ (t.cn = TRUE => s.cn = TRUE)
      /\ HeaderOK(s) /\ <<s.id, s.ext>> = Keys(kind)[i]
  <2>1. s.version = t.gen /\ Numbered(s) /\ (t.cn = TRUE => s.cn = TRUE)
    BY <1>1, SectionInForce
  <2>2. HeaderOK(s) /\ <<s.id, s.ext>> = Keys(kind)[i]
    BY <1>1, SectionFacts
  <2> QED
    BY <2>1, <2>2
<1>7. PICK r \in IF kind \in Own THEN Direct(s) ELSE Demux(s) :
        /\ mux' = r.mux /\ decoder' = r.decoder
        /\ IF r.table = NULL THEN NothingReceived
           ELSE Receive(i, t, r.table, r.got.current.current_next)
  BY DEF Send
<1>8. Reaches(i, s, r)
  <2> HIDE DEF s
  <2>1. \A j \in Subtables : \A x \in ServedBy(j, decoder, mux) : Shaped(x)
    BY <1>3 DEF ToldOf, ToldWith
  <2>2. CASE kind \in Own
    <3>1. decoder # NULL => decoder \in ServedBy(1, decoder, mux)
      BY <2>2 DEF ServedBy
    <3>2. 1 \in Subtables
      BY <1>1, KeyFacts DEF SentOK
    <3> QED
      BY <1>6, <1>7, <2>1, <2>2, <3>1, <3>2, DirectReaches
  <2>3. CASE kind \notin Own
    <3>1. kind \in Shared
      BY <1>1, <2>3 DEF SentOK, TableNames
    <3> QED
      BY <1>6, <1>7, <2>1, <2>3, <3>1, DemuxReaches
  <2> QED
    BY <2>2, <2>3
<1>9. sent[i].next = NULL => t = sent[i].now
  BY <1>1
<1>10. i \notin excused => s.version = sent[i].now.gen /\ s.cn = TRUE /\ sent[i].next = NULL
  BY <1>3, <1>6, <1>9 DEF ToldOf, ToldWith
<1>v. sent[i].next = NULL => s.version = sent[i].now.gen /\ t.gen = sent[i].now.gen
  BY <1>6, <1>9
<1>n. HeaderOK(s) => s.cn \in BOOLEAN
  BY DEF HeaderOK
<1>g. ASSUME NEW d, NEW flag, NEW g, Goes(i, s, r, d, flag, g) PROVE Tells(i, s, r)
  <2>1. Timely(i, s) /\ ToldOf(i)
    BY <1>3, <1>6, <1>10, <1>n DEF Timely
  <2> HIDE DEF s, t
  <2> QED
    BY <1>g, <2>1, GoesTold
<1> HIDE DEF s, t
<1>11. mux'.discontinuity \in {mux.discontinuity, FALSE}
  BY <1>7, <1>8 DEF Reaches
<1>12. ASSUME NEW j \in Subtables, ServedBy(j, r.decoder, r.mux) = ServedBy(j, decoder, mux),
              delivered'[j] = delivered[j], j \in excused => j \in excused'
       PROVE  ToldOf(j)'
  BY <1>1, <1>3, <1>4, <1>5, <1>7, <1>11, <1>12, StaysToldNext
<1>13. CASE r.table = NULL
  <2>1. UNCHANGED <<delivered, repeated, excused>>
    BY <1>7, <1>13 DEF NothingReceived
  <2>2. \A j \in Subtables : j # i => ToldOf(j)'
    BY <1>8, <1>12, <2>1 DEF Reaches
  <2>3. ToldOf(i)'
    <3>1. CASE ServedBy(i, r.decoder, r.mux) = ServedBy(i, decoder, mux)
      BY <1>12, <2>1, <3>1
    <3>2. CASE \E d, flag, g : Goes(i, s, r, d, flag, g)
      <4>1. PICK d, flag, g : Goes(i, s, r, d, flag, g)
        BY <3>2
      <4>2. ToldWith(i, sent[i], delivered[i], i \in excused, r.decoder, r.mux)
        BY <1>13, <1>g, <4>1 DEF Tells
      <4>3. ToldWith(i, sent'[i], delivered[i], i \in excused, r.decoder, r.mux)
        BY <1>4, <1>5, <4>2 DEF ToldWith
      <4> QED
        BY <1>1, <1>7, <2>1, <4>3, ToldNext
    <3> QED
      BY <1>8, <3>1, <3>2 DEF Reaches
  <2> QED
    BY <1>2, <2>1, <2>2, <2>3 DEF Told
<1>14. CASE r.table # NULL
  <2> DEFINE cn == r.got.current.current_next
             given == [gen |-> t.gen, cn |-> cn]
  <2>1. /\ repeated' = (repeated \/ (delivered[i] = given /\ i \notin excused))
        /\ delivered' = [delivered EXCEPT ![i] = given]
        /\ excused' = IF sent[i].next = NULL THEN excused \ {i} ELSE excused
    BY <1>7, <1>14 DEF Receive
  <2>2. \A j \in Subtables : j # i => ToldOf(j)'
    BY <1>8, <1>12, <2>1 DEF Reaches, Told
  <2>3. PICK d, flag, g : Goes(i, s, r, d, flag, g)
    BY <1>8, <1>14 DEF Reaches
  <2>4. /\ cn \in BOOLEAN
        /\ i \notin excused => delivered[i] # [gen |-> sent[i].now.gen, cn |-> cn]
        /\ s.version = sent[i].now.gen /\ sent[i].next = NULL =>
             Remembered(i, r.decoder, r.mux, [gen |-> sent[i].now.gen, cn |-> cn], sent[i].now.gen)
    BY <1>14, <1>g, <2>3 DEF Tells
  <2> HIDE DEF cn
  <2>5. ~repeated'
    BY <1>10, <1>v, <2>1, <2>4 DEF Told
  <2>6. delivered'[i] = given /\ DOMAIN delivered' = Subtables
    BY <2>1 DEF Told
  <2>7. \A x \in ServedBy(i, r.decoder, r.mux) : Shaped(x)
    BY <2>3 DEF Goes, Behaves
  <2>8. kind \in Own => i = 1
    BY <2>3 DEF Goes
  <2>9. ToldWith(i, sent'[i], given, i \in excused', r.decoder, r.mux)
    <3>1. i \notin excused' => sent[i].next = NULL
      BY <1>10, <2>1
    <3>2. i \notin excused' =>
            sent'[i].next = NULL /\ Remembered(i, r.decoder, r.mux, given, sent'[i].now.gen)
      BY <1>4, <1>v, <2>4, <3>1
    <3> HIDE DEF given
    <3> QED
      BY <1>5, <2>7, <2>8, <3>2 DEF ToldWith
  <2>10. ToldOf(i)'
    BY <1>1, <1>7, <2>6, <2>9, ToldNext
  <2> QED
    BY <1>2, <2>2, <2>5, <2>6, <2>10 DEF Told
<1> QED
  BY <1>13, <1>14

LEMMA LoseTold ==
  ASSUME Held, Told, NEW i \in Subtables, NEW which \in {"now", "next"}, NEW noticed \in BOOLEAN,
         Lose(i, which, noticed)
  PROVE  Told'
<1>1. /\ SentOK /\ sent[i][which] # NULL /\ sent' = Advanced(i, which)
      /\ UNCHANGED <<kind, delivered, repeated>>
  BY DEF Lose, Held
<1>2. Subtables' = Subtables
  BY <1>1 DEF Subtables
<1>3. \A j \in Subtables : ToldOf(j)
  BY DEF Told
<1>4. \A j \in Subtables :
        /\ sent'[j].now.cn = sent[j].now.cn /\ sent'[j].now.gen = sent[j].now.gen
        /\ sent[j].next = NULL => sent'[j].next = NULL
  BY <1>1, AdvancedSame
<1>5. \A j \in Subtables : sent'[j].now.cn = TRUE
  BY <1>3, <1>4 DEF ToldOf, ToldWith
<1>6. CASE ~noticed
  <2>1. UNCHANGED <<decoder, mux, excused>>
    BY <1>6 DEF Lose
  <2>2. \A j \in Subtables : ToldOf(j)'
    BY <1>1, <1>3, <1>4, <1>5, <2>1, StaysToldNext
  <2> QED
    BY <1>1, <1>2, <2>2 DEF Told
<1>7. CASE noticed
  <2>1. excused' = Subtables
    BY <1>7 DEF Lose
  <2>2. ASSUME NEW j \in Subtables, NEW x \in ServedBy(j, decoder', mux') PROVE Shaped(x)
    <3>1. CASE kind \in Own
      <4>1. x = decoder' /\ j = 1
        BY <2>2, <3>1 DEF ServedBy
      <4>2. CASE decoder' = decoder
        BY <1>3, <2>2, <3>1, <4>1, <4>2 DEF ToldOf, ToldWith, ServedBy
      <4>3. CASE decoder # NULL /\ decoder' = [decoder EXCEPT !.discontinuity = TRUE]
        <5> DEFINE e == [decoder EXCEPT !.discontinuity = TRUE]
        <5>1. Shaped(decoder)
          BY <1>3, <3>1, <4>1, <4>3 DEF ToldOf, ToldWith, ServedBy
        <5>2. Fields \subseteq DOMAIN decoder /\ decoder.discontinuity \in BOOLEAN
          BY <4>3 DEF Held, OwnOK, DecoderOK
        <5>3. /\ e.building = decoder.building /\ e.last = decoder.last /\ e.first = decoder.first
              /\ DOMAIN e = DOMAIN decoder
              /\ ("program_number" \in DOMAIN decoder => e.program_number = decoder.program_number)
          BY <5>2 DEF Fields
        <5> HIDE DEF e
        <5>4. Shaped(e)
          BY <5>1, <5>2, <5>3, ShapeKept DEF Shaped, Same
        <5> QED
          BY <4>1, <4>3, <5>4 DEF e
      <4> QED
        BY <3>1, <4>2, <4>3 DEF Lose
    <3>2. CASE kind \notin Own
      <4>1. mux' = [mux EXCEPT !.discontinuity = TRUE]
        BY <1>7, <3>2 DEF Lose
      <4>2. mux'.subdecs = mux.subdecs
        BY <4>1 DEF Held, SubdecsOK
      <4>3. x \in ServedBy(j, decoder, mux)
        BY <2>2, <3>2, <4>2 DEF ServedBy
      <4> QED
        BY <1>3, <4>3 DEF ToldOf, ToldWith
    <3> QED
      BY <3>1, <3>2
  <2>3. \A j \in Subtables : kind \in Own /\ j # 1 => delivered'[j] = NULL
    BY <1>1, <1>3 DEF ToldOf, ToldWith
  <2>4. \A j \in Subtables : ToldOf(j)'
    BY <1>1, <1>5, <2>1, <2>2, <2>3, ExcusedToldNext
  <2> QED
    BY <1>1, <1>2, <2>4 DEF Told
<1> QED
  BY <1>6, <1>7

\* The broadcaster announces a version, or puts it into force: the subtable is excused.
LEMMA ChangeTold ==
  ASSUME Held, Told, NEW i \in Subtables, Announce(i) \/ Apply(i)
  PROVE  Told'
<1>1. UNCHANGED <<kind, decoder, mux, delivered, repeated>> /\ SentOK
  BY DEF Announce, Apply, Held
<1>2. Subtables' = Subtables
  BY <1>1 DEF Subtables
<1>3. \A j \in Subtables : ToldOf(j)
  BY DEF Told
<1>4. i \in excused' /\ \A j \in Subtables : j \in excused => j \in excused'
  <2>1. CASE Announce(i)
    BY <2>1 DEF Announce
  <2>2. CASE Apply(i)
    BY <1>3, <2>2 DEF Apply, ToldOf, ToldWith
  <2> QED
    BY <2>1, <2>2
<1>5. sent'[i].now.cn = TRUE /\ \A j \in Subtables : j # i => sent'[j] = sent[j]
  <2>1. CASE Announce(i)
    <3>1. PICK u : sent' = [sent EXCEPT ![i].next = u]
      BY <2>1 DEF Announce
    <3>2. sent'[i].now = sent[i].now /\ \A j \in Subtables : j # i => sent'[j] = sent[j]
      BY <1>1, <3>1 DEF SentOK
    <3> QED
      BY <1>3, <3>2 DEF ToldOf, ToldWith
  <2>2. CASE Apply(i)
    <3>1. sent[i].next \in OnAir
      BY <1>1, <2>2, TableFacts DEF SentOK, Apply
    <3> QED
      BY <1>1, <2>2, <3>1 DEF Apply, SentOK, OnAir
  <2> QED
    BY <2>1, <2>2
<1>6. \A j \in Subtables : j # i => ToldOf(j)'
  <2> SUFFICES ASSUME NEW j \in Subtables, j # i PROVE ToldOf(j)'
    OBVIOUS
  <2>1. sent'[j].now.cn = TRUE /\ sent'[j] = sent[j]
    BY <1>3, <1>5 DEF ToldOf, ToldWith
  <2> QED
    BY <1>1, <1>3, <1>4, <2>1, StaysToldNext
<1>7. ToldOf(i)'
  <2>1. /\ kind \in Own /\ i # 1 => delivered'[i] = NULL
        /\ \A x \in ServedBy(i, decoder', mux') : Shaped(x)
    BY <1>1, <1>3 DEF ToldOf, ToldWith
  <2> QED
    BY <1>1, <1>4, <1>5, <2>1, ExcusedToldNext
<1> QED
  BY <1>1, <1>2, <1>6, <1>7 DEF Told

LEMMA DetachTold ==
  ASSUME Held, Told, NEW i \in Subtables, DetachDecoder(i)
  PROVE  Told'
<1>1. UNCHANGED <<kind, sent, delivered, repeated>> /\ SentOK
  BY DEF DetachDecoder, Held
<1>2. Subtables' = Subtables
  BY <1>1 DEF Subtables
<1>3. \A j \in Subtables : ToldOf(j)
  BY DEF Told
<1>4. excused' = excused \cup {i}
  BY DEF DetachDecoder
<1>5. /\ mux'.discontinuity = mux.discontinuity
      /\ \A j \in Subtables : ServedBy(j, decoder', mux') =
           IF j = i THEN {} ELSE ServedBy(j, decoder, mux)
  <2>1. CASE kind \in Own
    <3>1. mux' = mux /\ i = 1 /\ decoder' = NULL
      BY <2>1, DetachDirectlyNull DEF DetachDecoder
    <3> QED
      BY <2>1, <3>1 DEF ServedBy
  <2>2. CASE kind \notin Own
    <3>1. kind \in Shared /\ kind \in TableNames
      BY <1>1, <2>2 DEF SentOK, TableNames
    <3>2. kind \in {"sis", "atsc_stt"} => Keys(kind)[i][2] = 0
      BY NoExtension
    <3>3. mux' = Detach(mux, Keys(kind)[i][1], Keys(kind)[i][2]) /\ mux' # mux
      BY <2>2, <3>1, <3>2, DetachTableIs DEF DetachDecoder
    <3>4. Keys(kind)[i] = <<Keys(kind)[i][1], Keys(kind)[i][2]>>
      BY <3>1, KeyFacts
    <3> DEFINE key == Keys(kind)[i]
               f == [k \in DOMAIN mux.subdecs \ {key} |-> mux.subdecs[k]]
    <3>5. mux' = [mux EXCEPT !.subdecs = f]
      BY <3>3, <3>4 DEF Detach, DetachSubDecoder
    <3>6. DOMAIN f = DOMAIN mux.subdecs \ {key} /\ \A k \in DOMAIN f : f[k] = mux.subdecs[k]
      OBVIOUS
    <3> HIDE DEF f
    <3>7. mux'.subdecs = f /\ mux'.discontinuity = mux.discontinuity
      BY <3>5 DEF Held, SubdecsOK
    <3>8. \A j \in Subtables : j # i => Keys(kind)[j] # key
      BY <3>1, KeyFacts
    <3> HIDE DEF key
    <3>9. \A j \in Subtables : ServedBy(j, decoder', mux') =
            IF j = i THEN {} ELSE ServedBy(j, decoder, mux)
      <4> SUFFICES ASSUME NEW j \in Subtables
                   PROVE  ServedBy(j, decoder', mux') = IF j = i THEN {} ELSE ServedBy(j, decoder, mux)
        OBVIOUS
      <4>1. CASE j = i
        BY <2>2, <3>6, <3>7, <4>1 DEF ServedBy, key
      <4>2. CASE j # i
        BY <2>2, <3>6, <3>7, <3>8, <4>2 DEF ServedBy
      <4> QED
        BY <4>1, <4>2
    <3> QED
      BY <3>7, <3>9
  <2> QED
    BY <2>1, <2>2
<1>6. ASSUME NEW j \in Subtables PROVE ToldOf(j)'
  <2>1. sent'[j] = sent[j] /\ sent'[j].now.cn = TRUE
    BY <1>1, <1>3 DEF ToldOf, ToldWith
  <2>2. CASE j # i
    BY <1>1, <1>3, <1>4, <1>5, <2>1, <2>2, StaysToldNext
  <2>3. CASE j = i
    <3>1. /\ kind \in Own /\ j # 1 => delivered'[j] = NULL
          /\ \A x \in ServedBy(j, decoder', mux') : Shaped(x)
      BY <1>1, <1>3, <1>5, <2>3 DEF ToldOf, ToldWith
    <3> QED
      BY <1>1, <1>4, <2>1, <2>3, <3>1, ExcusedToldNext
  <2> QED
    BY <2>2, <2>3
<1> QED
  BY <1>1, <1>2, <1>6 DEF Told

LEMMA AttachTold ==
  ASSUME Held, Told, AttachDecoder
  PROVE  Told'
<1>1. /\ UNCHANGED <<kind, sent, mux, delivered, repeated, excused>> /\ SentOK
      /\ kind \in Own /\ decoder = NULL /\ decoder' = AttachDirectly(kind)
  BY DEF AttachDecoder, Held
<1>2. Subtables' = Subtables
  BY <1>1 DEF Subtables
<1>3. \A j \in Subtables : ToldOf(j)
  BY DEF Told
<1>4. Shaped(AttachDirectly(kind)) /\ AttachDirectly(kind).building = NULL
  BY <1>1, NewShaped DEF Own, AttachDirectly, PatAttach, CatAttach, PmtAttach, RstAttach
<1>5. \A j \in Subtables : ServedBy(j, decoder, mux) = {}
  BY <1>1 DEF ServedBy
<1>6. \A j \in Subtables : \A x \in ServedBy(j, decoder', mux') : Shaped(x) /\ x.building = NULL
  BY <1>1, <1>4 DEF ServedBy
<1>7. ASSUME NEW j \in Subtables PROVE ToldOf(j)'
  <2>1. \A gen : Remembered(j, decoder, mux, delivered[j], gen) =>
                   Remembered(j, decoder', mux', delivered[j], gen)
    BY <1>5, <1>6 DEF Remembered
  <2>2. ToldWith(j, sent'[j], delivered'[j], j \in excused', decoder', mux')
    BY <1>1, <1>3, <1>6, <2>1 DEF ToldOf, ToldWith
  <2> QED
    BY <1>1, <2>2, ToldNext
<1> QED
  BY <1>1, <1>2, <1>7 DEF Told

LEMMA InitTold ==
  ASSUME Init
  PROVE  Told
<1>1. kind \in TableNames
  BY TableAssumption DEF Init, TableNames
<1>2. PICK shape \in [Subtables -> Shapes(kind)] :
        sent = [i \in Subtables |-> [now |-> Table(i, 0, shape[i], TRUE), next |-> NULL]]
  BY DEF Init
<1>3. \A i \in Subtables : sent[i].now.cn = TRUE /\ sent[i].now.gen = 0 /\ sent[i].next = NULL
  BY <1>2 DEF Table
<1>4. \A i \in Subtables : delivered[i] = NULL
  BY DEF Init
<1>5. \A cn \in BOOLEAN : NULL # [gen |-> 0, cn |-> cn]
  BY TableAssumption DEF Given
<1>6. ASSUME NEW i \in Subtables, NEW x \in ServedBy(i, decoder, mux) PROVE Shaped(x)
  <2>1. CASE kind \in Own
    <3>1. x = AttachDirectly(kind)
      BY <2>1, <1>6 DEF ServedBy, Init
    <3> QED
      BY <2>1, <3>1, NewShaped DEF Own, AttachDirectly, PatAttach, CatAttach, PmtAttach, RstAttach
  <2>2. CASE kind \notin Own
    BY <2>2, <1>6 DEF ServedBy, Init, NewDemux
  <2> QED
    BY <2>1, <2>2
<1>7. ASSUME NEW i \in Subtables PROVE ToldOf(i)
  <2>1. \A cn \in BOOLEAN : delivered[i] # [gen |-> sent[i].now.gen, cn |-> cn]
    BY <1>3, <1>4, <1>5
  <2>2. Remembered(i, decoder, mux, delivered[i], sent[i].now.gen)
    BY <2>1 DEF Remembered
  <2> QED
    BY <1>3, <1>4, <1>6, <2>2 DEF ToldOf, ToldWith
<1> QED
  BY <1>7 DEF Told, Init

LEMMA NextTold ==
  ASSUME Held, ToldOnce, [Next]_vars
  PROVE  ToldOnce'
<1>1. UNCHANGED kind
  BY DEF Next, vars, AttachDecoder, Announce, Apply, DetachDecoder, Send, Lose
<1>2. ASSUME kind \notin {"rst", "tot"} PROVE Told'
  <2>1. Told
    BY <1>2 DEF ToldOnce
  <2>2. CASE UNCHANGED vars
    <3>1. UNCHANGED <<kind, sent, decoder, mux, delivered, repeated, excused>>
      BY <2>2 DEF vars
    <3>2. Subtables' = Subtables
      BY <3>1 DEF Subtables
    <3>3. ASSUME NEW j \in Subtables PROVE ToldOf(j)'
      <4>1. ToldOf(j) /\ sent[j].now.cn = TRUE
        BY <2>1 DEF Told, ToldOf, ToldWith
      <4> QED
        BY <3>1, <4>1, StaysToldNext
    <3> QED
      BY <2>1, <3>1, <3>2, <3>3 DEF Told
  <2> QED
    BY <1>2, <2>1, <2>2, AttachTold, ChangeTold, DetachTold, SendTold, LoseTold DEF Next
<1> QED
  BY <1>1, <1>2 DEF ToldOnce

\* A decoder gives the application each version of a table once, for as long as no loss is noticed
\* and no other version is on the air: for all kinds of tables but the two that are delivered
\* with every section, and for all subtables next to one another.
THEOREM TablesAreToldOnce == Spec => []DeliveredOnce
<1>1. Init => Held /\ WholeTable /\ ToldOnce
  BY InitHolds, InitTold DEF ToldOnce
<1>2. Held /\ WholeTable /\ ToldOnce /\ [Next]_vars => Held' /\ WholeTable' /\ ToldOnce'
  BY NextHolds, NextTold
<1>3. ToldOnce => DeliveredOnce
  BY DEF ToldOnce, Told, DeliveredOnce
<1> QED
  BY <1>1, <1>2, <1>3, PTL DEF Spec
=============================================================================
