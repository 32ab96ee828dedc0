------------------------- MODULE StreamAnalysisProofs -------------------------
(***************************************************************************)
(* Proofs about StreamAnalysis: no byte of the stream goes uncounted, a    *)
(* gap in the counter of a PID is reported if and only if there was one,   *)
(* what is known of a program is the last PMT that was read for it, and    *)
(* each decoder that was attached has a cause. A packet is followed from   *)
(* the buffer to the handles of the decoders; for each of the loops there  *)
(* is what it leaves behind, and an invariant is about the counts and      *)
(* another one about the decoders.                                         *)
(***************************************************************************)
EXTENDS StreamAnalysis, Recursion, FiniteSetTheorems, SequenceTheorems, TLAPS

IsSeq(s) == \E S : s \in Seq(S)

LEMMA SeqParts ==
  ASSUME NEW s, IsSeq(s)
  PROVE  Len(s) \in Nat /\ DOMAIN s = 1..Len(s)
BY DEF IsSeq

LEMMA SeqAppend ==
  ASSUME NEW s, IsSeq(s), NEW e
  PROVE  /\ IsSeq(Append(s, e)) /\ Len(Append(s, e)) = Len(s) + 1
         /\ Append(s, e)[Len(s) + 1] = e /\ \A i \in 1..Len(s) : Append(s, e)[i] = s[i]
<1>1. PICK S : s \in Seq(S)
  BY DEF IsSeq
<1> DEFINE T == S \cup {e}
<1>2. s \in Seq(T) /\ e \in T
  BY <1>1
<1> HIDE DEF T
<1>3. Append(s, e) \in Seq(T)
  BY <1>2
<1>4. Len(Append(s, e)) = Len(s) + 1 /\ Append(s, e)[Len(s) + 1] = e
      /\ \A i \in 1..Len(s) : Append(s, e)[i] = s[i]
  BY <1>2
<1> QED
  BY <1>3, <1>4 DEF IsSeq

LEMMA SeqInFront ==
  ASSUME NEW s, IsSeq(s), NEW e
  PROVE  IsSeq(<<e>> \o s)
<1>1. PICK S : s \in Seq(S)
  BY DEF IsSeq
<1> DEFINE T == S \cup {e}
<1>2. s \in Seq(T) /\ <<e>> \in Seq(T)
  BY <1>1
<1> HIDE DEF T
<1>3. <<e>> \o s \in Seq(T)
  BY <1>2, ConcatProperties
<1> QED
  BY <1>3 DEF IsSeq

LEMMA SeqExcept ==
  ASSUME NEW s, IsSeq(s), NEW i, NEW e
  PROVE  IsSeq([s EXCEPT ![i] = e])
<1>1. PICK S : s \in Seq(S)
  BY DEF IsSeq
<1> DEFINE T == S \cup {e}
           t == [s EXCEPT ![i] = e]
<1>2. Len(s) \in Nat /\ DOMAIN s = 1..Len(s) /\ \A k \in 1..Len(s) : s[k] \in S
  BY <1>1
<1>3. t \in [1..Len(s) -> T]
  BY <1>1, <1>2
<1> HIDE DEF T, t
<1>4. t \in Seq(T)
  BY <1>2, <1>3
<1> QED
  BY <1>4 DEF IsSeq, t
----------------------------------------------------------------------------
(* What the decoders are made of.                                          *)

PatDecoders ==
  [discontinuity : BOOLEAN, current_valid : BOOLEAN,
   current : {NULL} \cup [ts_id : Nat, version : Nat, current_next : {TRUE}],
   building : {NULL}, sections : {{}}, last : Nat, first : Nat]

Tables == Pats \cup Pmts \cup OtherTables

Known == {64, 65, 66, 74, 112, 115, 252} \cup 78..111
Muxes == {"sdt", "eit", "tdt"}
MuxOK(m) == DOMAIN m = {"discontinuity", "subdecs"} /\ \A key \in DOMAIN m.subdecs : key[1] \in Known

HandlesOK(handle) ==
  /\ DOMAIN handle = {"pat", "cat", "sdt", "rst", "eit", "tdt"}
  /\ \A n \in DOMAIN handle : DOMAIN handle[n] = {"counter", "decoder"}
  /\ handle["pat"].decoder \in PatDecoders
  /\ \A n \in Muxes : MuxOK(handle[n].decoder)

\* A PAT is one section: it is delivered, or it is known already.
PatTold(G, s) ==
  \E r : /\ G = {r} /\ r.decoder \in PatDecoders
         /\ r.table = NULL \/ (s \in Pats /\ r.table = {s})

LEMMA PatGathers ==
  ASSUME NEW d \in PatDecoders, NEW s \in Tables
  PROVE  PatTold(PatGather(d, FALSE, s), s)
<1>0. s.id = 0 => s \in Pats
  <2>1. s \in Pmts => s.id = 2
    BY DEF Pmts, SectionsOf
  <2>2. s \in OtherTables => s.id \in {3, 66, 70, 112}
    BY DEF OtherTables, SectionsOf
  <2> QED
    BY <2>1, <2>2 DEF Tables
<1>2. CASE CheckPSISection(s, {0})
  <2>0. s \in Pats
    BY <1>0, <1>2 DEF CheckPSISection
  <2>00. s.last = 0 /\ s.num = 0 /\ s.cn = TRUE /\ s.ext \in Nat /\ s.version \in Nat
    <3>1. 1 \in Nat /\ Versions \subseteq Nat
      BY DEF Versions
    <3>2. s.last \in {0} /\ s.num \in {0} /\ s.cn \in {TRUE} /\ s.ext \in {1} /\ s.version \in Versions
      BY <2>0 DEF Pats, SectionsOf
    <3> QED
      BY <3>1, <3>2, Zenon
  <2> DEFINE lost == d.discontinuity
             differs == CheckPAT(d, s)
             ready == Ready(d, lost, d.building # NULL /\ differs)
             added == AddSection(ready, s, PatNew(s))
             r == Gathered(d, FALSE, lost, s, PatNew(s), differs, FALSE)
  <2>1. ready \in PatDecoders
    BY DEF Ready, ReInit, DecoderReset, PatDecoders
  <2> DEFINE new == PatNew(s)
  <2>2. new \in [ts_id : Nat, version : Nat, current_next : {TRUE}]
    BY <2>00 DEF PatNew
  <2> DEFINE made == [ready EXCEPT !.building = new, !.last = s.last, !.first = s.num]
  <2>3. ready.building = NULL /\ ready.sections = {}
    BY <2>1 DEF PatDecoders
  <2> HIDE DEF ready, new
  <2>4. added = [made EXCEPT !.sections = {s}]
    <3>1. made.sections = {}
      BY <2>1, <2>3 DEF PatDecoders
    <3>2. added = SectionAdd(made, s)
      BY <2>3 DEF AddSection, new
    <3> HIDE DEF made
    <3> QED
      BY <3>1, <3>2 DEF SectionAdd
  <2>5. /\ DOMAIN added = DOMAIN ready /\ added.last = 0 /\ added.first = 0 /\ added.building = new
        /\ added.sections = {s} /\ added.current_valid = ready.current_valid
        /\ added.discontinuity = ready.discontinuity
    BY <2>00, <2>1, <2>4 DEF PatDecoders
  <2> HIDE DEF added
  <2>10. SectionsCompleted(added)
    BY <2>00, <2>5 DEF SectionsCompleted
  <2> DEFINE out == Delivered(added, FALSE)
  <2>11. /\ out.table = {s}
         /\ out.decoder = ReInit([added EXCEPT !.current = added.building, !.current_valid = TRUE], FALSE)
    BY <2>5 DEF Delivered, Result
  <2> DEFINE e == out.decoder
  <2>12. /\ DOMAIN e = DOMAIN ready /\ e.discontinuity = ready.discontinuity /\ e.current_valid = TRUE
         /\ e.current = new /\ e.building = NULL /\ e.sections = {} /\ e.last = 0 /\ e.first = 0
         /\ e = [x \in DOMAIN e |-> e[x]]
    BY <2>1, <2>5, <2>11 DEF ReInit, DecoderReset, PatDecoders
  <2> HIDE DEF out
  <2>13. e \in PatDecoders
    <3>1. /\ DOMAIN ready = {"discontinuity", "current_valid", "current", "building", "sections",
                            "last", "first"}
          /\ ready.discontinuity \in BOOLEAN
      BY <2>1 DEF PatDecoders
    <3> HIDE DEF e
    <3>2. e = [discontinuity |-> ready.discontinuity, current_valid |-> TRUE, current |-> new,
               building |-> NULL, sections |-> {}, last |-> 0, first |-> 0]
      BY <2>12, <3>1
    <3> QED
      BY <2>2, <3>1, <3>2 DEF PatDecoders
  <2>6. r = Result(d, FALSE, NULL) \/ r = out
    BY <2>10 DEF Gathered, added, ready, new, out
  <2>14. Result(d, FALSE, NULL).decoder = d /\ Result(d, FALSE, NULL).table = NULL
    BY DEF Result
  <2> HIDE DEF r
  <2>7. r.decoder \in PatDecoders /\ (r.table = NULL \/ r.table = {s})
    <3>1. CASE r = Result(d, FALSE, NULL)
      BY <3>1, <2>14
    <3>2. CASE r = out
      BY <3>2, <2>11, <2>13
    <3> QED
      BY <2>6, <3>1, <3>2
  <2>8. PatGather(d, FALSE, s) = {r}
    BY <1>2 DEF PatGather, GatherOwn, r
  <2> QED
    BY <2>0, <2>7, <2>8 DEF PatTold
<1>3. CASE ~CheckPSISection(s, {0})
  <2>1. PatGather(d, FALSE, s) = {Result(d, FALSE, NULL)}
    BY <1>3 DEF PatGather
  <2>2. Result(d, FALSE, NULL).decoder = d /\ Result(d, FALSE, NULL).table = NULL
    BY DEF Result
  <2> QED
    BY <2>1, <2>2 DEF PatTold
<1> QED
  BY <1>2, <1>3

\* Each gather function has one result.
LEMMA GatherSubOnce ==
  ASSUME NEW d, NEW flag, NEW s, s.id \in Known
  PROVE  GatherSub(d, flag, s) # {}
<1>1. /\ NitGather(d, flag, s) # {} /\ SdtGather(d, flag, s) # {} /\ BatGather(d, flag, s) # {}
      /\ EitGather(d, flag, s) # {} /\ TotGather(d, flag, s) # {} /\ SisGather(d, flag, s) # {}
  BY DEF NitGather, SdtGather, BatGather, EitGather, TotGather, SisGather, GatherOwn, GatherShared
<1> QED
  BY <1>1 DEF GatherSub, Known

LEMMA SubtableKnown ==
  ASSUME NEW m, MuxOK(m), NEW id, NEW ext
  PROVE  MuxOK(handle_subtable(m, id, ext))
<1>1. ASSUME NEW key, key[1] \in Known, NEW d PROVE MuxOK([m EXCEPT !.subdecs = With(@, key, d)])
  BY <1>1 DEF MuxOK, With
<1>2. ASSUME id \in Known, NEW asked, NEW e, NEW d PROVE MuxOK(Attach(m, id, asked, e, d))
  <2>1. <<id, e>>[1] \in Known
    BY <1>2
  <2> QED
    BY <1>1, <2>1 DEF Attach, AttachSubDecoder
<1>3. CASE id \in Known
  BY <1>2, <1>3 DEF handle_subtable, NitAttach, SdtAttach, BatAttach, EitAttach, TotAttach, SisAttach
<1>4. CASE id \notin Known
  BY <1>4 DEF handle_subtable, Known
<1> QED
  BY <1>3, <1>4

LEMMA DemuxOnce ==
  ASSUME NEW m, MuxOK(m), NEW s
  PROVE  Demux(m, s) # {} /\ \A r \in Demux(m, s) : MuxOK(r.decoder)
<1> DEFINE key == <<s.id, s.ext>>
           n == IF GetSubDec(m, s.id, s.ext) THEN m ELSE handle_subtable(m, s.id, s.ext)
<1>1. MuxOK(n)
  BY SubtableKnown
<1> HIDE DEF n
<1>2. CASE key \notin DOMAIN n.subdecs
  <2>1. Demux(m, s) = {[decoder |-> n, table |-> NULL]}
    BY <1>2 DEF Demux, n
  <2> QED
    BY <1>1, <2>1
<1>3. CASE key \in DOMAIN n.subdecs
  <2>1. s.id \in Known
    BY <1>1, <1>3 DEF MuxOK
  <2> DEFINE G == GatherSub(n.subdecs[key], n.discontinuity, s)
             made(r) == [discontinuity |-> r.discontinuity, subdecs |-> With(n.subdecs, key, r.decoder)]
  <2>2. G # {}
    BY <2>1, GatherSubOnce
  <2>3. Demux(m, s) = {[decoder |-> made(r), table |-> r.table] : r \in G}
    BY <1>3 DEF Demux, n
  <2>4. ASSUME NEW r PROVE MuxOK(made(r))
    BY <1>1, <1>3 DEF MuxOK, With
  <2> HIDE DEF G, made
  <2>5. Demux(m, s) # {}
    BY <2>2, <2>3
  <2>6. ASSUME NEW x \in Demux(m, s) PROVE MuxOK(x.decoder)
    <3>1. PICK r \in G : x = [decoder |-> made(r), table |-> r.table]
      BY <2>3
    <3>2. x.decoder = made(r)
      BY <3>1
    <3> QED
      BY <2>4, <3>2
  <2> QED
    BY <2>5, <2>6
<1> QED
  BY <1>2, <1>3
----------------------------------------------------------------------------
(* What a packet leaves alone on its way to the decoders.                  *)

StreamFields == {"handle", "pmt", "pid", "packets", "lost_bytes", "clocks", "leaked"}
LoopFields == {"stream", "at", "read", "known", "failing", "aborted"}

StreamKept(v, s) ==
  /\ DOMAIN v = StreamFields /\ HandlesOK(v.handle) /\ IsSeq(v.pmt)
  /\ v.packets = s.packets /\ v.lost_bytes = s.lost_bytes /\ v.pid = s.pid

Kept(u, t) ==
  /\ DOMAIN u = LoopFields /\ u.at = t.at /\ u.read = t.read /\ u.failing = t.failing
  /\ StreamKept(u.stream, t.stream)

LEMMA KeptFurther ==
  ASSUME NEW u, NEW t, NEW v, Kept(u, t), Kept(v, u)
  PROVE  Kept(v, t)
BY DEF Kept, StreamKept

LEMMA InFrontKeeps ==
  ASSUME NEW v, NEW s, StreamKept(v, s), NEW program
  PROVE  StreamKept(InFront(v, program), s)
<1> DEFINE e == NewEntry(program)
<1>1. IsSeq(<<e>> \o v.pmt)
  BY SeqInFront DEF StreamKept
<1> HIDE DEF e
<1> QED
  BY <1>1 DEF StreamKept, InFront, StreamFields, e

\* The loop over the programs of a PAT, which may skip the first one.
InFrontOf(g, s, list, K, skip) ==
  g = [i \in 0..K |-> IF i <= skip THEN s ELSE InFront(g[i-1], list[i])]

LEMMA EntriesExist ==
  ASSUME NEW s, NEW list, NEW K \in Nat, NEW skip \in {0, 1}
  PROVE  \E g : InFrontOf(g, s, list, K, skip)
<1> DEFINE body(g, i) == IF i <= skip THEN s ELSE InFront(g[i-1], list[i])
           T == {m \in 0..K : \E g : g = [i \in 0..m |-> body(g, i)]}
<1>1. 0 \in T
  <2> DEFINE h == [i \in 0..0 |-> s]
  <2>1. h = [i \in 0..0 |-> body(h, i)]
    OBVIOUS
  <2> QED
    BY <2>1
<1>2. ASSUME NEW m \in 1..K, m - 1 \in T PROVE m \in T
  <2>1. PICK g : g = [i \in 0..m-1 |-> body(g, i)]
    BY <1>2
  <2> DEFINE h == [i \in 0..m |-> body(g, i)]
  <2>2. \A i \in 0..m-1 : g[i] = body(g, i)
    BY <2>1
  <2>3. \A i \in 0..m : h[i] = body(g, i)
    OBVIOUS
  <2>4. ASSUME NEW i \in 0..m PROVE body(h, i) = body(g, i)
    <3>1. CASE i <= skip
      BY <3>1
    <3>2. CASE ~(i <= skip)
      <4>1. i - 1 \in 0..m-1 /\ i - 1 \in 0..m
        BY <3>2
      <4>2. h[i-1] = g[i-1]
        BY <2>2, <2>3, <4>1
      <4> QED
        BY <3>2, <4>2
    <3> QED
      BY <3>1, <3>2
  <2>5. h = [i \in 0..m |-> body(h, i)]
    <3> DEFINE B == [i \in 0..m |-> body(h, i)]
    <3>1. \A i \in 0..m : B[i] = h[i]
      BY <2>3, <2>4
    <3> QED
      BY <3>1
  <2> HIDE DEF h
  <2> QED
    BY <2>5
<1> HIDE DEF T
<1>3. 0..K \subseteq T
  BY <1>1, <1>2, IntervalInduction
<1>4. K \in T
  BY <1>3
<1> QED
  BY <1>4 DEF T, InFrontOf

LEMMA EntriesKept ==
  ASSUME NEW s, StreamKept(s, s), NEW list, NEW K \in Nat, NEW skip \in {0, 1}, NEW g,
         InFrontOf(g, s, list, K, skip)
  PROVE  StreamKept(g[K], s)
<1> DEFINE T == {i \in 0..K : StreamKept(g[i], s)}
<1>1. \A i \in 0..K : g[i] = IF i <= skip THEN s ELSE InFront(g[i-1], list[i])
  BY DEF InFrontOf
<1>2. 0 \in T
  BY <1>1
<1>3. ASSUME NEW i \in 1..K, i - 1 \in T PROVE i \in T
  <2>1. StreamKept(g[i-1], s)
    BY <1>3
  <2>2. StreamKept(InFront(g[i-1], list[i]), s)
    BY <2>1, InFrontKeeps
  <2>3. g[i] = s \/ g[i] = InFront(g[i-1], list[i])
    BY <1>1
  <2> QED
    BY <2>2, <2>3
<1> HIDE DEF T
<1>4. 0..K \subseteq T
  BY <1>2, <1>3, IntervalInduction
<1> QED
  BY <1>4 DEF T

Failing == {"none", "entry", "handle", "attach"}

LEMMA PatKeeps ==
  ASSUME NEW s, StreamKept(s, s), NEW list, IsSeq(list), NEW failing \in Failing
  PROVE  StreamKept(handle_PAT(s, list, failing), s)
<1> DEFINE K == Len(list)
           upTo == CHOOSE g : g = [i \in 0..K |-> IF i = 0 THEN s ELSE InFront(g[i-1], list[i])]
           skipped == CHOOSE g : g = [i \in 0..K |-> IF i <= 1 THEN s ELSE InFront(g[i-1], list[i])]
<1>1. K \in Nat
  BY SeqParts
<1>2. StreamKept(upTo[K], s)
  <2>1. PICK f : InFrontOf(f, s, list, K, 0)
    BY <1>1, EntriesExist
  <2>2. f = [i \in 0..K |-> IF i = 0 THEN s ELSE InFront(f[i-1], list[i])]
    BY <1>1, <2>1 DEF InFrontOf
  <2>3. upTo = [i \in 0..K |-> IF i = 0 THEN s ELSE InFront(upTo[i-1], list[i])]
    BY <2>2
  <2> HIDE DEF upTo, K
  <2>4. InFrontOf(upTo, s, list, K, 0)
    BY <1>1, <2>3 DEF InFrontOf
  <2> QED
    BY <1>1, <2>4, EntriesKept
<1>3. StreamKept(skipped[K], s)
  <2>1. PICK f : InFrontOf(f, s, list, K, 1)
    BY <1>1, EntriesExist
  <2>2. f = [i \in 0..K |-> IF i <= 1 THEN s ELSE InFront(f[i-1], list[i])]
    BY <1>1, <2>1 DEF InFrontOf
  <2>3. skipped = [i \in 0..K |-> IF i <= 1 THEN s ELSE InFront(skipped[i-1], list[i])]
    BY <2>2
  <2> HIDE DEF skipped, K
  <2>4. InFrontOf(skipped, s, list, K, 1)
    BY <1>1, <2>3 DEF InFrontOf
  <2> QED
    BY <1>1, <2>4, EntriesKept
<1>4. StreamKept([s EXCEPT !.leaked = @ + 1], s)
  BY DEF StreamKept, StreamFields
<1>5. handle_PAT(s, list, failing) \in {upTo[K], skipped[K], s, [s EXCEPT !.leaked = @ + 1]}
  BY DEF handle_PAT, Failing
<1> HIDE DEF upTo, skipped
<1> QED
  BY <1>2, <1>3, <1>4, <1>5
----------------------------------------------------------------------------
(* A packet on its way to the decoders.                                    *)

LEMMA OnlyOne ==
  ASSUME NEW S, S # {}
  PROVE  Only(S) \in S
BY DEF Only

Gives(name, s) == \A d : Gather(name, d, s) # {}

LEMMA PushOnce ==
  ASSUME NEW h, NEW p, NEW name, Gives(name, p.section)
  PROVE  PacketPush(h, p, name) # {}
<1> DEFINE d == [h.decoder EXCEPT !.discontinuity = @ \/ Gap(h, p)]
           G == Gather(name, d, p.section)
           R == {[handle |-> [counter |-> p.cc, decoder |-> r.decoder], table |-> r.table] : r \in G}
<1>1. R # {}
  <2>1. G # {}
    BY DEF Gives
  <2> HIDE DEF G
  <2> QED
    BY <2>1
<1>2. \/ PacketPush(h, p, name) = R
      \/ \E x : PacketPush(h, p, name) = {x}
  BY DEF PacketPush
<1> HIDE DEF R
<1> QED
  BY <1>1, <1>2

LEMMA ShowPmtKeeps ==
  ASSUME NEW t, NEW u, Kept(u, t), NEW i, NEW p, NEW r
  PROVE  Kept(ShowPmt(u, i, p, r), t)
<1> DEFINE entries == [u.stream.pmt EXCEPT ![i] = [u.stream.pmt[i] EXCEPT !.handle = r.handle]]
           s == [u.stream EXCEPT !.pmt = entries]
           pushed == [u EXCEPT !.stream = s]
           number == u.stream.pmt[i].number
           v == handle_PMT(s, number, p.section.version, Contents(r.table))
<1>1. IsSeq(entries)
  BY SeqExcept DEF Kept, StreamKept
<1> HIDE DEF entries
<1>2. StreamKept(s, t.stream)
  BY <1>1 DEF Kept, StreamKept, StreamFields
<1>3. Kept(pushed, t) /\ pushed.stream = s
  <2> HIDE DEF s
  <2> QED
    BY <1>2 DEF Kept, LoopFields
<1>4. StreamKept(v, t.stream)
  <2> DEFINE f == Found(s, number)
             q == [s.pmt EXCEPT ![f] = [s.pmt[f] EXCEPT !.version = p.section.version]]
             c == s.clocks \cup {Contents(r.table)}
  <2>1. IsSeq(q)
    BY <1>2, SeqExcept DEF StreamKept
  <2>2. v = [[s EXCEPT !.pmt = q] EXCEPT !.clocks = c]
    BY DEF handle_PMT
  <2> HIDE DEF s, q, c, v
  <2> QED
    BY <1>2, <2>1, <2>2 DEF StreamKept, StreamFields
<1>5. Kept([pushed EXCEPT !.aborted = TRUE], t)
  <2> HIDE DEF pushed
  <2> QED
    BY <1>3 DEF Kept, LoopFields
<1>6. Kept([pushed EXCEPT !.stream = v], t)
  <2> HIDE DEF pushed, v
  <2> QED
    BY <1>3, <1>4 DEF Kept, LoopFields
<1>7. ShowPmt(u, i, p, r) \in {pushed, [pushed EXCEPT !.aborted = TRUE], [pushed EXCEPT !.stream = v]}
  BY <1>3 DEF ShowPmt, entries
<1> QED
  BY <1>3, <1>5, <1>6, <1>7

\* One turn of the loop over the decoders of PMTs.
PmtPush(u, i, p) ==
  IF u.stream.pmt[i].pid # p.pid THEN u
  ELSE Only({ShowPmt(u, i, p, r) : r \in PacketPush(u.stream.pmt[i].handle, p, "pmt")})

LEMMA PmtPushKeeps ==
  ASSUME NEW t, NEW u, Kept(u, t), NEW i, NEW p
  PROVE  Kept(PmtPush(u, i, p), t)
<1> DEFINE h == u.stream.pmt[i].handle
           R == PacketPush(h, p, "pmt")
           S == {ShowPmt(u, i, p, r) : r \in R}
<1>1. R # {}
  <2>1. Gives("pmt", p.section)
    BY DEF Gives, Gather, PmtGather, GatherOwn
  <2> HIDE DEF h
  <2> QED
    BY <2>1, PushOnce
<1> HIDE DEF R
<1>2. Only(S) \in S
  <2>1. S # {}
    BY <1>1
  <2> HIDE DEF S
  <2> QED
    BY <2>1, OnlyOne
<1>3. \A x \in S : Kept(x, t)
  BY ShowPmtKeeps
<1>4. PmtPush(u, i, p) = u \/ PmtPush(u, i, p) = Only(S)
  BY DEF PmtPush, R
<1> HIDE DEF S
<1> QED
  BY <1>2, <1>3, <1>4

PushedTo(g, t, p, K) == g = [i \in 0..K |-> IF i = 0 THEN t ELSE PmtPush(g[i-1], i, p)]

LEMMA PushesExist ==
  ASSUME NEW t, NEW p, NEW K \in Nat
  PROVE  \E g : PushedTo(g, t, p, K)
<1> DEFINE body(g, i) == IF i = 0 THEN t ELSE PmtPush(g[i-1], i, p)
           T == {m \in 0..K : \E g : PushedTo(g, t, p, m)}
<1>1. 0 \in T
  <2> DEFINE h == [i \in 0..0 |-> t]
  <2>1. PushedTo(h, t, p, 0)
    BY DEF PushedTo
  <2> HIDE DEF h
  <2> QED
    BY <2>1
<1>2. ASSUME NEW m \in 1..K, m - 1 \in T PROVE m \in T
  <2>1. PICK g : PushedTo(g, t, p, m - 1)
    BY <1>2
  <2> DEFINE h == [i \in 0..m |-> body(g, i)]
  <2>2. \A i \in 0..m-1 : g[i] = body(g, i)
    BY <2>1 DEF PushedTo
  <2>3. \A i \in 0..m : h[i] = body(g, i)
    OBVIOUS
  <2>4. ASSUME NEW i \in 0..m PROVE body(h, i) = body(g, i)
    <3>1. CASE i = 0
      BY <3>1
    <3>2. CASE i # 0
      <4>1. i - 1 \in 0..m-1 /\ i - 1 \in 0..m
        BY <3>2
      <4>2. h[i-1] = g[i-1]
        BY <2>2, <2>3, <4>1
      <4> QED
        BY <3>2, <4>2
    <3> QED
      BY <3>1, <3>2
  <2>5. h = [i \in 0..m |-> body(h, i)]
    <3> DEFINE B == [i \in 0..m |-> body(h, i)]
    <3>1. \A i \in 0..m : B[i] = h[i]
      BY <2>3, <2>4
    <3> QED
      BY <3>1
  <2>6. PushedTo(h, t, p, m)
    BY <2>5 DEF PushedTo
  <2> HIDE DEF h
  <2> QED
    BY <2>6
<1> HIDE DEF T
<1>3. 0..K \subseteq T
  BY <1>1, <1>2, IntervalInduction
<1>4. K \in T
  BY <1>3
<1> QED
  BY <1>4 DEF T

LEMMA PushesKeep ==
  ASSUME NEW t, Kept(t, t), NEW p
  PROVE  Kept(PushToPmts(t, p), t)
<1> DEFINE K == Len(t.stream.pmt)
           upTo == CHOOSE g : g = [i \in 0..K |-> IF i = 0 THEN t ELSE PmtPush(g[i-1], i, p)]
<1>1. K \in Nat
  BY SeqParts DEF Kept, StreamKept
<1>2. PushToPmts(t, p) = upTo[K]
  BY DEF PushToPmts, PmtPush
<1>3. PushedTo(upTo, t, p, K)
  <2> HIDE DEF K
  <2>1. PICK f : PushedTo(f, t, p, K)
    BY <1>1, PushesExist
  <2>2. f = [i \in 0..K |-> IF i = 0 THEN t ELSE PmtPush(f[i-1], i, p)]
    BY <2>1 DEF PushedTo
  <2>3. upTo = [i \in 0..K |-> IF i = 0 THEN t ELSE PmtPush(upTo[i-1], i, p)]
    BY <2>2
  <2> HIDE DEF upTo
  <2> QED
    BY <2>3 DEF PushedTo
<1> HIDE DEF K, upTo
<1> DEFINE T == {i \in 0..K : Kept(upTo[i], t)}
<1>4. \A i \in 0..K : upTo[i] = IF i = 0 THEN t ELSE PmtPush(upTo[i-1], i, p)
  BY <1>3 DEF PushedTo
<1>5. 0 \in T
  BY <1>1, <1>4
<1>6. ASSUME NEW i \in 1..K, i - 1 \in T PROVE i \in T
  <2>1. Kept(PmtPush(upTo[i-1], i, p), t)
    BY <1>6, PmtPushKeeps
  <2>2. upTo[i] = PmtPush(upTo[i-1], i, p)
    BY <1>1, <1>4
  <2> QED
    BY <2>1, <2>2
<1> HIDE DEF T
<1>7. 0..K \subseteq T
  BY <1>1, <1>5, <1>6, IntervalInduction
<1>8. K \in T
  BY <1>1, <1>7
<1> QED
  BY <1>2, <1>8 DEF T

Sent(p) == p.section = NULL \/ p.section \in Tables

\* The decoders of the six handles.
LEMMA HandlePushed ==
  ASSUME NEW handle, HandlesOK(handle), NEW name \in DOMAIN handle, NEW p, Sent(p)
  PROVE  LET R == PacketPush(handle[name], p, name) IN
         /\ R # {}
         /\ \A r \in R : /\ HandlesOK([handle EXCEPT ![name] = r.handle])
                         /\ name = "pat" /\ r.table # NULL =>
                              \E s \in Pats : r.table = {s} /\ s = p.section
<1> DEFINE h == handle[name]
           d == [h.decoder EXCEPT !.discontinuity = @ \/ Gap(h, p)]
           R == PacketPush(h, p, name)
           H(x) == [handle EXCEPT ![name] = x]
<1>1. ASSUME NEW x, DOMAIN x = {"counter", "decoder"}, name = "pat" => x.decoder \in PatDecoders, name \in Muxes => MuxOK(x.decoder)
      PROVE  HandlesOK(H(x))
  BY <1>1 DEF HandlesOK
<1>2. name = "pat" => h.decoder \in PatDecoders /\ d \in PatDecoders
  <2>1. Gap(h, p) \in BOOLEAN
    BY DEF Gap
  <2> QED
    BY <2>1 DEF HandlesOK, PatDecoders
<1>3. name \in Muxes => MuxOK(h.decoder) /\ MuxOK(d)
  BY DEF HandlesOK, MuxOK, Muxes
<1> HIDE DEF d
<1>4. CASE Duplicate(h, p)
  <2> DEFINE r == [handle |-> [h EXCEPT !.counter = p.cc], table |-> NULL]
  <2>1. R = {r}
    BY <1>4 DEF PacketPush
  <2>2. r.handle = [h EXCEPT !.counter = p.cc] /\ r.table = NULL
    OBVIOUS
  <2>3. DOMAIN r.handle = {"counter", "decoder"} /\ r.handle.decoder = h.decoder
    <3>1. DOMAIN h = {"counter", "decoder"}
      BY DEF HandlesOK
    <3> HIDE DEF h
    <3> QED
      BY <2>2, <3>1
  <2> HIDE DEF r, R
  <2>4. HandlesOK(H(r.handle))
    BY <1>1, <1>2, <1>3, <2>3
  <2> QED
    BY <2>1, <2>2, <2>4 DEF R
<1>5. CASE ~Duplicate(h, p) /\ p.section = NULL
  <2> DEFINE r == [handle |-> [counter |-> p.cc, decoder |-> d], table |-> NULL]
  <2>1. R = {r}
    BY <1>5 DEF PacketPush, d
  <2>2. DOMAIN r.handle = {"counter", "decoder"} /\ r.handle.decoder = d /\ r.table = NULL
    OBVIOUS
  <2> HIDE DEF r, R
  <2>4. HandlesOK(H(r.handle))
    BY <1>1, <1>2, <1>3, <2>2
  <2> QED
    BY <2>1, <2>2, <2>4 DEF R
<1>6. CASE ~Duplicate(h, p) /\ p.section # NULL
  <2> DEFINE G == Gather(name, d, p.section)
             out(r) == [handle |-> [counter |-> p.cc, decoder |-> r.decoder], table |-> r.table]
  <2>1. R = {out(r) : r \in G}
    BY <1>6 DEF PacketPush, d
  <2>2. p.section \in Tables
    BY <1>6 DEF Sent
  <2>3. G # {} /\ \A r \in G : /\ name = "pat" => r.decoder \in PatDecoders
                               /\ name \in Muxes => MuxOK(r.decoder)
                               /\ name = "pat" /\ r.table # NULL =>
                                    \E s \in Pats : r.table = {s} /\ s = p.section
    <3>1. CASE name = "pat"
      <4>1. G = PatGather(d, FALSE, p.section)
        BY <3>1 DEF Gather
      <4>2. PatTold(G, p.section)
        <5>1. d \in PatDecoders
          BY <1>2, <3>1
        <5> HIDE DEF G
        <5> QED
          BY <2>2, <4>1, <5>1, PatGathers
      <4>3. name \notin Muxes
        BY <3>1 DEF Muxes
      <4> HIDE DEF G
      <4> QED
        BY <3>1, <4>2, <4>3 DEF PatTold
    <3>2. CASE name \in Muxes
      <4>1. G = Demux(d, p.section) /\ name # "pat"
        BY <3>2 DEF Gather, Muxes
      <4>2. Demux(d, p.section) # {} /\ \A r \in Demux(d, p.section) : MuxOK(r.decoder)
        BY <1>3, <3>2, DemuxOnce
      <4> HIDE DEF G
      <4> QED
        BY <4>1, <4>2
    <3>3. CASE name \in {"cat", "rst"}
      <4>1. G # {}
        BY <3>3 DEF Gather, CatGather, RstGather, GatherOwn
      <4> QED
        BY <3>3, <4>1 DEF Muxes
    <3> QED
      BY <3>1, <3>2, <3>3 DEF HandlesOK, Muxes
  <2>4. \A r : /\ DOMAIN out(r).handle = {"counter", "decoder"}
               /\ out(r).handle.decoder = r.decoder /\ out(r).table = r.table
    OBVIOUS
  <2> HIDE DEF G, out, R
  <2>5. R # {}
    BY <2>1, <2>3
  <2>6. ASSUME NEW x \in R
        PROVE  /\ HandlesOK(H(x.handle))
               /\ name = "pat" /\ x.table # NULL => \E s \in Pats : x.table = {s} /\ s = p.section
    <3>1. PICK r \in G : x = out(r)
      BY <2>1
    <3>2. DOMAIN x.handle = {"counter", "decoder"} /\ x.handle.decoder = r.decoder /\ x.table = r.table
      BY <2>4, <3>1
    <3>3. HandlesOK(H(x.handle))
      BY <1>1, <2>3, <3>2
    <3> QED
      BY <2>3, <3>2, <3>3
  <2> QED
    BY <2>5, <2>6 DEF R
<1> QED
  BY <1>4, <1>5, <1>6

LEMMA ShowKeeps ==
  ASSUME NEW t, Kept(t, t), t.failing \in Failing, Lists \subseteq Seq(Nat \X Nat),
         NEW name \in {"pat", "cat", "sdt", "rst", "eit", "tdt"}, NEW p, Sent(p),
         NEW r \in PacketPush(t.stream.handle[name], p, name)
  PROVE  Kept(Show(t, name, r), t)
<1> DEFINE handle == t.stream.handle
           new == [handle EXCEPT ![name] = r.handle]
           s == [t.stream EXCEPT !.handle = new]
           pushed == [t EXCEPT !.stream = s]
           v == handle_PAT(s, Contents(r.table), t.failing)
<1>1. HandlesOK(handle) /\ name \in DOMAIN handle
  BY DEF Kept, StreamKept, HandlesOK
<1>2. /\ HandlesOK(new)
      /\ name = "pat" /\ r.table # NULL => \E x \in Pats : r.table = {x} /\ x = p.section
  <2> HIDE DEF handle
  <2>1. r \in PacketPush(handle[name], p, name)
    BY DEF handle
  <2> QED
    BY <1>1, <2>1, HandlePushed
<1>3. StreamKept(s, t.stream)
  <2> HIDE DEF new
  <2> QED
    BY <1>2 DEF Kept, StreamKept, StreamFields
<1>4. Kept(pushed, t) /\ pushed.stream = s
  <2> HIDE DEF s
  <2> QED
    BY <1>3 DEF Kept, LoopFields
<1> DEFINE shown == [pushed EXCEPT !.stream = v, !.known = Follow(Contents(r.table))]
<1>6. ASSUME name = "pat", r.table # NULL PROVE Kept(shown, t)
  <2>1. PICK x \in Pats : r.table = {x}
    BY <1>2, <1>6
  <2> DEFINE list == Contents(r.table)
  <2>2. IsSeq(list)
    <3>1. Only(r.table) = x
      BY <2>1 DEF Only
    <3>2. x.gen \in Lists
      BY DEF Pats, SectionsOf
    <3> QED
      BY <3>1, <3>2 DEF Contents, IsSeq
  <2>3. StreamKept(s, s)
    BY <1>3 DEF StreamKept
  <2> HIDE DEF s, list
  <2>4. StreamKept(handle_PAT(s, list, t.failing), s)
    BY <2>2, <2>3, PatKeeps
  <2>5. StreamKept(v, t.stream)
    BY <1>3, <2>4 DEF list, StreamKept
  <2> HIDE DEF pushed, v
  <2> QED
    BY <1>4, <2>5 DEF Kept, LoopFields
<1>7. \/ Show(t, name, r) = pushed
      \/ name = "pat" /\ r.table # NULL /\ Show(t, name, r) = shown
  <2>1. pushed.stream = s /\ Show(t, name, r) =
          IF r.table = NULL \/ name # "pat" THEN pushed
          ELSE [pushed EXCEPT !.stream = handle_PAT(pushed.stream, Contents(r.table), t.failing),
                              !.known = Follow(Contents(r.table))]
    BY <1>4 DEF Show
  <2> HIDE DEF pushed, s
  <2> QED
    BY <2>1
<1> HIDE DEF pushed, shown
<1> QED
  BY <1>4, <1>6, <1>7

LEMMA DispatchKeeps ==
  ASSUME NEW t, Kept(t, t), t.failing \in Failing, Lists \subseteq Seq(Nat \X Nat), NEW p, Sent(p)
  PROVE  Dispatch(t, p) # {} /\ \A u \in Dispatch(t, p) : Kept(u, t)
<1> DEFINE name == HandleOf(p.pid)
           R == PacketPush(t.stream.handle[name], p, name)
<1>1. name = NULL \/ name \in {"pat", "cat", "sdt", "rst", "eit", "tdt"}
  BY DEF HandleOf
<1>2. CASE name = NULL
  <2>1. Dispatch(t, p) = {PushToPmts(t, p)}
    BY <1>2 DEF Dispatch
  <2>2. Kept(PushToPmts(t, p), t)
    BY PushesKeep
  <2> QED
    BY <2>1, <2>2
<1>3. CASE name # NULL
  <2>1. Dispatch(t, p) = {Show(t, name, r) : r \in R}
    BY <1>3 DEF Dispatch
  <2> HIDE DEF name
  <2>2. R # {}
    <3> DEFINE handle == t.stream.handle
    <3>1. HandlesOK(handle) /\ name \in DOMAIN handle
      BY <1>1, <1>3 DEF Kept, StreamKept, HandlesOK
    <3> HIDE DEF handle
    <3>2. PacketPush(handle[name], p, name) # {}
      BY <3>1, HandlePushed
    <3> QED
      BY <3>2 DEF handle
  <2>3. \A r \in R : Kept(Show(t, name, r), t)
    BY <1>1, <1>3, ShowKeeps
  <2> HIDE DEF R
  <2> QED
    BY <2>1, <2>2, <2>3
<1> QED
  BY <1>2, <1>3
----------------------------------------------------------------------------
(* One turn of the loop over a buffer.                                     *)

Bytes == [packet : AirPackets \cup {NULL}, at : 0..PacketSize, sync : BOOLEAN]

\* The bytes of a packet are in one place, and no other packet of its PID is in the buffer.
Framed(b) ==
  \A a, i \in 1..Len(b) :
    /\ a + PacketSize <= Len(b) + 1 /\ PacketAt(b, a) # NULL
    /\ i < a \/ i >= a + PacketSize
    /\ b[i].packet # NULL
    => b[i].packet.pid # PacketAt(b, a).pid

StreamOK(s) ==
  /\ StreamKept(s, s) /\ s.packets \in Nat /\ s.lost_bytes \in Nat
  /\ s.pid \in [Pids -> [seen : BOOLEAN, cc : 0..CCs-1]]

\* The packets read of a buffer, each with the verdict that the counter of its PID before the
\* buffer calls for.
Readings(t) == {t.read[i] : i \in DOMAIN t.read}

Judged(r, now, before) ==
  LET p == r.packet IN
  /\ p \in AirPackets
  /\ now[p.pid] = [seen |-> TRUE, cc |-> p.cc]
  /\ r.fresh <=> ~before[p.pid].seen
  /\ r.warned <=> IsGap(before[p.pid], p) /\ p.pid # Null /\ ~Announced(p)

ReadSoFar(t, b, before) ==
  /\ IsSeq(t.read)
  /\ \A r \in Readings(t) :
       Judged(r, t.stream.pid, before) /\ \E i \in 1..t.at-1 : b[i].packet = r.packet
  /\ \A pid \in Pids : (\A r \in Readings(t) : r.packet.pid # pid) => t.stream.pid[pid] = before[pid]

\* A packet with which the buffer begins is read.
FirstRead(t, b) ==
  PacketSize <= Len(b) /\ b[1].sync = TRUE /\ PacketAt(b, 1) # NULL /\ t.at > 1
    => \E r \in Readings(t) : r.packet = PacketAt(b, 1)

LoopTyped(t, b) ==
  /\ DOMAIN t = LoopFields /\ StreamOK(t.stream) /\ t.failing \in Failing
  /\ t.at \in Nat /\ 1 <= t.at /\ t.at <= Len(b) + 1

Counts(t, base) == PacketSize * t.stream.packets + t.stream.lost_bytes = base + (t.at - 1)

LoopOK(t, b, before, base) ==
  LoopTyped(t, b) /\ Counts(t, base) /\ ReadSoFar(t, b, before) /\ FirstRead(t, b)

LEMMA SyncFound ==
  ASSUME NEW b \in Seq(Bytes), NEW at \in 1..Len(b)
  PROVE  LET lost == check_sync_word(b, at) IN
         /\ lost \in Nat /\ at + lost <= Len(b) + 1
         /\ at + lost <= Len(b) => at + lost + PacketSize <= Len(b) + 1
         /\ b[at].sync = TRUE /\ at + PacketSize <= Len(b) + 1 => lost = 0
<1> DEFINE syncs == {i \in at..Len(b) : b[i].sync}
           first == CHOOSE i \in syncs : \A j \in syncs : i <= j
           lost == check_sync_word(b, at)
<1>1. Len(b) \in Nat /\ PacketSize \in Nat \ {0}
  BY AnalysisAssumption
<1>2. lost = IF syncs = {} \/ Len(b) - first + 1 < PacketSize THEN Len(b) - at + 1 ELSE first - at
  BY DEF check_sync_word
<1>3. ASSUME syncs # {} PROVE first \in syncs /\ \A j \in syncs : first <= j
  <2>1. syncs \subseteq Nat
    BY <1>1
  <2> HIDE DEF syncs
  <2> QED
    BY <1>3, <2>1, LeastNumber
<1>4. syncs # {} => first \in at..Len(b) /\ (b[at].sync = TRUE => first = at)
  <2> SUFFICES ASSUME syncs # {} PROVE first \in at..Len(b) /\ (b[at].sync = TRUE => first = at)
    OBVIOUS
  <2>1. first \in syncs /\ \A j \in syncs : first <= j
    BY <1>3
  <2> HIDE DEF first
  <2>2. first \in at..Len(b)
    BY <2>1
  <2>3. ASSUME b[at].sync = TRUE PROVE first = at
    <3>1. at \in syncs
      BY <1>1, <2>3
    <3> QED
      BY <1>1, <2>1, <2>2, <3>1
  <2> QED
    BY <2>2, <2>3
<1>5. b[at].sync = TRUE => syncs # {}
  BY <1>1
<1> HIDE DEF syncs, first, lost
<1> QED
  BY <1>1, <1>2, <1>4, <1>5 DEF lost

LEMMA Product ==
  ASSUME NEW m \in Nat, NEW n \in Nat
  PROVE  m * n \in Nat /\ m * (n + 1) = m * n + m
OBVIOUS

LEMMA AirParts ==
  ASSUME NEW p \in AirPackets
  PROVE  p.pid \in Pids /\ p.cc \in 0..CCs-1 /\ Sent(p) /\ p # NULL
<1>5. p # NULL
  BY AnalysisAssumption
<1>1. CASE p \in PacketsOf({0}, Pats)
  <2>1. p.pid \in {0} /\ p.cc \in 0..CCs-1 /\ p.section \in Pats
    BY <1>1 DEF PacketsOf
  <2> QED
    BY <1>5, <2>1 DEF Sent, Tables, Pids
<1>2. CASE p \in PacketsOf(PmtPids, Pmts)
  <2>1. p.pid \in PmtPids /\ p.cc \in 0..CCs-1 /\ p.section \in Pmts
    BY <1>2 DEF PacketsOf
  <2> QED
    BY <1>5, <2>1 DEF Sent, Tables, Pids
<1>3. CASE p \in PacketsOf({2, 17, 20}, OtherTables)
  <2>1. p.pid \in {2, 17, 20} /\ p.cc \in 0..CCs-1 /\ p.section \in OtherTables
    BY <1>3 DEF PacketsOf
  <2> QED
    BY <1>5, <2>1 DEF Sent, Tables, Pids
<1>4. CASE p \in PacketsOf(Clocks \cup {Null}, {NULL})
  <2>1. p.pid \in (Clocks \cup {Null}) /\ p.cc \in 0..CCs-1 /\ p.section \in {NULL}
    BY <1>4 DEF PacketsOf
  <2> QED
    BY <1>5, <2>1 DEF Sent, Tables, Pids
<1> QED
  BY <1>1, <1>2, <1>3, <1>4, <1>5 DEF AirPackets

LEMMA AirAt ==
  ASSUME NEW b \in Seq(Bytes), NEW a \in 1..Len(b)
  PROVE  PacketAt(b, a) \in AirPackets \cup {NULL} /\ (PacketAt(b, a) # NULL => PacketAt(b, a) = b[a].packet)
<1>1. b[a] \in Bytes
  OBVIOUS
<1>2. b[a].packet \in AirPackets \cup {NULL}
  BY <1>1 DEF Bytes
<1> QED
  BY <1>2 DEF PacketAt

\* What CheckContinuity() does, with a PID that was not read in this buffer yet.
Unread(u, p, before) ==
  /\ DOMAIN u = LoopFields /\ StreamOK(u.stream) /\ u.failing \in Failing /\ IsSeq(u.read)
  /\ \A r \in Readings(u) : Judged(r, u.stream.pid, before) /\ r.packet.pid # p.pid
  /\ \A pid \in Pids : (\A r \in Readings(u) : r.packet.pid # pid) => u.stream.pid[pid] = before[pid]

ReadNow(v, u, p, before) ==
  /\ DOMAIN v = LoopFields /\ StreamOK(v.stream) /\ v.failing = u.failing /\ v.at = u.at
  /\ v.stream.packets = u.stream.packets /\ v.stream.lost_bytes = u.stream.lost_bytes
  /\ IsSeq(v.read)
  /\ \A r \in Readings(v) : Judged(r, v.stream.pid, before) /\ (r \in Readings(u) \/ r.packet = p)
  /\ \A pid \in Pids : (\A r \in Readings(v) : r.packet.pid # pid) => v.stream.pid[pid] = before[pid]
  /\ Readings(u) \subseteq Readings(v) /\ \E r \in Readings(v) : r.packet = p

LEMMA Checked ==
  ASSUME NEW u, NEW p \in AirPackets, NEW before, Unread(u, p, before)
  PROVE  ReadNow(CheckContinuity(u, p), u, p, before)
<1> DEFINE known == u.stream.pid[p.pid]
           warned == IsGap(known, p) /\ p.pid # Null /\ ~Announced(p)
           x == [packet |-> p, fresh |-> ~known.seen, warned |-> warned]
           pid1 == [u.stream.pid EXCEPT ![p.pid] = [seen |-> TRUE, cc |-> p.cc]]
           read1 == Append(u.read, x)
           s == [u.stream EXCEPT !.pid = pid1]
           v == CheckContinuity(u, p)
<1>0. /\ DOMAIN u = LoopFields /\ StreamOK(u.stream) /\ u.failing \in Failing /\ IsSeq(u.read)
      /\ \A r \in Readings(u) : Judged(r, u.stream.pid, before) /\ r.packet.pid # p.pid
      /\ \A pid \in Pids : (\A r \in Readings(u) : r.packet.pid # pid) => u.stream.pid[pid] = before[pid]
  BY DEF Unread
<1>1. p.pid \in Pids /\ p.cc \in 0..CCs-1
  BY AirParts
<1>2. known = before[p.pid]
  BY <1>0, <1>1
<1>3. v = [[[u EXCEPT !.stream = s] EXCEPT !.read = read1] EXCEPT !.known = Hear(u.known, p)]
  BY <1>0 DEF CheckContinuity, LoopFields
<1>4. x.packet = p /\ (x.fresh <=> ~known.seen) /\ (x.warned <=> warned)
  OBVIOUS
<1>5. pid1 \in [Pids -> [seen : BOOLEAN, cc : 0..CCs-1]]
      /\ pid1[p.pid] = [seen |-> TRUE, cc |-> p.cc] /\ \A q \in Pids : q # p.pid => pid1[q] = u.stream.pid[q]
  BY <1>0, <1>1 DEF StreamOK
<1> HIDE DEF pid1, x
<1>6. IsSeq(read1) /\ {read1[i] : i \in DOMAIN read1} = Readings(u) \cup {x}
  <2>1. /\ IsSeq(read1) /\ Len(read1) = Len(u.read) + 1 /\ read1[Len(u.read) + 1] = x
        /\ \A i \in 1..Len(u.read) : read1[i] = u.read[i]
    BY <1>0, SeqAppend
  <2>2. Len(u.read) \in Nat /\ DOMAIN u.read = 1..Len(u.read) /\ DOMAIN read1 = 1..(Len(u.read) + 1)
    BY <1>0, <2>1, SeqParts
  <2> DEFINE n == Len(u.read)
  <2> HIDE DEF read1, n
  <2>3. \A i \in 1..n+1 : i \in 1..n \/ i = n + 1
    BY <2>2 DEF n
  <2>4. 1..n \subseteq 1..n+1 /\ n + 1 \in 1..n+1
    BY <2>2 DEF n
  <2> QED
    BY <2>1, <2>2, <2>3, <2>4 DEF Readings, n
<1> HIDE DEF read1
<1>7. /\ DOMAIN s = StreamFields /\ s.pid = pid1 /\ s.handle = u.stream.handle /\ s.pmt = u.stream.pmt
      /\ s.packets = u.stream.packets /\ s.lost_bytes = u.stream.lost_bytes
  BY <1>0 DEF StreamOK, StreamKept, StreamFields
<1> HIDE DEF s
<1>8. /\ DOMAIN v = LoopFields /\ v.stream = s /\ v.read = read1 /\ v.failing = u.failing /\ v.at = u.at
  BY <1>0, <1>3 DEF LoopFields
<1> HIDE DEF v
<1>9. StreamOK(s)
  BY <1>0, <1>5, <1>7 DEF StreamOK, StreamKept
<1>10. Readings(v) = Readings(u) \cup {x}
  BY <1>6, <1>8 DEF Readings
<1>11. Judged(x, pid1, before)
  BY <1>2, <1>4, <1>5 DEF Judged
<1>12. ASSUME NEW r \in Readings(u) PROVE Judged(r, pid1, before)
  <2>1. Judged(r, u.stream.pid, before) /\ r.packet.pid # p.pid
    BY <1>0
  <2>2. r.packet.pid \in Pids
    BY <2>1, AirParts DEF Judged
  <2>3. pid1[r.packet.pid] = u.stream.pid[r.packet.pid]
    BY <1>5, <2>1, <2>2
  <2> QED
    BY <2>1, <2>3 DEF Judged
<1>13. ASSUME NEW pid \in Pids, \A r \in Readings(v) : r.packet.pid # pid
       PROVE  pid1[pid] = before[pid]
  <2>1. pid # p.pid
    BY <1>4, <1>10, <1>13
  <2>2. \A r \in Readings(u) : r.packet.pid # pid
    BY <1>10, <1>13
  <2> QED
    BY <1>0, <1>5, <2>1, <2>2
<1>14. /\ IsSeq(v.read) /\ v.stream = s /\ v.stream.pid = pid1
       /\ \A r \in Readings(v) : Judged(r, pid1, before) /\ (r \in Readings(u) \/ r.packet = p)
       /\ Readings(u) \subseteq Readings(v) /\ \E r \in Readings(v) : r.packet = p
  BY <1>4, <1>6, <1>7, <1>8, <1>10, <1>11, <1>12
<1>15. ReadNow(v, u, p, before)
  BY <1>7, <1>8, <1>9, <1>13, <1>14 DEF ReadNow
<1> QED
  BY <1>15 DEF v

\* A turn of the loop keeps its invariant and moves on in the buffer.
LEMMA TurnKeeps ==
  ASSUME NEW b \in Seq(Bytes), Framed(b), NEW before, NEW base \in Nat, NEW t, LoopOK(t, b, before, base)
  PROVE  /\ LoopOK(Turn(t, b), b, before, base)
         /\ IF t.at <= Len(b) THEN Turn(t, b).at > t.at ELSE Turn(t, b).at = t.at
<1> DEFINE lost == check_sync_word(b, t.at)
           stream1 == [t.stream EXCEPT !.lost_bytes = @ + lost]
           synced == [t EXCEPT !.at = @ + lost, !.stream.lost_bytes = @ + lost]
           stream2 == [stream1 EXCEPT !.packets = @ + 1]
           counted == [synced EXCEPT !.at = @ + PacketSize, !.stream.packets = @ + 1]
           p == PacketAt(b, synced.at)
           D == {CheckContinuity(u, p) : u \in Dispatch(counted, p)}
<1>1. /\ Len(b) \in Nat /\ PacketSize \in Nat \ {0}
      /\ LoopTyped(t, b) /\ Counts(t, base) /\ ReadSoFar(t, b, before) /\ FirstRead(t, b)
      /\ t.stream.packets \in Nat /\ t.stream.lost_bytes \in Nat /\ t.at \in Nat
  BY AnalysisAssumption DEF LoopOK, LoopTyped, StreamOK
<1>2. CASE ~(t.at <= Len(b))
  <2>1. Turn(t, b) = t
    BY <1>1, <1>2 DEF Turn
  <2> QED
    BY <1>1, <1>2, <2>1
<1>3. CASE t.at <= Len(b)
  <2>1. /\ lost \in Nat /\ t.at + lost <= Len(b) + 1
        /\ t.at + lost <= Len(b) => t.at + lost + PacketSize <= Len(b) + 1
        /\ b[t.at].sync = TRUE /\ t.at + PacketSize <= Len(b) + 1 => lost = 0
    <3> DEFINE at == t.at
    <3>1. at \in 1..Len(b)
      BY <1>1, <1>3 DEF LoopTyped
    <3> HIDE DEF at
    <3>2. LET l == check_sync_word(b, at) IN
          /\ l \in Nat /\ at + l <= Len(b) + 1
          /\ at + l <= Len(b) => at + l + PacketSize <= Len(b) + 1
          /\ b[at].sync = TRUE /\ at + PacketSize <= Len(b) + 1 => l = 0
      BY <3>1, SyncFound
    <3> QED
      BY <3>2 DEF at
  <2>2. Turn(t, b) = IF synced.at > Len(b) THEN synced
                     ELSE IF p = NULL THEN counted ELSE Only(D)
    BY <1>1, <1>3 DEF Turn
  <2> HIDE DEF lost
  <2>3. /\ DOMAIN stream1 = StreamFields /\ StreamOK(stream1) /\ stream1.packets = t.stream.packets
        /\ stream1.lost_bytes = t.stream.lost_bytes + lost /\ stream1.pid = t.stream.pid
    <3>1. lost \in Nat /\ StreamOK(t.stream)
      BY <1>1, <2>1 DEF LoopTyped
    <3> QED
      BY <3>1 DEF StreamOK, StreamKept, StreamFields
  <2>4. /\ DOMAIN synced = LoopFields /\ synced.stream = stream1 /\ synced.at = t.at + lost
        /\ synced.read = t.read /\ synced.failing = t.failing
    BY <1>1 DEF LoopTyped, LoopFields
  <2> HIDE DEF stream1
  <2>5. /\ StreamOK(stream2) /\ stream2.packets = t.stream.packets + 1
        /\ stream2.lost_bytes = t.stream.lost_bytes + lost /\ stream2.pid = t.stream.pid
    BY <2>3 DEF StreamOK, StreamKept, StreamFields
  <2> HIDE DEF synced
  <2>6. /\ DOMAIN counted = LoopFields /\ counted.stream = stream2 /\ counted.at = t.at + lost + PacketSize
        /\ counted.read = t.read /\ counted.failing = t.failing
    BY <1>1, <2>1, <2>4 DEF LoopFields
  <2> HIDE DEF counted, stream2
  <2>7. /\ PacketSize * (t.stream.packets + 1) = PacketSize * t.stream.packets + PacketSize
        /\ PacketSize * t.stream.packets \in Nat
    <3> DEFINE n == t.stream.packets
    <3>1. n \in Nat
      BY <1>1
    <3> HIDE DEF n
    <3>2. PacketSize * n \in Nat /\ PacketSize * (n + 1) = PacketSize * n + PacketSize
      BY <1>1, <3>1, Product
    <3> QED
      BY <3>2 DEF n
  <2>8. ASSUME NEW v, v.stream.pid = t.stream.pid, v.read = t.read, v.at \in Nat, v.at >= t.at
        PROVE  ReadSoFar(v, b, before)
    <3>1. Readings(v) = Readings(t)
      BY <2>8 DEF Readings
    <3>2. 1..t.at-1 \subseteq 1..v.at-1
      BY <1>1, <2>8
    <3> QED
      BY <1>1, <2>8, <3>1, <3>2 DEF ReadSoFar
  <2>9. ASSUME NEW v, Readings(t) \subseteq Readings(v), t.at > 1
        PROVE  FirstRead(v, b)
    BY <1>1, <2>9 DEF FirstRead
  <2>10. t.at = 1 /\ PacketSize <= Len(b) /\ b[1].sync = TRUE => lost = 0
    BY <1>1, <2>1
  <2>11. CASE synced.at > Len(b)
    <3>1. Turn(t, b) = synced
      BY <2>2, <2>11
    <3>2. LoopTyped(synced, b) /\ Counts(synced, base)
      <4>1. LoopTyped(synced, b)
        BY <1>1, <2>1, <2>3, <2>4 DEF LoopTyped
      <4> DEFINE m == PacketSize * t.stream.packets
                 l == t.stream.lost_bytes
                 at == t.at
      <4>2. m + l = base + (at - 1) /\ m \in Nat /\ l \in Nat /\ at \in Nat
        BY <1>1, <2>7 DEF Counts
      <4>3. PacketSize * synced.stream.packets = m /\ synced.stream.lost_bytes = l + lost /\ synced.at = at + lost
        BY <2>3, <2>4
      <4> HIDE DEF m, l, at
      <4>4. Counts(synced, base)
        BY <2>1, <4>2, <4>3 DEF Counts
      <4> QED
        BY <4>1, <4>4
    <3>3. ReadSoFar(synced, b, before)
      <4>1. synced.at \in Nat /\ synced.at >= t.at
        BY <1>1, <2>1, <2>4
      <4>2. synced.stream.pid = t.stream.pid /\ synced.read = t.read
        BY <2>3, <2>4
      <4> QED
        BY <2>8, <4>1, <4>2
    <3>4. FirstRead(synced, b)
      <4>1. Readings(synced) = Readings(t)
        BY <2>4 DEF Readings
      <4>2. CASE t.at > 1
        BY <2>9, <4>1, <4>2
      <4>3. CASE t.at = 1
        <5>1. ASSUME PacketSize <= Len(b), b[1].sync = TRUE PROVE FALSE
          BY <1>1, <2>4, <2>10, <2>11, <4>3, <5>1
        <5> QED
          BY <5>1 DEF FirstRead
      <4> QED
        BY <1>1, <4>2, <4>3 DEF LoopTyped
    <3>5. synced.at > t.at
      BY <1>1, <1>3, <2>1, <2>4, <2>11
    <3> QED
      BY <1>3, <3>1, <3>2, <3>3, <3>4, <3>5 DEF LoopOK
  <2>12. CASE ~(synced.at > Len(b))
    <3> DEFINE a == synced.at
    <3>1. a \in 1..Len(b) /\ a + PacketSize <= Len(b) + 1 /\ a = t.at + lost /\ counted.at = a + PacketSize
      BY <1>1, <2>1, <2>4, <2>6, <2>12 DEF LoopTyped
    <3> HIDE DEF a
    <3>2. p = PacketAt(b, a)
      BY DEF a
    <3> HIDE DEF p
    <3>3. LoopTyped(counted, b) /\ Counts(counted, base)
      <4>1. LoopTyped(counted, b)
        BY <1>1, <2>5, <2>6, <3>1 DEF LoopTyped
      <4> DEFINE m == PacketSize * t.stream.packets
                 l == t.stream.lost_bytes
                 at == t.at
      <4>2. m + l = base + (at - 1) /\ m \in Nat /\ l \in Nat /\ at \in Nat
        BY <1>1, <2>7 DEF Counts
      <4>3. /\ PacketSize * counted.stream.packets = m + PacketSize
            /\ counted.stream.lost_bytes = l + lost /\ counted.at = at + lost + PacketSize
        BY <2>5, <2>6, <2>7
      <4> HIDE DEF m, l, at
      <4>5. lost \in Nat /\ PacketSize \in Nat
        BY <1>1, <2>1
      <4>6. (m + PacketSize) + (l + lost) = base + ((at + lost + PacketSize) - 1)
        BY <4>2, <4>5
      <4>4. Counts(counted, base)
        BY <4>3, <4>6 DEF Counts
      <4> QED
        BY <4>1, <4>4
    <3>4. ReadSoFar(counted, b, before)
      <4>1. counted.at \in Nat /\ counted.at >= t.at
        BY <1>1, <2>1, <3>1
      <4>2. counted.stream.pid = t.stream.pid /\ counted.read = t.read
        BY <2>5, <2>6
      <4> QED
        BY <2>8, <4>1, <4>2
    <3>5. Readings(counted) = Readings(t)
      BY <2>6 DEF Readings
    <3>6. counted.at > t.at
      BY <1>1, <2>1, <3>1
    <3>7. t.at = 1 /\ PacketSize <= Len(b) /\ b[1].sync = TRUE => a = 1
      BY <1>1, <2>10, <3>1
    <3>8. CASE p = NULL
      <4>1. Turn(t, b) = counted
        BY <2>2, <2>12, <3>8
      <4>2. FirstRead(counted, b)
        <5>1. CASE t.at > 1
          BY <2>9, <3>5, <5>1
        <5>2. CASE t.at = 1
          BY <3>2, <3>7, <3>8, <5>2 DEF FirstRead
        <5> QED
          BY <1>1, <5>1, <5>2 DEF LoopTyped
      <4> QED
        BY <1>3, <3>3, <3>4, <3>6, <4>1, <4>2 DEF LoopOK
    <3>9. CASE p # NULL
      <4>1. p \in AirPackets /\ p = b[a].packet
        BY <3>1, <3>2, <3>9, AirAt
      <4>2. ASSUME NEW u \in Dispatch(counted, p)
            PROVE  LoopOK(CheckContinuity(u, p), b, before, base) /\ CheckContinuity(u, p).at = counted.at
        <5> DEFINE v == CheckContinuity(u, p)
        <5>1. Kept(u, counted)
          <6>1. Kept(counted, counted) /\ counted.failing \in Failing
            BY <3>3 DEF LoopTyped, StreamOK, Kept
          <6>2. Sent(p) /\ Lists \subseteq Seq(Nat \X Nat)
            BY <4>1, AirParts, AnalysisAssumption
          <6> QED
            BY <6>1, <6>2, DispatchKeeps
        <5>2. /\ DOMAIN u = LoopFields /\ StreamOK(u.stream) /\ u.failing \in Failing /\ IsSeq(u.read)
              /\ u.at = counted.at /\ Readings(u) = Readings(t) /\ u.stream.pid = counted.stream.pid
              /\ u.stream.packets = counted.stream.packets /\ u.stream.lost_bytes = counted.stream.lost_bytes
          <6>1. StreamOK(u.stream)
            BY <3>3, <5>1 DEF LoopTyped, StreamOK, Kept, StreamKept
          <6>2. Readings(u) = Readings(t)
            BY <3>5, <5>1 DEF Kept, Readings
          <6> QED
            BY <3>3, <3>4, <5>1, <6>1, <6>2 DEF LoopTyped, Kept, StreamKept, ReadSoFar
        <5>3. ASSUME NEW r \in Readings(u) PROVE Judged(r, u.stream.pid, before) /\ r.packet.pid # p.pid
          <6>1. Judged(r, u.stream.pid, before)
            BY <3>4, <3>5, <5>2 DEF ReadSoFar
          <6>2. PICK i \in 1..t.at-1 : b[i].packet = r.packet
            BY <1>1, <5>2 DEF ReadSoFar
          <6>3. i \in 1..Len(b) /\ i < a
            <7> DEFINE at == t.at
                       len == Len(b)
            <7>1. at \in Nat /\ len \in Nat /\ a \in 1..len /\ at <= a /\ i \in 1..at-1
              BY <1>1, <2>1, <3>1
            <7> HIDE DEF at, len
            <7>2. i \in 1..len /\ i < a
              BY <7>1
            <7> QED
              BY <7>2 DEF len
          <6>4. r.packet # NULL
            BY <6>1, AirParts DEF Judged
          <6>5. r.packet.pid # p.pid
            BY <3>1, <3>2, <3>9, <6>2, <6>3, <6>4 DEF Framed
          <6> QED
            BY <6>1, <6>5
        <5>4. \A pid \in Pids : (\A r \in Readings(u) : r.packet.pid # pid) => u.stream.pid[pid] = before[pid]
          BY <3>4, <3>5, <5>2 DEF ReadSoFar
        <5>10. Unread(u, p, before)
          BY <5>2, <5>3, <5>4 DEF Unread
        <5>11. ReadNow(v, u, p, before)
          BY <4>1, <5>10, Checked
        <5> HIDE DEF v
        <5>5. /\ DOMAIN v = LoopFields /\ StreamOK(v.stream) /\ v.failing = u.failing /\ v.at = u.at
              /\ v.stream.packets = u.stream.packets /\ v.stream.lost_bytes = u.stream.lost_bytes
              /\ IsSeq(v.read)
              /\ \A r \in Readings(v) : Judged(r, v.stream.pid, before) /\ (r \in Readings(u) \/ r.packet = p)
              /\ \A pid \in Pids : (\A r \in Readings(v) : r.packet.pid # pid) => v.stream.pid[pid] = before[pid]
              /\ Readings(u) \subseteq Readings(v) /\ \E r \in Readings(v) : r.packet = p
          BY <5>11 DEF ReadNow
        <5>6. LoopTyped(v, b)
          BY <3>3, <5>2, <5>5 DEF LoopTyped
        <5>7. Counts(v, base)
          BY <3>3, <5>2, <5>5 DEF Counts
        <5>8. ReadSoFar(v, b, before)
          <6>1. ASSUME NEW r \in Readings(v) PROVE \E i \in 1..v.at-1 : b[i].packet = r.packet
            <7>1. CASE r \in Readings(u)
              <8>1. PICK i \in 1..counted.at-1 : b[i].packet = r.packet
                BY <3>4, <3>5, <5>2, <7>1 DEF ReadSoFar
              <8> QED
                BY <5>2, <5>5, <8>1
            <7>2. CASE r.packet = p
              <8>1. a \in 1..v.at-1
                BY <1>1, <3>1, <5>2, <5>5
              <8> QED
                BY <4>1, <7>2, <8>1
            <7> QED
              BY <5>5, <7>1, <7>2
          <6> QED
            BY <5>5, <6>1 DEF ReadSoFar
        <5>9. FirstRead(v, b)
          <6>1. CASE t.at > 1
            BY <2>9, <5>2, <5>5, <6>1
          <6>2. CASE t.at = 1
            BY <3>2, <3>7, <5>5, <6>2 DEF FirstRead
          <6> QED
            BY <1>1, <6>1, <6>2 DEF LoopTyped
        <5> QED
          BY <5>2, <5>5, <5>6, <5>7, <5>8, <5>9 DEF LoopOK, v
      <4>3. Only(D) \in D
        <5>1. Dispatch(counted, p) # {}
          <6>1. Kept(counted, counted) /\ counted.failing \in Failing
            BY <3>3 DEF LoopTyped, StreamOK, Kept
          <6>2. Sent(p) /\ Lists \subseteq Seq(Nat \X Nat)
            BY <4>1, AirParts, AnalysisAssumption
          <6> QED
            BY <6>1, <6>2, DispatchKeeps
        <5>2. D # {}
          BY <5>1
        <5> HIDE DEF D
        <5> QED
          BY <5>2, OnlyOne
      <4>4. Turn(t, b) = Only(D)
        BY <2>2, <2>12, <3>9
      <4> QED
        BY <1>3, <3>6, <4>2, <4>3, <4>4
    <3> QED
      BY <3>8, <3>9
  <2> QED
    BY <2>11, <2>12
<1> QED
  BY <1>2, <1>3
\* The whole loop: one turn for each byte is enough.
TurnsOf(g, start, b) == g = [n \in 0..Len(b) |-> IF n = 0 THEN start ELSE Turn(g[n-1], b)]

LEMMA TurnsExist ==
  ASSUME NEW start, NEW b, Len(b) \in Nat
  PROVE  \E g : TurnsOf(g, start, b)
<1> DEFINE K == Len(b)
           body(g, n) == IF n = 0 THEN start ELSE Turn(g[n-1], b)
           Upto(g, m) == g = [n \in 0..m |-> body(g, n)]
           T == {m \in 0..K : \E g : Upto(g, m)}
<1>1. 0 \in T
  <2> DEFINE h == [n \in 0..0 |-> start]
  <2>1. Upto(h, 0)
    OBVIOUS
  <2> HIDE DEF h, Upto
  <2> QED
    BY <2>1
<1>2. ASSUME NEW m \in 1..K, m - 1 \in T PROVE m \in T
  <2>1. PICK g : Upto(g, m - 1)
    BY <1>2
  <2> DEFINE h == [n \in 0..m |-> body(g, n)]
  <2>2. \A n \in 0..m-1 : g[n] = body(g, n)
    BY <2>1
  <2>3. \A n \in 0..m : h[n] = body(g, n)
    OBVIOUS
  <2>4. ASSUME NEW n \in 0..m PROVE body(h, n) = body(g, n)
    <3>1. CASE n = 0
      BY <3>1
    <3>2. CASE n # 0
      <4>1. n - 1 \in 0..m-1 /\ n - 1 \in 0..m
        BY <3>2
      <4>2. h[n-1] = g[n-1]
        BY <2>2, <2>3, <4>1
      <4> QED
        BY <3>2, <4>2
    <3> QED
      BY <3>1, <3>2
  <2>5. Upto(h, m)
    <3> DEFINE B == [n \in 0..m |-> body(h, n)]
    <3>1. \A n \in 0..m : B[n] = h[n]
      BY <2>3, <2>4
    <3> QED
      BY <3>1
  <2> HIDE DEF h, Upto
  <2> QED
    BY <2>5
<1> HIDE DEF T
<1>3. 0..K \subseteq T
  BY <1>1, <1>2, IntervalInduction
<1>4. K \in T
  BY <1>3
<1> QED
  BY <1>4 DEF T, TurnsOf

LoopStart(failing) ==
  [stream |-> stream, at |-> 1, read |-> <<>>, failing |-> failing, aborted |-> FALSE,
   known |-> [announced |-> announced, heard |-> heard, misfiled |-> misfiled]]

\* The states that the loop goes through, each of them with its invariant.
Runs(f, b, failing, base) ==
  /\ f[0] = LoopStart(failing) /\ \A n \in 1..Len(b) : f[n] = Turn(f[n-1], b)
  /\ f[Len(b)] = Process(b, failing)
  /\ \A n \in 0..Len(b) :
       LoopOK(f[n], b, stream.pid, base) /\ (f[n].at >= n + 1 \/ f[n].at = Len(b) + 1)

LEMMA ProcessRuns ==
  ASSUME NEW b \in Seq(Bytes), Framed(b), StreamOK(stream), NEW base \in Nat,
         PacketSize * stream.packets + stream.lost_bytes = base, NEW failing \in Failing
  PROVE  \E f : Runs(f, b, failing, base)
<1> DEFINE K == Len(b)
           before == stream.pid
           start == LoopStart(failing)
           after == CHOOSE g : g = [n \in 0..Len(b) |-> IF n = 0 THEN start ELSE Turn(g[n-1], b)]
<1>1. K \in Nat
  OBVIOUS
<1>2. Process(b, failing) = after[K]
  BY DEF Process, LoopStart
<1>3. LoopOK(start, b, before, base) /\ start.at = 1
  <2>1. /\ DOMAIN start = LoopFields /\ start.stream = stream /\ start.at = 1 /\ start.read = <<>>
        /\ start.failing = failing
    BY DEF LoopFields, LoopStart
  <2> HIDE DEF start
  <2>2. IsSeq(<<>>) /\ Readings(start) = {}
    <3>1. <<>> \in Seq({})
      OBVIOUS
    <3>2. DOMAIN <<>> = {}
      OBVIOUS
    <3> QED
      BY <2>1, <3>1, <3>2 DEF IsSeq, Readings
  <2>3. LoopTyped(start, b)
    BY <1>1, <2>1 DEF LoopTyped
  <2>4. Counts(start, base)
    BY <2>1 DEF Counts
  <2>5. ReadSoFar(start, b, before)
    BY <2>1, <2>2 DEF ReadSoFar
  <2>6. FirstRead(start, b)
    BY <2>1 DEF FirstRead
  <2> QED
    BY <2>1, <2>3, <2>4, <2>5, <2>6 DEF LoopOK
<1>4. TurnsOf(after, start, b)
  <2> HIDE DEF start
  <2>1. \E g : TurnsOf(g, start, b)
    BY <1>1, TurnsExist
  <2>2. after = [n \in 0..Len(b) |-> IF n = 0 THEN start ELSE Turn(after[n-1], b)]
    BY <2>1 DEF TurnsOf
  <2> HIDE DEF after
  <2> QED
    BY <2>2 DEF TurnsOf
<1>5. after[0] = start /\ \A n \in 1..K : after[n] = Turn(after[n-1], b)
  <2> HIDE DEF after, start
  <2>1. \A n \in 0..K : after[n] = IF n = 0 THEN start ELSE Turn(after[n-1], b)
    BY <1>4 DEF TurnsOf
  <2> QED
    BY <1>1, <2>1
<1> HIDE DEF after, start, before, K
<1> DEFINE T == {n \in 0..K : LoopOK(after[n], b, before, base) /\ (after[n].at >= n + 1 \/ after[n].at = K + 1)}
<1>6. 0 \in T
  BY <1>1, <1>3, <1>5
<1>7. ASSUME NEW n \in 1..K, n - 1 \in T PROVE n \in T
  <2> DEFINE t == after[n-1]
             u == after[n]
  <2>1. LoopOK(t, b, before, base) /\ (t.at >= n \/ t.at = K + 1)
    BY <1>1, <1>7
  <2>2. u = Turn(t, b)
    BY <1>5
  <2> HIDE DEF t, u
  <2>3. /\ LoopOK(Turn(t, b), b, before, base)
        /\ IF t.at <= Len(b) THEN Turn(t, b).at > t.at ELSE Turn(t, b).at = t.at
    BY <2>1, TurnKeeps
  <2>4. t.at \in Nat /\ u.at \in Nat /\ t.at <= K + 1 /\ u.at <= K + 1
    BY <2>1, <2>2, <2>3 DEF LoopOK, LoopTyped, K
  <2>5. u.at >= n + 1 \/ u.at = K + 1
    BY <1>1, <2>1, <2>2, <2>3, <2>4 DEF K
  <2> QED
    BY <2>2, <2>3, <2>5 DEF u
<1> HIDE DEF T
<1>8. 0..K \subseteq T
  BY <1>1, <1>6, <1>7, IntervalInduction
<1>9. Runs(after, b, failing, base)
  <2>1. \A n \in 0..K : LoopOK(after[n], b, before, base) /\ (after[n].at >= n + 1 \/ after[n].at = K + 1)
    BY <1>8 DEF T
  <2> QED
    BY <1>2, <1>5, <2>1 DEF Runs, before, K, start
<1> QED
  BY <1>9

LEMMA ProcessKeeps ==
  ASSUME NEW b \in Seq(Bytes), Framed(b), StreamOK(stream), NEW base \in Nat,
         PacketSize * stream.packets + stream.lost_bytes = base, NEW failing \in Failing
  PROVE  LET t == Process(b, failing) IN
         LoopOK(t, b, stream.pid, base) /\ t.at = Len(b) + 1
<1>1. PICK f : Runs(f, b, failing, base)
  BY ProcessRuns
<1> DEFINE K == Len(b)
           t == Process(b, failing)
<1>2. K \in Nat
  OBVIOUS
<1> HIDE DEF K, t
<1>3. LoopOK(t, b, stream.pid, base) /\ (t.at >= K + 1 \/ t.at = K + 1)
  BY <1>1, <1>2 DEF Runs, K, t
<1>4. t.at = K + 1
  BY <1>2, <1>3 DEF LoopOK, LoopTyped, K
<1> QED
  BY <1>3, <1>4 DEF K, t
----------------------------------------------------------------------------
(* Counting modulo a number.                                               *)

\* A remainder is what is left over, and every number has one.
LEMMA Quotient ==
  ASSUME NEW C \in Nat \ {0}, NEW q \in Nat, NEW r \in 0..C-1
  PROVE  (C * q + r) % C = r
OBVIOUS

LEMMA Small ==
  ASSUME NEW C \in Nat \ {0}, NEW r \in 0..C-1
  PROVE  r % C = r
OBVIOUS

LEMMA Division ==
  ASSUME NEW C \in Nat \ {0}, NEW x \in Nat
  PROVE  \E q \in Nat, r \in 0..C-1 : x = C * q + r /\ x % C = r
<1> DEFINE T == {y \in Nat : \E q \in Nat, r \in 0..C-1 : y = C * q + r}
<1>1. 0 \in T
  <2>1. 0 = C * 0 + 0 /\ 0 \in 0..C-1
    OBVIOUS
  <2> QED
    BY <2>1
<1>2. ASSUME NEW y \in Nat, y \in T PROVE y + 1 \in T
  <2>1. PICK q \in Nat, r \in 0..C-1 : y = C * q + r
    BY <1>2
  <2>2. CASE r + 1 \in 0..C-1
    <3>1. y + 1 = C * q + (r + 1)
      BY <2>1
    <3> QED
      BY <2>2, <3>1
  <2>3. CASE r = C - 1
    <3>1. C * (q + 1) = C * q + C /\ C * q \in Nat
      OBVIOUS
    <3> DEFINE m == C * q
    <3>2. y = m + r /\ C * (q + 1) = m + C /\ m \in Nat
      BY <2>1, <3>1
    <3> HIDE DEF m
    <3> DEFINE k == q + 1
    <3>3. y + 1 = C * k + 0 /\ 0 \in 0..C-1 /\ k \in Nat
      BY <2>3, <3>2
    <3> HIDE DEF k
    <3>4. \E i \in Nat, j \in 0..C-1 : y + 1 = C * i + j
      BY <3>3
    <3> QED
      BY <3>4
  <2>4. r + 1 \in 0..C-1 \/ r = C - 1
    OBVIOUS
  <2> QED
    BY <2>2, <2>3, <2>4
<1> HIDE DEF T
<1>3. Nat \subseteq T
  BY <1>1, <1>2, SetInduction
<1>4. PICK q \in Nat, r \in 0..C-1 : x = C * q + r
  BY <1>3 DEF T
<1>5. x % C = r
  BY <1>4, Quotient
<1> QED
  BY <1>4, <1>5

\* The remainder may be taken before something is added, or behind.
LEMMA Remainders ==
  ASSUME NEW C \in Nat \ {0}, NEW x \in Nat, NEW n \in Nat
  PROVE  ((x % C) + n) % C = (x + n) % C /\ x % C \in 0..C-1
<1>1. PICK q \in Nat, r \in 0..C-1 : x = C * q + r /\ x % C = r
  BY Division
<1>2. PICK k \in Nat, s \in 0..C-1 : r + n = C * k + s /\ (r + n) % C = s
  <2>1. r + n \in Nat
    OBVIOUS
  <2> DEFINE y == r + n
  <2> HIDE DEF y
  <2>2. \E k \in Nat, s \in 0..C-1 : y = C * k + s /\ y % C = s
    BY <2>1, Division DEF y
  <2> QED
    BY <2>2 DEF y
<1>3. x + n = C * (q + k) + s /\ q + k \in Nat
  <2>1. C * (q + k) = C * q + C * k /\ C * q \in Nat /\ C * k \in Nat
    OBVIOUS
  <2> DEFINE a == C * q
             b == C * k
  <2>2. C * (q + k) = a + b /\ a \in Nat /\ b \in Nat /\ x = a + r /\ r + n = b + s
    BY <2>1, <1>1, <1>2
  <2> HIDE DEF a, b
  <2> QED
    BY <2>2
<1>4. (C * (q + k) + s) % C = s
  BY <1>3, Quotient
<1> QED
  BY <1>1, <1>2, <1>3, <1>4

\* Two numbers behind the same one are the same, and so many steps lead back only if they
\* are rounds.
LEMMA NextApart ==
  ASSUME NEW C \in Nat \ {0}, NEW a \in 0..C-1, NEW b \in 0..C-1, (a + 1) % C = (b + 1) % C
  PROVE  a = b
<1>1. \A x \in 0..C-1 : (x + 1) % C = IF x + 1 = C THEN 0 ELSE x + 1
  <2> TAKE x \in 0..C-1
  <2>1. CASE x + 1 = C
    <3>1. C = C * 1 + 0 /\ 0 \in 0..C-1
      OBVIOUS
    <3>2. (C * 1 + 0) % C = 0
      BY <3>1, Quotient
    <3> QED
      BY <2>1, <3>1, <3>2
  <2>2. CASE x + 1 # C
    <3>1. x + 1 = C * 0 + (x + 1) /\ x + 1 \in 0..C-1
      BY <2>2
    <3>2. (C * 0 + (x + 1)) % C = x + 1
      BY <3>1, Quotient
    <3> QED
      BY <2>2, <3>1, <3>2
  <2> QED
    BY <2>1, <2>2
<1> QED
  BY <1>1

LEMMA Rounds ==
  ASSUME NEW C \in Nat \ {0}, NEW a \in 0..C-1, NEW m \in Nat, (a + m) % C = a
  PROVE  m % C = 0
<1>1. PICK q \in Nat, r \in 0..C-1 : m = C * q + r /\ m % C = r
  BY Division
<1>2. CASE a + r \in 0..C-1
  <2>1. a + m = C * q + (a + r)
    BY <1>1
  <2>2. (C * q + (a + r)) % C = a + r
    BY <1>2, Quotient
  <2> QED
    BY <1>1, <2>1, <2>2
<1>3. CASE a + r >= C
  <2>1. C * (q + 1) = C * q + C /\ C * q \in Nat
    OBVIOUS
  <2> DEFINE b == C * q
  <2>2. a + m = C * (q + 1) + (a + r - C) /\ a + r - C \in 0..C-1 /\ q + 1 \in Nat
    <3>1. m = b + r /\ C * (q + 1) = b + C /\ b \in Nat
      BY <1>1, <2>1
    <3> HIDE DEF b
    <3> QED
      BY <1>3, <3>1
  <2>3. (C * (q + 1) + (a + r - C)) % C = a + r - C
    BY <2>2, Quotient
  <2>4. a = a + r - C
    BY <2>2, <2>3
  <2> QED
    BY <2>4
<1> QED
  BY <1>2, <1>3

----------------------------------------------------------------------------
(* The buffers that are read.                                              *)

Arrived(b) == {b[i].packet : i \in DOMAIN b} \ {NULL}
BeginsWith(b, p) == PacketSize <= Len(b) /\ b[1].sync = TRUE /\ PacketAt(b, 1) = p

LEMMA PacketBytes ==
  ASSUME NEW p \in AirPackets
  PROVE  /\ BytesOf(p) \in Seq(Bytes) /\ Len(BytesOf(p)) = PacketSize
         /\ \A k \in 1..PacketSize : BytesOf(p)[k].packet = p /\ BytesOf(p)[k].at = k
         /\ BytesOf(p)[1].sync = TRUE
<1>1. PacketSize \in Nat \ {0}
  BY AnalysisAssumption
<1>2. \A k \in 1..PacketSize : BytesOf(p)[k] = [packet |-> p, at |-> k, sync |-> k = 1]
  BY DEF BytesOf
<1>3. BytesOf(p) \in [1..PacketSize -> Bytes]
  <2>1. ASSUME NEW k \in 1..PacketSize PROVE [packet |-> p, at |-> k, sync |-> k = 1] \in Bytes
    BY <1>1 DEF Bytes
  <2> QED
    BY <2>1 DEF BytesOf
<1>4. BytesOf(p)[1].sync = TRUE
  <2>1. BytesOf(p)[1] = [packet |-> p, at |-> 1, sync |-> 1 = 1]
    BY <1>1, <1>2
  <2>2. BytesOf(p)[1].sync = (1 = 1)
    BY <2>1
  <2> QED
    BY <2>2
<1>5. ASSUME NEW k \in 1..PacketSize PROVE BytesOf(p)[k].packet = p /\ BytesOf(p)[k].at = k
  <2> DEFINE first == (k = 1)
  <2>1. BytesOf(p)[k] = [packet |-> p, at |-> k, sync |-> first]
    BY <1>2
  <2> HIDE DEF first
  <2> QED
    BY <2>1
<1> QED
  BY <1>1, <1>3, <1>4, <1>5

LEMMA Joined ==
  ASSUME NEW S, NEW s \in Seq(S), NEW t \in Seq(S)
  PROVE  /\ s \o t \in Seq(S) /\ Len(s \o t) = Len(s) + Len(t)
         /\ \A i \in 1..Len(s) : (s \o t)[i] = s[i]
         /\ \A i \in 1..Len(t) : (s \o t)[Len(s) + i] = t[i]
<1> DEFINE u == s \o t
           m == Len(s)
           n == Len(t)
<1>1. /\ u \in Seq(S) /\ Len(u) = m + n /\ m \in Nat /\ n \in Nat
      /\ \A i \in 1..m+n : u[i] = IF i <= m THEN s[i] ELSE t[i-m]
  BY ConcatProperties
<1> HIDE DEF u, m, n
<1>2. ASSUME NEW i \in 1..m PROVE u[i] = s[i]
  BY <1>1
<1>3. ASSUME NEW i \in 1..n PROVE u[m+i] = t[i]
  <2>1. m + i \in 1..m+n /\ ~ (m + i <= m) /\ (m + i) - m = i
    BY <1>1
  <2> QED
    BY <1>1, <2>1
<1> QED
  BY <1>1, <1>2, <1>3 DEF u, m, n

LEMMA OnePacket ==
  ASSUME NEW p \in AirPackets
  PROVE  LET b == BytesOf(p) IN
         b \in Seq(Bytes) /\ Framed(b) /\ Arrived(b) = {p} /\ BeginsWith(b, p)
<1> DEFINE b == BytesOf(p)
<1>1. PacketSize \in Nat \ {0} /\ p # NULL
  BY AnalysisAssumption, AirParts
<1>2. b \in Seq(Bytes) /\ Len(b) = PacketSize
  BY PacketBytes
<1>3. (\A k \in 1..PacketSize : b[k].packet = p /\ b[k].at = k) /\ b[1].sync = TRUE
  BY PacketBytes
<1> HIDE DEF b
<1>4. Framed(b)
  BY <1>1, <1>2 DEF Framed
<1>5. Arrived(b) = {p}
  <2>1. 1 \in 1..PacketSize
    BY <1>1
  <2>2. DOMAIN b = 1..PacketSize
    BY <1>1, <1>2
  <2> QED
    BY <1>1, <1>3, <2>1, <2>2 DEF Arrived
<1>6. PacketAt(b, 1) = p
  <2>1. \A k \in 1..PacketSize : 1 + k - 1 = k
    OBVIOUS
  <2>2. 1 \in 1..PacketSize
    BY <1>1
  <2> QED
    BY <1>3, <2>1, <2>2 DEF PacketAt
<1> QED
  BY <1>1, <1>2, <1>3, <1>4, <1>5, <1>6 DEF b, BeginsWith

LEMMA TwoPackets ==
  ASSUME NEW p \in AirPackets, NEW q \in AirPackets, p.pid # q.pid, NEW junk \in Junk
  PROVE  LET b == BytesOf(p) \o junk \o BytesOf(q) IN
         b \in Seq(Bytes) /\ Framed(b) /\ Arrived(b) = {p, q} /\ BeginsWith(b, p)
<1> DEFINE N == PacketSize
           b == BytesOf(p) \o junk \o BytesOf(q)
<1>1. N \in Nat \ {0} /\ p # NULL /\ q # NULL
  BY AnalysisAssumption, AirParts
<1>2. PICK n \in 1..N, false \in 0..N :
        junk = [k \in 1..n |-> [packet |-> NULL, at |-> 0, sync |-> k = false]]
  BY DEF Junk
<1>3. junk \in Seq(Bytes) /\ Len(junk) = n /\ \A k \in 1..n : junk[k].packet = NULL /\ junk[k].at = 0
  <2>1. \A k \in 1..n : junk[k] = [packet |-> NULL, at |-> 0, sync |-> k = false]
    BY <1>2
  <2>2. junk \in [1..n -> Bytes]
    <3>1. ASSUME NEW k \in 1..n PROVE [packet |-> NULL, at |-> 0, sync |-> k = false] \in Bytes
      BY <1>1 DEF Bytes
    <3> QED
      BY <1>2, <3>1
  <2> QED
    BY <1>1, <2>1, <2>2
<1> DEFINE bp == BytesOf(p)
           bq == BytesOf(q)
           c == bp \o junk
<1>4. /\ bp \in Seq(Bytes) /\ Len(bp) = N
      /\ (\A k \in 1..N : bp[k].packet = p /\ bp[k].at = k) /\ bp[1].sync = TRUE
      /\ bq \in Seq(Bytes) /\ Len(bq) = N
      /\ \A k \in 1..N : bq[k].packet = q /\ bq[k].at = k
  BY PacketBytes
<1>5. b = c \o bq
  OBVIOUS
<1> HIDE DEF bp, bq, b
<1>6. /\ c \in Seq(Bytes) /\ Len(c) = N + n
      /\ \A i \in 1..N : c[i] = bp[i]
      /\ \A i \in 1..n : c[N + i] = junk[i]
  <2>2. bp \in Seq(Bytes) /\ junk \in Seq(Bytes)
    BY <1>3, <1>4
  <2>1. /\ c \in Seq(Bytes) /\ Len(c) = Len(bp) + Len(junk)
        /\ \A i \in 1..Len(bp) : c[i] = bp[i]
        /\ \A i \in 1..Len(junk) : c[Len(bp) + i] = junk[i]
    BY <2>2, Joined
  <2> QED
    BY <1>1, <1>3, <1>4, <2>1
<1> HIDE DEF c
<1>7. /\ b \in Seq(Bytes) /\ Len(b) = N + n + N
      /\ \A i \in 1..N+n : b[i] = c[i]
      /\ \A i \in 1..N : b[N + n + i] = bq[i]
  <2>2. c \in Seq(Bytes) /\ bq \in Seq(Bytes)
    BY <1>4, <1>6
  <2>3. /\ c \o bq \in Seq(Bytes) /\ Len(c \o bq) = Len(c) + Len(bq)
        /\ \A i \in 1..Len(c) : (c \o bq)[i] = c[i]
        /\ \A i \in 1..Len(bq) : (c \o bq)[Len(c) + i] = bq[i]
    BY <2>2, Joined
  <2>1. /\ b \in Seq(Bytes) /\ Len(b) = Len(c) + Len(bq)
        /\ \A i \in 1..Len(c) : b[i] = c[i]
        /\ \A i \in 1..Len(bq) : b[Len(c) + i] = bq[i]
    BY <1>5, <2>3
  <2> QED
    BY <1>1, <1>4, <1>6, <2>1
<1>8. ASSUME NEW i \in 1..N+n+N
      PROVE  \/ i \in 1..N /\ b[i].packet = p /\ b[i].at = i
             \/ i \in N+1..N+n /\ b[i].packet = NULL /\ b[i].at = 0
             \/ i \in N+n+1..N+n+N /\ b[i].packet = q /\ b[i].at = i - (N + n)
  <2>1. CASE i \in 1..N
    <3>1. i \in 1..N+n
      BY <1>1, <2>1
    <3>2. b[i] = c[i] /\ c[i] = bp[i]
      BY <1>6, <1>7, <2>1, <3>1
    <3> QED
      BY <1>4, <2>1, <3>2
  <2>2. CASE i \in N+1..N+n
    <3>1. i - N \in 1..n /\ N + (i - N) = i /\ i \in 1..N+n
      BY <1>1, <2>2
    <3>2. b[i] = c[i] /\ c[N + (i - N)] = junk[i - N]
      BY <1>6, <1>7, <3>1
    <3> QED
      BY <1>3, <2>2, <3>1, <3>2
  <2>3. CASE i \in N+n+1..N+n+N
    <3> DEFINE k == i - (N + n)
    <3>1. k \in 1..N /\ N + n + k = i
      BY <1>1, <2>3
    <3> HIDE DEF k
    <3>2. b[i] = bq[k]
      BY <1>7, <3>1
    <3> QED
      BY <1>4, <2>3, <3>1, <3>2 DEF k
  <2> QED
    BY <1>1, <2>1, <2>2, <2>3
<1>9. /\ b[1].sync = TRUE
      /\ \A k \in 1..N : b[k].packet = p /\ b[k].at = k
      /\ b[N + n + N].packet = q
  <2>1. 1 \in 1..N /\ N \in 1..N /\ \A k \in 1..N : k \in 1..N+n
    BY <1>1
  <2>2. \A k \in 1..N : b[k] = bp[k]
    BY <1>6, <1>7, <2>1
  <2>3. b[N + n + N] = bq[N]
    BY <1>7, <2>1
  <2>4. (\A k \in 1..N : bp[k].packet = p /\ bp[k].at = k) /\ bp[1].sync = TRUE /\ bq[N].packet = q
    BY <1>4, <2>1
  <2> QED
    BY <2>1, <2>2, <2>3, <2>4
<1>10. Framed(b)
  <2> SUFFICES ASSUME NEW a \in 1..Len(b), NEW i \in 1..Len(b),
                      a + N <= Len(b) + 1, PacketAt(b, a) # NULL, i < a \/ i >= a + N, b[i].packet # NULL
               PROVE  b[i].packet.pid # PacketAt(b, a).pid
    BY DEF Framed
  <2>1. PacketAt(b, a) = b[a].packet /\ \A k \in 1..N : b[a+k-1].at = k
    BY DEF PacketAt
  <2>2. b[a].at = 1
    <3>1. 1 \in 1..N /\ a + 1 - 1 = a
      BY <1>1
    <3>2. b[a+1-1].at = 1
      BY <2>1, <3>1
    <3> QED
      BY <3>1, <3>2
  <2>3. a \in 1..N+n+N /\ i \in 1..N+n+N
    BY <1>7
  <2>4. (a = 1 /\ b[a].packet = p) \/ (a = N + n + 1 /\ b[a].packet = q)
    BY <1>1, <1>8, <2>2, <2>3
  <2>5. (i <= N /\ b[i].packet = p) \/ (i > N + n /\ b[i].packet = q)
    BY <1>1, <1>8, <2>3
  <2>7. (b[a].packet = p /\ b[i].packet = q) \/ (b[a].packet = q /\ b[i].packet = p)
    <3> HIDE DEF N
    <3> QED
      BY <1>1, <2>3, <2>4, <2>5
  <2> QED
    BY <2>1, <2>7
<1>11. Arrived(b) = {p, q}
  <2>1. DOMAIN b = 1..N+n+N /\ 1 \in 1..N /\ 1 \in 1..N+n+N /\ N + n + N \in 1..N+n+N
    BY <1>1, <1>7
  <2>2. \A i \in DOMAIN b : b[i].packet \in {p, NULL, q}
    BY <1>8, <2>1
  <2> QED
    BY <1>1, <1>9, <2>1, <2>2 DEF Arrived
<1>12. PacketAt(b, 1) = p /\ N <= Len(b)
  <2>1. \A k \in 1..N : 1 + k - 1 = k
    OBVIOUS
  <2>2. 1 \in 1..N
    BY <1>1
  <2> QED
    BY <1>1, <1>7, <1>9, <2>1, <2>2 DEF PacketAt
<1> QED
  BY <1>7, <1>9, <1>10, <1>11, <1>12 DEF b, BeginsWith
----------------------------------------------------------------------------
(* What is on the air is typed.                                            *)

AirTyped ==
  /\ pat \in [version : Versions, list : Lists]
  /\ pmt \in [Programs -> [version : Versions, clock : Clocks]]
  /\ cc \in [Pids -> 0..CCs-1]

LEMMA SectionTyped ==
  ASSUME NEW ids, NEW id \in ids, NEW exts, NEW ext \in exts, NEW version \in Versions, NEW long,
         NEW S, NEW c \in S, TRUE \in long, id \in {112, 3} => FALSE \in long /\ 0 \in exts
  PROVE  Section(id, ext, version, c) \in SectionsOf(ids, exts, long, S)
<1> DEFINE l == id \notin {112, 3}
           s == [id |-> id, ext |-> ext, version |-> version, cn |-> TRUE, num |-> 0, last |-> 0,
                 syntax |-> l, gen |-> c]
           u == [s EXCEPT !.ext = 0, !.version = 0, !.cn = TRUE, !.num = 0, !.last = 0]
<1>3. Section(id, ext, version, c) = IF s.syntax THEN s ELSE u
  BY DEF Section, Parsed
<1>4. l \in long /\ (~l => 0 \in exts)
  <2>1. l = TRUE \/ (l = FALSE /\ id \in {112, 3})
    OBVIOUS
  <2> HIDE DEF l
  <2> QED
    BY <2>1
<1>5. s.syntax <=> l
  OBVIOUS
<1>6. 0 \in Versions
  BY DEF Versions
<1> HIDE DEF l
<1>1. s \in SectionsOf(ids, exts, long, S)
  BY <1>4 DEF SectionsOf
<1> HIDE DEF s
<1>2. ASSUME 0 \in exts PROVE u \in SectionsOf(ids, exts, long, S)
  BY <1>1, <1>2, <1>6 DEF SectionsOf
<1> HIDE DEF u
<1> QED
  BY <1>1, <1>2, <1>3, <1>4, <1>5

OnAir(p, pid, pids, sections) ==
  p \in PacketsOf(pids, sections) /\ p.pid = pid /\ p.cc = (cc[pid] + 1) % CCs

LEMMA PacketTyped ==
  ASSUME AirTyped, NEW pids, NEW pid \in pids, pid \in Pids, NEW sections, NEW s \in sections,
         NEW signalled \in BOOLEAN, NEW clock \in BOOLEAN
  PROVE  OnAir(Packet(pid, s, signalled, clock), pid, pids, sections)
<1> DEFINE c == (cc[pid] + 1) % CCs
<1>1. c \in 0..CCs-1
  <2> DEFINE x == cc[pid] + 1
  <2>1. x \in Nat /\ CCs \in Nat \ {0}
    BY AnalysisAssumption DEF AirTyped
  <2> HIDE DEF x
  <2>2. x % CCs \in 0..CCs-1
    BY <2>1
  <2> QED
    BY <2>2 DEF x
<1>2. Packet(pid, s, signalled, clock) =
        [pid |-> pid, cc |-> c, section |-> s, signalled |-> signalled, clock |-> clock]
  BY DEF Packet
<1> HIDE DEF c
<1>3. Packet(pid, s, signalled, clock) \in PacketsOf(pids, sections)
  BY <1>1, <1>2 DEF PacketsOf
<1> QED
  BY <1>2, <1>3 DEF c, OnAir

NextOf(p) == p \in AirPackets /\ p.cc = (cc[p.pid] + 1) % CCs

\* What is sent, one packet after the other.
LEMMA PacketKinds ==
  ASSUME NEW p \in Packets
  PROVE  \/ p = Packet(0, Section(0, 1, pat.version, pat.list), FALSE, FALSE)
         \/ \E i \in DOMAIN pat.list :
              p = Packet(pat.list[i][2],
                         Section(2, pat.list[i][1], pmt[pat.list[i][1]].version, pmt[pat.list[i][1]].clock),
                         FALSE, FALSE)
         \/ p = Packet(20, Section(112, 0, 0, "time"), FALSE, FALSE)
         \/ p = Packet(2, Section(3, 0, 0, "tsdt"), FALSE, FALSE)
         \/ p = Packet(17, Section(66, 1, 0, "sdt"), FALSE, FALSE)
         \/ p = Packet(17, Section(70, 2, 0, "other"), FALSE, FALSE)
         \/ \E pid \in Clocks, signalled \in BOOLEAN, clock \in BOOLEAN : p = Packet(pid, NULL, signalled, clock)
         \/ p = Packet(Null, NULL, FALSE, FALSE)
<1> DEFINE A == {Packet(0, Section(0, 1, pat.version, pat.list), FALSE, FALSE)}
           of(program) == Packet(program[2],
                                 Section(2, program[1], pmt[program[1]].version, pmt[program[1]].clock),
                                 FALSE, FALSE)
           B == {of(program) : program \in {pat.list[i] : i \in DOMAIN pat.list}}
           C == {Packet(20, Section(112, 0, 0, "time"), FALSE, FALSE),
                 Packet(2, Section(3, 0, 0, "tsdt"), FALSE, FALSE),
                 Packet(17, Section(66, 1, 0, "sdt"), FALSE, FALSE),
                 Packet(17, Section(70, 2, 0, "other"), FALSE, FALSE)}
           D == {Packet(pid, NULL, signalled, clock) :
                   pid \in Clocks, signalled \in BOOLEAN, clock \in BOOLEAN}
           E == {Packet(Null, NULL, FALSE, FALSE)}
<1>1. Packets = {x \in A \cup B \cup C \cup D \cup E : x.pid \in traffic}
  BY DEF Packets
<1> HIDE DEF A, B, C, D, E
<1>2. p \in A \/ p \in B \/ p \in C \/ p \in D \/ p \in E
  BY <1>1
<1>3. ASSUME p \in B PROVE \E i \in DOMAIN pat.list : p = of(pat.list[i])
  <2> HIDE DEF of
  <2> QED
    BY <1>3 DEF B
<1>4. ASSUME p \in D
      PROVE  \E pid \in Clocks, signalled \in BOOLEAN, clock \in BOOLEAN :
               p = Packet(pid, NULL, signalled, clock)
  BY <1>4 DEF D
<1> QED
  BY <1>2, <1>3, <1>4 DEF A, C, E

LEMMA PacketsTyped ==
  ASSUME AirTyped, NEW p \in Packets
  PROVE  NextOf(p)
<1>1. {0, 2, 17, 20, Null} \cup PmtPids \cup Clocks \subseteq Pids
  BY DEF Pids
<1>2. CASE p = Packet(0, Section(0, 1, pat.version, pat.list), FALSE, FALSE)
  <2>1. Section(0, 1, pat.version, pat.list) \in Pats
    <3>1. pat.version \in Versions /\ pat.list \in Lists
      BY DEF AirTyped
    <3>2. ~ (0 \in {112, 3}) /\ 0 \in {0} /\ 1 \in {1} /\ TRUE \in {TRUE}
      OBVIOUS
    <3> DEFINE id == 0
               version == pat.version
               list == pat.list
    <3> HIDE DEF id, version, list
    <3>3. Section(id, 1, version, list) \in SectionsOf({0}, {1}, {TRUE}, Lists)
      BY <3>1, <3>2, SectionTyped DEF id, version, list
    <3> QED
      BY <3>3 DEF Pats, id, version, list
  <2>2. OnAir(p, 0, {0}, Pats)
    BY <1>1, <1>2, <2>1, PacketTyped
  <2> QED
    BY <2>2 DEF OnAir, NextOf, AirPackets
<1>3. ASSUME NEW i \in DOMAIN pat.list,
             p = Packet(pat.list[i][2],
                        Section(2, pat.list[i][1], pmt[pat.list[i][1]].version, pmt[pat.list[i][1]].clock),
                        FALSE, FALSE)
      PROVE  NextOf(p)
  <2> DEFINE n == pat.list[i][1]
             pid == pat.list[i][2]
             version == pmt[n].version
             clock == pmt[n].clock
  <2>1. pat.list \in Lists /\ pat.list \in Seq(Nat \X Nat)
    BY AnalysisAssumption DEF AirTyped
  <2>2. pat.list[i] \in Nat \X Nat
    BY <2>1
  <2>3. n \in Nat /\ n \in Programs /\ pid \in PmtPids
    BY <2>1, <2>2 DEF Programs, PmtPids
  <2>4. version \in Versions /\ clock \in Clocks
    BY <2>3 DEF AirTyped
  <2>5. p = Packet(pid, Section(2, n, version, clock), FALSE, FALSE)
    BY <1>3
  <2> HIDE DEF n, pid, version, clock
  <2>6. Section(2, n, version, clock) \in Pmts
    <3> DEFINE id == 2
    <3>1. ~ (id \in {112, 3}) /\ id \in {2} /\ TRUE \in {TRUE}
      OBVIOUS
    <3> HIDE DEF id
    <3>2. Section(id, n, version, clock) \in SectionsOf({2}, Programs, {TRUE}, Clocks)
      BY <2>3, <2>4, <3>1, SectionTyped
    <3> QED
      BY <3>2 DEF Pmts, id
  <2>7. OnAir(p, pid, PmtPids, Pmts)
    BY <1>1, <2>3, <2>5, <2>6, PacketTyped
  <2> QED
    BY <2>7 DEF OnAir, NextOf, AirPackets
<1> DEFINE pids == {2, 17, 20}
<1>8. pids \subseteq Pids
  BY <1>1
<1> HIDE DEF pids
<1>4. ASSUME NEW pid \in pids, NEW id \in {3, 66, 70, 112}, NEW ext \in 0..2,
             NEW c \in {"time", "tsdt", "sdt", "other"}, p = Packet(pid, Section(id, ext, 0, c), FALSE, FALSE)
      PROVE  NextOf(p)
  <2> DEFINE ids == {3, 66, 70, 112}
             contents == {"time", "tsdt", "sdt", "other"}
             section == Section(id, ext, 0, c)
  <2>1. /\ id \in ids /\ c \in contents /\ 0 \in Versions /\ TRUE \in BOOLEAN /\ FALSE \in BOOLEAN
        /\ 0 \in 0..2
    BY DEF Versions
  <2>2. ids = {3, 66, 70, 112} /\ contents = {"time", "tsdt", "sdt", "other"}
    OBVIOUS
  <2> HIDE DEF ids, contents
  <2> DEFINE exts == 0..2
             zero == 0
  <2>7. zero \in Versions /\ ext \in exts /\ zero \in exts
    BY <2>1
  <2> HIDE DEF exts, zero
  <2>8. Section(id, ext, zero, c) \in SectionsOf(ids, exts, BOOLEAN, contents)
    BY <2>1, <2>7, SectionTyped DEF zero
  <2>3. section \in SectionsOf(ids, 0..2, BOOLEAN, contents)
    BY <2>8 DEF exts, zero
  <2>4. section \in OtherTables
    BY <2>2, <2>3 DEF OtherTables
  <2>5. p = Packet(pid, section, FALSE, FALSE) /\ pid \in Pids
    BY <1>4, <1>8
  <2> HIDE DEF section
  <2>6. OnAir(p, pid, pids, OtherTables)
    BY <2>4, <2>5, PacketTyped
  <2> QED
    BY <2>6 DEF OnAir, NextOf, AirPackets, pids
<1>5. ASSUME NEW pid \in Clocks \cup {Null}, NEW signalled \in BOOLEAN, NEW clock \in BOOLEAN,
             p = Packet(pid, NULL, signalled, clock)
      PROVE  NextOf(p)
  <2> DEFINE these == Clocks \cup {Null}
  <2>2. pid \in these /\ pid \in Pids /\ NULL \in {NULL}
    BY <1>1
  <2> HIDE DEF these
  <2>1. OnAir(p, pid, these, {NULL})
    BY <1>5, <2>2, PacketTyped
  <2> QED
    BY <2>1 DEF OnAir, NextOf, AirPackets, these
<1>6. \/ p = Packet(0, Section(0, 1, pat.version, pat.list), FALSE, FALSE)
      \/ \E i \in DOMAIN pat.list :
           p = Packet(pat.list[i][2],
                      Section(2, pat.list[i][1], pmt[pat.list[i][1]].version, pmt[pat.list[i][1]].clock),
                      FALSE, FALSE)
      \/ p = Packet(20, Section(112, 0, 0, "time"), FALSE, FALSE)
      \/ p = Packet(2, Section(3, 0, 0, "tsdt"), FALSE, FALSE)
      \/ p = Packet(17, Section(66, 1, 0, "sdt"), FALSE, FALSE)
      \/ p = Packet(17, Section(70, 2, 0, "other"), FALSE, FALSE)
      \/ \E pid \in Clocks, signalled \in BOOLEAN, clock \in BOOLEAN : p = Packet(pid, NULL, signalled, clock)
      \/ p = Packet(Null, NULL, FALSE, FALSE)
  BY PacketKinds
<1>7. CASE \/ p = Packet(20, Section(112, 0, 0, "time"), FALSE, FALSE)
           \/ p = Packet(2, Section(3, 0, 0, "tsdt"), FALSE, FALSE)
           \/ p = Packet(17, Section(66, 1, 0, "sdt"), FALSE, FALSE)
           \/ p = Packet(17, Section(70, 2, 0, "other"), FALSE, FALSE)
  <2>0. /\ 20 \in pids /\ 2 \in pids /\ 17 \in pids /\ 0 \in 0..2 /\ 1 \in 0..2 /\ 2 \in 0..2
        /\ \A id \in {112, 3, 66, 70} : id \in {3, 66, 70, 112}
        /\ \A c \in {"time", "tsdt", "sdt", "other"} : c \in {"time", "tsdt", "sdt", "other"}
    BY DEF pids
  <2>1. CASE p = Packet(20, Section(112, 0, 0, "time"), FALSE, FALSE)
    BY <1>4, <2>0, <2>1, ZenonT(40)
  <2>2. CASE p = Packet(2, Section(3, 0, 0, "tsdt"), FALSE, FALSE)
    BY <1>4, <2>0, <2>2, ZenonT(40)
  <2>3. CASE p = Packet(17, Section(66, 1, 0, "sdt"), FALSE, FALSE)
    BY <1>4, <2>0, <2>3, ZenonT(40)
  <2>4. CASE p = Packet(17, Section(70, 2, 0, "other"), FALSE, FALSE)
    BY <1>4, <2>0, <2>4, ZenonT(40)
  <2> QED
    BY <1>7, <2>1, <2>2, <2>3, <2>4
<1> QED
  BY <1>2, <1>3, <1>5, <1>6, <1>7
----------------------------------------------------------------------------
(* What a buffer does to the counts.                                       *)

\* The stream knows the counter of the last packet of a PID that was read.
Followed(s, counters, misses) ==
  \A pid \in Pids : s.pid[pid].seen => counters[pid] = (s.pid[pid].cc + misses[pid]) % CCs

Tallied(s, n) == PacketSize * s.packets + s.lost_bytes = n

BufferRead(t, A, n) ==
  /\ StreamOK(t.stream) /\ Tallied(t.stream, bytes + n)
  /\ \A r \in Readings(t) : Judged(r, t.stream.pid, stream.pid) /\ r.packet \in A
  /\ \A pid \in Pids : (\A r \in Readings(t) : r.packet.pid # pid) => t.stream.pid[pid] = stream.pid[pid]

LEMMA ProcessCounts ==
  ASSUME StreamOK(stream), bytes \in Nat, Tallied(stream, bytes), NEW b \in Seq(Bytes), Framed(b),
         NEW failing \in Failing, NEW p \in AirPackets, BeginsWith(b, p)
  PROVE  LET t == Process(b, failing) IN
         BufferRead(t, Arrived(b), Len(b)) /\ \E r \in Readings(t) : r.packet = p
<1> DEFINE t == Process(b, failing)
<1>1. LoopOK(t, b, stream.pid, bytes) /\ t.at = Len(b) + 1
  BY ProcessKeeps DEF Tallied
<1>2. Len(b) \in Nat /\ DOMAIN b = 1..Len(b) /\ PacketSize \in Nat \ {0}
  BY AnalysisAssumption
<1> HIDE DEF t
<1>3. StreamOK(t.stream) /\ Counts(t, bytes) /\ ReadSoFar(t, b, stream.pid) /\ FirstRead(t, b)
  BY <1>1 DEF LoopOK, LoopTyped
<1>4. Tallied(t.stream, bytes + Len(b))
  <2>1. bytes + (t.at - 1) = bytes + Len(b)
    BY <1>1, <1>2
  <2> QED
    BY <1>3, <2>1 DEF Counts, Tallied
<1>5. ASSUME NEW r \in Readings(t)
      PROVE  Judged(r, t.stream.pid, stream.pid) /\ r.packet \in Arrived(b)
  <2>1. Judged(r, t.stream.pid, stream.pid) /\ \E i \in 1..t.at-1 : b[i].packet = r.packet
    BY <1>3 DEF ReadSoFar
  <2>2. r.packet # NULL
    BY <2>1, AirParts DEF Judged
  <2>3. PICK i \in 1..Len(b) : b[i].packet = r.packet
    BY <1>1, <1>2, <2>1
  <2> QED
    BY <1>2, <2>1, <2>2, <2>3 DEF Arrived
<1>6. \E r \in Readings(t) : r.packet = p
  <2>1. PacketAt(b, 1) = p /\ PacketSize <= Len(b) /\ b[1].sync = TRUE /\ p # NULL
    BY AirParts DEF BeginsWith
  <2>2. t.at > 1
    BY <1>1, <1>2, <2>1
  <2> QED
    BY <1>3, <2>1, <2>2 DEF FirstRead
<1>7. \A pid \in Pids : (\A r \in Readings(t) : r.packet.pid # pid) => t.stream.pid[pid] = stream.pid[pid]
  BY <1>3 DEF ReadSoFar
<1> QED
  BY <1>3, <1>4, <1>5, <1>6, <1>7 DEF BufferRead, t

\* No two packets of a buffer have the same PID.
Apart(A) == A \subseteq AirPackets /\ \A p, q \in A : p.pid = q.pid => p = q

LEMMA Misses ==
  ASSUME NEW t, NEW b, Note(t, b), Apart(Arrived(b)), missed \in [Pids -> Nat]
  PROVE  /\ missed' \in [Pids -> Nat] /\ bytes' = bytes + Len(b)
         /\ \A pid \in Pids :
              /\ (\E r \in Readings(t) : r.packet.pid = pid) => missed'[pid] = 0
              /\ (\A r \in Readings(t) : r.packet.pid # pid) /\ (\A p \in Arrived(b) : p.pid # pid)
                   => missed'[pid] = missed[pid]
              /\ (\A r \in Readings(t) : r.packet.pid # pid) /\ (\E p \in Arrived(b) : p.pid = pid)
                   => missed'[pid] = missed[pid] + 1
<1> DEFINE read == Readings(t)
           A == Arrived(b)
           unread == {p \in A : \A r \in read : r.packet # p}
           of(pid) == {q \in unread : q.pid = pid}
<1>1. /\ bytes' = bytes + Len(b)
      /\ missed' = [pid \in Pids |-> IF \E r \in read : r.packet.pid = pid THEN 0
                                     ELSE missed[pid] + Cardinality(of(pid))]
  BY Zenon DEF Note, Readings, Arrived
<1> HIDE DEF read, A
<1>2. \A p, q \in A : p.pid = q.pid => p = q
  BY DEF Apart, A
<1>3. ASSUME NEW pid \in Pids, \A p \in A : p.pid # pid PROVE Cardinality(of(pid)) = 0
  <2>1. of(pid) = {}
    BY <1>3
  <2> QED
    BY <2>1, FS_EmptySet
<1>4. ASSUME NEW pid \in Pids, \A r \in read : r.packet.pid # pid, NEW p \in A, p.pid = pid
      PROVE  Cardinality(of(pid)) = 1
  <2>1. of(pid) = {p}
    <3>1. \A r \in read : r.packet # p
      BY <1>4
    <3> QED
      BY <1>2, <1>4, <3>1
  <2> QED
    BY <2>1, FS_Singleton
<1> HIDE DEF of
<1>5. ASSUME NEW pid \in Pids
      PROVE  /\ missed'[pid] \in Nat
             /\ (\E r \in read : r.packet.pid = pid) => missed'[pid] = 0
             /\ (\A r \in read : r.packet.pid # pid) /\ (\A p \in A : p.pid # pid)
                  => missed'[pid] = missed[pid]
             /\ (\A r \in read : r.packet.pid # pid) /\ (\E p \in A : p.pid = pid)
                  => missed'[pid] = missed[pid] + 1
  <2>1. missed'[pid] = IF \E r \in read : r.packet.pid = pid THEN 0
                       ELSE missed[pid] + Cardinality(of(pid))
    BY <1>1
  <2>2. missed[pid] \in Nat
    OBVIOUS
  <2>3. CASE \E r \in read : r.packet.pid = pid
    BY <2>1, <2>3
  <2>4. CASE (\A r \in read : r.packet.pid # pid) /\ (\A p \in A : p.pid # pid)
    <3>1. Cardinality(of(pid)) = 0
      BY <1>3, <2>4
    <3>2. missed'[pid] = missed[pid]
      BY <2>1, <2>2, <2>4, <3>1
    <3> QED
      BY <2>2, <2>4, <3>2
  <2>5. CASE (\A r \in read : r.packet.pid # pid) /\ (\E p \in A : p.pid = pid)
    <3>1. Cardinality(of(pid)) = 1
      BY <1>4, <2>5
    <3>2. missed'[pid] = missed[pid] + 1
      BY <2>1, <2>5, <3>1
    <3> QED
      BY <2>2, <2>5, <3>2
  <2> QED
    BY <2>3, <2>4, <2>5
<1>6. missed' \in [Pids -> Nat]
  BY <1>1, <1>5
<1>7. \A pid \in Pids :
        /\ (\E r \in read : r.packet.pid = pid) => missed'[pid] = 0
        /\ (\A r \in read : r.packet.pid # pid) /\ (\A p \in A : p.pid # pid)
             => missed'[pid] = missed[pid]
        /\ (\A r \in read : r.packet.pid # pid) /\ (\E p \in A : p.pid = pid)
             => missed'[pid] = missed[pid] + 1
  BY <1>5
<1>8. bytes' = bytes + Len(b)
  BY <1>1
<1> QED
  BY <1>6, <1>7, <1>8 DEF read, A

\* No report about a packet that follows the one sent before it is wrong, unless its bytes are
\* those of the packet before.
LEMMA Verdict ==
  ASSUME missed \in [Pids -> Nat], cc \in [Pids -> 0..CCs-1], StreamOK(stream),
         Followed(stream, cc, missed), NEW r, NEW now, Judged(r, now, stream.pid),
         r.packet.cc = (cc[r.packet.pid] + 1) % CCs
  PROVE  /\ ~(r.warned /\ missed[r.packet.pid] = 0)
         /\ ~(/\ ~r.warned /\ ~r.fresh /\ missed[r.packet.pid] % CCs # 0
              /\ r.packet.pid # Null /\ ~Announced(r.packet))
<1> DEFINE pid == r.packet.pid
           k == stream.pid[pid].cc
           m == missed[pid]
           c == r.packet.cc
<1>1. CCs \in Nat \ {0} /\ pid \in Pids /\ k \in 0..CCs-1 /\ m \in Nat
  <2>1. CCs \in Nat \ {0}
    BY AnalysisAssumption
  <2>2. pid \in Pids
    BY AirParts DEF Judged
  <2>3. stream.pid \in [Pids -> [seen : BOOLEAN, cc : 0..CCs-1]]
    BY DEF StreamOK
  <2> QED
    BY <2>1, <2>2, <2>3
<1>2. c = (cc[pid] + 1) % CCs /\ (stream.pid[pid].seen => cc[pid] = (k + m) % CCs)
  BY <1>1 DEF Followed
<1>3. (r.fresh <=> ~stream.pid[pid].seen)
      /\ (r.warned <=> (stream.pid[pid].seen /\ c # (k + 1) % CCs) /\ pid # Null /\ ~Announced(r.packet))
  BY DEF Judged, IsGap
<1> HIDE DEF pid, k, m, c
<1>4. ASSUME stream.pid[pid].seen PROVE c = ((k + m) + 1) % CCs
  <2>1. k + m \in Nat /\ 1 \in Nat
    BY <1>1
  <2> DEFINE x == k + m
  <2> HIDE DEF x
  <2>2. ((x % CCs) + 1) % CCs = (x + 1) % CCs
    BY <1>1, <2>1, Remainders DEF x
  <2> QED
    BY <1>2, <1>4, <2>2 DEF x
<1>5. ASSUME stream.pid[pid].seen, m = 0 PROVE c = (k + 1) % CCs
  <2>1. (k + m) + 1 = k + 1
    BY <1>1, <1>5
  <2> QED
    BY <1>4, <1>5, <2>1
<1>6. ASSUME stream.pid[pid].seen, c = (k + 1) % CCs PROVE m % CCs = 0
  <2> DEFINE y == k + 1
             a == y % CCs
  <2>1. y \in Nat /\ (k + m) + 1 = y + m
    BY <1>1
  <2> HIDE DEF y
  <2>2. (a + m) % CCs = (y + m) % CCs /\ a \in 0..CCs-1
    BY <1>1, <2>1, Remainders
  <2>3. (y + m) % CCs = a
    BY <1>4, <1>6, <2>1 DEF y
  <2> HIDE DEF a
  <2> QED
    BY <1>1, <2>2, <2>3, Rounds
<1> QED
  BY <1>3, <1>5, <1>6 DEF pid, m

\* What the counters of the air are behind the packets of a buffer.
CountedIn(A, now) ==
  /\ now \in [Pids -> 0..CCs-1]
  /\ \A p \in A : now[p.pid] = p.cc
  /\ \A pid \in Pids : (\A p \in A : p.pid # pid) => now[pid] = cc[pid]

Taken ==
  /\ missed' \in [Pids -> Nat] /\ bytes' \in Nat /\ wrong' = {} /\ step' \in {"running", "aborted"}
  /\ StreamOK(stream') /\ Tallied(stream', bytes') /\ Followed(stream', cc', missed')

Running ==
  /\ missed \in [Pids -> Nat] /\ cc \in [Pids -> 0..CCs-1] /\ bytes \in Nat /\ wrong = {}
  /\ step = "running" /\ StreamOK(stream) /\ Tallied(stream, bytes) /\ Followed(stream, cc, missed)

LEMMA FreshIsTaken ==
  ASSUME Running, NEW b \in Seq(Bytes), Framed(b), NEW p \in AirPackets, BeginsWith(b, p),
         p \in Arrived(b), Apart(Arrived(b)), \A q \in Arrived(b) : NextOf(q), NEW failing \in Failing,
         Take(b, failing, FALSE), CountedIn(Arrived(b), cc')
  PROVE  Taken /\ missed'[p.pid] = 0
<1> DEFINE t == Process(b, failing)
           A == Arrived(b)
<1>1. /\ stream' = t.stream /\ step' = (IF t.aborted THEN "aborted" ELSE step)
      /\ Note(t, b) /\ Judge(t, FALSE)
  BY DEF Take
<1>2. BufferRead(t, A, Len(b)) /\ \E r \in Readings(t) : r.packet = p
  BY ProcessCounts DEF Running
<1> HIDE DEF t, A
<1>3. /\ missed' \in [Pids -> Nat] /\ bytes' = bytes + Len(b)
      /\ \A pid \in Pids :
           /\ (\E r \in Readings(t) : r.packet.pid = pid) => missed'[pid] = 0
           /\ (\A r \in Readings(t) : r.packet.pid # pid) /\ (\A q \in A : q.pid # pid)
                => missed'[pid] = missed[pid]
           /\ (\A r \in Readings(t) : r.packet.pid # pid) /\ (\E q \in A : q.pid = pid)
                => missed'[pid] = missed[pid] + 1
  <2>1. missed \in [Pids -> Nat]
    BY DEF Running
  <2> QED
    BY <1>1, <2>1, Misses DEF A
<1>4. ASSUME NEW r \in Readings(t)
      PROVE  /\ Judged(r, stream'.pid, stream.pid) /\ r.packet \in A
             /\ ~(r.warned /\ missed[r.packet.pid] = 0)
             /\ ~(/\ ~r.warned /\ ~r.fresh /\ missed[r.packet.pid] % CCs # 0
                  /\ r.packet.pid # Null /\ ~Announced(r.packet))
  <2>1. Judged(r, stream'.pid, stream.pid) /\ r.packet \in A
    BY <1>1, <1>2 DEF BufferRead
  <2>2. r.packet.cc = (cc[r.packet.pid] + 1) % CCs
    BY <2>1 DEF NextOf, A
  <2> QED
    BY <2>1, <2>2, Verdict DEF Running
<1>5. wrong' = {}
  <2> DEFINE R == Readings(t)
             alarms == {x \in R : x.warned /\ missed[x.packet.pid] = 0 /\ ~FALSE}
             overlooked == {x \in R : /\ ~x.warned /\ ~x.fresh /\ missed[x.packet.pid] % CCs # 0
                                      /\ x.packet.pid # Null /\ ~Announced(x.packet)}
  <2>1. wrong' = wrong \cup {<<"false alarm", r.packet.pid>> : r \in alarms}
                       \cup {<<"overlooked", r.packet.pid>> : r \in overlooked}
    BY <1>1 DEF Judge, Readings
  <2>2. alarms = {} /\ overlooked = {}
    BY <1>4
  <2> HIDE DEF alarms, overlooked
  <2> QED
    BY <2>1, <2>2 DEF Running
<1>6. StreamOK(stream') /\ Tallied(stream', bytes')
  BY <1>1, <1>2, <1>3 DEF BufferRead
<1>7. Followed(stream', cc', missed')
  <2> SUFFICES ASSUME NEW pid \in Pids, stream'.pid[pid].seen
               PROVE  cc'[pid] = (stream'.pid[pid].cc + missed'[pid]) % CCs
    BY DEF Followed
  <2>0. CCs \in Nat \ {0}
    BY AnalysisAssumption
  <2>1. ASSUME NEW r \in Readings(t), r.packet.pid = pid
        PROVE  cc'[pid] = (stream'.pid[pid].cc + missed'[pid]) % CCs
    <3> DEFINE c == r.packet.cc
    <3>1. Judged(r, stream'.pid, stream.pid) /\ r.packet \in A
      BY <1>4
    <3>2. stream'.pid[pid] = [seen |-> TRUE, cc |-> c] /\ r.packet \in AirPackets
      BY <2>1, <3>1 DEF Judged
    <3>3. missed'[pid] = 0 /\ cc'[pid] = c
      BY <1>3, <2>1, <3>1 DEF CountedIn, A
    <3>4. c \in 0..CCs-1
      BY <3>2, AirParts
    <3> HIDE DEF c
    <3>5. stream'.pid[pid].cc = c
      BY <3>2
    <3>6. c % CCs = c
      BY <2>0, <3>4, Small
    <3>7. c + 0 = c
      BY <2>0, <3>4
    <3> QED
      BY <3>3, <3>5, <3>6, <3>7
  <2>2. ASSUME \A r \in Readings(t) : r.packet.pid # pid
        PROVE  cc'[pid] = (stream'.pid[pid].cc + missed'[pid]) % CCs
    <3> DEFINE k == stream.pid[pid].cc
               m == missed[pid]
    <3>1. stream'.pid[pid] = stream.pid[pid]
      BY <1>1, <1>2, <2>2 DEF BufferRead
    <3>2. cc[pid] = (k + m) % CCs
      BY <3>1 DEF Running, Followed
    <3>3. k \in 0..CCs-1 /\ m \in Nat
      BY DEF Running, StreamOK
    <3>4. CASE \A q \in A : q.pid # pid
      <4>1. missed'[pid] = m /\ cc'[pid] = cc[pid]
        BY <1>3, <2>2, <3>4 DEF CountedIn, A
      <4> QED
        BY <3>1, <3>2, <4>1
    <3>5. ASSUME NEW q \in A, q.pid = pid
          PROVE  cc'[pid] = (stream'.pid[pid].cc + missed'[pid]) % CCs
      <4>1. missed'[pid] = m + 1
        BY <1>3, <2>2, <3>5
      <4>2. cc'[pid] = (cc[pid] + 1) % CCs
        BY <3>5 DEF CountedIn, NextOf, A
      <4> DEFINE x == k + m
      <4>3. x \in Nat /\ 1 \in Nat /\ k + (m + 1) = x + 1
        BY <3>3
      <4> HIDE DEF x
      <4>4. ((x % CCs) + 1) % CCs = (x + 1) % CCs
        BY <2>0, <4>3, Remainders
      <4>5. cc[pid] = x % CCs
        BY <3>2 DEF x
      <4> QED
        BY <3>1, <4>1, <4>2, <4>3, <4>4, <4>5
    <3> QED
      BY <3>4, <3>5
  <2> QED
    BY <2>1, <2>2
<1>8. missed'[p.pid] = 0
  <2>1. p.pid \in Pids
    BY AirParts
  <2> QED
    BY <1>2, <1>3, <2>1
<1>9. step' \in {"running", "aborted"}
  BY <1>1 DEF Running
<1>10. bytes' \in Nat
  BY <1>3 DEF Running
<1> QED
  BY <1>3, <1>5, <1>6, <1>7, <1>8, <1>9, <1>10 DEF Taken

\* The last packet once more is no gap, though it is reported as one.
LEMMA AgainIsTaken ==
  ASSUME Running, NEW p \in AirPackets, cc[p.pid] = p.cc, missed[p.pid] = 0,
         Take(BytesOf(p), "none", TRUE), cc' = cc
  PROVE  Taken
<1> DEFINE b == BytesOf(p)
           t == Process(b, "none")
<1>0. CCs \in Nat \ {0} /\ p.pid \in Pids /\ p.cc \in 0..CCs-1
  BY AnalysisAssumption, AirParts
<1>1. /\ stream' = t.stream /\ step' = (IF t.aborted THEN "aborted" ELSE step)
      /\ Note(t, b) /\ Judge(t, TRUE)
  BY DEF Take
<1>2. b \in Seq(Bytes) /\ Framed(b) /\ Arrived(b) = {p} /\ BeginsWith(b, p) /\ "none" \in Failing
  BY OnePacket DEF Failing
<1> HIDE DEF b
<1>3. BufferRead(t, {p}, Len(b)) /\ \E r \in Readings(t) : r.packet = p
  <2>1. BufferRead(t, Arrived(b), Len(b)) /\ \E r \in Readings(t) : r.packet = p
    <3>1. StreamOK(stream) /\ bytes \in Nat /\ Tallied(stream, bytes)
      BY DEF Running
    <3> QED
      BY <1>2, <3>1, ProcessCounts
  <2> QED
    BY <1>2, <2>1
<1> HIDE DEF t
<1>4. /\ missed' \in [Pids -> Nat] /\ bytes' = bytes + Len(b)
      /\ \A pid \in Pids :
           /\ (\E r \in Readings(t) : r.packet.pid = pid) => missed'[pid] = 0
           /\ (\A r \in Readings(t) : r.packet.pid # pid) /\ (\A q \in Arrived(b) : q.pid # pid)
                => missed'[pid] = missed[pid]
           /\ (\A r \in Readings(t) : r.packet.pid # pid) /\ (\E q \in Arrived(b) : q.pid = pid)
                => missed'[pid] = missed[pid] + 1
  <2>1. missed \in [Pids -> Nat]
    BY DEF Running
  <2>2. Apart(Arrived(b))
    BY <1>2 DEF Apart
  <2> QED
    BY <1>1, <2>1, <2>2, Misses
<1>5. \A r \in Readings(t) : r.packet = p /\ Judged(r, stream'.pid, stream.pid)
  BY <1>1, <1>3 DEF BufferRead
<1>6. wrong' = {}
  <2> DEFINE R == Readings(t)
             alarms == {x \in R : x.warned /\ missed[x.packet.pid] = 0 /\ ~TRUE}
             overlooked == {x \in R : /\ ~x.warned /\ ~x.fresh /\ missed[x.packet.pid] % CCs # 0
                                      /\ x.packet.pid # Null /\ ~Announced(x.packet)}
  <2>1. wrong' = wrong \cup {<<"false alarm", r.packet.pid>> : r \in alarms}
                       \cup {<<"overlooked", r.packet.pid>> : r \in overlooked}
    BY <1>1 DEF Judge, Readings
  <2>2. 0 % CCs = 0
    BY <1>0
  <2>3. alarms = {} /\ overlooked = {}
    BY <1>5, <2>2
  <2> HIDE DEF alarms, overlooked
  <2> QED
    BY <2>1, <2>3 DEF Running
<1>7. StreamOK(stream') /\ Tallied(stream', bytes')
  BY <1>1, <1>3, <1>4 DEF BufferRead
<1>8. missed'[p.pid] = 0 /\ stream'.pid[p.pid].cc = p.cc
  <2>1. PICK r \in Readings(t) : r.packet = p
    BY <1>3
  <2>2. stream'.pid[p.pid] = [seen |-> TRUE, cc |-> p.cc]
    BY <1>5, <2>1 DEF Judged
  <2> QED
    BY <1>0, <1>4, <2>1, <2>2
<1>9. \A pid \in Pids : pid # p.pid => missed'[pid] = missed[pid] /\ stream'.pid[pid] = stream.pid[pid]
  BY <1>1, <1>2, <1>3, <1>4, <1>5 DEF BufferRead
<1>10. Followed(stream', cc', missed')
  <2>1. (p.cc + 0) % CCs = p.cc
    <3> DEFINE c == p.cc
    <3>1. c \in 0..CCs-1
      BY <1>0
    <3> HIDE DEF c
    <3>2. c % CCs = c
      BY <1>0, <3>1, Small
    <3>3. c + 0 = c
      BY <1>0, <3>1
    <3> QED
      BY <3>2, <3>3 DEF c
  <2>2. \A pid \in Pids : stream.pid[pid].seen => cc[pid] = (stream.pid[pid].cc + missed[pid]) % CCs
    BY DEF Running, Followed
  <2> QED
    BY <1>8, <1>9, <2>1, <2>2 DEF Followed
<1>11. step' \in {"running", "aborted"} /\ bytes' \in Nat
  <2>1. Len(b) \in Nat
    BY <1>2
  <2> QED
    BY <1>1, <1>4, <2>1 DEF Running
<1> QED
  BY <1>4, <1>6, <1>7, <1>10, <1>11 DEF Taken
----------------------------------------------------------------------------
(* The invariant: every byte is in the counts, and behind each PID stands  *)
(* the last counter read of it and how many packets were missed since.     *)

GapsInv ==
  /\ AirTyped
  /\ last # NULL => last \in AirPackets /\ cc[last.pid] = last.cc /\ missed[last.pid] = 0
  /\ missed \in [Pids -> Nat] /\ bytes \in Nat /\ wrong = {}
  /\ step = "new" => bytes = 0 /\ stream = NULL
  /\ step # "new" => Tallied(stream, bytes)
  /\ step = "running" => StreamOK(stream) /\ Followed(stream, cc, missed)

LEMMA GapsStart == Init => GapsInv
<1> SUFFICES ASSUME Init PROVE GapsInv
  OBVIOUS
<1>1. pat = [version |-> 0, list |-> Only(Lists)] /\ Only(Lists) \in Lists
  BY AnalysisAssumption DEF Init, Only
<1>5. 0 \in Versions
  BY DEF Versions
<1>2. pmt \in [Programs -> [version : Versions, clock : Clocks]]
  <2>1. [version : {0}, clock : Clocks] \subseteq [version : Versions, clock : Clocks]
    BY DEF Versions
  <2>2. pmt \in [Programs -> [version : {0}, clock : Clocks]]
    BY DEF Init
  <2> QED
    BY <2>1, <2>2
<1>3. cc \in [Pids -> 0..CCs-1] /\ missed \in [Pids -> Nat]
  BY AnalysisAssumption DEF Init
<1>4. AirTyped
  BY <1>1, <1>2, <1>3, <1>5 DEF AirTyped
<1> QED
  BY <1>3, <1>4 DEF Init, GapsInv

LEMMA GapsRunning ==
  ASSUME GapsInv, step = "running"
  PROVE  Running
BY DEF GapsInv, Running, AirTyped

\* A handle that is made, and the streams that come of libdvbpsi_init().
LEMMA NewStreamOK == StreamOK(NewStream) /\ Tallied(NewStream, 0) /\ \A pid \in Pids : ~NewStream.pid[pid].seen
<1> DEFINE all == {"pat", "cat", "sdt", "rst", "eit", "tdt"}
           h == NewHandles
<1>1. {Names[i] : i \in 1..6} = all
  BY DEF Names
<1>2. h = [n \in all |->
             CASE n = "pat" -> Handle(PatAttach) [] n = "cat" -> Handle(CatAttach)
               [] n = "rst" -> Handle(RstAttach) [] OTHER -> Handle(NewDemux)]
  BY <1>1 DEF NewHandles
<1> HIDE DEF h
<1>3. /\ DOMAIN h = all /\ h["pat"] = Handle(PatAttach) /\ h["cat"] = Handle(CatAttach)
      /\ h["rst"] = Handle(RstAttach) /\ \A n \in Muxes : h[n] = Handle(NewDemux)
  BY <1>2 DEF Muxes
<1>4. \A d : DOMAIN Handle(d) = {"counter", "decoder"} /\ Handle(d).decoder = d
  BY DEF Handle
<1>5. \A n \in DOMAIN h : DOMAIN h[n] = {"counter", "decoder"}
  <2>1. \A n \in all : n \in {"pat", "cat", "rst"} \/ n \in Muxes
    BY DEF Muxes
  <2> QED
    BY <1>3, <1>4, <2>1
<1>6. PatAttach \in PatDecoders
  BY DEF PatAttach, NewDecoder, PatDecoders
<1>7. MuxOK(NewDemux)
  BY DEF MuxOK, NewDemux
<1>8. HandlesOK(h)
  BY <1>3, <1>4, <1>5, <1>6, <1>7 DEF HandlesOK
<1>9. NewStream = [handle |-> h, pmt |-> <<>>, pid |-> [p \in Pids |-> NewPid],
                   packets |-> 0, lost_bytes |-> 0, clocks |-> {}, leaked |-> 0]
  BY DEF NewStream, h
<1> DEFINE pids == [p \in Pids |-> NewPid]
<1>10. pids \in [Pids -> [seen : BOOLEAN, cc : 0..CCs-1]] /\ \A p \in Pids : ~pids[p].seen
  BY AnalysisAssumption DEF NewPid
<1>11. IsSeq(<<>>)
  <2>1. <<>> \in Seq({})
    OBVIOUS
  <2> QED
    BY <2>1 DEF IsSeq
<1> HIDE DEF pids
<1>12. /\ DOMAIN NewStream = StreamFields /\ NewStream.handle = h /\ NewStream.pmt = <<>>
       /\ NewStream.pid = pids /\ NewStream.packets = 0 /\ NewStream.lost_bytes = 0
  BY <1>9 DEF StreamFields, pids
<1>13. StreamOK(NewStream)
  BY <1>8, <1>10, <1>11, <1>12 DEF StreamOK, StreamKept
<1>14. Tallied(NewStream, 0)
  <2>1. PacketSize * 0 + 0 = 0
    BY AnalysisAssumption
  <2> QED
    BY <1>12, <2>1 DEF Tallied
<1> QED
  BY <1>10, <1>12, <1>13, <1>14

LEMMA GapsOnInit ==
  ASSUME GapsInv, libdvbpsi_init
  PROVE  GapsInv'
<1>1. /\ step = "new" /\ bytes = 0 /\ UNCHANGED <<pat, pmt, cc, last, missed, bytes, wrong>>
  BY DEF GapsInv, libdvbpsi_init, history
<1>2. /\ step' # "new" /\ Tallied(stream', 0)
      /\ step' = "running" => StreamOK(stream') /\ \A pid \in Pids : ~stream'.pid[pid].seen
  <2>1. CASE step' = "running" /\ stream' = NewStream
    BY <2>1, NewStreamOK
  <2>2. ASSUME NEW made, stream' = [NewStream EXCEPT !.handle = Detached(made)], step' \in {"aborted", "closed"}
        PROVE  step' # "new" /\ step' # "running" /\ Tallied(stream', 0)
    <3>1. DOMAIN NewStream = StreamFields
      BY NewStreamOK DEF StreamOK, StreamKept
    <3>2. stream'.packets = NewStream.packets /\ stream'.lost_bytes = NewStream.lost_bytes
      BY <2>2, <3>1 DEF StreamFields
    <3> QED
      BY <2>2, <3>2, NewStreamOK DEF Tallied
  <2> QED
    BY <2>1, <2>2 DEF libdvbpsi_init
<1>3. AirTyped' /\ (last' # NULL => last' \in AirPackets /\ cc'[last'.pid] = last'.cc /\ missed'[last'.pid] = 0)
  BY <1>1 DEF GapsInv, AirTyped
<1> QED
  BY <1>1, <1>2, <1>3 DEF GapsInv, Followed

\* What the steps that read a buffer leave behind.
LEMMA GapsOnTake ==
  ASSUME GapsInv, Taken, AirTyped',
         last' # NULL => last' \in AirPackets /\ cc'[last'.pid] = last'.cc /\ missed'[last'.pid] = 0
  PROVE  GapsInv'
BY DEF GapsInv, Taken

LEMMA OneIsCounted ==
  ASSUME AirTyped, NEW p, NextOf(p), cc' = [cc EXCEPT ![p.pid] = p.cc]
  PROVE  CountedIn({p}, cc') /\ cc'[p.pid] = p.cc
<1>1. p.pid \in Pids /\ p.cc \in 0..CCs-1
  BY AirParts DEF NextOf
<1>2. cc' \in [Pids -> 0..CCs-1]
  BY <1>1 DEF AirTyped
<1>3. cc'[p.pid] = p.cc /\ \A pid \in Pids : p.pid # pid => cc'[pid] = cc[pid]
  BY <1>1 DEF AirTyped
<1> QED
  BY <1>2, <1>3 DEF CountedIn

\* One packet arrives, with memory or without.
LEMMA GapsOnArrive ==
  ASSUME GapsInv, step = "running", NEW p \in Packets, NEW failing \in Failing,
         Take(BytesOf(p), failing, FALSE), Counted(p), last' = p, UNCHANGED <<pat, pmt>>
  PROVE  GapsInv'
<1>1. Running /\ NextOf(p) /\ p \in AirPackets
  BY GapsRunning, PacketsTyped DEF GapsInv, NextOf
<1> DEFINE b == BytesOf(p)
<1>2. b \in Seq(Bytes) /\ Framed(b) /\ Arrived(b) = {p} /\ BeginsWith(b, p)
  BY <1>1, OnePacket
<1>3. CountedIn({p}, cc') /\ cc'[p.pid] = p.cc
  BY <1>1, OneIsCounted DEF Counted, GapsInv
<1>4. Apart({p})
  BY <1>1 DEF Apart
<1> HIDE DEF b
<1>5. Taken /\ missed'[p.pid] = 0
  <2>1. Take(b, failing, FALSE)
    BY DEF b
  <2> QED
    BY <1>1, <1>2, <1>3, <1>4, <2>1, FreshIsTaken
<1>6. AirTyped'
  BY <1>3 DEF GapsInv, AirTyped, CountedIn
<1> QED
  BY <1>1, <1>3, <1>5, <1>6, GapsOnTake

LEMMA GapsOnJunk ==
  ASSUME GapsInv, NEW p \in Packets, NEW q \in Packets, NEW junk \in Junk, ArriveWithJunk(p, q, junk)
  PROVE  GapsInv'
<1>1. /\ step = "running" /\ p.pid # q.pid /\ Take(BytesOf(p) \o junk \o BytesOf(q), "none", FALSE)
      /\ cc' = [cc EXCEPT ![p.pid] = p.cc, ![q.pid] = q.cc] /\ last' = NULL /\ UNCHANGED <<pat, pmt>>
  BY DEF ArriveWithJunk
<1>2. Running /\ AirTyped /\ NextOf(p) /\ NextOf(q) /\ p \in AirPackets /\ q \in AirPackets
  BY <1>1, GapsRunning, PacketsTyped DEF GapsInv, NextOf
<1> DEFINE b == BytesOf(p) \o junk \o BytesOf(q)
<1>3. b \in Seq(Bytes) /\ Framed(b) /\ Arrived(b) = {p, q} /\ BeginsWith(b, p)
  BY <1>1, <1>2, TwoPackets
<1>4. p.pid \in Pids /\ p.cc \in 0..CCs-1 /\ q.pid \in Pids /\ q.cc \in 0..CCs-1
  BY <1>2, AirParts
<1>5. cc' \in [Pids -> 0..CCs-1]
  BY <1>1, <1>2, <1>4 DEF AirTyped
<1>6. CountedIn({p, q}, cc')
  <2>1. cc'[p.pid] = p.cc /\ cc'[q.pid] = q.cc
        /\ \A pid \in Pids : p.pid # pid /\ q.pid # pid => cc'[pid] = cc[pid]
    BY <1>1, <1>2, <1>4 DEF AirTyped
  <2> QED
    BY <1>5, <2>1 DEF CountedIn
<1>7. Apart({p, q})
  BY <1>1, <1>2 DEF Apart
<1>8. "none" \in Failing /\ Take(b, "none", FALSE)
  BY <1>1 DEF Failing
<1> HIDE DEF b
<1>9. Taken
  <2> DEFINE A == Arrived(b)
  <2>1. CountedIn(A, cc') /\ Apart(A) /\ p \in A /\ \A x \in A : NextOf(x)
    BY <1>2, <1>3, <1>6, <1>7
  <2> QED
    BY <1>2, <1>3, <1>8, <2>1, FreshIsTaken
<1>10. AirTyped'
  BY <1>1, <1>2, <1>5 DEF AirTyped
<1> QED
  BY <1>1, <1>9, <1>10, GapsOnTake

LEMMA GapsOnRepeat ==
  ASSUME GapsInv, Repeat
  PROVE  GapsInv'
<1>1. /\ step = "running" /\ last # NULL /\ Take(BytesOf(last), "none", TRUE) /\ last' = NULL
      /\ UNCHANGED <<pat, pmt, cc>>
  BY DEF Repeat
<1>2. Running /\ last \in AirPackets /\ cc[last.pid] = last.cc /\ missed[last.pid] = 0
  BY <1>1, GapsRunning DEF GapsInv
<1>3. Taken
  BY <1>1, <1>2, AgainIsTaken
<1>4. AirTyped'
  BY <1>1 DEF GapsInv, AirTyped
<1> QED
  BY <1>1, <1>3, <1>4, GapsOnTake

LEMMA GapsOnLose ==
  ASSUME GapsInv, NEW pid, NEW n \in Nat, Lose(pid, n)
  PROVE  GapsInv'
<1>1. /\ step = "running" /\ last' = NULL
      /\ cc' = [cc EXCEPT ![pid] = (@ + n) % CCs] /\ missed' = [missed EXCEPT ![pid] = @ + n]
      /\ UNCHANGED <<step, stream, bytes, wrong, pat, pmt>>
  BY DEF Lose
<1>2. Running /\ AirTyped
  BY <1>1, GapsRunning DEF GapsInv
<1>3. CCs \in Nat \ {0} /\ missed \in [Pids -> Nat] /\ cc \in [Pids -> 0..CCs-1]
  BY <1>2, AnalysisAssumption DEF Running
<1>4. cc' \in [Pids -> 0..CCs-1]
  <2>1. \A x \in Nat : x % CCs \in 0..CCs-1
    BY <1>3
  <2>2. \A p \in Pids : cc[p] + n \in Nat
    BY <1>3
  <2> QED
    BY <1>1, <1>3, <2>1, <2>2
<1>5. missed' \in [Pids -> Nat]
  <2>1. \A p \in Pids : missed[p] + n \in Nat
    BY <1>3
  <2> QED
    BY <1>1, <1>3, <2>1
<1>6. Followed(stream, cc', missed')
  <2> SUFFICES ASSUME NEW p \in Pids, stream.pid[p].seen
               PROVE  cc'[p] = (stream.pid[p].cc + missed'[p]) % CCs
    BY DEF Followed
  <2>1. cc[p] = (stream.pid[p].cc + missed[p]) % CCs
    BY <1>2 DEF Running, Followed
  <2>2. CASE p # pid
    BY <1>1, <1>3, <2>1, <2>2
  <2>3. CASE p = pid
    <3> DEFINE k == stream.pid[p].cc
               m == missed[p]
               x == k + m
    <3>1. k \in 0..CCs-1 /\ m \in Nat
      BY <1>2 DEF Running, StreamOK
    <3>2. cc'[p] = (cc[p] + n) % CCs /\ missed'[p] = m + n
      BY <1>1, <1>3, <2>3
    <3> HIDE DEF k, m
    <3>3. x \in Nat /\ k + (m + n) = x + n
      BY <3>1
    <3>4. cc[p] = x % CCs
      BY <2>1 DEF k, m
    <3> HIDE DEF x
    <3>5. ((x % CCs) + n) % CCs = (x + n) % CCs
      BY <1>3, <3>3, Remainders
    <3> QED
      BY <3>2, <3>3, <3>4, <3>5 DEF k
  <2> QED
    BY <2>2, <2>3
<1>7. AirTyped'
  BY <1>1, <1>2, <1>4 DEF AirTyped
<1> QED
  BY <1>1, <1>5, <1>6, <1>7 DEF GapsInv

LEMMA GapsOnStep ==
  ASSUME GapsInv, [Next]_vars
  PROVE  GapsInv'
<1>1. ASSUME NEW p \in Packets, Arrive(p) PROVE GapsInv'
  <2>1. "none" \in Failing
    BY DEF Failing
  <2> QED
    BY <1>1, <2>1, GapsOnArrive DEF Arrive
<1>2. ASSUME NEW p \in Packets, NEW failing \in {"entry", "handle", "attach"}, ArriveWithoutMemory(p, failing)
      PROVE  GapsInv'
  <2>1. failing \in Failing
    BY DEF Failing
  <2> QED
    BY <1>2, <2>1, GapsOnArrive DEF ArriveWithoutMemory
<1>3. ASSUME NEW list \in Lists, ChangePat(list) PROVE GapsInv'
  <2>1. /\ step = "running" /\ pat' = [version |-> (pat.version + 1) % 32, list |-> list]
        /\ UNCHANGED <<step, stream, bytes, missed, wrong, pmt, cc, last>>
    BY <1>3 DEF ChangePat, history
  <2>3. pat'.version \in Versions
    BY <2>1 DEF GapsInv, AirTyped, Versions
  <2>2. AirTyped'
    BY <2>1, <2>3 DEF GapsInv, AirTyped
  <2> QED
    BY <2>1, <2>2 DEF GapsInv
<1>4. ASSUME NEW n \in Programs, NEW clock \in Clocks, ChangePmt(n, clock) PROVE GapsInv'
  <2>1. /\ step = "running" /\ pmt' = [pmt EXCEPT ![n] = [version |-> (@.version + 1) % 32, clock |-> clock]]
        /\ UNCHANGED <<step, stream, bytes, missed, wrong, pat, cc, last>>
    BY <1>4 DEF ChangePmt, history
  <2>4. \A x \in Versions : (x + 1) % 32 \in Versions
    BY DEF Versions
  <2>2. pmt' \in [Programs -> [version : Versions, clock : Clocks]]
    BY <2>1, <2>4 DEF GapsInv, AirTyped
  <2>3. AirTyped'
    BY <2>1, <2>2 DEF GapsInv, AirTyped
  <2> QED
    BY <2>1, <2>3 DEF GapsInv
<1>5. CASE libdvbpsi_exit
  <2> DEFINE kept == {i \in DOMAIN stream.pmt : stream.pmt[i].handle.decoder = NULL}
             s == [stream EXCEPT !.handle = Detached(@), !.pmt = <<>>, !.leaked = @ + Cardinality(kept)]
  <2>1. /\ step = "running" /\ step' = "closed" /\ stream' = s
        /\ UNCHANGED <<bytes, missed, wrong, pat, pmt, cc, last>>
    BY <1>5 DEF libdvbpsi_exit, air, history
  <2>2. DOMAIN stream = StreamFields /\ Tallied(stream, bytes)
    BY <2>1 DEF GapsInv, StreamOK, StreamKept
  <2> HIDE DEF kept
  <2>3. s.packets = stream.packets /\ s.lost_bytes = stream.lost_bytes
    BY <2>2 DEF StreamFields
  <2> HIDE DEF s
  <2>4. Tallied(stream', bytes')
    BY <2>1, <2>2, <2>3 DEF Tallied
  <2>5. AirTyped'
    BY <2>1 DEF GapsInv, AirTyped
  <2> QED
    BY <2>1, <2>4, <2>5 DEF GapsInv
<1>6. CASE UNCHANGED vars
  BY <1>6 DEF vars, air, history, GapsInv, AirTyped, Tallied, Followed
<1>7. ASSUME NEW pid \in traffic, NEW n \in 1..MaxBurst, Lose(pid, n) PROVE GapsInv'
  <2>1. n \in Nat
    OBVIOUS
  <2> QED
    BY <1>7, <2>1, GapsOnLose
<1> QED
  BY <1>1, <1>2, <1>3, <1>4, <1>5, <1>6, <1>7, GapsOnInit, GapsOnJunk, GapsOnRepeat DEF Next

LEMMA GapsAlways == Spec => []GapsInv
<1>1. Init => GapsInv
  BY GapsStart
<1>2. GapsInv /\ [Next]_vars => GapsInv'
  BY GapsOnStep
<1> QED
  BY <1>1, <1>2, PTL DEF Spec

\* What every decoder of a table has.
DecoderFields ==
  {"discontinuity", "current_valid", "current", "building", "sections", "last", "first"}

\* A decoder between two tables.
Idle(d) ==
  /\ DecoderFields \subseteq DOMAIN d /\ d = [x \in DOMAIN d |-> d[x]]
  /\ d.building = NULL /\ d.sections = {}

\* What becomes of it when a table of one section is delivered.
Has(e, d, new) ==
  /\ DOMAIN e = DOMAIN d /\ e = [x \in DOMAIN e |-> e[x]]
  /\ e.discontinuity = FALSE /\ e.current_valid = TRUE /\ e.current = new
  /\ e.building = NULL /\ e.sections = {} /\ e.last = 0 /\ e.first = 0
  /\ \A x \in DOMAIN d \ DecoderFields : e[x] = d[x]

LEMMA GatheredOnce ==
  ASSUME NEW d, Idle(d), d.discontinuity \in BOOLEAN, d.current_valid \in BOOLEAN,
         NEW s, s.last = 0, s.num = 0, NEW new, NEW differs
  PROVE  LET r == Gathered(d, FALSE, d.discontinuity, s, new, differs, FALSE) IN
         IF ~d.discontinuity /\ AlreadyDecoded(d, s) THEN r.decoder = d /\ r.table = NULL
         ELSE r.table = {s} /\ Has(r.decoder, d, new)
<1> DEFINE lost == d.discontinuity
           ready == Ready(d, lost, d.building # NULL /\ differs)
           added == AddSection(ready, s, new)
           r == Gathered(d, FALSE, lost, s, new, differs, FALSE)
           out == Delivered(added, FALSE)
<1>1. CASE ~lost /\ AlreadyDecoded(d, s)
  <2>1. r = Result(d, FALSE, NULL)
    <3>1. d.building = NULL
      BY DEF Idle
    <3>2. Gathered(d, FALSE, lost, s, new, differs, FALSE) = Result(d, FALSE, NULL)
      BY <1>1, <3>1 DEF Gathered, AlreadyDecoded
    <3> QED
      BY <3>2
  <2> HIDE DEF r
  <2>2. r.decoder = d /\ r.table = NULL
    BY <2>1 DEF Result
  <2> QED
    BY <1>1, <2>2 DEF AlreadyDecoded, r
<1>2. CASE ~(~lost /\ AlreadyDecoded(d, s))
  <2>1. /\ DOMAIN ready = DOMAIN d /\ ready.building = NULL /\ ready.sections = {}
        /\ ready.discontinuity = FALSE /\ ready = [x \in DOMAIN ready |-> ready[x]]
        /\ \A x \in DOMAIN d \ DecoderFields : ready[x] = d[x]
    <3> DEFINE clean == [d EXCEPT !.discontinuity = @ /\ ~lost]
    <3>1. /\ DOMAIN clean = DOMAIN d /\ clean.building = NULL /\ clean.sections = {}
          /\ clean.discontinuity = FALSE /\ clean = [x \in DOMAIN clean |-> clean[x]]
          /\ \A x \in DOMAIN d \ DecoderFields : clean[x] = d[x]
      BY DEF Idle, DecoderFields
    <3> HIDE DEF clean
    <3>2. DecoderFields \subseteq DOMAIN clean
      BY <3>1 DEF Idle
    <3> DEFINE reset == [clean EXCEPT !.current_valid = @ /\ ~TRUE, !.sections = {}]
    <3>3. /\ DOMAIN reset = DOMAIN d /\ reset.building = NULL /\ reset.sections = {}
          /\ reset.discontinuity = FALSE /\ reset = [x \in DOMAIN reset |-> reset[x]]
          /\ \A x \in DOMAIN d \ DecoderFields : reset[x] = d[x]
      BY <3>1, <3>2 DEF DecoderFields
    <3> HIDE DEF reset
    <3>4. ReInit(clean, TRUE) = [reset EXCEPT !.building = NULL]
      BY DEF ReInit, DecoderReset, reset
    <3>5. ready = clean \/ ready = [reset EXCEPT !.building = NULL]
      BY <3>4 DEF Ready, clean
    <3> HIDE DEF ready
    <3> QED
      BY <3>1, <3>2, <3>3, <3>5 DEF DecoderFields
  <2> HIDE DEF ready
  <2>2. DecoderFields \subseteq DOMAIN ready
    BY <2>1 DEF Idle
  <2> DEFINE made == [ready EXCEPT !.building = new, !.last = s.last, !.first = s.num]
  <2>3. /\ DOMAIN made = DOMAIN d /\ made.building = new /\ made.sections = {} /\ made.last = 0
        /\ made.first = 0 /\ made.discontinuity = FALSE /\ made = [x \in DOMAIN made |-> made[x]]
        /\ \A x \in DOMAIN d \ DecoderFields : made[x] = d[x]
    BY <2>1, <2>2 DEF DecoderFields
  <2>4. added = SectionAdd(made, s)
    BY <2>1 DEF AddSection
  <2> HIDE DEF made, added
  <2>5. DecoderFields \subseteq DOMAIN made
    BY <2>1, <2>2, <2>3
  <2>6. /\ DOMAIN added = DOMAIN d /\ added.building = new /\ added.sections = {s} /\ added.last = 0
        /\ added.first = 0 /\ added.discontinuity = FALSE /\ added = [x \in DOMAIN added |-> added[x]]
        /\ \A x \in DOMAIN d \ DecoderFields : added[x] = d[x]
    <3>1. {t \in made.sections : t.num # s.num} \cup {s} = {s}
      BY <2>3
    <3>2. added = [made EXCEPT !.sections = {s}]
      BY <2>4, <3>1 DEF SectionAdd
    <3> QED
      BY <2>3, <2>5, <3>2 DEF DecoderFields
  <2>7. SectionsCompleted(added)
    BY <2>6 DEF SectionsCompleted
  <2>8. r = out
    BY <1>2, <2>7 DEF Gathered, added, ready, out, Idle
  <2> DEFINE told == [added EXCEPT !.current = added.building, !.current_valid = TRUE]
             clear == [told EXCEPT !.current_valid = @ /\ ~FALSE, !.sections = {}]
             e == [clear EXCEPT !.building = NULL]
  <2>9. out.table = {s} /\ out.decoder = e
    BY <2>6 DEF Delivered, Result, ReInit, DecoderReset
  <2>10. DecoderFields \subseteq DOMAIN added
    BY <2>3, <2>5, <2>6
  <2>11. /\ DOMAIN told = DOMAIN d /\ told = [x \in DOMAIN told |-> told[x]]
         /\ told.discontinuity = FALSE /\ told.current_valid = TRUE /\ told.current = new
         /\ told.last = 0 /\ told.first = 0
         /\ \A x \in DOMAIN d \ DecoderFields : told[x] = d[x]
    BY <2>6, <2>10 DEF DecoderFields
  <2> HIDE DEF told
  <2>12. DecoderFields \subseteq DOMAIN told
    BY <2>6, <2>10, <2>11
  <2>13. /\ DOMAIN clear = DOMAIN d /\ clear = [x \in DOMAIN clear |-> clear[x]]
         /\ clear.discontinuity = FALSE /\ clear.current_valid = TRUE /\ clear.current = new
         /\ clear.last = 0 /\ clear.first = 0 /\ clear.sections = {}
         /\ \A x \in DOMAIN d \ DecoderFields : clear[x] = d[x]
    BY <2>11, <2>12 DEF DecoderFields
  <2> HIDE DEF clear
  <2>14. DecoderFields \subseteq DOMAIN clear
    BY <2>11, <2>12, <2>13
  <2>15. Has(e, d, new)
    BY <2>13, <2>14 DEF Has, DecoderFields
  <2> HIDE DEF out, e, r
  <2> QED
    BY <1>2, <2>8, <2>9, <2>15 DEF r
<1> QED
  BY <1>1, <1>2
----------------------------------------------------------------------------
(* What a packet does to the handle of a PMT or of the PAT.                *)

\* A gap stands in the decoder until a table is delivered.
Noticed(h, p) == h.decoder.discontinuity \/ Gap(h, p)

\* The table is not the one that the decoder has given last.
New(h, p) == ~Duplicate(h, p) /\ (Noticed(h, p) \/ ~DecodedOnce(h.decoder, p.section))

\* The handle of a decoder of PMTs, and of the one of PATs below.
PmtHeaders == [version : Versions, current_next : {TRUE}]
PmtHandle(h, n) ==
  /\ h \in [counter : 0..CCs, decoder : PmtDecoders(n)]
  /\ h.decoder.current_valid => h.decoder.current \in PmtHeaders

\* The packets there may be on the PID of a PMT.
PmtSent(p) == p.cc \in 0..CCs-1 /\ (p.section = NULL \/ p.section \in Pmts)

\* A packet gives a PMT to the callback only if it has one of the program, and a new one.
PmtTold(h, p) == p.section # NULL /\ p.section.ext = h.decoder.program_number /\ New(h, p)

\* What a packet makes of the handle.
PmtAfter(h, p) ==
  IF Duplicate(h, p) THEN h
  ELSE [counter |-> p.cc,
        decoder |-> IF PmtTold(h, p)
                    THEN [h.decoder EXCEPT !.discontinuity = FALSE, !.current_valid = TRUE,
                                           !.current = Header(p.section)]
                    ELSE [h.decoder EXCEPT !.discontinuity = Noticed(h, p)]]

LEMMA PmtParts ==
  ASSUME NEW s \in Pmts
  PROVE  /\ s.id = 2 /\ s.syntax = TRUE /\ s.ext \in Programs /\ s.version \in Versions /\ s.cn = TRUE
         /\ s.num = 0 /\ s.last = 0 /\ s # NULL /\ {s} # NULL /\ s.gen \in Clocks
<1>1. /\ s.id \in {2} /\ s.syntax \in {TRUE} /\ s.ext \in Programs /\ s.version \in Versions
      /\ s.cn \in {TRUE} /\ s.num \in {0} /\ s.last \in {0} /\ s.gen \in Clocks
  BY DEF Pmts, SectionsOf
<1>2. s # NULL /\ {s} # NULL
  BY AnalysisAssumption, StreamAssumption
<1> QED
  BY <1>1, <1>2

LEMMA PatParts ==
  ASSUME NEW s \in Pats
  PROVE  /\ s.id = 0 /\ s.syntax = TRUE /\ s.ext = 1 /\ s.version \in Versions /\ s.cn = TRUE
         /\ s.num = 0 /\ s.last = 0 /\ s # NULL /\ {s} # NULL /\ s.gen \in Lists
<1>1. /\ s.id \in {0} /\ s.syntax \in {TRUE} /\ s.ext \in {1} /\ s.version \in Versions
      /\ s.cn \in {TRUE} /\ s.num \in {0} /\ s.last \in {0} /\ s.gen \in Lists
  BY DEF Pats, SectionsOf
<1>2. s # NULL /\ {s} # NULL
  BY AnalysisAssumption, StreamAssumption
<1> QED
  BY <1>1, <1>2

LEMMA PmtDecoderParts ==
  ASSUME NEW n, NEW d \in PmtDecoders(n)
  PROVE  /\ Idle(d) /\ d.discontinuity \in BOOLEAN /\ d.current_valid \in BOOLEAN
         /\ DOMAIN d = DecoderFields \cup {"program_number"} /\ d.program_number = n
         /\ d.last = 0 /\ d.first = 0 /\ d.current \in {NULL} \cup PmtHeaders
BY DEF PmtDecoders, Idle, DecoderFields, PmtHeaders

LEMMA DuplicateStays ==
  ASSUME NEW h, DOMAIN h = {"counter", "decoder"}, h = [x \in DOMAIN h |-> h[x]], NEW p, Duplicate(h, p)
  PROVE  [h EXCEPT !.counter = p.cc] = h
BY DEF Duplicate

LEMMA PmtPushed ==
  ASSUME NEW n, NEW h, PmtHandle(h, n), NEW p, PmtSent(p)
  PROVE  PacketPush(h, p, "pmt") =
           {[handle |-> PmtAfter(h, p), table |-> IF PmtTold(h, p) THEN {p.section} ELSE NULL]}
<1> DEFINE d == h.decoder
           noticed == [d EXCEPT !.discontinuity = Noticed(h, p)]
           s == p.section
           A == PmtAfter(h, p)
           T == IF PmtTold(h, p) THEN {p.section} ELSE NULL
<1>1. h \in [counter : 0..CCs, decoder : PmtDecoders(n)] /\ d \in PmtDecoders(n)
  BY DEF PmtHandle
<1>2. CASE Duplicate(h, p)
  <2>1. PacketPush(h, p, "pmt") = {[handle |-> [h EXCEPT !.counter = p.cc], table |-> NULL]}
    BY <1>2 DEF PacketPush
  <2>2. [h EXCEPT !.counter = p.cc] = h
    BY <1>1, <1>2, DuplicateStays
  <2>3. A = h /\ ~PmtTold(h, p)
    BY <1>2 DEF PmtAfter, PmtTold, New
  <2>4. T = NULL
    BY <2>3, Zenon
  <2> HIDE DEF A, T
  <2> QED
    BY <2>1, <2>2, <2>3, <2>4 DEF T, A
<1>3. CASE ~Duplicate(h, p)
  <2>1. Noticed(h, p) \in BOOLEAN
    BY <1>1, PmtDecoderParts DEF Noticed, Gap
  <2>2. noticed \in PmtDecoders(n) /\ noticed.discontinuity = Noticed(h, p)
        /\ noticed.current_valid = d.current_valid /\ noticed.current = d.current
    BY <1>1, <2>1 DEF PmtDecoders
  <2>3. [h.decoder EXCEPT !.discontinuity = @ \/ Gap(h, p)] = noticed
    BY DEF Noticed
  <2>4. PacketPush(h, p, "pmt") =
          IF s = NULL THEN {[handle |-> [counter |-> p.cc, decoder |-> noticed], table |-> NULL]}
          ELSE {[handle |-> [counter |-> p.cc, decoder |-> r.decoder], table |-> r.table] :
                  r \in PmtGather(noticed, FALSE, s)}
    BY <1>3, <2>3 DEF PacketPush, Gather
  <2> DEFINE e == [d EXCEPT !.discontinuity = FALSE, !.current_valid = TRUE, !.current = Header(s)]
  <2>5. A = [counter |-> p.cc, decoder |-> IF PmtTold(h, p) THEN e ELSE noticed]
    BY <1>3 DEF PmtAfter
  <2>9. /\ ~PmtTold(h, p) => A = [counter |-> p.cc, decoder |-> noticed] /\ T = NULL
        /\ PmtTold(h, p) => A = [counter |-> p.cc, decoder |-> e] /\ T = {s}
    <3> HIDE DEF A, noticed, e
    <3> QED
      BY <2>5, Zenon
  <2> HIDE DEF A, noticed, T, e
  <2>10. PacketPush(h, p, "pmt") = {[handle |-> A, table |-> T]}
         => PacketPush(h, p, "pmt") = {[handle |-> PmtAfter(h, p), table |-> IF PmtTold(h, p) THEN {p.section} ELSE NULL]}
    BY DEF A, T
  <2>6. CASE s = NULL
    BY <2>4, <2>6, <2>9, <2>10 DEF PmtTold
  <2>7. CASE s # NULL /\ s.ext # d.program_number
    <3>1. noticed.program_number = d.program_number
      BY <1>1, <2>2, PmtDecoderParts
    <3>2. PmtGather(noticed, FALSE, s) = {Result(noticed, FALSE, NULL)}
      BY <2>7, <3>1 DEF PmtGather
    <3>3. Result(noticed, FALSE, NULL).decoder = noticed /\ Result(noticed, FALSE, NULL).table = NULL
      BY DEF Result
    <3>4. PacketPush(h, p, "pmt") = {[handle |-> [counter |-> p.cc, decoder |-> noticed], table |-> NULL]}
      BY <2>4, <2>7, <3>2, <3>3
    <3> QED
      BY <2>7, <2>9, <2>10, <3>4 DEF PmtTold
  <2>8. CASE s # NULL /\ s.ext = d.program_number
    <3> DEFINE differs == CheckPMT(noticed, s)
               new == PmtNew(s)
               r == Gathered(noticed, FALSE, noticed.discontinuity, s, new, differs, FALSE)
    <3>1. s \in Pmts
      BY <2>8 DEF PmtSent
    <3>2. noticed.program_number = d.program_number
      BY <1>1, <2>2, PmtDecoderParts
    <3>3. CheckPSISection(s, {2})
      BY <3>1, PmtParts DEF CheckPSISection
    <3>4. PmtGather(noticed, FALSE, s) = {r}
      BY <2>8, <3>2, <3>3 DEF PmtGather, GatherOwn
    <3>5. PacketPush(h, p, "pmt") = {[handle |-> [counter |-> p.cc, decoder |-> r.decoder], table |-> r.table]}
      BY <2>4, <2>8, <3>4
    <3>6. IF ~noticed.discontinuity /\ AlreadyDecoded(noticed, s) THEN r.decoder = noticed /\ r.table = NULL
          ELSE r.table = {s} /\ Has(r.decoder, noticed, new)
      BY <2>2, <3>1, PmtDecoderParts, PmtParts, GatheredOnce
    <3> HIDE DEF r, differs
    <3>7. AlreadyDecoded(noticed, s) <=> DecodedOnce(d, s)
      <4>1. ASSUME d.current_valid PROVE d.current.current_next = s.cn
        <5>1. d.current \in PmtHeaders
          BY <4>1 DEF PmtHandle
        <5> QED
          BY <3>1, <5>1, PmtParts DEF PmtHeaders
      <4> QED
        BY <2>2, <4>1 DEF AlreadyDecoded, DecodedOnce
    <3>8. PmtTold(h, p) <=> ~(~noticed.discontinuity /\ AlreadyDecoded(noticed, s))
      BY <1>3, <2>2, <2>8, <3>7 DEF PmtTold, New, DecodedOnce, AlreadyDecoded
    <3>9. CASE ~PmtTold(h, p)
      <4>1. r.decoder = noticed /\ r.table = NULL
        BY <3>6, <3>8, <3>9
      <4> QED
        BY <2>9, <2>10, <3>5, <3>9, <4>1
    <3>10. CASE PmtTold(h, p)
      <4>1. r.table = {s} /\ Has(r.decoder, noticed, new)
        BY <3>6, <3>8, <3>10 DEF AlreadyDecoded
      <4>2. new = Header(s)
        BY DEF PmtNew
      <4>3. r.decoder = e
        <5> DEFINE g == r.decoder
        <5>1. /\ DOMAIN g = DOMAIN noticed /\ g = [x \in DOMAIN g |-> g[x]] /\ g.discontinuity = FALSE
              /\ g.current_valid = TRUE /\ g.current = new /\ g.building = NULL /\ g.sections = {}
              /\ g.last = 0 /\ g.first = 0 /\ \A x \in DOMAIN noticed \ DecoderFields : g[x] = noticed[x]
          BY <4>1 DEF Has
        <5> HIDE DEF g
        <5>2. DOMAIN noticed = DecoderFields \cup {"program_number"} /\ noticed.program_number = n
          BY <2>2, PmtDecoderParts
        <5>3. g.program_number = n
          BY <5>1, <5>2 DEF DecoderFields
        <5>4. /\ DOMAIN d = DecoderFields \cup {"program_number"} /\ d = [x \in DOMAIN d |-> d[x]]
              /\ d.building = NULL /\ d.sections = {} /\ d.last = 0 /\ d.first = 0 /\ d.program_number = n
          BY <1>1, PmtDecoderParts DEF Idle
        <5> HIDE DEF d
        <5>5. DOMAIN e = DOMAIN g
          BY <5>1, <5>2, <5>4 DEF e
        <5>6. /\ e.discontinuity = FALSE /\ e.current_valid = TRUE /\ e.current = new
              /\ e.building = NULL /\ e.sections = {} /\ e.last = 0 /\ e.first = 0 /\ e.program_number = n
          BY <4>2, <5>4 DEF DecoderFields, e
        <5>7. e = [x \in DOMAIN e |-> e[x]]
          BY <5>4 DEF e
        <5>8. \A x \in DOMAIN g : g[x] = e[x]
          BY <5>1, <5>2, <5>3, <5>6 DEF DecoderFields
        <5>9. g = e
          BY <5>1, <5>5, <5>7, <5>8
        <5> QED
          BY <5>9 DEF g
      <4> QED
        BY <2>9, <2>10, <3>5, <3>10, <4>1, <4>3
    <3> QED
      BY <3>9, <3>10
  <2> QED
    BY <2>6, <2>7, <2>8
<1> QED
  BY <1>2, <1>3

LEMMA PmtAfterParts ==
  ASSUME NEW n, NEW h, PmtHandle(h, n), NEW p, PmtSent(p)
  PROVE  LET g == PmtAfter(h, p) IN
         /\ PmtHandle(g, n) /\ g.counter = p.cc
         /\ PmtTold(h, p) => g.decoder.current_valid = TRUE /\ g.decoder.current.version = p.section.version
         /\ ~PmtTold(h, p) => /\ g.decoder.current_valid = h.decoder.current_valid
                              /\ g.decoder.current = h.decoder.current
<1> DEFINE d == h.decoder
           g == PmtAfter(h, p)
<1>1. h \in [counter : 0..CCs, decoder : PmtDecoders(n)] /\ d \in PmtDecoders(n) /\ p.cc \in 0..CCs
  BY AnalysisAssumption DEF PmtHandle, PmtSent
<1>2. CASE Duplicate(h, p)
  <2>1. g = h /\ ~PmtTold(h, p) /\ h.counter = p.cc
    BY <1>2 DEF PmtAfter, PmtTold, New, Duplicate
  <2> QED
    BY <2>1
<1>3. CASE ~Duplicate(h, p) /\ ~PmtTold(h, p)
  <2> DEFINE e == [d EXCEPT !.discontinuity = Noticed(h, p)]
  <2>1. g = [counter |-> p.cc, decoder |-> e]
    BY <1>3, Zenon DEF PmtAfter
  <2>2. Noticed(h, p) \in BOOLEAN
    BY <1>1, PmtDecoderParts DEF Noticed, Gap
  <2>3. e \in PmtDecoders(n) /\ e.current_valid = d.current_valid /\ e.current = d.current
    BY <1>1, <2>2 DEF PmtDecoders
  <2> HIDE DEF g, e
  <2>4. g.counter = p.cc /\ g.decoder = e /\ g \in [counter : 0..CCs, decoder : PmtDecoders(n)]
    BY <1>1, <2>1, <2>3
  <2> QED
    BY <1>3, <2>3, <2>4 DEF PmtHandle, g
<1>4. CASE ~Duplicate(h, p) /\ PmtTold(h, p)
  <2> DEFINE e == [d EXCEPT !.discontinuity = FALSE, !.current_valid = TRUE, !.current = Header(p.section)]
  <2>1. g = [counter |-> p.cc, decoder |-> e]
    BY <1>4, Zenon DEF PmtAfter
  <2>2. Header(p.section) \in PmtHeaders /\ Header(p.section).version = p.section.version
    <3>1. p.section \in Pmts
      BY <1>4 DEF PmtSent, PmtTold
    <3> QED
      BY <3>1, PmtParts DEF Header, PmtHeaders
  <2> DEFINE new == Header(p.section)
  <2> HIDE DEF new
  <2>3. e \in PmtDecoders(n) /\ e.current_valid = TRUE /\ e.current = new
    BY <1>1, <2>2 DEF PmtDecoders, PmtHeaders, new
  <2> HIDE DEF g, e
  <2>4. g.counter = p.cc /\ g.decoder = e /\ g \in [counter : 0..CCs, decoder : PmtDecoders(n)]
    BY <1>1, <2>1, <2>3
  <2> QED
    BY <1>4, <2>2, <2>3, <2>4 DEF PmtHandle, g, new
<1> QED
  BY <1>2, <1>3, <1>4

\* The handle of the decoder of PATs, before and behind a packet with a PAT.
PatHeaders == [ts_id : Nat, version : Nat, current_next : {TRUE}]
PatHandle(h) ==
  /\ h \in [counter : 0..CCs, decoder : PatDecoders]
  /\ h.decoder.current_valid => h.decoder.current \in PatHeaders

\* Behind a PAT the decoder knows its version and has forgotten about gaps.
PatKnown(g, p) ==
  /\ PatHandle(g) /\ g.counter = p.cc
  /\ g.decoder.discontinuity = FALSE /\ g.decoder.current_valid = TRUE
  /\ g.decoder.current.version = p.section.version

LEMMA PatPushed ==
  ASSUME NEW h, PatHandle(h), NEW p, p.cc \in 0..CCs-1, p.section \in Pats
  PROVE  \E r : /\ PacketPush(h, p, "pat") = {r}
                /\ Duplicate(h, p) => r.handle = h
                /\ ~Duplicate(h, p) => PatKnown(r.handle, p)
                /\ New(h, p) => r.table = {p.section}
                /\ ~New(h, p) => r.table = NULL
<1> DEFINE d == h.decoder
           noticed == [d EXCEPT !.discontinuity = Noticed(h, p)]
           s == p.section
<1>1. h \in [counter : 0..CCs, decoder : PatDecoders] /\ d \in PatDecoders /\ p.cc \in 0..CCs
  BY AnalysisAssumption DEF PatHandle
<1>2. CASE Duplicate(h, p)
  <2> DEFINE r == [handle |-> [h EXCEPT !.counter = p.cc], table |-> NULL]
  <2>1. PacketPush(h, p, "pat") = {r}
    BY <1>2 DEF PacketPush
  <2>2. [h EXCEPT !.counter = p.cc] = h
    BY <1>1, <1>2, DuplicateStays
  <2>3. r.handle = h /\ r.table = NULL
    BY <2>2
  <2> HIDE DEF r
  <2>4. ~New(h, p)
    BY <1>2 DEF New
  <2> QED
    BY <1>2, <2>1, <2>3, <2>4
<1>3. CASE ~Duplicate(h, p)
  <2>1. Noticed(h, p) \in BOOLEAN
    BY <1>1 DEF Noticed, Gap, PatDecoders
  <2>2. noticed \in PatDecoders /\ noticed.discontinuity = Noticed(h, p)
        /\ noticed.current_valid = d.current_valid /\ noticed.current = d.current
    BY <1>1, <2>1 DEF PatDecoders
  <2>3. [h.decoder EXCEPT !.discontinuity = @ \/ Gap(h, p)] = noticed
    BY DEF Noticed
  <2>4. /\ s.id = 0 /\ s.syntax = TRUE /\ s.ext = 1 /\ s.version \in Versions /\ s.cn = TRUE
        /\ s.num = 0 /\ s.last = 0 /\ s # NULL
    BY PatParts
  <2>5. PacketPush(h, p, "pat") = {[handle |-> [counter |-> p.cc, decoder |-> r.decoder], table |-> r.table] :
                                     r \in PatGather(noticed, FALSE, s)}
    BY <1>3, <2>3, <2>4 DEF PacketPush, Gather
  <2> HIDE DEF noticed
  <2> DEFINE differs == CheckPAT(noticed, s)
             new == PatNew(s)
             g == Gathered(noticed, FALSE, noticed.discontinuity, s, new, differs, FALSE)
             r == [handle |-> [counter |-> p.cc, decoder |-> g.decoder], table |-> g.table]
  <2>6. PatGather(noticed, FALSE, s) = {g}
    BY <2>4 DEF PatGather, GatherOwn, CheckPSISection
  <2>7. PacketPush(h, p, "pat") = {r}
    BY <2>5, <2>6
  <2>8. IF ~noticed.discontinuity /\ AlreadyDecoded(noticed, s) THEN g.decoder = noticed /\ g.table = NULL
        ELSE g.table = {s} /\ Has(g.decoder, noticed, new)
    <3>1. Idle(noticed) /\ noticed.discontinuity \in BOOLEAN /\ noticed.current_valid \in BOOLEAN
      BY <2>2 DEF PatDecoders, Idle, DecoderFields
    <3> QED
      BY <2>4, <3>1, GatheredOnce
  <2> HIDE DEF g, differs
  <2>9. AlreadyDecoded(noticed, s) <=> DecodedOnce(d, s)
    <3>1. ASSUME d.current_valid PROVE d.current.current_next = s.cn
      <4>1. d.current \in PatHeaders
        BY <3>1 DEF PatHandle
      <4> QED
        BY <2>4, <4>1 DEF PatHeaders
    <3> QED
      BY <2>2, <3>1 DEF AlreadyDecoded, DecodedOnce
  <2>10. New(h, p) <=> ~(~noticed.discontinuity /\ AlreadyDecoded(noticed, s))
    BY <1>3, <2>2, <2>9 DEF New, DecodedOnce, AlreadyDecoded
  <2>11. r.handle = [counter |-> p.cc, decoder |-> g.decoder] /\ r.table = g.table
    OBVIOUS
  <2> HIDE DEF r
  <2>12. CASE ~New(h, p)
    <3>1. g.decoder = noticed /\ g.table = NULL /\ ~noticed.discontinuity /\ AlreadyDecoded(noticed, s)
      BY <2>8, <2>10, <2>12
    <3>2. noticed.discontinuity = FALSE /\ d.current_valid = TRUE /\ d.current.version = s.version
      BY <1>1, <2>1, <2>2, <3>1 DEF AlreadyDecoded, PatDecoders
    <3>3. /\ r.handle.counter = p.cc /\ r.handle.decoder = noticed
          /\ r.handle \in [counter : 0..CCs, decoder : PatDecoders]
      BY <1>1, <2>2, <2>11, <3>1
    <3>4. PatKnown(r.handle, p)
      BY <2>2, <3>2, <3>3 DEF PatKnown, PatHandle
    <3> QED
      BY <1>3, <2>7, <2>11, <2>12, <3>1, <3>4
  <2>13. CASE New(h, p)
    <3> DEFINE e == g.decoder
    <3>1. g.table = {s} /\ Has(e, noticed, new)
      BY <2>8, <2>10, <2>13 DEF AlreadyDecoded
    <3>2. new \in PatHeaders /\ new.version = s.version
      <4>1. 1 \in Nat /\ Versions \subseteq Nat
        BY DEF Versions
      <4> QED
        BY <2>4, <4>1 DEF PatNew, PatHeaders
    <3> HIDE DEF new, e
    <3>3. DOMAIN noticed = DecoderFields
      BY <2>2 DEF PatDecoders, DecoderFields
    <3>4. /\ DOMAIN e = DecoderFields /\ e = [x \in DOMAIN e |-> e[x]] /\ e.discontinuity = FALSE
          /\ e.current_valid = TRUE /\ e.current = new /\ e.building = NULL /\ e.sections = {}
          /\ e.last = 0 /\ e.first = 0
      BY <3>1, <3>3 DEF Has
    <3>5. e = [discontinuity |-> FALSE, current_valid |-> TRUE, current |-> new,
               building |-> NULL, sections |-> {}, last |-> 0, first |-> 0]
      BY <3>4 DEF DecoderFields
    <3>6. e \in PatDecoders
      BY <3>2, <3>5 DEF PatDecoders, PatHeaders
    <3>7. r.handle.counter = p.cc /\ r.handle.decoder = e /\ r.handle \in [counter : 0..CCs, decoder : PatDecoders]
      BY <1>1, <2>11, <3>6 DEF e
    <3>8. PatKnown(r.handle, p)
      BY <3>2, <3>4, <3>7 DEF PatKnown, PatHandle
    <3> QED
      BY <1>3, <2>7, <2>11, <2>13, <3>1, <3>8
  <2> QED
    BY <2>12, <2>13
<1> QED
  BY <1>2, <1>3
----------------------------------------------------------------------------
(* The entries of the programs, and a packet for some of them.             *)

LEMMA SeqMade ==
  ASSUME NEW T, NEW n \in Nat, NEW t \in [1..n -> T]
  PROVE  t \in Seq(T) /\ Len(t) = n
OBVIOUS

\* A sequence of which an element is replaced.
Replaced(t, q, k, e) ==
  /\ DOMAIN t = DOMAIN q /\ t = [x \in DOMAIN t |-> t[x]]
  /\ t[k] = e /\ \A i \in DOMAIN q : i # k => t[i] = q[i]

LEMMA ExceptReplaces ==
  ASSUME NEW q, NEW k \in DOMAIN q, NEW e
  PROVE  Replaced([q EXCEPT ![k] = e], q, k, e)
BY DEF Replaced

LEMMA SeqReplaced ==
  ASSUME NEW q, IsSeq(q), NEW k \in 1..Len(q), NEW e, NEW t, Replaced(t, q, k, e)
  PROVE  IsSeq(t) /\ Len(t) = Len(q) /\ t[k] = e /\ \A i \in 1..Len(q) : i # k => t[i] = q[i]
<1>1. PICK S : q \in Seq(S)
  BY DEF IsSeq
<1> DEFINE T == S \cup {e}
<1>2. Len(q) \in Nat /\ DOMAIN q = 1..Len(q) /\ \A i \in 1..Len(q) : q[i] \in S
  BY <1>1
<1>3. t \in [1..Len(q) -> T] /\ t[k] = e /\ \A i \in 1..Len(q) : i # k => t[i] = q[i]
  BY <1>2 DEF Replaced
<1> HIDE DEF T
<1>4. t \in Seq(T) /\ Len(t) = Len(q)
  BY <1>2, <1>3, SeqMade
<1> QED
  BY <1>3, <1>4 DEF IsSeq

\* The list of the decoders of PMTs.
EntryFields == {"number", "pid", "version", "handle"}
EntryOK(e) ==
  /\ DOMAIN e = EntryFields /\ e.number \in Programs /\ e.pid \in PmtPids /\ e.version \in Versions
  /\ PmtHandle(e.handle, e.number)

PmtsOK(s) == IsSeq(s.pmt) /\ \A i \in 1..Len(s.pmt) : EntryOK(s.pmt[i])

\* No entry has changed its program or its place.
SameNumbers(s, t) ==
  /\ IsSeq(s.pmt) /\ IsSeq(t.pmt) /\ Len(s.pmt) = Len(t.pmt)
  /\ \A i \in 1..Len(t.pmt) : s.pmt[i].number = t.pmt[i].number

LEMMA SameFound ==
  ASSUME NEW s, NEW t, SameNumbers(s, t), NEW n
  PROVE  Entries(s, n) = Entries(t, n) /\ Found(s, n) = Found(t, n)
<1>1. DOMAIN s.pmt = 1..Len(t.pmt) /\ DOMAIN t.pmt = 1..Len(t.pmt)
  BY SeqParts DEF SameNumbers
<1>2. Entries(s, n) = Entries(t, n)
  BY <1>1 DEF Entries, SameNumbers
<1> QED
  BY <1>2 DEF Found

LEMMA FoundFirst ==
  ASSUME NEW s, IsSeq(s.pmt), NEW n, Entries(s, n) # {}
  PROVE  /\ Found(s, n) \in 1..Len(s.pmt) /\ s.pmt[Found(s, n)].number = n
         /\ \A i \in 1..Len(s.pmt) : s.pmt[i].number = n => Found(s, n) <= i
<1>1. Len(s.pmt) \in Nat /\ DOMAIN s.pmt = 1..Len(s.pmt)
  BY SeqParts
<1>2. Entries(s, n) \subseteq Nat
  BY <1>1 DEF Entries
<1>3. Found(s, n) \in Entries(s, n) /\ \A j \in Entries(s, n) : Found(s, n) <= j
  BY <1>2, LeastNumber DEF Found
<1> QED
  BY <1>1, <1>3 DEF Entries

\* What has become of entry f when the decoders up to k have had the packet p.
PushedEntry(e, f, p, i, k, found) ==
  /\ DOMAIN e = EntryFields /\ e.number = f.number /\ e.pid = f.pid
  /\ e.handle = IF i <= k /\ f.pid = p.pid THEN PmtAfter(f.handle, p) ELSE f.handle
  /\ \/ e.version = f.version
     \/ p.section \in Pmts /\ i = found /\ f.number = p.section.ext /\ e.version = p.section.version
  /\ i = found /\ i <= k /\ f.pid = p.pid /\ PmtTold(f.handle, p) => e.version = p.section.version

\* The first k entries have had the packet.
PushedUpTo(u, t, p, k) ==
  /\ DOMAIN u = LoopFields /\ DOMAIN u.stream = StreamFields
  /\ u.aborted = t.aborted /\ u.known = t.known
  /\ u.stream.handle = t.stream.handle /\ u.stream.leaked = t.stream.leaked
  /\ IsSeq(u.stream.pmt) /\ Len(u.stream.pmt) = Len(t.stream.pmt)
  /\ \A i \in 1..Len(t.stream.pmt) :
       PushedEntry(u.stream.pmt[i], t.stream.pmt[i], p, i, k, Found(t.stream, p.section.ext))

LEMMA PushedNext ==
  ASSUME NEW t, PmtsOK(t.stream), NEW p, PmtSent(p), NEW k \in 1..Len(t.stream.pmt),
         NEW u, PushedUpTo(u, t, p, k - 1)
  PROVE  PushedUpTo(PmtPush(u, k, p), t, p, k)
<1> DEFINE K == Len(t.stream.pmt)
           q == u.stream.pmt
           f == t.stream.pmt[k]
           found == Found(t.stream, p.section.ext)
           E(e, i, m) == PushedEntry(e, t.stream.pmt[i], p, i, m, found)
<1>1. /\ K \in Nat /\ IsSeq(q) /\ Len(q) = K /\ k \in 1..K /\ EntryOK(f)
      /\ \A i \in 1..K : E(q[i], i, k - 1)
  BY SeqParts DEF PushedUpTo, PmtsOK
<1>2. ASSUME NEW i \in 1..K, i # k PROVE E(q[i], i, k)
  <2>1. i <= k <=> i <= k - 1
    BY <1>1, <1>2
  <2>2. E(q[i], i, k - 1)
    BY <1>1
  <2> QED
    BY <2>1, <2>2 DEF PushedEntry
<1>3. DOMAIN q[k] = EntryFields /\ q[k].number = f.number /\ q[k].pid = f.pid /\ q[k].handle = f.handle
      /\ (q[k].version = f.version \/ (/\ p.section \in Pmts /\ k = found /\ f.number = p.section.ext
                                         /\ q[k].version = p.section.version))
  <2>1. E(q[k], k, k - 1) /\ ~(k <= k - 1)
    BY <1>1
  <2> QED
    BY <2>1 DEF PushedEntry
<1>4. CASE f.pid # p.pid
  <2>1. PmtPush(u, k, p) = u
    BY <1>3, <1>4 DEF PmtPush
  <2>2. E(q[k], k, k)
    BY <1>3, <1>4 DEF PushedEntry
  <2> QED
    BY <1>1, <1>2, <2>1, <2>2 DEF PushedUpTo
<1>5. CASE f.pid = p.pid
  <2> DEFINE h == PmtAfter(f.handle, p)
             table == IF PmtTold(f.handle, p) THEN {p.section} ELSE NULL
             r == [handle |-> h, table |-> table]
             e1 == [q[k] EXCEPT !.handle = h]
             q1 == [q EXCEPT ![k] = e1]
             s1 == [u.stream EXCEPT !.pmt = q1]
             u1 == [u EXCEPT !.stream = s1]
  <2>1. PmtPush(u, k, p) = ShowPmt(u, k, p, r)
    <3>1. PacketPush(q[k].handle, p, "pmt") = {r}
      BY <1>1, <1>3, PmtPushed DEF EntryOK
    <3>2. PmtPush(u, k, p) = Only({ShowPmt(u, k, p, r)})
      BY <1>3, <1>5, <3>1 DEF PmtPush
    <3> HIDE DEF r
    <3> QED
      BY <3>2 DEF Only
  <2>2. r.handle = h /\ r.table = table
    OBVIOUS
  <2>3. [u EXCEPT !.stream.pmt[k].handle = r.handle] = u1
    BY <2>2
  <2> HIDE DEF r, table, h
  <2>4. /\ DOMAIN e1 = EntryFields /\ e1.number = f.number /\ e1.pid = f.pid /\ e1.handle = h
        /\ e1.version = q[k].version
    BY <1>3 DEF EntryFields
  <2> HIDE DEF e1
  <2>5. IsSeq(q1) /\ Len(q1) = K /\ q1[k] = e1 /\ \A i \in 1..K : i # k => q1[i] = q[i]
    <3>1. k \in 1..Len(q) /\ Len(q) = K /\ IsSeq(q)
      BY <1>1
    <3> HIDE DEF q, e1
    <3>2. Replaced(q1, q, k, e1)
      BY <3>1, ExceptReplaces, SeqParts
    <3> HIDE DEF K, E, q1
    <3> QED
      BY <3>1, <3>2, SeqReplaced
  <2> HIDE DEF q1
  <2>6. /\ DOMAIN s1 = StreamFields /\ s1.pmt = q1 /\ s1.handle = t.stream.handle
        /\ s1.leaked = t.stream.leaked
    BY DEF PushedUpTo, StreamFields
  <2> HIDE DEF s1
  <2>7. DOMAIN u1 = LoopFields /\ u1.stream = s1 /\ u1.aborted = t.aborted /\ u1.known = t.known
    BY DEF PushedUpTo, LoopFields
  <2> HIDE DEF u1
  <2>8. CASE ~PmtTold(f.handle, p)
    <3>1. table = NULL
      BY <2>8, Zenon DEF table
    <3>2. PmtPush(u, k, p) = u1
      BY <2>1, <2>2, <2>3, <3>1 DEF ShowPmt
    <3>3. E(q1[k], k, k)
      BY <1>3, <1>5, <2>4, <2>5, <2>8 DEF PushedEntry, h
    <3>4. ASSUME NEW i \in 1..K PROVE E(q1[i], i, k)
      BY <1>2, <2>5, <3>3
    <3> QED
      BY <2>5, <2>6, <2>7, <3>2, <3>4 DEF PushedUpTo
  <2>9. CASE PmtTold(f.handle, p)
    <3>1. table = {p.section} /\ p.section \in Pmts
      BY <2>9, Zenon DEF table, PmtTold, PmtSent
    <3> DEFINE n == p.section.ext
               v == p.section.version
    <3>2. table # NULL /\ f.number = n
      <4>1. f.handle.decoder.program_number = n
        BY <2>9 DEF PmtTold
      <4>2. f.handle.decoder \in PmtDecoders(f.number)
        BY <1>1 DEF EntryOK, PmtHandle
      <4>3. f.handle.decoder.program_number = f.number
        BY <4>2, PmtDecoderParts
      <4> QED
        BY <3>1, <4>1, <4>3, PmtParts
    <3>3. SameNumbers(u.stream, t.stream) /\ SameNumbers(s1, t.stream)
      <4>1. \A i \in 1..K : q[i].number = t.stream.pmt[i].number
        BY <1>1 DEF PushedEntry
      <4>2. \A i \in 1..K : q1[i].number = t.stream.pmt[i].number
        BY <2>4, <2>5, <4>1
      <4>3. IsSeq(t.stream.pmt)
        BY DEF PmtsOK
      <4> QED
        BY <1>1, <2>5, <2>6, <4>1, <4>2, <4>3 DEF SameNumbers
    <3>4. k \in Entries(t.stream, n)
      <4>1. DOMAIN t.stream.pmt = 1..K
        BY SeqParts DEF PmtsOK
      <4> QED
        BY <1>1, <3>2, <4>1 DEF Entries
    <3>5. Entries(u.stream, n) # {} /\ Found(s1, n) = found
      BY <3>3, <3>4, SameFound
    <3>6. found \in 1..K /\ t.stream.pmt[found].number = n
      BY <3>4, FoundFirst DEF PmtsOK
    <3> DEFINE s2 == handle_PMT(s1, n, v, Contents(r.table))
               u2 == [u1 EXCEPT !.stream = s2]
               e2 == [q1[found] EXCEPT !.version = v]
               q2 == [q1 EXCEPT ![found] = e2]
    <3>7. PmtPush(u, k, p) = u2
      <4>1. q[k].number = n
        BY <1>3, <3>2
      <4> HIDE DEF n, v, s2, u2
      <4>2. ShowPmt(u, k, p, r) = [u1 EXCEPT !.stream = handle_PMT(u1.stream, n, p.section.version, Contents(r.table))]
        BY <2>2, <2>3, <3>2, <3>5, <4>1 DEF ShowPmt
      <4> QED
        BY <2>1, <2>7, <4>2 DEF v, s2, u2
    <3>8. /\ DOMAIN q1[found] = EntryFields /\ q1[found].number = t.stream.pmt[found].number
          /\ q1[found].pid = t.stream.pmt[found].pid
      BY <1>1, <1>3, <2>4, <2>5, <3>6 DEF PushedEntry
    <3>9. /\ DOMAIN e2 = EntryFields /\ e2.number = q1[found].number /\ e2.pid = q1[found].pid
          /\ e2.handle = q1[found].handle /\ e2.version = v
      BY <3>8 DEF EntryFields
    <3> HIDE DEF e2
    <3>10. IsSeq(q2) /\ Len(q2) = K /\ q2[found] = e2 /\ \A i \in 1..K : i # found => q2[i] = q1[i]
      <4>1. found \in 1..Len(q1)
        BY <2>5, <3>6
      <4> HIDE DEF found, K
      <4>2. Replaced(q2, q1, found, e2)
        BY <2>5, <4>1, ExceptReplaces, SeqParts
      <4> HIDE DEF q2
      <4> QED
        BY <2>5, <4>1, <4>2, SeqReplaced
    <3>11. s2 = [[s1 EXCEPT !.pmt = q2] EXCEPT !.clocks = @ \cup {Contents(r.table)}]
      <4>1. s1.pmt = q1
        BY <2>6
      <4>2. [s1 EXCEPT !.pmt[found].version = v] = [s1 EXCEPT !.pmt = q2]
        BY <2>6, <4>1 DEF e2
      <4> HIDE DEF q2, v, found
      <4> QED
        BY <2>6, <3>5, <4>2 DEF handle_PMT, StreamFields
    <3> HIDE DEF q2, s2
    <3>12. /\ DOMAIN s2 = StreamFields /\ s2.pmt = q2 /\ s2.handle = t.stream.handle
           /\ s2.leaked = t.stream.leaked
      BY <2>6, <3>11 DEF StreamFields
    <3>13. DOMAIN u2 = LoopFields /\ u2.stream = s2 /\ u2.aborted = t.aborted /\ u2.known = t.known
      BY <2>7 DEF LoopFields
    <3> HIDE DEF u2
    <3>14. ASSUME NEW i \in 1..K, i # found PROVE E(q2[i], i, k)
      <4>1. CASE i = k
        BY <1>3, <1>5, <2>4, <2>5, <3>10, <3>14, <4>1 DEF PushedEntry, h
      <4>2. CASE i # k
        BY <1>2, <2>5, <3>10, <3>14, <4>2
      <4> QED
        BY <4>1, <4>2
    <3>15. E(q2[found], found, k)
      <4>1. CASE found = k
        BY <1>3, <1>5, <2>4, <2>5, <3>1, <3>2, <3>6, <3>9, <3>10, <4>1 DEF PushedEntry, h
      <4>2. CASE found # k
        <5>1. E(q[found], found, k) /\ q1[found] = q[found]
          BY <1>2, <2>5, <3>6, <4>2
        <5> QED
          BY <3>1, <3>6, <3>9, <3>10, <5>1 DEF PushedEntry
      <4> QED
        BY <4>1, <4>2
    <3>16. \A i \in 1..K : E(q2[i], i, k)
      BY <3>14, <3>15
    <3> QED
      BY <3>7, <3>10, <3>12, <3>13, <3>16 DEF PushedUpTo
  <2> QED
    BY <2>8, <2>9
<1> QED
  BY <1>4, <1>5

LEMMA PushedNone ==
  ASSUME NEW t, Kept(t, t), PmtsOK(t.stream), NEW p
  PROVE  PushedUpTo(t, t, p, 0)
<1>1. ASSUME NEW i \in 1..Len(t.stream.pmt)
      PROVE  PushedEntry(t.stream.pmt[i], t.stream.pmt[i], p, i, 0, Found(t.stream, p.section.ext))
  <2>1. ~(i <= 0)
    OBVIOUS
  <2>2. EntryOK(t.stream.pmt[i])
    BY DEF PmtsOK
  <2> QED
    BY <2>1, <2>2 DEF PushedEntry, EntryOK
<1> QED
  BY <1>1 DEF PushedUpTo, Kept, StreamKept

LEMMA PushesUpTo ==
  ASSUME NEW t, Kept(t, t), PmtsOK(t.stream), NEW p, PmtSent(p)
  PROVE  PushedUpTo(PushToPmts(t, p), t, p, Len(t.stream.pmt))
<1> DEFINE K == Len(t.stream.pmt)
           upTo == CHOOSE g : g = [i \in 0..K |-> IF i = 0 THEN t ELSE PmtPush(g[i-1], i, p)]
<1>1. K \in Nat
  BY SeqParts DEF Kept, StreamKept
<1>2. PushToPmts(t, p) = upTo[K]
  BY DEF PushToPmts, PmtPush
<1>3. PushedTo(upTo, t, p, K)
  <2> HIDE DEF K
  <2>1. PICK f : PushedTo(f, t, p, K)
    BY <1>1, PushesExist
  <2>2. f = [i \in 0..K |-> IF i = 0 THEN t ELSE PmtPush(f[i-1], i, p)]
    BY <2>1 DEF PushedTo
  <2>3. upTo = [i \in 0..K |-> IF i = 0 THEN t ELSE PmtPush(upTo[i-1], i, p)]
    BY <2>2
  <2> HIDE DEF upTo
  <2> QED
    BY <2>3 DEF PushedTo
<1> HIDE DEF upTo
<1> DEFINE T == {i \in 0..K : PushedUpTo(upTo[i], t, p, i)}
<1>4. \A i \in 0..K : upTo[i] = IF i = 0 THEN t ELSE PmtPush(upTo[i-1], i, p)
  BY <1>3 DEF PushedTo
<1>5. 0 \in T
  <2>1. upTo[0] = t /\ 0 \in 0..K
    BY <1>1, <1>4
  <2> QED
    BY <2>1, PushedNone
<1>6. ASSUME NEW i \in 1..K, i - 1 \in T PROVE i \in T
  <2>1. PushedUpTo(PmtPush(upTo[i-1], i, p), t, p, i)
    BY <1>6, PushedNext
  <2>2. upTo[i] = PmtPush(upTo[i-1], i, p)
    BY <1>1, <1>4
  <2> QED
    BY <2>1, <2>2
<1> HIDE DEF T, K
<1>7. 0..K \subseteq T
  BY <1>1, <1>5, <1>6, IntervalInduction
<1>8. K \in T
  BY <1>1, <1>7
<1> QED
  BY <1>2, <1>8 DEF T, K

\* A counter of an entry is that of its PID, unless no packet has come since it was made.
CountersOK(s, pids) ==
  \A i \in 1..Len(s.pmt) :
    LET h == s.pmt[i].handle IN
    h.counter = CCs \/ (pids[s.pmt[i].pid].seen /\ h.counter = pids[s.pmt[i].pid].cc)

\* All decoders have had the packet.
LEMMA PushedParts ==
  ASSUME NEW t, PmtsOK(t.stream), NEW p, PmtSent(p), NEW u, PushedUpTo(u, t, p, Len(t.stream.pmt))
  PROVE  /\ PmtsOK(u.stream) /\ SameNumbers(u.stream, t.stream)
         /\ \A i \in 1..Len(t.stream.pmt) :
              LET e == u.stream.pmt[i]
                  f == t.stream.pmt[i]
              IN /\ e.pid = f.pid
                 /\ f.pid # p.pid => e.handle = f.handle
                 /\ f.pid = p.pid => e.handle = PmtAfter(f.handle, p) /\ e.handle.counter = p.cc
<1> DEFINE K == Len(t.stream.pmt)
           E(i) == u.stream.pmt[i]
           F(i) == t.stream.pmt[i]
<1>1. IsSeq(u.stream.pmt) /\ Len(u.stream.pmt) = K /\ K \in Nat /\ IsSeq(t.stream.pmt)
  BY SeqParts DEF PushedUpTo, PmtsOK
<1>2. ASSUME NEW i \in 1..K
      PROVE  /\ EntryOK(E(i)) /\ E(i).number = F(i).number /\ E(i).pid = F(i).pid
             /\ F(i).pid # p.pid => E(i).handle = F(i).handle
             /\ F(i).pid = p.pid => E(i).handle = PmtAfter(F(i).handle, p) /\ E(i).handle.counter = p.cc
  <2> DEFINE e == E(i)
             f == F(i)
             found == Found(t.stream, p.section.ext)
  <2>1. EntryOK(f) /\ PushedEntry(e, f, p, i, K, found) /\ i <= K
    BY <1>1 DEF PmtsOK, PushedUpTo
  <2> HIDE DEF e, f, found, K
  <2>2. /\ DOMAIN e = EntryFields /\ e.number = f.number /\ e.pid = f.pid
        /\ e.handle = IF f.pid = p.pid THEN PmtAfter(f.handle, p) ELSE f.handle
        /\ e.version = f.version \/ (p.section \in Pmts /\ e.version = p.section.version)
    BY <2>1 DEF PushedEntry
  <2>3. e.version \in Versions
    BY <2>1, <2>2, PmtParts DEF EntryOK
  <2>4. PmtHandle(PmtAfter(f.handle, p), f.number) /\ PmtAfter(f.handle, p).counter = p.cc
    <3> DEFINE h == f.handle
               n == f.number
    <3>1. PmtHandle(h, n)
      BY <2>1 DEF EntryOK
    <3> HIDE DEF h, n
    <3>2. PmtHandle(PmtAfter(h, p), n) /\ PmtAfter(h, p).counter = p.cc
      BY <3>1, PmtAfterParts
    <3> QED
      BY <3>2 DEF h, n
  <2>5. EntryOK(e)
    BY <2>1, <2>2, <2>3, <2>4 DEF EntryOK
  <2>6. /\ f.pid # p.pid => e.handle = f.handle
        /\ f.pid = p.pid => e.handle = PmtAfter(f.handle, p) /\ e.handle.counter = p.cc
    BY <2>2, <2>4
  <2> QED
    BY <2>2, <2>5, <2>6 DEF e, f
<1> HIDE DEF E, F, K
<1>3. PmtsOK(u.stream) /\ SameNumbers(u.stream, t.stream)
  BY <1>1, <1>2 DEF PmtsOK, SameNumbers, E, F, K
<1> QED
  BY <1>2, <1>3 DEF E, F, K

----------------------------------------------------------------------------
(* What is known of the programs.                                          *)

\* The decoder that the last PAT gives a program has the last PMT read where that PAT says.
Knows(s, known) ==
  \A n \in Programs \ known.misfiled :
    known.announced[n] # NULL =>
      /\ Entries(s, n) # {}
      /\ LET e == s.pmt[Found(s, n)]
             d == e.handle.decoder
         IN /\ e.pid = known.announced[n]
            /\ d.current_valid => e.version = known.heard[n] /\ d.current.version = known.heard[n]
            /\ known.heard[n] # NULL => d.current_valid

\* What a record of what was shown may hold.
KnownOK(known) ==
  /\ DOMAIN known = {"announced", "heard", "misfiled"}
  /\ DOMAIN known.heard = Programs /\ known.misfiled \subseteq Programs

\* The packet is a PMT and has been heard, or it is none.
HeardAs(known, p) ==
  IsPmt(p) =>
    LET n == p.section.ext IN
    n \in known.misfiled \/ (known.announced[n] = p.pid /\ known.heard[n] = p.section.version)

LEMMA HearParts ==
  ASSUME NEW k, KnownOK(k), NEW p, IsPmt(p) => p.section.ext \in Programs
  PROVE  LET h == Hear(k, p) IN
         /\ KnownOK(h) /\ h.announced = k.announced /\ HeardAs(h, p)
         /\ ~IsPmt(p) => h = k
         /\ IsPmt(p) => /\ p.pid = k.announced[p.section.ext] =>
                             /\ h.misfiled = k.misfiled /\ h.heard[p.section.ext] = p.section.version
                             /\ \A n \in Programs : n # p.section.ext => h.heard[n] = k.heard[n]
                        /\ p.pid # k.announced[p.section.ext] =>
                             h.misfiled = k.misfiled \cup {p.section.ext} /\ h.heard = k.heard
<1> DEFINE n == p.section.ext
           v == p.section.version
           h == Hear(k, p)
<1>1. CASE ~IsPmt(p)
  BY <1>1 DEF Hear, HeardAs
<1>2. CASE IsPmt(p) /\ p.pid = k.announced[n]
  <2> DEFINE q == [k.heard EXCEPT ![n] = v]
  <2>1. n \in Programs
    BY <1>2
  <2> HIDE DEF n, v
  <2>2. h = [k EXCEPT !.heard = q]
    BY <1>2 DEF Hear, n, v
  <2>3. DOMAIN q = Programs /\ q[n] = v /\ \A m \in Programs : m # n => q[m] = k.heard[m]
    BY <2>1 DEF KnownOK
  <2> HIDE DEF q, h
  <2>4. DOMAIN h = {"announced", "heard", "misfiled"} /\ h.heard = q /\ h.announced = k.announced
        /\ h.misfiled = k.misfiled
    BY <2>2 DEF KnownOK
  <2>5. KnownOK(h)
    BY <2>3, <2>4 DEF KnownOK
  <2>6. HeardAs(h, p)
    BY <1>2, <2>3, <2>4 DEF HeardAs, n, v
  <2> QED
    BY <1>2, <2>3, <2>4, <2>5, <2>6 DEF n, v, h
<1>3. CASE IsPmt(p) /\ p.pid # k.announced[n]
  <2>1. n \in Programs
    BY <1>3
  <2>2. h = [k EXCEPT !.misfiled = k.misfiled \cup {n}]
    BY <1>3 DEF Hear
  <2> HIDE DEF n, h
  <2>3. DOMAIN h = {"announced", "heard", "misfiled"} /\ h.heard = k.heard /\ h.announced = k.announced
        /\ h.misfiled = k.misfiled \cup {n}
    BY <2>2 DEF KnownOK
  <2>4. KnownOK(h)
    BY <2>1, <2>3 DEF KnownOK
  <2>5. HeardAs(h, p)
    BY <2>3 DEF HeardAs, n
  <2> QED
    BY <1>3, <2>3, <2>4, <2>5 DEF n, h
<1> QED
  BY <1>1, <1>2, <1>3

LEMMA PushedKnows ==
  ASSUME NEW t, PmtsOK(t.stream), CountersOK(t.stream, t.stream.pid), KnownOK(t.known),
         Knows(t.stream, t.known), NEW p, PmtSent(p), NEW u, PushedUpTo(u, t, p, Len(t.stream.pmt)),
         (t.stream.pid[p.pid].seen => t.stream.pid[p.pid].cc # p.cc) \/ HeardAs(t.known, p)
  PROVE  Knows(u.stream, Hear(t.known, p))
<1> DEFINE K == Len(t.stream.pmt)
           k == t.known
           h == Hear(k, p)
           s == p.section
<1>1. IsPmt(p) <=> s \in Pmts
  <2>1. s = NULL \/ s \in Pmts
    BY DEF PmtSent
  <2> QED
    BY <2>1, PmtParts DEF IsPmt
<1>2. IsPmt(p) => s.ext \in Programs
  BY <1>1, PmtParts
<1>3. /\ h.announced = k.announced
      /\ ~IsPmt(p) => h = k
      /\ IsPmt(p) => /\ p.pid = k.announced[s.ext] =>
                           /\ h.misfiled = k.misfiled /\ h.heard[s.ext] = s.version
                           /\ \A n \in Programs : n # s.ext => h.heard[n] = k.heard[n]
                     /\ p.pid # k.announced[s.ext] =>
                           h.misfiled = k.misfiled \cup {s.ext} /\ h.heard = k.heard
  BY <1>2, HearParts
<1>4. IsSeq(t.stream.pmt) /\ SameNumbers(u.stream, t.stream)
  BY PushedParts DEF PmtsOK
<1> HIDE DEF k, h, K, s
<1>5. ASSUME NEW n \in Programs \ h.misfiled, h.announced[n] # NULL
      PROVE  /\ Entries(u.stream, n) # {}
             /\ LET e == u.stream.pmt[Found(u.stream, n)]
                    d == e.handle.decoder
                IN /\ e.pid = h.announced[n]
                   /\ d.current_valid => e.version = h.heard[n] /\ d.current.version = h.heard[n]
                   /\ h.heard[n] # NULL => d.current_valid
  <2> DEFINE i == Found(t.stream, n)
             f == t.stream.pmt[i]
             e == u.stream.pmt[i]
             d == f.handle.decoder
             g == e.handle.decoder
             found == Found(t.stream, s.ext)
  <2>1. n \in Programs /\ n \notin k.misfiled /\ k.announced[n] # NULL
    BY <1>3, <1>5
  <2>2. /\ Entries(t.stream, n) # {} /\ f.pid = k.announced[n]
        /\ d.current_valid => f.version = k.heard[n] /\ d.current.version = k.heard[n]
        /\ k.heard[n] # NULL => d.current_valid
    BY <2>1 DEF Knows, k
  <2>3. Entries(u.stream, n) = Entries(t.stream, n) /\ Found(u.stream, n) = i
    BY <1>4, SameFound
  <2>4. i \in 1..K /\ f.number = n
    BY <1>4, <2>2, FoundFirst DEF K
  <2> HIDE DEF i
  <2>5. EntryOK(f) /\ PushedEntry(e, f, p, i, K, found)
    BY <2>4 DEF PmtsOK, PushedUpTo, K, s
  <2>6. i <= K
    BY <1>4, <2>4, SeqParts DEF K
  <2>7. f.handle.counter = CCs \/ (t.stream.pid[f.pid].seen /\ f.handle.counter = t.stream.pid[f.pid].cc)
    BY <2>4 DEF CountersOK, K
  <2> HIDE DEF f, e
  <2>8. /\ e.pid = f.pid
        /\ e.handle = IF f.pid = p.pid THEN PmtAfter(f.handle, p) ELSE f.handle
        /\ e.version = f.version \/ (s \in Pmts /\ f.number = s.ext /\ e.version = s.version)
        /\ i = found /\ f.pid = p.pid /\ PmtTold(f.handle, p) => e.version = s.version
    BY <2>5, <2>6 DEF PushedEntry, s
  <2> DEFINE a == PmtAfter(f.handle, p).decoder
  <2>9. /\ PmtTold(f.handle, p) => a.current_valid = TRUE /\ a.current.version = s.version
        /\ ~PmtTold(f.handle, p) => a.current_valid = d.current_valid /\ a.current = d.current
    <3> DEFINE hd == f.handle
    <3>1. PmtHandle(hd, n)
      BY <2>4, <2>5 DEF EntryOK
    <3> HIDE DEF hd
    <3>2. LET x == PmtAfter(hd, p) IN
          /\ PmtHandle(x, n) /\ x.counter = p.cc
          /\ PmtTold(hd, p) => x.decoder.current_valid = TRUE /\ x.decoder.current.version = p.section.version
          /\ ~PmtTold(hd, p) => /\ x.decoder.current_valid = hd.decoder.current_valid
                               /\ x.decoder.current = hd.decoder.current
      BY <3>1, PmtAfterParts
    <3> DEFINE x == PmtAfter(hd, p)
    <3> HIDE DEF x
    <3>3. /\ PmtTold(hd, p) => x.decoder.current_valid = TRUE /\ x.decoder.current.version = s.version
          /\ ~PmtTold(hd, p) => /\ x.decoder.current_valid = hd.decoder.current_valid
                               /\ x.decoder.current = hd.decoder.current
      BY <3>2 DEF x, s
    <3> QED
      BY <3>3 DEF hd, x
  <2>10. d.program_number = n /\ f.handle.counter \in 0..CCs /\ d.current_valid \in BOOLEAN
    <3>1. d \in PmtDecoders(n) /\ f.handle.counter \in 0..CCs
      BY <2>4, <2>5 DEF EntryOK, PmtHandle
    <3> HIDE DEF d
    <3> QED
      BY <3>1, PmtDecoderParts
  <2>11. PmtTold(f.handle, p) => IsPmt(p) /\ s.ext = n
    BY <1>1, <2>10 DEF PmtTold, PmtSent, s
  <2> DEFINE Goal == /\ e.pid = h.announced[n]
                     /\ g.current_valid => e.version = h.heard[n] /\ g.current.version = h.heard[n]
                     /\ h.heard[n] # NULL => g.current_valid
  <2>12. e.pid = h.announced[n]
    BY <1>3, <2>2, <2>8
  <2> HIDE DEF a
  <2>13. g = IF f.pid = p.pid THEN a ELSE d
    BY <2>8 DEF a
  <2> HIDE DEF g, d
  <2>14. ASSUME ~(IsPmt(p) /\ s.ext = n) PROVE Goal
    <3>1. h.heard[n] = k.heard[n]
      BY <1>3, <2>1, <2>14
    <3>2. e.version = f.version
      BY <1>1, <2>4, <2>8, <2>14
    <3>3. g.current_valid = d.current_valid /\ g.current = d.current
      BY <2>9, <2>11, <2>13, <2>14
    <3> QED
      BY <2>2, <2>12, <3>1, <3>2, <3>3
  <2>15. ASSUME IsPmt(p), s.ext = n PROVE Goal
    <3>1. p.pid = k.announced[n] /\ h.misfiled = k.misfiled /\ h.heard[n] = s.version
      BY <1>3, <1>5, <2>15
    <3>2. f.pid = p.pid /\ i = found /\ g = a
      BY <2>2, <2>13, <2>15, <3>1 DEF i
    <3>3. CASE PmtTold(f.handle, p)
      BY <2>8, <2>9, <2>12, <3>1, <3>2, <3>3
    <3>4. CASE ~PmtTold(f.handle, p) /\ ~Duplicate(f.handle, p)
      <4>1. s # NULL /\ DecodedOnce(d, s)
        BY <2>10, <2>15, <3>4 DEF PmtTold, New, IsPmt, s, d
      <4>2. d.current_valid /\ d.current.version = s.version /\ f.version = s.version
        BY <2>2, <4>1 DEF DecodedOnce
      <4>3. e.version = s.version
        BY <2>8, <4>2
      <4> QED
        BY <2>9, <2>12, <3>1, <3>2, <3>4, <4>2, <4>3
    <3>5. CASE ~PmtTold(f.handle, p) /\ Duplicate(f.handle, p)
      <4>1. f.handle.counter = p.cc /\ p.cc # CCs
        BY <3>5, AnalysisAssumption DEF Duplicate, PmtSent
      <4>2. HeardAs(k, p)
        BY <2>7, <3>2, <4>1 DEF k
      <4>3. k.heard[n] = s.version
        BY <2>1, <2>15, <4>2 DEF HeardAs, s
      <4>4. g.current_valid = d.current_valid /\ g.current = d.current
        BY <2>9, <3>2, <3>5
      <4> QED
        BY <2>2, <2>8, <2>12, <3>1, <4>3, <4>4
    <3> QED
      BY <3>3, <3>4, <3>5
  <2> QED
    BY <2>2, <2>3, <2>14, <2>15 DEF e, g
<1>6. Knows(u.stream, h)
  BY <1>5 DEF Knows
<1> QED
  BY <1>6 DEF h, k
----------------------------------------------------------------------------
(* The entries that a PAT puts in front.                                   *)

\* A sequence with one more element in front.
HeadedBy(u, e, q) ==
  /\ IsSeq(u) /\ Len(u) = Len(q) + 1 /\ u[1] = e
  /\ \A i \in 1..Len(q) : u[i + 1] = q[i]

LEMMA SeqFronted ==
  ASSUME NEW q, IsSeq(q), NEW e
  PROVE  HeadedBy(<<e>> \o q, e, q)
<1>1. PICK S : q \in Seq(S)
  BY DEF IsSeq
<1> DEFINE T == S \cup {e}
           one == <<e>>
           u == one \o q
<1>2. q \in Seq(T) /\ one \in Seq(T) /\ Len(one) = 1 /\ one[1] = e
  BY <1>1
<1> HIDE DEF T, one
<1>3. /\ u \in Seq(T) /\ Len(u) = Len(one) + Len(q)
      /\ \A i \in 1..Len(one) : u[i] = one[i]
      /\ \A i \in 1..Len(q) : u[Len(one) + i] = q[i]
  BY <1>2, Joined
<1> HIDE DEF u
<1>4. Len(q) \in Nat
  BY SeqParts
<1>5. /\ IsSeq(u) /\ Len(u) = Len(q) + 1 /\ u[1] = e
      /\ \A i \in 1..Len(q) : u[i + 1] = q[i]
  <2>1. Len(u) = Len(q) + 1 /\ u[1] = e
    BY <1>2, <1>3, <1>4
  <2>2. ASSUME NEW i \in 1..Len(q) PROVE u[i + 1] = q[i]
    <3>1. 1 + i = i + 1
      BY <1>4
    <3> QED
      BY <1>2, <1>3, <3>1
  <2>3. IsSeq(u)
    BY <1>3 DEF IsSeq
  <2> QED
    BY <2>1, <2>2, <2>3
<1>6. HeadedBy(u, e, q)
  BY <1>5 DEF HeadedBy
<1> QED
  BY <1>6 DEF u, one

\* In front of the entries r there are m new ones, for programs up to the i-th of the list.
FrontedPmt(q, r, list, i, m) ==
  /\ IsSeq(q) /\ Len(q) = m + Len(r)
  /\ \A j \in 1..m : q[j] = NewEntry(list[i + 1 - j])
  /\ \A j \in 1..Len(r) : q[m + j] = r[j]

\* Nothing else of the stream has changed.
Fronted(u, s, list, i, m) ==
  /\ DOMAIN u = StreamFields /\ u.handle = s.handle /\ u.leaked = s.leaked
  /\ FrontedPmt(u.pmt, s.pmt, list, i, m)

LEMMA FrontedNext ==
  ASSUME NEW s, IsSeq(s.pmt), NEW list, NEW i \in Nat, NEW m \in Nat, NEW u, Fronted(u, s, list, i - 1, m)
  PROVE  Fronted(InFront(u, list[i]), s, list, i, m + 1)
<1> DEFINE q == u.pmt
           r == s.pmt
           e == NewEntry(list[i])
           q1 == <<e>> \o q
           v == InFront(u, list[i])
<1>1. /\ DOMAIN u = StreamFields /\ u.handle = s.handle /\ u.leaked = s.leaked
      /\ IsSeq(q) /\ Len(q) = m + Len(r) /\ Len(r) \in Nat
      /\ \A j \in 1..m : q[j] = NewEntry(list[(i - 1) + 1 - j])
      /\ \A j \in 1..Len(r) : q[m + j] = r[j]
  BY SeqParts DEF Fronted, FrontedPmt
<1>2. v = [u EXCEPT !.pmt = q1]
  BY DEF InFront
<1> HIDE DEF e, q, r
<1>3. /\ IsSeq(q1) /\ Len(q1) = Len(q) + 1 /\ q1[1] = e
      /\ \A j \in 1..Len(q) : q1[j + 1] = q[j]
  <2>1. IsSeq(q)
    BY <1>1
  <2> HIDE DEF v
  <2>2. HeadedBy(q1, e, q)
    BY <2>1, SeqFronted
  <2> HIDE DEF q1
  <2> QED
    BY <2>2 DEF HeadedBy
<1> HIDE DEF q1, v
<1>4. /\ DOMAIN v = StreamFields /\ v.handle = s.handle /\ v.leaked = s.leaked /\ v.pmt = q1
  BY <1>1, <1>2 DEF StreamFields
<1>5. ASSUME NEW j \in 1..(m + 1) PROVE q1[j] = NewEntry(list[i + 1 - j])
  <2>1. CASE j = 1
    <3>1. i + 1 - j = i
      BY <2>1
    <3> QED
      BY <1>3, <2>1, <3>1 DEF e
  <2>2. CASE j # 1
    <3> DEFINE x == j - 1
    <3>1. x \in 1..m /\ x \in 1..Len(q) /\ x + 1 = j /\ (i - 1) + 1 - x = i + 1 - j
      BY <1>1, <2>2
    <3> HIDE DEF x
    <3> QED
      BY <1>1, <1>3, <3>1
  <2> QED
    BY <2>1, <2>2
<1>6. ASSUME NEW j \in 1..Len(r) PROVE q1[(m + 1) + j] = r[j]
  <2> DEFINE x == m + j
  <2>1. x \in 1..Len(q) /\ (m + 1) + j = x + 1
    BY <1>1
  <2>2. q[x] = r[j]
    BY <1>1
  <2> HIDE DEF x
  <2> QED
    BY <1>3, <2>1, <2>2
<1>7. Len(q1) = (m + 1) + Len(r)
  BY <1>1, <1>3
<1>8. FrontedPmt(q1, r, list, i, m + 1)
  BY <1>3, <1>5, <1>6, <1>7 DEF FrontedPmt
<1> QED
  BY <1>4, <1>8 DEF Fronted, r, v

LEMMA FrontedNone ==
  ASSUME NEW s, DOMAIN s = StreamFields, IsSeq(s.pmt), NEW list, NEW i
  PROVE  Fronted(s, s, list, i, 0)
<1> DEFINE r == s.pmt
<1>1. Len(r) \in Nat /\ IsSeq(r)
  BY SeqParts
<1> HIDE DEF r
<1>2. FrontedPmt(r, r, list, i, 0)
  BY <1>1 DEF FrontedPmt
<1> QED
  BY <1>2 DEF Fronted, r

\* How many of the first i programs of a list get an entry where some are skipped.
Less(i, skip) == IF i <= skip THEN 0 ELSE i - skip

LEMMA EntriesFronted ==
  ASSUME NEW s, DOMAIN s = StreamFields, IsSeq(s.pmt), NEW list, NEW K \in Nat, NEW skip \in {0, 1},
         NEW g, InFrontOf(g, s, list, K, skip)
  PROVE  Fronted(g[K], s, list, K, Less(K, skip))
<1> DEFINE T == {i \in 0..K : Fronted(g[i], s, list, i, Less(i, skip))}
<1>1. \A i \in 0..K : g[i] = IF i <= skip THEN s ELSE InFront(g[i-1], list[i])
  BY DEF InFrontOf
<1>2. 0 \in T
  <2>1. g[0] = s /\ Less(0, skip) = 0
    BY <1>1 DEF Less
  <2> QED
    BY <2>1, FrontedNone
<1>3. ASSUME NEW i \in 1..K, i - 1 \in T PROVE i \in T
  <2>1. Fronted(g[i-1], s, list, i - 1, Less(i - 1, skip))
    BY <1>3
  <2>2. CASE i <= skip
    <3>1. g[i] = s /\ Less(i, skip) = 0
      BY <1>1, <2>2 DEF Less
    <3> QED
      BY <3>1, FrontedNone
  <2>3. CASE ~(i <= skip)
    <3> DEFINE m == Less(i - 1, skip)
    <3>1. g[i] = InFront(g[i-1], list[i]) /\ m \in Nat /\ Less(i, skip) = m + 1 /\ i \in Nat
      BY <1>1, <2>3 DEF Less
    <3>2. Fronted(InFront(g[i-1], list[i]), s, list, i, m + 1)
      <4> HIDE DEF m
      <4> QED
        BY <2>1, <3>1, FrontedNext DEF m
    <3> QED
      BY <3>1, <3>2
  <2> QED
    BY <2>2, <2>3
<1> HIDE DEF T
<1>4. 0..K \subseteq T
  BY <1>2, <1>3, IntervalInduction
<1> QED
  BY <1>4 DEF T

\* What handle_PAT does, also without memory.
PatFronts(v, s, list, failing) ==
  /\ DOMAIN v = StreamFields /\ v.handle = s.handle
  /\ v.leaked = s.leaked \/ (failing = "attach" /\ v.leaked = s.leaked + 1)
  /\ \E m \in 0..Len(list) :
       FrontedPmt(v.pmt, s.pmt, list, Len(list), m) /\ (failing = "none" => m = Len(list))

LEMMA PatIsFronted ==
  ASSUME NEW s, DOMAIN s = StreamFields, IsSeq(s.pmt), NEW list, IsSeq(list), NEW failing \in Failing
  PROVE  PatFronts(handle_PAT(s, list, failing), s, list, failing)
<1> DEFINE K == Len(list)
           upTo == CHOOSE g : g = [i \in 0..K |-> IF i = 0 THEN s ELSE InFront(g[i-1], list[i])]
           skipped == CHOOSE g : g = [i \in 0..K |-> IF i <= 1 THEN s ELSE InFront(g[i-1], list[i])]
           v == handle_PAT(s, list, failing)
<1>1. K \in Nat
  BY SeqParts
<1>2. Fronted(upTo[K], s, list, K, K)
  <2>1. PICK f : InFrontOf(f, s, list, K, 0)
    BY <1>1, EntriesExist
  <2>2. f = [i \in 0..K |-> IF i = 0 THEN s ELSE InFront(f[i-1], list[i])]
    BY <1>1, <2>1 DEF InFrontOf
  <2>3. upTo = [i \in 0..K |-> IF i = 0 THEN s ELSE InFront(upTo[i-1], list[i])]
    BY <2>2
  <2> HIDE DEF upTo, K
  <2>4. InFrontOf(upTo, s, list, K, 0)
    BY <1>1, <2>3 DEF InFrontOf
  <2>5. Less(K, 0) = K
    BY <1>1 DEF Less
  <2>6. Fronted(upTo[K], s, list, K, Less(K, 0))
    BY <1>1, <2>4, EntriesFronted
  <2> QED
    BY <2>5, <2>6
<1>3. Fronted(skipped[K], s, list, K, Less(K, 1))
  <2>1. PICK f : InFrontOf(f, s, list, K, 1)
    BY <1>1, EntriesExist
  <2>2. f = [i \in 0..K |-> IF i <= 1 THEN s ELSE InFront(f[i-1], list[i])]
    BY <1>1, <2>1 DEF InFrontOf
  <2>3. skipped = [i \in 0..K |-> IF i <= 1 THEN s ELSE InFront(skipped[i-1], list[i])]
    BY <2>2
  <2> HIDE DEF skipped, K
  <2>4. InFrontOf(skipped, s, list, K, 1)
    BY <1>1, <2>3 DEF InFrontOf
  <2> QED
    BY <1>1, <2>4, EntriesFronted
<1>4. Fronted(s, s, list, K, 0)
  BY FrontedNone
<1>5. Less(K, 1) \in 0..K /\ 0 \in 0..K /\ K \in 0..K
  BY <1>1 DEF Less
<1>6. \/ v = upTo[K]
      \/ failing # "none" /\ (v = skipped[K] \/ v = s)
      \/ failing = "attach" /\ v = [s EXCEPT !.leaked = @ + 1]
  BY DEF handle_PAT, Failing
<1> HIDE DEF upTo, skipped, v, K
<1>7. ASSUME NEW m \in 0..K, Fronted(v, s, list, K, m), failing = "none" => m = K
      PROVE  PatFronts(v, s, list, failing)
  BY <1>7 DEF Fronted, PatFronts, K
<1>8. ASSUME failing = "attach", v = [s EXCEPT !.leaked = @ + 1]
      PROVE  PatFronts(v, s, list, failing)
  <2>1. DOMAIN v = StreamFields /\ v.handle = s.handle /\ v.leaked = s.leaked + 1 /\ v.pmt = s.pmt
    BY <1>8 DEF StreamFields
  <2> QED
    BY <1>4, <1>5, <1>8, <2>1 DEF Fronted, PatFronts, K
<1>9. PatFronts(v, s, list, failing)
  BY <1>2, <1>3, <1>4, <1>5, <1>6, <1>7, <1>8
<1> QED
  BY <1>9 DEF v

LEMMA NewEntryParts ==
  ASSUME NEW list \in Lists, NEW j \in 1..Len(list), NEW e, e = NewEntry(list[j])
  PROVE  /\ EntryOK(e) /\ e.number = list[j][1] /\ e.pid = list[j][2]
         /\ e.handle.counter = CCs /\ e.handle.decoder.current_valid = FALSE
<1> DEFINE n == list[j][1]
           pid == list[j][2]
           d == PmtAttach(n)
           h == Handle(d)
<1>1. list \in Seq(Nat \X Nat) /\ DOMAIN list = 1..Len(list)
  BY AnalysisAssumption
<1>2. n \in Programs /\ pid \in PmtPids
  BY <1>1 DEF Programs, PmtPids
<1>3. e = [number |-> n, pid |-> pid, version |-> 0, handle |-> h]
  BY DEF NewEntry
<1> HIDE DEF n, pid
<1>4. d = [discontinuity |-> TRUE, current_valid |-> FALSE, current |-> NULL, building |-> NULL,
           sections |-> {}, last |-> 0, first |-> 0, program_number |-> n]
  <2> DEFINE b == NewDecoder
  <2>1. /\ DOMAIN b = DecoderFields /\ b.discontinuity = TRUE /\ b.current_valid = FALSE
        /\ b.current = NULL /\ b.building = NULL /\ b.sections = {} /\ b.last = 0 /\ b.first = 0
    BY DEF NewDecoder, DecoderFields
  <2> HIDE DEF b
  <2>2. d = [x \in DecoderFields \cup {"program_number"} |-> IF x = "program_number" THEN n ELSE b[x]]
    BY <2>1 DEF PmtAttach, With, b
  <2> HIDE DEF d
  <2>3. /\ DOMAIN d = DecoderFields \cup {"program_number"} /\ d = [x \in DOMAIN d |-> d[x]]
        /\ d.discontinuity = TRUE /\ d.current_valid = FALSE /\ d.current = NULL /\ d.building = NULL
        /\ d.sections = {} /\ d.last = 0 /\ d.first = 0 /\ d.program_number = n
    BY <2>1, <2>2 DEF DecoderFields
  <2> QED
    BY <2>3 DEF DecoderFields
<1> HIDE DEF d
<1>5. d \in PmtDecoders(n) /\ d.current_valid = FALSE
  BY <1>4 DEF PmtDecoders
<1>6. h \in [counter : 0..CCs, decoder : PmtDecoders(n)] /\ h.counter = CCs /\ h.decoder = d
  BY <1>5, AnalysisAssumption DEF Handle
<1> HIDE DEF h
<1>7. PmtHandle(h, n)
  BY <1>5, <1>6 DEF PmtHandle
<1>8. DOMAIN e = EntryFields /\ e.number = n /\ e.pid = pid /\ e.version = 0 /\ e.handle = h
  BY <1>3 DEF EntryFields
<1>9. 0 \in Versions
  BY DEF Versions
<1> QED
  BY <1>2, <1>5, <1>6, <1>7, <1>8, <1>9 DEF EntryOK, n, pid

\* Where an entry stands now: it is new, or it was there.
LEMMA FrontedEntry ==
  ASSUME NEW q, NEW r, IsSeq(r), NEW list \in Lists, NEW m \in 0..Len(list), FrontedPmt(q, r, list, Len(list), m),
         NEW k \in 1..Len(q)
  PROVE  \/ k <= m /\ Len(list) + 1 - k \in 1..Len(list) /\ q[k] = NewEntry(list[Len(list) + 1 - k])
         \/ \E j \in 1..Len(r) : k = m + j /\ q[k] = r[j]
<1> DEFINE K == Len(list)
           L == Len(r)
<1>1. K \in Nat /\ L \in Nat /\ m \in 0..K
  BY SeqParts, AnalysisAssumption
<1>2. /\ Len(q) = m + L /\ \A j \in 1..m : q[j] = NewEntry(list[K + 1 - j])
      /\ \A j \in 1..L : q[m + j] = r[j]
  BY DEF FrontedPmt
<1> HIDE DEF K, L
<1>3. k \in 1..m + L
  BY <1>2
<1>4. CASE k <= m
  <2>1. k \in 1..m /\ K + 1 - k \in 1..K
    BY <1>1, <1>3, <1>4
  <2> QED
    BY <1>2, <1>4, <2>1 DEF K
<1>5. CASE ~(k <= m)
  <2>1. k - m \in 1..L /\ k = m + (k - m)
    BY <1>1, <1>3, <1>5
  <2> QED
    BY <1>2, <2>1 DEF L
<1> QED
  BY <1>4, <1>5

LEMMA FrontedOK ==
  ASSUME NEW u, NEW s, PmtsOK(s), NEW list \in Lists, NEW m \in 0..Len(list),
         FrontedPmt(u.pmt, s.pmt, list, Len(list), m), NEW pids
  PROVE  PmtsOK(u) /\ (CountersOK(s, pids) => CountersOK(u, pids))
<1>1. IsSeq(u.pmt) /\ IsSeq(s.pmt)
  BY DEF FrontedPmt, PmtsOK
<1>2. ASSUME NEW k \in 1..Len(u.pmt)
      PROVE  \/ EntryOK(u.pmt[k]) /\ u.pmt[k].handle.counter = CCs
             \/ \E j \in 1..Len(s.pmt) : u.pmt[k] = s.pmt[j]
  <2> DEFINE e == u.pmt[k]
             j == Len(list) + 1 - k
  <2>1. \/ j \in 1..Len(list) /\ e = NewEntry(list[j])
        \/ \E i \in 1..Len(s.pmt) : e = s.pmt[i]
    BY <1>1, FrontedEntry
  <2> HIDE DEF e, j
  <2> QED
    BY <2>1, NewEntryParts DEF e
<1>3. PmtsOK(u)
  BY <1>1, <1>2 DEF PmtsOK
<1>4. ASSUME CountersOK(s, pids) PROVE CountersOK(u, pids)
  BY <1>2, <1>4 DEF CountersOK
<1> QED
  BY <1>3, <1>4

LEMMA OncePerList ==
  ASSUME NEW list \in Lists, NEW i \in 1..Len(list), NEW j \in 1..Len(list), list[i][1] = list[j][1]
  PROVE  i = j
<1>1. list \in Seq(Nat \X Nat) /\ DOMAIN list = 1..Len(list)
  BY AnalysisAssumption
<1> QED
  BY <1>1, StreamAssumption

\* A PAT adds at most one entry for each program.
LEMMA FrontedCount ==
  ASSUME NEW u, NEW s, IsSeq(s.pmt), NEW list \in Lists, NEW m \in 0..Len(list),
         FrontedPmt(u.pmt, s.pmt, list, Len(list), m), NEW n
  PROVE  Cardinality(Entries(u, n)) <= Cardinality(Entries(s, n)) + 1
<1> DEFINE K == Len(list)
           L == Len(s.pmt)
           old == Entries(s, n)
           all == Entries(u, n)
           j(k) == K + 1 - k
<1>1. /\ K \in Nat /\ m \in 0..K /\ IsSeq(u.pmt) /\ DOMAIN u.pmt = 1..Len(u.pmt) /\ Len(u.pmt) = m + L
      /\ DOMAIN s.pmt = 1..L /\ L \in Nat
  BY SeqParts, AnalysisAssumption DEF FrontedPmt
<1>2. ASSUME NEW k \in all
      PROVE  /\ k \in 1..m+L
             /\ (j(k) \in 1..K /\ list[j(k)][1] = n) \/ (k - m \in old)
  <2>1. k \in 1..Len(u.pmt) /\ u.pmt[k].number = n
    BY <1>1 DEF Entries
  <2>2. \/ j(k) \in 1..K /\ u.pmt[k] = NewEntry(list[j(k)])
        \/ \E i \in 1..L : k = m + i /\ u.pmt[k] = s.pmt[i]
    <3> DEFINE q == u.pmt
               r == s.pmt
    <3>1. IsSeq(r) /\ FrontedPmt(q, r, list, Len(list), m) /\ k \in 1..Len(q)
      BY <2>1
    <3> HIDE DEF q, r
    <3>2. \/ k <= m /\ Len(list) + 1 - k \in 1..Len(list) /\ q[k] = NewEntry(list[Len(list) + 1 - k])
          \/ \E i \in 1..Len(r) : k = m + i /\ q[k] = r[i]
      BY <3>1, FrontedEntry
    <3> QED
      BY <3>2 DEF q, r
  <2>3. CASE j(k) \in 1..K /\ u.pmt[k] = NewEntry(list[j(k)])
    <3> DEFINE i == j(k)
               e == u.pmt[k]
    <3>1. i \in 1..Len(list) /\ e = NewEntry(list[i])
      BY <2>3
    <3> HIDE DEF i, e
    <3>2. e.number = list[i][1]
      BY <3>1, NewEntryParts
    <3> QED
      BY <1>1, <2>1, <3>1, <3>2 DEF e, i
  <2>4. ASSUME NEW i \in 1..L, k = m + i, u.pmt[k] = s.pmt[i] PROVE k - m \in old
    <3>1. k - m = i
      BY <1>1, <2>4
    <3>2. i \in old
      BY <1>1, <2>1, <2>4 DEF Entries
    <3> QED
      BY <3>1, <3>2
  <2>5. k \in 1..m+L
    BY <1>1, <2>1
  <2> QED
    BY <2>2, <2>3, <2>4, <2>5
<1>3. IsFiniteSet(old)
  <2> HIDE DEF L
  <2>1. IsFiniteSet(1..L)
    BY <1>1, FS_Interval
  <2>2. old \subseteq 1..L
    BY <1>1 DEF Entries
  <2> HIDE DEF old
  <2> QED
    BY <2>1, <2>2, FS_Subset
<1>4. PICK one : \A k \in all : k = one \/ k - m \in old
  <2>1. CASE \E k \in all : j(k) \in 1..K /\ list[j(k)][1] = n
    <3>1. PICK x \in all : j(x) \in 1..K /\ list[j(x)][1] = n
      BY <2>1
    <3>2. ASSUME NEW k \in all, ~(k - m \in old) PROVE k = x
      <4>1. j(k) \in 1..K /\ list[j(k)][1] = n /\ k \in 1..m+L /\ x \in 1..m+L
        BY <1>2, <3>2
      <4> DEFINE y == j(k)
                 z == j(x)
      <4>2. y \in 1..Len(list) /\ z \in 1..Len(list) /\ list[y][1] = list[z][1]
        BY <3>1, <4>1
      <4> HIDE DEF y, z
      <4>3. y = z
        BY <4>2, OncePerList
      <4> QED
        BY <1>1, <4>1, <4>3 DEF y, z
    <3> QED
      BY <3>2
  <2>2. CASE ~ \E k \in all : j(k) \in 1..K /\ list[j(k)][1] = n
    BY <1>2, <2>2
  <2> QED
    BY <2>1, <2>2
<1> DEFINE rest == all \ {one}
           f == [k \in rest |-> k - m]
<1>5. rest \subseteq Int /\ m \in Int
  BY <1>1, <1>2
<1> HIDE DEF all, old
<1>6. f \in Injection(rest, old)
  <2>1. f \in [rest -> old]
    BY <1>4
  <2>2. \A x, y \in rest : f[x] = f[y] => x = y
    BY <1>5
  <2> HIDE DEF f, rest
  <2> QED
    BY <2>1, <2>2 DEF Injection, IsInjective
<1> HIDE DEF f
<1>7. IsFiniteSet(rest) /\ Cardinality(rest) <= Cardinality(old)
  <2> HIDE DEF rest
  <2> QED
    BY <1>3, <1>6, FS_Injection
<1>8. IsFiniteSet(rest \cup {one}) /\ Cardinality(rest \cup {one}) <= Cardinality(old) + 1
  <2> HIDE DEF rest
  <2>1. Cardinality(rest) \in Nat /\ Cardinality(old) \in Nat
    BY <1>3, <1>7, FS_CardinalityType
  <2>2. IsFiniteSet(rest \cup {one}) /\ (Cardinality(rest \cup {one}) = Cardinality(rest) \/ Cardinality(rest \cup {one}) = Cardinality(rest) + 1)
    BY <1>7, FS_AddElement
  <2> QED
    BY <1>7, <2>1, <2>2
<1>9. all \subseteq rest \cup {one}
  OBVIOUS
<1> HIDE DEF rest
<1>10. Cardinality(all) <= Cardinality(rest \cup {one}) /\ Cardinality(all) \in Nat
       /\ Cardinality(rest \cup {one}) \in Nat /\ Cardinality(old) \in Nat
  BY <1>3, <1>8, <1>9, FS_Subset, FS_CardinalityType
<1> QED
  BY <1>8, <1>10 DEF all, old

LEMMA FollowParts ==
  ASSUME NEW list \in Lists
  PROVE  LET k == Follow(list) IN
         /\ KnownOK(k) /\ k.misfiled = {}
         /\ \A n \in Programs : k.heard[n] = NULL
         /\ \A n \in Programs : k.announced[n] # NULL =>
              \E i \in 1..Len(list) : list[i][1] = n /\ k.announced[n] = list[i][2]
<1> DEFINE k == Follow(list)
           pid(n) == (list[CHOOSE i \in DOMAIN list : list[i][1] = n])[2]
           places == [n \in Programs |-> IF \E i \in DOMAIN list : list[i][1] = n THEN pid(n) ELSE NULL]
           none == [n \in Programs |-> NULL]
<1>1. k = [announced |-> places, heard |-> none, misfiled |-> {}]
  BY DEF Follow
<1>2. list \in Seq(Nat \X Nat) /\ DOMAIN list = 1..Len(list)
  BY AnalysisAssumption
<1>3. ASSUME NEW n \in Programs, places[n] # NULL
      PROVE  \E i \in 1..Len(list) : list[i][1] = n /\ places[n] = list[i][2]
  <2>1. PICK j \in DOMAIN list : list[j][1] = n
    BY <1>3
  <2> DEFINE i == CHOOSE x \in DOMAIN list : list[x][1] = n
  <2>2. i \in DOMAIN list /\ list[i][1] = n
    BY <2>1
  <2>3. places[n] = list[i][2]
    BY <2>1
  <2> QED
    BY <1>2, <2>2, <2>3
<1>4. DOMAIN none = Programs /\ \A n \in Programs : none[n] = NULL
  OBVIOUS
<1> HIDE DEF places, none, k
<1>5. DOMAIN k = {"announced", "heard", "misfiled"} /\ k.announced = places /\ k.heard = none /\ k.misfiled = {}
  BY <1>1
<1>6. KnownOK(k)
  BY <1>4, <1>5 DEF KnownOK
<1> QED
  BY <1>3, <1>4, <1>5, <1>6 DEF k

\* Where the PAT says is where the first entry of each program is now.
LEMMA FrontedKnows ==
  ASSUME NEW u, NEW s, IsSeq(s.pmt), NEW list \in Lists,
         FrontedPmt(u.pmt, s.pmt, list, Len(list), Len(list))
  PROVE  Knows(u, Follow(list))
<1> DEFINE K == Len(list)
           k == Follow(list)
<1>1. /\ \A n \in Programs : k.heard[n] = NULL
      /\ \A n \in Programs : k.announced[n] # NULL =>
           \E i \in 1..Len(list) : list[i][1] = n /\ k.announced[n] = list[i][2]
  BY FollowParts
<1>2. K \in Nat /\ IsSeq(u.pmt) /\ Len(u.pmt) = K + Len(s.pmt) /\ Len(s.pmt) \in Nat
  BY SeqParts, AnalysisAssumption DEF FrontedPmt
<1> HIDE DEF k
<1>3. ASSUME NEW n \in Programs, k.announced[n] # NULL
      PROVE  /\ Entries(u, n) # {}
             /\ LET e == u.pmt[Found(u, n)]
                    d == e.handle.decoder
                IN /\ e.pid = k.announced[n]
                   /\ d.current_valid => e.version = k.heard[n] /\ d.current.version = k.heard[n]
                   /\ k.heard[n] # NULL => d.current_valid
  <2> DEFINE F == Found(u, n)
             e == u.pmt[F]
  <2>1. PICK i \in 1..Len(list) : list[i][1] = n /\ k.announced[n] = list[i][2]
    BY <1>1, <1>3
  <2> DEFINE j == K + 1 - i
  <2>2. j \in 1..K /\ j \in 1..Len(u.pmt) /\ K + 1 - j = i
    BY <1>2, <2>1
  <2>3. u.pmt[j].number = n
    <3> DEFINE x == u.pmt[j]
    <3>1. x = NewEntry(list[i])
      <4> HIDE DEF j, K
      <4> QED
        BY <2>2 DEF FrontedPmt, K
    <3> HIDE DEF x
    <3>2. x.number = list[i][1]
      BY <3>1, NewEntryParts
    <3> QED
      BY <2>1, <3>2 DEF x
  <2> HIDE DEF j
  <2>4. j \in Entries(u, n)
    BY <1>2, <2>2, <2>3, SeqParts DEF Entries
  <2>5. F \in 1..Len(u.pmt) /\ u.pmt[F].number = n /\ F <= j
    BY <1>2, <2>2, <2>3, <2>4, FoundFirst
  <2> HIDE DEF F
  <2>6. PICK y \in 1..Len(list) : e = NewEntry(list[y])
    <3>1. Len(list) \in 0..Len(list)
      BY <1>2
    <3> DEFINE q == u.pmt
               r == s.pmt
               y == Len(list) + 1 - F
    <3>2. IsSeq(r) /\ FrontedPmt(q, r, list, Len(list), Len(list)) /\ F \in 1..Len(q)
      BY <2>5
    <3> HIDE DEF q, r
    <3>3. \/ F <= Len(list) /\ Len(list) + 1 - F \in 1..Len(list) /\ q[F] = NewEntry(list[Len(list) + 1 - F])
          \/ \E x \in 1..Len(r) : F = Len(list) + x /\ q[F] = r[x]
      BY <3>1, <3>2, FrontedEntry
    <3>4. ~ \E x \in 1..Len(r) : F = Len(list) + x
      BY <1>2, <2>2, <2>5
    <3>5. y \in 1..Len(list) /\ q[F] = NewEntry(list[y])
      BY <3>3, <3>4
    <3> HIDE DEF y
    <3> QED
      BY <3>5 DEF q
  <2> HIDE DEF e
  <2>7. e.number = list[y][1] /\ e.pid = list[y][2] /\ e.handle.decoder.current_valid = FALSE
    BY <2>6, NewEntryParts
  <2>8. y = i
    BY <2>1, <2>5, <2>7, OncePerList DEF e
  <2>9. e.pid = k.announced[n] /\ e.handle.decoder.current_valid = FALSE /\ k.heard[n] = NULL
    BY <1>1, <2>1, <2>7, <2>8
  <2> QED
    BY <2>4, <2>9 DEF e, F
<1> QED
  BY <1>3 DEF Knows, k

----------------------------------------------------------------------------
(* What one packet does to what is known.                                  *)

LEMMA EntriesCounted ==
  ASSUME NEW s, IsSeq(s.pmt), NEW n
  PROVE  Cardinality(Entries(s, n)) \in Nat
<1> DEFINE L == Len(s.pmt)
           E == Entries(s, n)
<1>1. L \in Nat /\ DOMAIN s.pmt = 1..L
  BY SeqParts
<1>2. E \subseteq 1..L
  BY <1>1 DEF Entries
<1> HIDE DEF L, E
<1>3. IsFiniteSet(1..L)
  BY <1>1, FS_Interval
<1>4. IsFiniteSet(E)
  BY <1>2, <1>3, FS_Subset
<1> QED
  BY <1>4, FS_CardinalityType DEF E

\* A condition that is counted.
Bit(b) == IF b THEN 1 ELSE 0

\* No PAT has been read, or this one.
Steady(s, s0) ==
  /\ IsSeq(s.pmt) /\ IsSeq(s0.pmt)
  /\ s.handle["pat"] = s0.handle["pat"] /\ s.leaked = s0.leaked
  /\ \A n \in Programs : Cardinality(Entries(s, n)) <= Cardinality(Entries(s0, n))

\* What a packet with a PAT leaves: the decoder of PATs has it, and where it is new one decoder
\* is added for each program at the most.
Shown(s, s0, p, failing) ==
  LET h == s.handle["pat"]
      h0 == s0.handle["pat"]
  IN /\ IsSeq(s.pmt) /\ IsSeq(s0.pmt)
     /\ Duplicate(h0, p) => h = h0
     /\ ~Duplicate(h0, p) => PatKnown(h, p)
     /\ s.leaked = s0.leaked \/ (failing = "attach" /\ s.leaked = s0.leaked + 1)
     /\ \A n \in Programs : Cardinality(Entries(s, n)) <= Cardinality(Entries(s0, n)) + Bit(New(h0, p))

LEMMA SteadyFurther ==
  ASSUME NEW s, NEW s0, NEW s1, Steady(s, s1)
  PROVE  /\ Steady(s1, s0) => Steady(s, s0)
         /\ \A p, failing : Shown(s1, s0, p, failing) => Shown(s, s0, p, failing)
<1>1. \A n : /\ IsSeq(s0.pmt) => Cardinality(Entries(s0, n)) \in Nat
             /\ Cardinality(Entries(s, n)) \in Nat /\ Cardinality(Entries(s1, n)) \in Nat
  BY EntriesCounted DEF Steady
<1>2. \A x : Bit(x) \in Nat
  BY DEF Bit
<1>3. ASSUME Steady(s1, s0) PROVE Steady(s, s0)
  BY <1>1, <1>3 DEF Steady
<1>4. ASSUME NEW p, NEW failing, Shown(s1, s0, p, failing) PROVE Shown(s, s0, p, failing)
  <2> DEFINE bit == Bit(New(s0.handle["pat"], p))
  <2>1. bit \in Nat
    BY <1>2
  <2>2. \A n \in Programs : Cardinality(Entries(s, n)) <= Cardinality(Entries(s0, n)) + bit
    <3> HIDE DEF bit
    <3>1. \A n \in Programs : Cardinality(Entries(s1, n)) <= Cardinality(Entries(s0, n)) + bit
      BY <1>4 DEF Shown, bit
    <3> QED
      BY <1>1, <1>4, <2>1, <3>1 DEF Steady, Shown
  <2> QED
    BY <1>4, <2>2 DEF Steady, Shown
<1> QED
  BY <1>3, <1>4

LEMMA ShownFurther ==
  ASSUME NEW s, NEW s0, NEW s1, Steady(s1, s0), NEW p, NEW failing, Shown(s, s1, p, failing)
  PROVE  Shown(s, s0, p, failing)
<1>1. \A n : /\ Cardinality(Entries(s0, n)) \in Nat
             /\ Cardinality(Entries(s, n)) \in Nat /\ Cardinality(Entries(s1, n)) \in Nat
  BY EntriesCounted DEF Steady, Shown
<1> DEFINE bit == Bit(New(s0.handle["pat"], p))
<1>2. bit \in Nat
  BY DEF Bit
<1>3. \A n \in Programs : Cardinality(Entries(s, n)) <= Cardinality(Entries(s1, n)) + bit
  BY DEF Shown, Steady
<1>4. \A n \in Programs : Cardinality(Entries(s, n)) <= Cardinality(Entries(s0, n)) + bit
  <2> HIDE DEF bit
  <2> QED
    BY <1>1, <1>2, <1>3 DEF Steady
<1> QED
  BY <1>4 DEF Shown, Steady
----------------------------------------------------------------------------
(* What the decoders make of one packet.                                   *)

\* The three kinds of packets: PATs, other tables, and those for the decoders of PMTs.
LEMMA AirCases ==
  ASSUME NEW p \in AirPackets
  PROVE  /\ p.cc \in 0..CCs-1 /\ p.pid \in Pids
         /\ \/ p.pid = 0 /\ HandleOf(p.pid) = "pat" /\ p.section \in Pats /\ ~IsPmt(p)
            \/ p.pid \in Reserved \ {0} /\ HandleOf(p.pid) \in {"tdt", "sdt"} /\ ~IsPmt(p)
            \/ p.pid \notin Reserved /\ HandleOf(p.pid) = NULL /\ PmtSent(p)
<1>1. p.cc \in 0..CCs-1 /\ p.pid \in Pids
  BY AirParts
<1>2. CASE p \in PacketsOf({0}, Pats)
  <2>1. p.pid = 0 /\ p.section \in Pats
    BY <1>2 DEF PacketsOf
  <2>2. ~IsPmt(p)
    <3>1. p.section.id = 0
      BY <2>1, PatParts
    <3> QED
      BY <3>1 DEF IsPmt
  <2> QED
    BY <1>1, <2>1, <2>2 DEF HandleOf
<1>3. CASE p \in PacketsOf({2, 17, 20}, OtherTables)
  <2>1. p.pid \in {2, 17, 20} /\ p.section \in OtherTables
    BY <1>3 DEF PacketsOf
  <2>2. ~IsPmt(p)
    <3>1. p.section.id \in {3, 66, 70, 112}
      BY <2>1 DEF OtherTables, SectionsOf
    <3> QED
      BY <3>1 DEF IsPmt
  <2>3. HandleOf(p.pid) \in {"tdt", "sdt"} /\ p.pid \in Reserved \ {0}
    BY <2>1 DEF HandleOf, Reserved
  <2> QED
    BY <1>1, <2>2, <2>3
<1>4. CASE p \in PacketsOf(PmtPids, Pmts) \/ p \in PacketsOf(Clocks \cup {Null}, {NULL})
  <2>1. p.pid \in PmtPids \cup Clocks \cup {Null} /\ (p.section = NULL \/ p.section \in Pmts)
    BY <1>4 DEF PacketsOf
  <2>2. p.pid \notin Reserved
    <3>1. (PmtPids \cup Clocks) \cap Reserved = {}
      BY StreamAssumption
    <3>2. Null \notin Reserved
      BY DEF Null, Reserved
    <3> QED
      BY <2>1, <3>1, <3>2
  <2>3. HandleOf(p.pid) = NULL
    BY <2>2 DEF HandleOf, Reserved
  <2> QED
    BY <1>1, <2>1, <2>2, <2>3 DEF PmtSent
<1> QED
  BY <1>2, <1>3, <1>4 DEF AirPackets

\* There is no mistaking the packet for the one before it on its PID, or it has been heard.
Heeded(c, p) == (c.stream.pid[p.pid].seen => c.stream.pid[p.pid].cc # p.cc) \/ HeardAs(c.known, p)

\* What is known of the counters behind a packet.
ReadOf(pids, p) == [pids EXCEPT ![p.pid] = [seen |-> TRUE, cc |-> p.cc]]

\* The decoders have had packet p.
Dispatched(u, c, p) ==
  /\ u.aborted = c.aborted /\ KnownOK(u.known) /\ PmtsOK(u.stream)
  /\ CountersOK(u.stream, ReadOf(c.stream.pid, p))
  /\ p.pid # 0 => Steady(u.stream, c.stream) /\ u.known = c.known
  /\ p.pid = 0 => Shown(u.stream, c.stream, p, c.failing)
  /\ c.failing = "none" /\ Knows(c.stream, c.known) /\ Heeded(c, p) =>
       Knows(u.stream, Hear(u.known, p))

LEMMA ReadElsewhere ==
  ASSUME NEW s, PmtsOK(s), NEW pids, DOMAIN pids = Pids, CountersOK(s, pids), NEW p, p.pid \in Reserved
  PROVE  CountersOK(s, ReadOf(pids, p))
<1>1. ASSUME NEW i \in 1..Len(s.pmt) PROVE ReadOf(pids, p)[s.pmt[i].pid] = pids[s.pmt[i].pid]
  <2> DEFINE pid == s.pmt[i].pid
  <2>1. pid \in PmtPids
    BY DEF PmtsOK, EntryOK
  <2>2. pid # p.pid /\ pid \in Pids
    BY <2>1, StreamAssumption DEF Pids
  <2> HIDE DEF pid
  <2>3. ReadOf(pids, p)[pid] = pids[pid]
    BY <2>2 DEF ReadOf
  <2> QED
    BY <2>3 DEF pid
<1> QED
  BY <1>1 DEF CountersOK

LEMMA SteadyItself ==
  ASSUME NEW s, NEW t, IsSeq(t.pmt), s.pmt = t.pmt, s.handle["pat"] = t.handle["pat"], s.leaked = t.leaked
  PROVE  Steady(s, t)
<1>1. \A n : Entries(s, n) = Entries(t, n) /\ Cardinality(Entries(t, n)) \in Nat
  BY EntriesCounted DEF Entries
<1> QED
  BY <1>1 DEF Steady

\* What the decoders of PMTs do with the packet.
LEMMA DispatchedToPmts ==
  ASSUME NEW c, Kept(c, c), StreamOK(c.stream), PmtsOK(c.stream),
         CountersOK(c.stream, c.stream.pid), KnownOK(c.known),
         NEW p \in AirPackets, p.pid \notin Reserved, PmtSent(p)
  PROVE  Dispatched(PushToPmts(c, p), c, p)
<1> DEFINE u == PushToPmts(c, p)
           pids == c.stream.pid
           q == c.stream.pmt
           K == Len(q)
<1>1. PushedUpTo(u, c, p, Len(c.stream.pmt))
  BY PushesUpTo
<1> HIDE DEF u
<1>2. /\ PmtsOK(u.stream) /\ SameNumbers(u.stream, c.stream)
      /\ \A i \in 1..Len(c.stream.pmt) :
           LET e == u.stream.pmt[i]
               f == c.stream.pmt[i]
           IN /\ e.pid = f.pid
              /\ f.pid # p.pid => e.handle = f.handle
              /\ f.pid = p.pid => e.handle = PmtAfter(f.handle, p) /\ e.handle.counter = p.cc
  BY <1>1, PushedParts
<1>3. p.pid \in Pids /\ DOMAIN pids = Pids
  BY AirParts DEF StreamOK
<1>4. CountersOK(u.stream, ReadOf(pids, p))
  <2> SUFFICES ASSUME NEW i \in 1..Len(u.stream.pmt)
               PROVE  LET h == u.stream.pmt[i].handle IN
                      \/ h.counter = CCs
                      \/ /\ ReadOf(pids, p)[u.stream.pmt[i].pid].seen
                         /\ h.counter = ReadOf(pids, p)[u.stream.pmt[i].pid].cc
    BY DEF CountersOK
  <2> DEFINE e == u.stream.pmt[i]
             f == c.stream.pmt[i]
             all == ReadOf(pids, p)
  <2>1. i \in 1..Len(c.stream.pmt)
    BY <1>2 DEF SameNumbers
  <2>2. /\ e.pid = f.pid /\ (f.pid # p.pid => e.handle = f.handle) /\ (f.pid = p.pid => e.handle.counter = p.cc)
        /\ f.handle.counter = CCs \/ (pids[f.pid].seen /\ f.handle.counter = pids[f.pid].cc)
        /\ f.pid \in PmtPids
    BY <1>2, <2>1 DEF CountersOK, PmtsOK, EntryOK
  <2> HIDE DEF e, f
  <2>3. f.pid \in Pids
    BY <2>2 DEF Pids
  <2>4. all[p.pid] = [seen |-> TRUE, cc |-> p.cc] /\ (f.pid # p.pid => all[f.pid] = pids[f.pid])
    BY <1>3, <2>3 DEF ReadOf
  <2> HIDE DEF all
  <2>5. all[p.pid].seen = TRUE /\ all[p.pid].cc = p.cc
    BY <2>4
  <2>6. e.handle.counter = CCs \/ (all[e.pid].seen /\ e.handle.counter = all[e.pid].cc)
    BY <2>2, <2>4, <2>5
  <2> QED
    BY <2>6 DEF e, all
<1>5. u.aborted = c.aborted /\ u.known = c.known /\ p.pid # 0
  BY <1>1 DEF PushedUpTo, Reserved
<1>6. Steady(u.stream, c.stream)
  <2>1. \A n : Entries(u.stream, n) = Entries(c.stream, n) /\ Cardinality(Entries(c.stream, n)) \in Nat
    BY <1>2, SameFound, EntriesCounted DEF PmtsOK
  <2>2. IsSeq(u.stream.pmt) /\ IsSeq(c.stream.pmt)
    BY <1>2 DEF PmtsOK
  <2> QED
    BY <1>1, <2>1, <2>2 DEF PushedUpTo, Steady
<1>7. ASSUME Knows(c.stream, c.known), Heeded(c, p) PROVE Knows(u.stream, Hear(c.known, p))
  BY <1>1, <1>7, PushedKnows DEF Heeded
<1> QED
  BY <1>2, <1>4, <1>5, <1>6, <1>7 DEF Dispatched, u

LEMMA SameEntries ==
  ASSUME NEW s, NEW t, s.pmt = t.pmt
  PROVE  /\ \A n : Entries(s, n) = Entries(t, n)
         /\ \A known : Knows(t, known) => Knows(s, known)
<1>1. \A n : Entries(s, n) = Entries(t, n)
  BY DEF Entries
<1>2. \A n : Found(s, n) = Found(t, n)
  BY <1>1 DEF Found
<1>3. ASSUME NEW known, Knows(t, known) PROVE Knows(s, known)
  BY <1>1, <1>2, <1>3 DEF Knows
<1> QED
  BY <1>1, <1>3

\* What Show() does with a handle.
PushedTable(u, c, name, r) ==
  /\ DOMAIN u = LoopFields /\ u.aborted = c.aborted /\ u.known = c.known /\ u.failing = c.failing
  /\ DOMAIN u.stream = StreamFields
  /\ u.stream.pmt = c.stream.pmt /\ u.stream.leaked = c.stream.leaked
  /\ u.stream.handle[name] = r.handle
  /\ \A n \in DOMAIN c.stream.handle : n # name => u.stream.handle[n] = c.stream.handle[n]
  /\ Show(c, name, r) =
       IF r.table = NULL \/ name # "pat" THEN u
       ELSE [u EXCEPT !.stream = handle_PAT(u.stream, Contents(r.table), c.failing),
                      !.known = Follow(Contents(r.table))]

LEMMA ShowParts ==
  ASSUME NEW c, DOMAIN c = LoopFields, DOMAIN c.stream = StreamFields, NEW name \in DOMAIN c.stream.handle,
         NEW r
  PROVE  \E u : PushedTable(u, c, name, r)
<1> DEFINE handle == c.stream.handle
           new == [handle EXCEPT ![name] = r.handle]
           s == [c.stream EXCEPT !.handle = new]
           u == [c EXCEPT !.stream = s]
<1>1. new[name] = r.handle /\ \A n \in DOMAIN handle : n # name => new[n] = handle[n]
  OBVIOUS
<1>6. Show(c, name, r) = IF r.table = NULL \/ name # "pat" THEN u
                         ELSE [u EXCEPT !.stream = handle_PAT(u.stream, Contents(r.table), u.failing),
                                        !.known = Follow(Contents(r.table))]
  BY DEF Show
<1> HIDE DEF new
<1>2. /\ DOMAIN s = StreamFields /\ s.handle = new /\ s.pmt = c.stream.pmt /\ s.leaked = c.stream.leaked
  BY DEF StreamFields
<1> HIDE DEF s
<1>3. /\ DOMAIN u = LoopFields /\ u.stream = s /\ u.aborted = c.aborted /\ u.known = c.known
      /\ u.failing = c.failing
  BY DEF LoopFields
<1> HIDE DEF u, handle
<1> QED
  BY <1>1, <1>2, <1>3, <1>6 DEF handle, PushedTable

LEMMA DispatchedToPat ==
  ASSUME NEW c, Kept(c, c), c.failing \in Failing, StreamOK(c.stream), PatHandle(c.stream.handle["pat"]),
         PmtsOK(c.stream), CountersOK(c.stream, c.stream.pid), KnownOK(c.known),
         NEW p \in AirPackets, p.pid = 0, p.section \in Pats, ~IsPmt(p),
         NEW u \in Dispatch(c, p)
  PROVE  Dispatched(u, c, p)
<1> DEFINE h == c.stream.handle["pat"]
           list == Contents({p.section})
<1>1. PICK r : /\ PacketPush(h, p, "pat") = {r}
               /\ Duplicate(h, p) => r.handle = h
               /\ ~Duplicate(h, p) => PatKnown(r.handle, p)
               /\ New(h, p) => r.table = {p.section}
               /\ ~New(h, p) => r.table = NULL
  <2>1. PatHandle(h) /\ p.cc \in 0..CCs-1
    BY AirParts
  <2> HIDE DEF h
  <2> QED
    BY <2>1, PatPushed
<1>2. u = Show(c, "pat", r)
  <2>1. HandleOf(p.pid) = "pat" /\ "pat" # NULL
    <3>1. NULL \notin {Names[i] : i \in 1..6}
      BY StreamAssumption
    <3>2. Names[1] = "pat" /\ 1 \in 1..6
      BY DEF Names
    <3> QED
      BY <3>1, <3>2 DEF HandleOf
  <2>2. Dispatch(c, p) = {Show(c, "pat", x) : x \in PacketPush(h, p, "pat")}
    BY <2>1 DEF Dispatch
  <2> HIDE DEF h
  <2> QED
    BY <1>1, <2>2
<1>3. DOMAIN c = LoopFields /\ DOMAIN c.stream = StreamFields /\ "pat" \in DOMAIN c.stream.handle /\ IsSeq(c.stream.pmt)
      /\ DOMAIN c.stream.pid = Pids
  BY DEF Kept, StreamKept, HandlesOK, StreamOK
<1>4. PICK v : /\ DOMAIN v = LoopFields /\ v.aborted = c.aborted /\ v.known = c.known /\ v.failing = c.failing
               /\ DOMAIN v.stream = StreamFields
               /\ v.stream.pmt = c.stream.pmt /\ v.stream.leaked = c.stream.leaked
               /\ v.stream.handle["pat"] = r.handle
               /\ Show(c, "pat", r) =
                    IF r.table = NULL THEN v
                    ELSE [v EXCEPT !.stream = handle_PAT(v.stream, Contents(r.table), c.failing),
                                   !.known = Follow(Contents(r.table))]
  <2>1. \E v : PushedTable(v, c, "pat", r)
    BY <1>3, ShowParts
  <2> QED
    BY <2>1 DEF PushedTable
<1>5. PmtsOK(v.stream) /\ CountersOK(c.stream, ReadOf(c.stream.pid, p))
  <2>1. p.pid \in Reserved
    BY DEF Reserved
  <2> QED
    BY <1>3, <1>4, <2>1, ReadElsewhere DEF PmtsOK
<1>6. Hear(u.known, p) = u.known
  BY DEF Hear
<1>7. CASE ~New(h, p)
  <2>1. u = v
    BY <1>1, <1>2, <1>4, <1>7
  <2>2. \A n : Entries(v.stream, n) = Entries(c.stream, n) /\ Cardinality(Entries(c.stream, n)) \in Nat
    BY <1>3, <1>4, EntriesCounted, SameEntries
  <2>3. Bit(New(h, p)) \in Nat
    BY DEF Bit
  <2> DEFINE bit == Bit(New(h, p))
  <2>6. \A n \in Programs : Cardinality(Entries(v.stream, n)) <= Cardinality(Entries(c.stream, n)) + bit
    <3> HIDE DEF bit
    <3> QED
      BY <2>2, <2>3 DEF bit
  <2>4. Shown(v.stream, c.stream, p, c.failing)
    BY <1>1, <1>3, <1>4, <2>6 DEF Shown
  <2>5. Knows(c.stream, c.known) => Knows(v.stream, v.known)
    BY <1>4, SameEntries
  <2>7. CountersOK(v.stream, ReadOf(c.stream.pid, p))
    BY <1>4, <1>5 DEF CountersOK
  <2> QED
    BY <1>4, <1>5, <1>6, <2>1, <2>4, <2>5, <2>7 DEF Dispatched
<1>8. CASE New(h, p)
  <2> DEFINE w == handle_PAT(v.stream, list, c.failing)
             k == Follow(list)
  <2>1. r.table = {p.section} /\ r.table # NULL
    BY <1>1, <1>8, PatParts
  <2>2. u = [v EXCEPT !.stream = w, !.known = k]
    BY <1>2, <1>4, <2>1
  <2>3. list \in Lists /\ IsSeq(list)
    <3>1. Only({p.section}) = p.section
      BY DEF Only
    <3>2. list \in Lists
      BY <3>1, PatParts DEF Contents
    <3> QED
      BY <3>2, AnalysisAssumption DEF IsSeq
  <2>4. PatFronts(w, v.stream, list, c.failing)
    <3> HIDE DEF list
    <3> QED
      BY <1>3, <1>4, <2>3, PatIsFronted
  <2> HIDE DEF w, k, list
  <2>5. DOMAIN u = LoopFields /\ u.stream = w /\ u.known = k /\ u.aborted = c.aborted
    BY <1>4, <2>2 DEF LoopFields
  <2>6. PICK m \in 0..Len(list) :
          FrontedPmt(w.pmt, v.stream.pmt, list, Len(list), m) /\ (c.failing = "none" => m = Len(list))
    BY <2>4 DEF PatFronts
  <2>7. PmtsOK(w) /\ CountersOK(w, ReadOf(c.stream.pid, p))
    <3>1. CountersOK(v.stream, ReadOf(c.stream.pid, p))
      BY <1>4, <1>5 DEF CountersOK
    <3> QED
      BY <1>5, <2>3, <2>6, <3>1, FrontedOK
  <2>8. KnownOK(k)
    BY <2>3, FollowParts DEF k
  <2>9. Shown(w, c.stream, p, c.failing)
    <3>1. \A n : Cardinality(Entries(w, n)) <= Cardinality(Entries(v.stream, n)) + 1
      BY <1>3, <1>4, <2>3, <2>6, FrontedCount
    <3>2. \A n : Entries(v.stream, n) = Entries(c.stream, n)
      BY <1>4 DEF Entries
    <3>3. Bit(New(h, p)) = 1
      BY <1>8 DEF Bit
    <3>4. w.handle["pat"] = r.handle /\ (w.leaked = c.stream.leaked \/ (c.failing = "attach" /\ w.leaked = c.stream.leaked + 1))
      BY <1>4, <2>4 DEF PatFronts
    <3>5. IsSeq(w.pmt)
      BY <2>7 DEF PmtsOK
    <3> QED
      BY <1>1, <1>3, <3>1, <3>2, <3>3, <3>4, <3>5 DEF Shown
  <2>10. c.failing = "none" => Knows(w, k)
    BY <1>3, <1>4, <2>3, <2>6, FrontedKnows DEF k
  <2> QED
    BY <1>6, <2>5, <2>7, <2>8, <2>9, <2>10 DEF Dispatched
<1> QED
  BY <1>7, <1>8

LEMMA DispatchedElsewhere ==
  ASSUME NEW c, Kept(c, c), StreamOK(c.stream),
         PmtsOK(c.stream), CountersOK(c.stream, c.stream.pid), KnownOK(c.known),
         NEW p \in AirPackets, p.pid \in Reserved \ {0}, HandleOf(p.pid) \in {"tdt", "sdt"}, ~IsPmt(p),
         NEW u \in Dispatch(c, p)
  PROVE  Dispatched(u, c, p)
<1> DEFINE name == HandleOf(p.pid)
<1>1. name \in {"tdt", "sdt"} /\ name # NULL
  <2>1. NULL \notin {Names[i] : i \in 1..6}
    BY StreamAssumption
  <2>2. Names[6] = "tdt" /\ Names[3] = "sdt" /\ 6 \in 1..6 /\ 3 \in 1..6
    BY DEF Names
  <2> QED
    BY <2>1, <2>2
<1>2. DOMAIN c = LoopFields /\ DOMAIN c.stream = StreamFields /\ IsSeq(c.stream.pmt) /\ DOMAIN c.stream.pid = Pids
      /\ DOMAIN c.stream.handle = {"pat", "cat", "sdt", "rst", "eit", "tdt"}
  BY DEF Kept, StreamKept, HandlesOK, StreamOK
<1>3. PICK r : u = Show(c, name, r)
  BY <1>1 DEF Dispatch
<1> HIDE DEF name
<1>4. /\ u.aborted = c.aborted /\ u.known = c.known /\ DOMAIN u.stream = StreamFields
      /\ u.stream.pmt = c.stream.pmt /\ u.stream.leaked = c.stream.leaked
      /\ u.stream.handle["pat"] = c.stream.handle["pat"]
  <2>1. name \in DOMAIN c.stream.handle /\ name # "pat" /\ "pat" \in DOMAIN c.stream.handle
    BY <1>1, <1>2
  <2>2. PICK v : PushedTable(v, c, name, r)
    BY <1>2, <2>1, ShowParts
  <2>3. u = v
    BY <1>3, <2>1, <2>2 DEF PushedTable
  <2> QED
    BY <2>1, <2>2, <2>3 DEF PushedTable
<1>5. PmtsOK(u.stream) /\ CountersOK(u.stream, ReadOf(c.stream.pid, p))
  <2>1. CountersOK(c.stream, ReadOf(c.stream.pid, p))
    BY <1>2, ReadElsewhere
  <2> QED
    BY <1>4, <2>1 DEF PmtsOK, CountersOK
<1>6. Steady(u.stream, c.stream)
  BY <1>2, <1>4, SteadyItself
<1>7. Knows(c.stream, c.known) => Knows(u.stream, Hear(u.known, p))
  <2>1. Hear(u.known, p) = c.known
    BY <1>4 DEF Hear
  <2> QED
    BY <1>4, <2>1, SameEntries
<1> QED
  BY <1>4, <1>5, <1>6, <1>7 DEF Dispatched

LEMMA DispatchKnows ==
  ASSUME NEW c, Kept(c, c), c.failing \in Failing, StreamOK(c.stream), PatHandle(c.stream.handle["pat"]),
         PmtsOK(c.stream), CountersOK(c.stream, c.stream.pid), KnownOK(c.known),
         NEW p \in AirPackets, NEW u \in Dispatch(c, p)
  PROVE  Dispatched(u, c, p)
<1>1. CASE p.pid \notin Reserved /\ HandleOf(p.pid) = NULL /\ PmtSent(p)
  <2>1. u = PushToPmts(c, p)
    BY <1>1 DEF Dispatch
  <2> QED
    BY <1>1, <2>1, DispatchedToPmts
<1> QED
  BY <1>1, AirCases, DispatchedToPat, DispatchedElsewhere
----------------------------------------------------------------------------
(* What the loop makes of a buffer.                                        *)

\* What CheckContinuity() leaves alone.
LEMMA ReadParts ==
  ASSUME NEW u, DOMAIN u = LoopFields, DOMAIN u.stream = StreamFields, IsSeq(u.read),
         DOMAIN u.stream.pid = Pids, NEW p, p.pid \in Pids, NEW v, v = CheckContinuity(u, p)
  PROVE  /\ v.known = Hear(u.known, p) /\ v.failing = u.failing /\ v.aborted = u.aborted
         /\ v.stream.handle = u.stream.handle /\ v.stream.pmt = u.stream.pmt
         /\ v.stream.leaked = u.stream.leaked /\ v.stream.pid = ReadOf(u.stream.pid, p)
         /\ \E x : x.packet = p /\ Readings(v) = Readings(u) \cup {x}
<1> DEFINE known == u.stream.pid[p.pid]
           warned == IsGap(known, p) /\ p.pid # Null /\ ~Announced(p)
           x == [packet |-> p, fresh |-> ~known.seen, warned |-> warned]
           pid1 == ReadOf(u.stream.pid, p)
           read1 == Append(u.read, x)
           s == [u.stream EXCEPT !.pid = pid1]
           heard1 == Hear(u.known, p)
<1>1. v = [[[u EXCEPT !.stream = s] EXCEPT !.read = read1] EXCEPT !.known = heard1]
  BY DEF CheckContinuity, LoopFields, ReadOf
<1>2. x.packet = p
  OBVIOUS
<1> HIDE DEF pid1, x, heard1
<1>3. {read1[i] : i \in DOMAIN read1} = Readings(u) \cup {x}
  <2>1. /\ IsSeq(read1) /\ Len(read1) = Len(u.read) + 1 /\ read1[Len(u.read) + 1] = x
        /\ \A i \in 1..Len(u.read) : read1[i] = u.read[i]
    BY SeqAppend
  <2>2. Len(u.read) \in Nat /\ DOMAIN u.read = 1..Len(u.read) /\ DOMAIN read1 = 1..(Len(u.read) + 1)
    BY <2>1, SeqParts
  <2> DEFINE n == Len(u.read)
  <2> HIDE DEF read1, n
  <2>3. \A i \in 1..n+1 : i \in 1..n \/ i = n + 1
    BY <2>2 DEF n
  <2>4. 1..n \subseteq 1..n+1 /\ n + 1 \in 1..n+1
    BY <2>2 DEF n
  <2> QED
    BY <2>1, <2>2, <2>3, <2>4 DEF Readings, n
<1> HIDE DEF read1
<1>4. /\ s.pid = pid1 /\ s.handle = u.stream.handle /\ s.pmt = u.stream.pmt /\ s.leaked = u.stream.leaked
  BY DEF StreamFields
<1> HIDE DEF s
<1>5. /\ v.stream = s /\ v.read = read1 /\ v.failing = u.failing /\ v.aborted = u.aborted /\ v.known = heard1
  BY <1>1 DEF LoopFields
<1>6. Readings(v) = Readings(u) \cup {x}
  BY <1>3, <1>5 DEF Readings
<1> QED
  BY <1>2, <1>4, <1>5, <1>6 DEF pid1, heard1

\* A turn that reads no packet, and one that does.
Quiet(w, t) ==
  /\ w.known = t.known /\ w.failing = t.failing /\ w.aborted = t.aborted /\ w.read = t.read
  /\ w.stream.handle = t.stream.handle /\ w.stream.pmt = t.stream.pmt
  /\ w.stream.pid = t.stream.pid /\ w.stream.leaked = t.stream.leaked

\* A turn of the loop in which packet p is read.
ReadsOne(w, t, c, u, p, b) ==
  /\ Quiet(c, t) /\ Kept(c, c) /\ StreamOK(c.stream) /\ c.failing \in Failing
  /\ p \in AirPackets /\ p \in Arrived(b) /\ \A r \in Readings(t) : r.packet.pid # p.pid
  /\ u \in Dispatch(c, p) /\ w = CheckContinuity(u, p)

LEMMA TurnReads ==
  ASSUME NEW b \in Seq(Bytes), Framed(b), NEW before, NEW base \in Nat, NEW t, LoopOK(t, b, before, base)
  PROVE  Quiet(Turn(t, b), t) \/ \E c, u, p : ReadsOne(Turn(t, b), t, c, u, p, b)
<1> DEFINE lost == check_sync_word(b, t.at)
           stream1 == [t.stream EXCEPT !.lost_bytes = @ + lost]
           synced == [t EXCEPT !.at = @ + lost, !.stream.lost_bytes = @ + lost]
           stream2 == [stream1 EXCEPT !.packets = @ + 1]
           counted == [synced EXCEPT !.at = @ + PacketSize, !.stream.packets = @ + 1]
           p == PacketAt(b, synced.at)
           D == {CheckContinuity(u, p) : u \in Dispatch(counted, p)}
<1>1. /\ Len(b) \in Nat /\ PacketSize \in Nat \ {0} /\ DOMAIN b = 1..Len(b)
      /\ LoopTyped(t, b) /\ ReadSoFar(t, b, before) /\ t.at \in Nat
      /\ DOMAIN t = LoopFields /\ StreamOK(t.stream)
  BY AnalysisAssumption DEF LoopOK, LoopTyped
<1>2. CASE ~(t.at <= Len(b))
  <2>1. Turn(t, b) = t
    BY <1>1, <1>2 DEF Turn
  <2> QED
    BY <2>1 DEF Quiet
<1>3. CASE t.at <= Len(b)
  <2>1. /\ lost \in Nat /\ t.at + lost <= Len(b) + 1
        /\ t.at + lost <= Len(b) => t.at + lost + PacketSize <= Len(b) + 1
    <3> DEFINE at == t.at
    <3>1. at \in 1..Len(b)
      BY <1>1, <1>3 DEF LoopTyped
    <3> HIDE DEF at
    <3>2. LET l == check_sync_word(b, at) IN
          /\ l \in Nat /\ at + l <= Len(b) + 1
          /\ at + l <= Len(b) => at + l + PacketSize <= Len(b) + 1
      BY <3>1, SyncFound
    <3> QED
      BY <3>2 DEF at
  <2>2. Turn(t, b) = IF synced.at > Len(b) THEN synced
                     ELSE IF p = NULL THEN counted ELSE Only(D)
    BY <1>1, <1>3 DEF Turn
  <2> HIDE DEF lost
  <2>3. /\ DOMAIN stream1 = StreamFields /\ StreamOK(stream1) /\ stream1.pid = t.stream.pid
        /\ stream1.handle = t.stream.handle /\ stream1.pmt = t.stream.pmt /\ stream1.leaked = t.stream.leaked
    BY <1>1, <2>1 DEF StreamOK, StreamKept, StreamFields
  <2>4. /\ DOMAIN synced = LoopFields /\ synced.stream = stream1 /\ synced.at = t.at + lost
        /\ synced.read = t.read /\ synced.failing = t.failing /\ synced.known = t.known
        /\ synced.aborted = t.aborted
    BY <1>1 DEF LoopFields
  <2> HIDE DEF stream1
  <2>5. /\ StreamOK(stream2) /\ stream2.pid = t.stream.pid
        /\ stream2.handle = t.stream.handle /\ stream2.pmt = t.stream.pmt /\ stream2.leaked = t.stream.leaked
    BY <2>3 DEF StreamOK, StreamKept, StreamFields
  <2> HIDE DEF synced
  <2>6. /\ DOMAIN counted = LoopFields /\ counted.stream = stream2 /\ counted.known = t.known
        /\ counted.read = t.read /\ counted.failing = t.failing /\ counted.aborted = t.aborted
    BY <2>4 DEF LoopFields
  <2> HIDE DEF counted, stream2
  <2>7. Quiet(counted, t) /\ Kept(counted, counted) /\ StreamOK(counted.stream) /\ counted.failing \in Failing
    BY <1>1, <2>5, <2>6 DEF Quiet, Kept, StreamOK, LoopTyped
  <2>8. CASE synced.at > Len(b)
    <3>1. Turn(t, b) = synced
      BY <2>2, <2>8
    <3> QED
      BY <2>3, <2>4, <3>1 DEF Quiet
  <2>9. CASE ~(synced.at > Len(b)) /\ p = NULL
    BY <2>2, <2>7, <2>9
  <2>10. CASE ~(synced.at > Len(b)) /\ p # NULL
    <3> DEFINE a == synced.at
    <3>1. a \in 1..Len(b) /\ a + PacketSize <= Len(b) + 1 /\ a = t.at + lost
      BY <1>1, <2>1, <2>4, <2>10 DEF LoopTyped
    <3> HIDE DEF a
    <3>2. p = PacketAt(b, a)
      BY DEF a
    <3> HIDE DEF p
    <3>3. p \in AirPackets /\ p = b[a].packet
      BY <2>10, <3>1, <3>2, AirAt
    <3>4. p \in Arrived(b)
      BY <1>1, <2>10, <3>1, <3>3 DEF Arrived
    <3>5. ASSUME NEW r \in Readings(t) PROVE r.packet.pid # p.pid
      <4>1. Judged(r, t.stream.pid, before)
        BY <1>1 DEF ReadSoFar
      <4>2. PICK i \in 1..t.at-1 : b[i].packet = r.packet
        BY <1>1 DEF ReadSoFar
      <4>3. i \in 1..Len(b) /\ i < a
        <5> DEFINE at == t.at
                   len == Len(b)
        <5>1. at \in Nat /\ len \in Nat /\ a \in 1..len /\ at <= a /\ i \in 1..at-1
          BY <1>1, <2>1, <3>1
        <5> HIDE DEF at, len
        <5>2. i \in 1..len /\ i < a
          BY <5>1
        <5> QED
          BY <5>2 DEF len
      <4>4. r.packet # NULL
        BY <4>1, AirParts DEF Judged
      <4> QED
        BY <2>10, <3>1, <3>2, <4>2, <4>3, <4>4 DEF Framed
    <3>6. PICK u \in Dispatch(counted, p) : Turn(t, b) = CheckContinuity(u, p)
      <4>1. Dispatch(counted, p) # {}
        <5>1. Sent(p) /\ Lists \subseteq Seq(Nat \X Nat)
          BY <3>3, AirParts, AnalysisAssumption
        <5> QED
          BY <2>7, <5>1, DispatchKeeps
      <4>2. D # {}
        BY <4>1
      <4>3. Only(D) \in D
        <5> HIDE DEF D
        <5> QED
          BY <4>2, OnlyOne
      <4>4. Turn(t, b) = Only(D)
        BY <2>2, <2>10
      <4> QED
        BY <4>3, <4>4
    <3>7. ReadsOne(Turn(t, b), t, counted, u, p, b)
      BY <2>7, <3>3, <3>4, <3>5, <3>6 DEF ReadsOne
    <3> QED
      BY <3>7
  <2> QED
    BY <2>8, <2>9, <2>10
<1> QED
  BY <1>2, <1>3

\* The buffer has one packet.
OneOnly(A) == \A p, q \in A : p = q

\* The packets of a buffer are heeded: there is one only, or none can be mistaken.
Hearable(A, pids, known) ==
  \A p \in A : (pids[p.pid].seen => pids[p.pid].cc # p.cc) \/ (HeardAs(known, p) /\ OneOnly(A))

\* What the loop over buffer b has made of the stream s0 and what was known of it.
KnowsLoop(t, A, s0, k0, failing) ==
  /\ t.aborted = FALSE /\ t.failing = failing /\ KnownOK(t.known)
  /\ PmtsOK(t.stream) /\ CountersOK(t.stream, t.stream.pid)
  /\ (\A r \in Readings(t) : r.packet.pid # 0) => Steady(t.stream, s0)
  /\ \A r \in Readings(t) : r.packet.pid = 0 => Shown(t.stream, s0, r.packet, failing)
  /\ Readings(t) = {} => t.known = k0
  /\ OneOnly(A) => \A r \in Readings(t) : HeardAs(t.known, r.packet)
  /\ failing = "none" /\ Knows(s0, k0) /\ Hearable(A, s0.pid, k0) => Knows(t.stream, t.known)

LEMMA QuietKnows ==
  ASSUME NEW w, NEW t, Quiet(w, t), NEW A, NEW s0, NEW k0, NEW failing, KnowsLoop(t, A, s0, k0, failing)
  PROVE  KnowsLoop(w, A, s0, k0, failing)
<1>1. Steady(w.stream, t.stream)
  BY SteadyItself DEF Quiet, KnowsLoop, PmtsOK
<1>2. /\ Steady(t.stream, s0) => Steady(w.stream, s0)
      /\ \A p : Shown(t.stream, s0, p, failing) => Shown(w.stream, s0, p, failing)
  BY <1>1, SteadyFurther
<1>3. PmtsOK(w.stream) /\ CountersOK(w.stream, w.stream.pid)
  BY DEF Quiet, KnowsLoop, PmtsOK, CountersOK
<1>4. Readings(w) = Readings(t)
  BY DEF Quiet, Readings
<1>5. Knows(t.stream, t.known) => Knows(w.stream, w.known)
  BY SameEntries DEF Quiet
<1> QED
  BY <1>2, <1>3, <1>4, <1>5 DEF KnowsLoop, Quiet

LEMMA ReadKnows ==
  ASSUME NEW t, NEW b, NEW s0, NEW k0, NEW failing, KnowsLoop(t, Arrived(b), s0, k0, failing),
         PatHandle(s0.handle["pat"]),
         IsSeq(t.read), \A r \in Readings(t) : r.packet \in Arrived(b),
         NEW w, NEW c, NEW u, NEW p, ReadsOne(w, t, c, u, p, b), c.stream.pid[p.pid] = s0.pid[p.pid]
  PROVE  KnowsLoop(w, Arrived(b), s0, k0, failing)
<1> DEFINE A == Arrived(b)
<1>1. /\ Quiet(c, t) /\ Kept(c, c) /\ StreamOK(c.stream) /\ c.failing \in Failing
      /\ p \in AirPackets /\ p \in A /\ (\A r \in Readings(t) : r.packet.pid # p.pid)
      /\ u \in Dispatch(c, p) /\ w = CheckContinuity(u, p)
  BY DEF ReadsOne
<1> HIDE DEF A
<1>2. KnowsLoop(c, A, s0, k0, failing) /\ Readings(c) = Readings(t)
  BY <1>1, QuietKnows DEF A, Quiet, Readings
<1>3. PatHandle(c.stream.handle["pat"])
  <2>1. CASE \A r \in Readings(c) : r.packet.pid # 0
    BY <1>2, <2>1 DEF KnowsLoop, Steady
  <2>2. ASSUME NEW r \in Readings(c), r.packet.pid = 0 PROVE PatHandle(c.stream.handle["pat"])
    <3>1. Shown(c.stream, s0, r.packet, failing)
      BY <1>2, <2>2 DEF KnowsLoop
    <3> QED
      BY <3>1 DEF Shown, PatKnown
  <2> QED
    BY <2>1, <2>2
<1>4. /\ c.aborted = FALSE /\ c.failing = failing /\ KnownOK(c.known)
      /\ PmtsOK(c.stream) /\ CountersOK(c.stream, c.stream.pid)
  BY <1>2 DEF KnowsLoop
<1>5. Dispatched(u, c, p)
  BY <1>1, <1>3, <1>4, DispatchKnows
<1>6. p.pid \in Pids /\ (IsPmt(p) => p.section.ext \in Programs)
  <2>1. p.pid \in Pids /\ (~IsPmt(p) \/ PmtSent(p))
    BY <1>1, AirCases
  <2> QED
    BY <2>1, PmtParts DEF IsPmt, PmtSent
<1>7. /\ Kept(u, c) /\ DOMAIN u = LoopFields /\ DOMAIN u.stream = StreamFields /\ IsSeq(u.stream.pmt)
      /\ u.read = c.read /\ u.failing = c.failing /\ u.stream.pid = c.stream.pid /\ DOMAIN u.stream.pid = Pids
  <2>1. Sent(p) /\ Lists \subseteq Seq(Nat \X Nat)
    BY <1>1, AirParts, AnalysisAssumption
  <2>2. Kept(u, c)
    BY <1>1, <2>1, DispatchKeeps
  <2> QED
    BY <1>1, <2>2 DEF Kept, StreamKept, StreamOK
<1>8. PICK x : /\ w.known = Hear(u.known, p) /\ w.failing = u.failing /\ w.aborted = u.aborted
               /\ w.stream.handle = u.stream.handle /\ w.stream.pmt = u.stream.pmt
               /\ w.stream.leaked = u.stream.leaked /\ w.stream.pid = ReadOf(c.stream.pid, p)
               /\ x.packet = p /\ Readings(w) = Readings(t) \cup {x}
  <2>1. IsSeq(u.read) /\ Readings(u) = Readings(t)
    BY <1>1, <1>7 DEF Quiet, Readings
  <2> QED
    BY <1>1, <1>6, <1>7, <2>1, ReadParts
<1>9. /\ u.aborted = c.aborted /\ KnownOK(u.known) /\ PmtsOK(u.stream)
      /\ CountersOK(u.stream, ReadOf(c.stream.pid, p))
      /\ p.pid # 0 => Steady(u.stream, c.stream) /\ u.known = c.known
      /\ p.pid = 0 => Shown(u.stream, c.stream, p, failing)
      /\ failing = "none" /\ Knows(c.stream, c.known) /\ Heeded(c, p) => Knows(u.stream, Hear(u.known, p))
  BY <1>4, <1>5 DEF Dispatched
<1>10. KnownOK(w.known) /\ HeardAs(w.known, p)
  BY <1>6, <1>8, <1>9, HearParts
<1>11. PmtsOK(w.stream) /\ CountersOK(w.stream, w.stream.pid)
  BY <1>8, <1>9 DEF PmtsOK, CountersOK
<1>12. Steady(w.stream, u.stream)
  BY <1>7, <1>8, SteadyItself
<1>13. ASSUME \A r \in Readings(w) : r.packet.pid # 0 PROVE Steady(w.stream, s0)
  <2>1. p.pid # 0 /\ \A r \in Readings(c) : r.packet.pid # 0
    BY <1>2, <1>8, <1>13
  <2>2. Steady(c.stream, s0) /\ Steady(u.stream, c.stream)
    BY <1>2, <1>9, <2>1 DEF KnowsLoop
  <2>3. Steady(u.stream, s0)
    BY <2>2, SteadyFurther
  <2> QED
    BY <1>12, <2>3, SteadyFurther
<1>14. ASSUME NEW r \in Readings(w), r.packet.pid = 0 PROVE Shown(w.stream, s0, r.packet, failing)
  <2>1. CASE p.pid = 0
    <3>1. r = x /\ r.packet = p
      BY <1>1, <1>8, <1>14, <2>1
    <3>2. Steady(c.stream, s0)
      BY <1>1, <1>2, <2>1 DEF KnowsLoop
    <3>3. Shown(u.stream, c.stream, p, failing)
      BY <1>9, <2>1
    <3>4. Shown(u.stream, s0, p, failing)
      BY <3>2, <3>3, ShownFurther
    <3> QED
      BY <1>12, <3>1, <3>4, SteadyFurther
  <2>2. CASE p.pid # 0
    <3>1. r \in Readings(c)
      BY <1>2, <1>8, <1>14, <2>2
    <3>2. Shown(c.stream, s0, r.packet, failing) /\ Steady(u.stream, c.stream)
      BY <1>2, <1>9, <1>14, <2>2, <3>1 DEF KnowsLoop
    <3>3. Shown(u.stream, s0, r.packet, failing)
      BY <3>2, SteadyFurther
    <3> QED
      BY <1>12, <3>3, SteadyFurther
  <2> QED
    BY <2>1, <2>2
<1>15. Readings(w) # {}
  BY <1>8
<1>16. OneOnly(A) => Readings(t) = {}
  BY <1>1 DEF OneOnly, A
<1>17. ASSUME OneOnly(A) PROVE \A r \in Readings(w) : HeardAs(w.known, r.packet)
  BY <1>8, <1>10, <1>16, <1>17
<1>18. ASSUME failing = "none", Knows(s0, k0), Hearable(A, s0.pid, k0)
       PROVE  Knows(w.stream, w.known)
  <2>1. Knows(c.stream, c.known)
    BY <1>2, <1>18 DEF KnowsLoop
  <2>2. (s0.pid[p.pid].seen => s0.pid[p.pid].cc # p.cc) \/ (HeardAs(k0, p) /\ OneOnly(A))
    BY <1>1, <1>18 DEF Hearable
  <2>3. Heeded(c, p)
    <3>1. CASE s0.pid[p.pid].seen => s0.pid[p.pid].cc # p.cc
      BY <3>1 DEF Heeded
    <3>2. CASE HeardAs(k0, p) /\ OneOnly(A)
      <4>1. c.known = k0
        BY <1>2, <1>16, <3>2 DEF KnowsLoop
      <4> QED
        BY <3>2, <4>1 DEF Heeded
    <3> QED
      BY <2>2, <3>1, <3>2
  <2>4. Knows(u.stream, w.known)
    BY <1>8, <1>9, <1>18, <2>1, <2>3
  <2> QED
    BY <1>8, <2>4, SameEntries
<1>19. w.aborted = FALSE /\ w.failing = failing
  BY <1>4, <1>7, <1>8, <1>9
<1> QED
  BY <1>10, <1>11, <1>13, <1>14, <1>15, <1>17, <1>18, <1>19 DEF KnowsLoop, A

\* What becomes of the stream by the buffer.
LEMMA ProcessKnows ==
  ASSUME NEW b \in Seq(Bytes), Framed(b), StreamOK(stream), NEW base \in Nat,
         PacketSize * stream.packets + stream.lost_bytes = base, NEW failing \in Failing,
         NEW k0, k0 = [announced |-> announced, heard |-> heard, misfiled |-> misfiled], KnownOK(k0),
         PatHandle(stream.handle["pat"]), PmtsOK(stream), CountersOK(stream, stream.pid)
  PROVE  KnowsLoop(Process(b, failing), Arrived(b), stream, k0, failing)
<1> DEFINE K == Len(b)
           A == Arrived(b)
           s0 == stream
<1>1. PICK f : Runs(f, b, failing, base)
  BY ProcessRuns
<1>2. K \in Nat /\ DOMAIN b = 1..K
  OBVIOUS
<1>3. /\ f[0] = LoopStart(failing) /\ f[K] = Process(b, failing)
      /\ \A n \in 1..K : f[n] = Turn(f[n-1], b)
      /\ \A n \in 0..K : LoopOK(f[n], b, stream.pid, base)
  BY <1>1 DEF Runs
<1> HIDE DEF A, K
<1> DEFINE T == {n \in 0..K : KnowsLoop(f[n], A, s0, k0, failing)}
<1>4. 0 \in T
  <2> DEFINE t == f[0]
  <2>1. /\ t.aborted = FALSE /\ t.failing = failing /\ t.known = k0 /\ t.stream = stream /\ t.read = <<>>
    BY <1>3 DEF LoopStart
  <2> HIDE DEF t
  <2>2. Readings(t) = {}
    <3>1. DOMAIN <<>> = {}
      OBVIOUS
    <3> QED
      BY <2>1, <3>1 DEF Readings
  <2>3. Steady(t.stream, s0)
    BY <2>1, SteadyItself DEF PmtsOK
  <2>4. KnowsLoop(t, A, s0, k0, failing)
    BY <2>1, <2>2, <2>3 DEF KnowsLoop
  <2> QED
    BY <1>2, <2>4 DEF t
<1>5. ASSUME NEW n \in 1..K, n - 1 \in T PROVE n \in T
  <2> DEFINE t == f[n-1]
             w == f[n]
  <2>1. n - 1 \in 0..K /\ n \in 0..K /\ KnowsLoop(t, A, s0, k0, failing)
    BY <1>2, <1>5
  <2>2. w = Turn(t, b) /\ LoopOK(t, b, stream.pid, base)
    BY <1>3, <2>1
  <2> HIDE DEF t, w
  <2>3. Quiet(w, t) \/ \E c, u, p : ReadsOne(w, t, c, u, p, b)
    BY <2>2, TurnReads
  <2>4. CASE Quiet(w, t)
    <3>1. KnowsLoop(w, A, s0, k0, failing)
      BY <2>1, <2>4, QuietKnows
    <3> QED
      BY <2>1, <3>1 DEF w
  <2>5. ASSUME NEW c, NEW u, NEW p, ReadsOne(w, t, c, u, p, b) PROVE n \in T
    <3>1. ReadSoFar(t, b, stream.pid) /\ IsSeq(t.read) /\ t.at \in Nat /\ t.at <= K + 1
      BY <2>2 DEF LoopOK, LoopTyped, ReadSoFar, K
    <3>2. ASSUME NEW r \in Readings(t) PROVE r.packet \in A
      <4>1. Judged(r, t.stream.pid, stream.pid) /\ \E i \in 1..t.at-1 : b[i].packet = r.packet
        BY <3>1 DEF ReadSoFar
      <4>2. r.packet # NULL
        BY <4>1, AirParts DEF Judged
      <4>3. PICK i \in 1..K : b[i].packet = r.packet
        BY <1>2, <3>1, <4>1
      <4> QED
        BY <1>2, <4>2, <4>3 DEF Arrived, A
    <3>3. c.stream.pid[p.pid] = stream.pid[p.pid]
      <4>1. /\ c.stream.pid = t.stream.pid /\ p \in AirPackets /\ \A r \in Readings(t) : r.packet.pid # p.pid
        BY <2>5 DEF ReadsOne, Quiet
      <4>2. p.pid \in Pids
        BY <4>1, AirParts
      <4> QED
        BY <3>1, <4>1, <4>2 DEF ReadSoFar
    <3>4. KnowsLoop(w, A, s0, k0, failing)
      BY <2>1, <2>5, <3>1, <3>2, <3>3, ReadKnows DEF A
    <3> QED
      BY <2>1, <3>4 DEF w
  <2> QED
    BY <2>3, <2>4, <2>5
<1> HIDE DEF T
<1>6. 0..K \subseteq T
  BY <1>2, <1>4, <1>5, IntervalInduction
<1>7. K \in T
  BY <1>2, <1>6
<1> QED
  BY <1>3, <1>7 DEF T, A
----------------------------------------------------------------------------
(* How many decoders there are.                                            *)

\* The decoder of PATs has the last PAT that was read, if there was one.
PatOK(s) ==
  LET h == s.handle["pat"]
      read == s.pid[0]
  IN /\ PatHandle(h)
     /\ h.decoder.discontinuity <=> ~read.seen
     /\ h.decoder.current_valid <=> read.seen
     /\ h.counter = IF read.seen THEN read.cc ELSE CCs

\* There is one decoder of a program for each of n changes and faults, and one for the first
\* PAT; one fewer if the PAT on the air is not the one known, and if it will be taken for new.
Few(s, unread, n, version) ==
  LET d == s.handle["pat"].decoder IN
  \A program \in Programs :
    Cardinality(Entries(s, program)) + Bit(d.current_valid /\ d.current.version # version) + Bit(unread)
      <= Bit(d.current_valid) + n

LEMMA Bits == \A b : Bit(b) \in {0, 1}
BY DEF Bit

LEMMA FewSteady ==
  ASSUME NEW s0, NEW s, Steady(s, s0), NEW unread0, NEW unread, NEW n0 \in Nat, NEW n \in Nat, n0 <= n,
         unread => unread0 \/ n0 < n, NEW version, Few(s0, unread0, n0, version)
  PROVE  Few(s, unread, n, version)
<1> DEFINE d == s0.handle["pat"].decoder
           old == d.current_valid /\ d.current.version # version
<1>1. s.handle["pat"].decoder = d
  BY DEF Steady
<1> SUFFICES ASSUME NEW m \in Programs
             PROVE  Cardinality(Entries(s, m)) + Bit(old) + Bit(unread) <= Bit(d.current_valid) + n
  BY <1>1 DEF Few
<1> DEFINE valid == d.current_valid
           a == Cardinality(Entries(s, m))
           a0 == Cardinality(Entries(s0, m))
<1>2. a0 + Bit(old) + Bit(unread0) <= Bit(valid) + n0
  BY DEF Few
<1>3. a \in Nat /\ a0 \in Nat /\ a <= a0
  BY EntriesCounted DEF Steady
<1> HIDE DEF a, a0, old, valid
<1> DEFINE bo == Bit(old)
           bv == Bit(valid)
           bu == Bit(unread)
           bu0 == Bit(unread0)
<1>4. bo \in {0, 1} /\ bv \in {0, 1} /\ bu \in {0, 1} /\ bu0 \in {0, 1}
  BY Bits
<1>5. bu = 0 \/ bu0 = 1 \/ n0 + 1 <= n
  BY DEF Bit
<1> HIDE DEF bo, bv, bu, bu0
<1>6. a0 + bo + bu0 <= bv + n0
  BY <1>2 DEF bo, bv, bu0
<1>7. a + bo + bu <= bv + n
  BY <1>3, <1>4, <1>5, <1>6
<1> QED
  BY <1>7 DEF a, bo, bu, bv, valid

LEMMA FewAgain ==
  ASSUME NEW s0, NEW s, NEW p, NEW failing, Shown(s, s0, p, failing), Duplicate(s0.handle["pat"], p),
         NEW unread0, NEW n0 \in Nat, NEW n \in Nat, n0 <= n, NEW version, Few(s0, unread0, n0, version)
  PROVE  Few(s, FALSE, n, version)
<1> DEFINE d == s0.handle["pat"].decoder
           old == d.current_valid /\ d.current.version # version
<1>1. s.handle["pat"].decoder = d
  BY DEF Shown
<1> SUFFICES ASSUME NEW m \in Programs
             PROVE  Cardinality(Entries(s, m)) + Bit(old) + Bit(FALSE) <= Bit(d.current_valid) + n
  BY <1>1 DEF Few
<1> DEFINE valid == d.current_valid
           a == Cardinality(Entries(s, m))
           a0 == Cardinality(Entries(s0, m))
<1>2. a0 + Bit(old) + Bit(unread0) <= Bit(valid) + n0
  BY DEF Few
<1>3. Bit(New(s0.handle["pat"], p)) = 0 /\ Bit(FALSE) = 0
  BY DEF Bit, New
<1>8. a <= a0 + Bit(New(s0.handle["pat"], p))
  BY DEF Shown
<1>9. a \in Nat /\ a0 \in Nat
  BY EntriesCounted DEF Shown
<1> HIDE DEF a, a0, old, valid
<1> DEFINE bo == Bit(old)
           bv == Bit(valid)
           bu0 == Bit(unread0)
<1>4. bo \in {0, 1} /\ bv \in {0, 1} /\ bu0 \in {0, 1}
  BY Bits
<1> HIDE DEF bo, bv, bu0
<1>6. a0 + bo + bu0 <= bv + n0
  BY <1>2 DEF bo, bv, bu0
<1>10. a <= a0
  BY <1>3, <1>8, <1>9
<1>7. a + bo + 0 <= bv + n
  BY <1>4, <1>6, <1>9, <1>10
<1> QED
  BY <1>3, <1>7 DEF a, bo, bv, valid

\* A PAT that is taken for new is, or something has happened to the stream before.
LEMMA FewShown ==
  ASSUME NEW s0, PatOK(s0), NEW s, NEW p, NEW failing, Shown(s, s0, p, failing), NEW unread0,
         s0.pid[0].seen /\ ~unread0 => p.cc = (s0.pid[0].cc + 1) % CCs, s0.pid[0].seen \in BOOLEAN,
         NEW n0 \in Nat, NEW n \in Nat, n0 <= n, Few(s0, unread0, n0, p.section.version)
  PROVE  Few(s, FALSE, n, p.section.version)
<1> DEFINE h == s0.handle["pat"]
           d == h.decoder
           version == p.section.version
           old == d.current_valid /\ d.current.version # version
<1>1. CASE Duplicate(h, p)
  BY <1>1, FewAgain
<1>2. CASE ~Duplicate(h, p)
  <2>1. /\ s.handle["pat"].decoder.current_valid = TRUE
        /\ s.handle["pat"].decoder.current.version = version
    BY <1>2 DEF Shown, PatKnown
  <2> SUFFICES ASSUME NEW m \in Programs
               PROVE  Cardinality(Entries(s, m)) + Bit(FALSE) + Bit(FALSE) <= Bit(TRUE) + n
    BY <2>1 DEF Few
  <2> DEFINE a == Cardinality(Entries(s, m))
             a0 == Cardinality(Entries(s0, m))
             valid == d.current_valid
             new == New(h, p)
  <2>2. a0 + Bit(old) + Bit(unread0) <= Bit(valid) + n0
    BY DEF Few
  <2>3. a \in Nat /\ a0 \in Nat
    BY EntriesCounted DEF Shown
  <2>4. a <= a0 + Bit(new)
    BY DEF Shown
  <2>5. new => ~valid \/ old \/ unread0
    <3>1. ASSUME new, valid, ~old, ~unread0 PROVE FALSE
      <4>1. Noticed(h, p) \/ ~DecodedOnce(d, p.section)
        BY <3>1 DEF New
      <4>2. DecodedOnce(d, p.section)
        BY <3>1 DEF DecodedOnce
      <4>3. s0.pid[0].seen /\ h.counter = s0.pid[0].cc /\ ~d.discontinuity
        BY <3>1 DEF PatOK
      <4>4. Gap(h, p)
        BY <4>1, <4>2, <4>3 DEF Noticed
      <4>5. p.cc = Expected(h)
        BY <3>1, <4>3 DEF Expected
      <4> QED
        BY <4>4, <4>5 DEF Gap
    <3> QED
      BY <3>1
  <2> HIDE DEF a, a0, old, valid, new
  <2> DEFINE bo == Bit(old)
             bv == Bit(valid)
             bu == Bit(unread0)
             bn == Bit(new)
  <2>6. bo \in {0, 1} /\ bv \in {0, 1} /\ bu \in {0, 1} /\ bn \in {0, 1}
    BY Bits
  <2>7. bn = 0 \/ bv = 0 \/ bo = 1 \/ bu = 1
    BY <2>5 DEF Bit
  <2>8. Bit(FALSE) = 0 /\ Bit(TRUE) = 1
    BY DEF Bit
  <2> HIDE DEF bo, bv, bu, bn
  <2>9. a0 + bo + bu <= bv + n0 /\ a <= a0 + bn
    BY <2>2, <2>4 DEF bo, bv, bu, bn
  <2>10. a + 0 + 0 <= 1 + n
    BY <2>3, <2>6, <2>7, <2>9
  <2> QED
    BY <2>8, <2>10 DEF a
<1> QED
  BY <1>1, <1>2

\* So many were missed that the next packet looks like the last one that was read.
LEMMA LooksLikeLast ==
  ASSUME NEW C \in Nat \ {0}, NEW k \in 0..C-1, NEW m \in Nat, (((k + m) % C) + 1) % C = k
  PROVE  m % C = C - 1
<1>1. PICK q \in Nat, r \in 0..C-1 : m = C * q + r /\ m % C = r
  BY Division
<1>2. (m + 1) % C = 0
  <2> DEFINE x == k + m
  <2>1. x \in Nat /\ 1 \in Nat /\ x + 1 = k + (m + 1) /\ m + 1 \in Nat
    OBVIOUS
  <2> HIDE DEF x
  <2>2. ((x % C) + 1) % C = (x + 1) % C
    BY <2>1, Remainders
  <2>3. (k + (m + 1)) % C = k
    BY <2>1, <2>2 DEF x
  <2> QED
    BY <2>1, <2>3, Rounds
<1>3. ((m % C) + 1) % C = (m + 1) % C
  BY Remainders
<1>4. r + 1 \in 0..C-1 => (r + 1) % C = r + 1
  BY Small
<1>5. (r + 1) % C = 0
  BY <1>1, <1>2, <1>3
<1> QED
  BY <1>1, <1>4, <1>5

LEMMA PacketIs ==
  ASSUME NEW pid, NEW s, NEW signalled, NEW clock, NEW p, p = Packet(pid, s, signalled, clock)
  PROVE  p.pid = pid /\ p.section = s
BY DEF Packet

\* The PAT that is sent is the current one.
LEMMA PatOnAir ==
  ASSUME AirTyped, NEW p \in Packets, p.pid = 0
  PROVE  p.section.version = pat.version
<1> DEFINE S == Section(0, 1, pat.version, pat.list)
           IsPat == p = Packet(0, S, FALSE, FALSE)
           Other == \E pid \in PmtPids \cup Clocks \cup {2, 17, 20, Null} :
                      \E s, signalled, clock : p = Packet(pid, s, signalled, clock)
<1>1. (PmtPids \cup Clocks) \cap Reserved = {} /\ 0 \in Reserved
  BY StreamAssumption DEF Reserved
<1>2. IsPat \/ Other
  <2> DEFINE of(i) == Section(2, pat.list[i][1], pmt[pat.list[i][1]].version, pmt[pat.list[i][1]].clock)
             P == \E i \in DOMAIN pat.list : p = Packet(pat.list[i][2], of(i), FALSE, FALSE)
             T == \/ p = Packet(20, Section(112, 0, 0, "time"), FALSE, FALSE)
                  \/ p = Packet(2, Section(3, 0, 0, "tsdt"), FALSE, FALSE)
                  \/ p = Packet(17, Section(66, 1, 0, "sdt"), FALSE, FALSE)
                  \/ p = Packet(17, Section(70, 2, 0, "other"), FALSE, FALSE)
             C == \E pid \in Clocks, signalled \in BOOLEAN, clock \in BOOLEAN :
                    p = Packet(pid, NULL, signalled, clock)
             N == p = Packet(Null, NULL, FALSE, FALSE)
  <2>1. IsPat \/ P \/ T \/ C \/ N
    BY PacketKinds
  <2>2. ASSUME NEW i \in DOMAIN pat.list, NEW s, p = Packet(pat.list[i][2], s, FALSE, FALSE) PROVE Other
    <3>1. pat.list[i][2] \in PmtPids
      BY DEF PmtPids, AirTyped
    <3> DEFINE pid == pat.list[i][2]
    <3> HIDE DEF pid
    <3>2. pid \in PmtPids /\ p = Packet(pid, s, FALSE, FALSE)
      BY <2>2, <3>1 DEF pid
    <3> QED
      BY <3>2
  <2>3. CASE P
    <3> HIDE DEF of, Other
    <3> QED
      BY <2>2, <2>3
  <2>4. CASE T
    <3>1. ASSUME NEW pid \in {2, 17, 20}, NEW s, p = Packet(pid, s, FALSE, FALSE) PROVE Other
      BY <3>1
    <3>2. 2 \in {2, 17, 20} /\ 17 \in {2, 17, 20} /\ 20 \in {2, 17, 20}
      OBVIOUS
    <3> HIDE DEF Other
    <3> QED
      BY <2>4, <3>1, <3>2, Zenon
  <2>5. CASE C
    BY <2>5
  <2>6. CASE N
    BY <2>6
  <2> HIDE DEF IsPat, P, T, C, N, Other
  <2> QED
    BY <2>1, <2>3, <2>4, <2>5, <2>6
<1>3. ~Other
  <2> SUFFICES ASSUME NEW pid \in PmtPids \cup Clocks \cup {2, 17, 20, Null}, NEW s, NEW signalled, NEW clock,
                      p = Packet(pid, s, signalled, clock)
               PROVE  FALSE
    OBVIOUS
  <2>1. p.pid = pid
    BY PacketIs
  <2> QED
    BY <1>1, <2>1 DEF Null
<1>4. p.section = S
  <2> HIDE DEF S, Other
  <2>1. p = Packet(0, S, FALSE, FALSE)
    BY <1>2, <1>3
  <2>2. ASSUME NEW s, NEW a, NEW b, p = Packet(0, s, a, b) PROVE p.section = s
    BY <2>2, PacketIs
  <2> QED
    BY <2>1, <2>2, Zenon
<1>5. S.version = pat.version
  <2> DEFINE v == pat.version
             list == pat.list
             l == 0 \notin {112, 3}
             s == [id |-> 0, ext |-> 1, version |-> v, cn |-> TRUE, num |-> 0, last |-> 0,
                   syntax |-> l, gen |-> list]
  <2>1. l = TRUE
    OBVIOUS
  <2> HIDE DEF v, list
  <2>2. S = Parsed(s)
    BY DEF Section, v, list
  <2> HIDE DEF l
  <2>3. s.version = v /\ s.syntax = TRUE
    BY <2>1
  <2> HIDE DEF s, S
  <2>4. S = s
    BY <2>2, <2>3 DEF Parsed
  <2> QED
    BY <2>3, <2>4 DEF v
<1> QED
  BY <1>4, <1>5

\* What the decoder of PATs has behind the buffer.
LEMMA PatFollows ==
  ASSUME NEW t, NEW A, NEW n, BufferRead(t, A, n), NEW k0, NEW failing,
         KnowsLoop(t, A, stream, k0, failing), PatOK(stream), StreamOK(stream)
  PROVE  PatOK(t.stream)
<1>1. CASE \A r \in Readings(t) : r.packet.pid # 0
  <2>1. 0 \in Pids
    BY DEF Pids
  <2>2. t.stream.pid[0] = stream.pid[0]
    BY <1>1, <2>1 DEF BufferRead
  <2>3. t.stream.handle["pat"] = stream.handle["pat"]
    BY <1>1 DEF KnowsLoop, Steady
  <2> QED
    BY <2>2, <2>3 DEF PatOK
<1>2. ASSUME NEW r \in Readings(t), r.packet.pid = 0 PROVE PatOK(t.stream)
  <2> DEFINE p == r.packet
             h == t.stream.handle["pat"]
             h0 == stream.handle["pat"]
             read0 == stream.pid[0]
  <2>1. Shown(t.stream, stream, p, failing)
    BY <1>2 DEF KnowsLoop
  <2>2. t.stream.pid[0] = [seen |-> TRUE, cc |-> p.cc] /\ p.cc \in 0..CCs-1
    BY <1>2, AirParts DEF BufferRead, Judged
  <2>3. (Duplicate(h0, p) => h = h0) /\ (~Duplicate(h0, p) => PatKnown(h, p))
    BY <2>1 DEF Shown
  <2>4. /\ PatHandle(h0) /\ (h0.decoder.discontinuity <=> ~read0.seen)
        /\ (h0.decoder.current_valid <=> read0.seen)
    BY DEF PatOK
  <2> HIDE DEF p, h, h0, read0
  <2>5. PatHandle(h) /\ h.counter = p.cc /\ ~h.decoder.discontinuity /\ h.decoder.current_valid
    <3>1. CASE Duplicate(h0, p)
      BY <2>3, <2>4, <3>1 DEF Duplicate
    <3>2. CASE ~Duplicate(h0, p)
      BY <2>3, <3>2 DEF PatKnown
    <3> QED
      BY <3>1, <3>2
  <2>6. t.stream.pid[0].seen = TRUE /\ t.stream.pid[0].cc = p.cc
    BY <2>2
  <2> QED
    BY <2>5, <2>6 DEF PatOK, h
<1> QED
  BY <1>1, <1>2

\* What was shown of the programs, up to now.
KnownNow == [announced |-> announced, heard |-> heard, misfiled |-> misfiled]

LEMMA SameKnown ==
  ASSUME NEW k, NEW k1, k1.announced = k.announced, k1.heard = k.heard, k1.misfiled = k.misfiled,
         DOMAIN k1 = {"announced", "heard", "misfiled"}
  PROVE  /\ KnownOK(k) => KnownOK(k1)
         /\ \A s : Knows(s, k) => Knows(s, k1)
         /\ \A p : HeardAs(k, p) => HeardAs(k1, p)
<1>1. KnownOK(k) => KnownOK(k1)
  BY DEF KnownOK
<1>2. \A s : Knows(s, k) => Knows(s, k1)
  BY DEF Knows
<1>3. \A p : HeardAs(k, p) => HeardAs(k1, p)
  BY DEF HeardAs
<1> QED
  BY <1>1, <1>2, <1>3

\* What a step that reads a buffer does. It brings the packets A, the first of which is p.
BufferTaken(A, p, failing) ==
  /\ KnownOK(KnownNow') /\ step' = "running"
  /\ Deceives(missed') => deceived'
  /\ deceived => deceived'
  /\ PmtsOK(stream') /\ CountersOK(stream', stream'.pid) /\ PatOK(stream')
  /\ stream'.leaked = stream.leaked \/ (failing = "attach" /\ stream'.leaked = stream.leaked + 1)
  /\ stream'.pid[p.pid].seen
  /\ A = {p} => HeardAs(KnownNow', p)
  /\ failing = "none" /\ Knows(stream, KnownNow) /\ Hearable(A, stream.pid, KnownNow) =>
       Knows(stream', KnownNow')
  /\ \/ Steady(stream', stream) /\ (missed'[0] = missed[0] \/ A # {p})
     \/ \E q \in A : q.pid = 0 /\ Shown(stream', stream, q, failing) /\ missed'[0] = 0

LEMMA BufferKnows ==
  ASSUME Running, KnownOK(KnownNow), PatOK(stream), PmtsOK(stream), CountersOK(stream, stream.pid),
         NEW b \in Seq(Bytes), Framed(b), NEW p \in AirPackets, BeginsWith(b, p), Apart(Arrived(b)),
         NEW failing \in Failing, NEW again, Take(b, failing, again)
  PROVE  BufferTaken(Arrived(b), p, failing)
<1> DEFINE t == Process(b, failing)
           A == Arrived(b)
           k0 == KnownNow
           k1 == KnownNow'
<1>1. stream' = t.stream /\ step' = (IF t.aborted THEN "aborted" ELSE step) /\ Note(t, b)
  BY DEF Take
<1>2. BufferRead(t, A, Len(b)) /\ \E r \in Readings(t) : r.packet = p
  BY ProcessCounts DEF Running
<1>3. KnowsLoop(t, A, stream, k0, failing)
  <2>1. StreamOK(stream) /\ Tallied(stream, bytes) /\ bytes \in Nat
    BY DEF Running
  <2>2. PacketSize * stream.packets + stream.lost_bytes = bytes
    BY <2>1 DEF Tallied
  <2>3. k0 = [announced |-> announced, heard |-> heard, misfiled |-> misfiled]
    BY DEF KnownNow
  <2>4. PatHandle(stream.handle["pat"])
    BY DEF PatOK
  <2> HIDE DEF t, k0
  <2>5. KnownOK(k0)
    BY DEF k0
  <2> QED
    BY <2>1, <2>2, <2>3, <2>4, <2>5, ProcessKnows DEF t
<1> HIDE DEF t
<1>4. /\ missed' \in [Pids -> Nat]
      /\ \A pid \in Pids :
           /\ (\E r \in Readings(t) : r.packet.pid = pid) => missed'[pid] = 0
           /\ (\A r \in Readings(t) : r.packet.pid # pid) /\ (\A q \in A : q.pid # pid)
                => missed'[pid] = missed[pid]
  <2>1. missed \in [Pids -> Nat]
    BY DEF Running
  <2> QED
    BY <1>1, <2>1, Misses
<1> HIDE DEF A
<1>5. /\ announced' = t.known.announced /\ heard' = t.known.heard /\ misfiled' = t.known.misfiled
      /\ deceived' = (deceived \/ Deceives(missed'))
  BY <1>1 DEF Note
<1>6. /\ k1.announced = t.known.announced /\ k1.heard = t.known.heard /\ k1.misfiled = t.known.misfiled
      /\ DOMAIN k1 = {"announced", "heard", "misfiled"}
  BY <1>5 DEF KnownNow
<1> HIDE DEF k1
<1>7. /\ KnownOK(t.known) => KnownOK(k1)
      /\ \A s : Knows(s, t.known) => Knows(s, k1)
      /\ \A q : HeardAs(t.known, q) => HeardAs(k1, q)
  BY <1>6, SameKnown
<1>8. KnownOK(k1) /\ step' = "running" /\ PmtsOK(stream') /\ CountersOK(stream', stream'.pid)
  BY <1>1, <1>3, <1>7 DEF KnowsLoop, Running
<1>9. (Deceives(missed') => deceived') /\ (deceived => deceived')
  BY <1>5
<1>10. PatOK(stream')
  BY <1>1, <1>2, <1>3, PatFollows DEF Running
<1>11. PICK x \in Readings(t) : x.packet = p
  BY <1>2
<1>12. stream'.pid[p.pid].seen
  <2>1. t.stream.pid[p.pid] = [seen |-> TRUE, cc |-> p.cc]
    BY <1>2, <1>11 DEF BufferRead, Judged
  <2> QED
    BY <1>1, <2>1
<1>13. ASSUME A = {p} PROVE HeardAs(k1, p)
  <2>1. OneOnly(A)
    BY <1>13 DEF OneOnly
  <2>2. HeardAs(t.known, p)
    BY <1>3, <1>11, <2>1 DEF KnowsLoop
  <2> QED
    BY <1>7, <2>2
<1>14. failing = "none" /\ Knows(stream, k0) /\ Hearable(A, stream.pid, k0) => Knows(stream', k1)
  BY <1>1, <1>3, <1>7 DEF KnowsLoop
<1>15. 0 \in Pids
  BY DEF Pids
<1>16. CASE \A r \in Readings(t) : r.packet.pid # 0
  <2>1. Steady(stream', stream)
    BY <1>1, <1>3, <1>16 DEF KnowsLoop
  <2>2. ASSUME A = {p} PROVE missed'[0] = missed[0]
    <3>1. \A q \in A : q.pid # 0
      BY <1>11, <1>16, <2>2
    <3> QED
      BY <1>4, <1>15, <1>16, <3>1
  <2>3. stream'.leaked = stream.leaked
    BY <2>1 DEF Steady
  <2> QED
    BY <1>8, <1>9, <1>10, <1>12, <1>13, <1>14, <2>1, <2>2, <2>3 DEF BufferTaken, A, k1
<1>17. ASSUME NEW r \in Readings(t), r.packet.pid = 0 PROVE BufferTaken(Arrived(b), p, failing)
  <2>1. Shown(stream', stream, r.packet, failing)
    BY <1>1, <1>3, <1>17 DEF KnowsLoop
  <2>2. r.packet \in A
    BY <1>2, <1>17 DEF BufferRead
  <2>3. missed'[0] = 0
    BY <1>4, <1>15, <1>17
  <2>4. stream'.leaked = stream.leaked \/ (failing = "attach" /\ stream'.leaked = stream.leaked + 1)
    BY <2>1 DEF Shown
  <2> QED
    BY <1>8, <1>9, <1>10, <1>12, <1>13, <1>14, <1>17, <2>1, <2>2, <2>3, <2>4 DEF BufferTaken, A, k1
<1> QED
  BY <1>16, <1>17

\* Unless a loss deceives, the next packet of a PID cannot be taken for the last one.
LEMMA FreshIsHearable ==
  ASSUME Running, ~Deceives(missed), NEW A, \A q \in A : NextOf(q), NEW k
  PROVE  Hearable(A, stream.pid, k)
<1> SUFFICES ASSUME NEW p \in A, stream.pid[p.pid].seen PROVE stream.pid[p.pid].cc # p.cc
  BY DEF Hearable
<1> DEFINE pid == p.pid
           c == stream.pid[pid].cc
           m == missed[pid]
<1>1. CCs \in Nat \ {0} /\ pid \in Pids /\ p.cc = (cc[pid] + 1) % CCs
  BY AnalysisAssumption, AirParts DEF NextOf
<1>2. c \in 0..CCs-1 /\ m \in Nat /\ cc[pid] = (c + m) % CCs
  BY <1>1 DEF Running, StreamOK, Followed
<1>3. m % CCs # CCs - 1
  BY <1>1 DEF Deceives
<1> HIDE DEF pid, c, m
<1>4. (((c + m) % CCs) + 1) % CCs # c
  BY <1>1, <1>2, <1>3, LooksLikeLast
<1> QED
  BY <1>1, <1>2, <1>4 DEF c, pid

LEMMA FewRead ==
  ASSUME NEW s, NEW n, NEW version, Few(s, FALSE, n, version), NEW unread, ~unread
  PROVE  Few(s, unread, n, version)
<1>1. Bit(unread) = Bit(FALSE)
  BY DEF Bit
<1> QED
  BY <1>1 DEF Few

\* What the buffer adds to the decoders.
LEMMA BufferFew ==
  ASSUME Running, PatOK(stream), NEW A, NEW p, NEW failing, BufferTaken(A, p, failing),
         \/ \A q \in A : NextOf(q) /\ (q.pid = 0 => q.section.version = pat.version)
         \/ A = {p} /\ (p.pid = 0 => Duplicate(stream.handle["pat"], p)),
         NEW n0 \in Nat, NEW n \in Nat, n0 <= n, A # {p} => n0 < n,
         Few(stream, missed[0] > 0, n0, pat.version), missed'[0] \in Nat
  PROVE  Few(stream', missed'[0] > 0, n, pat.version)
<1> DEFINE unread0 == missed[0] > 0
           unread == missed'[0] > 0
           version == pat.version
<1>1. Few(stream, unread0, n0, version) /\ 0 \in Pids /\ missed[0] \in Nat
  BY DEF Running, Pids
<1>2. CASE Steady(stream', stream) /\ (missed'[0] = missed[0] \/ A # {p})
  <2>1. unread => unread0 \/ n0 < n
    BY <1>2
  <2> HIDE DEF unread0, unread, version
  <2>2. Few(stream', unread, n, version)
    BY <1>1, <1>2, <2>1, FewSteady
  <2> QED
    BY <2>2 DEF unread, version
<1>3. ASSUME NEW q \in A, q.pid = 0, Shown(stream', stream, q, failing), missed'[0] = 0
      PROVE  Few(stream', missed'[0] > 0, n, pat.version)
  <2>1. ~unread
    BY <1>3
  <2>2. CASE A = {p} /\ (p.pid = 0 => Duplicate(stream.handle["pat"], p))
    <3>1. q = p /\ Duplicate(stream.handle["pat"], q)
      BY <1>3, <2>2
    <3> HIDE DEF unread0, unread, version
    <3>2. Few(stream', FALSE, n, version)
      BY <1>1, <1>3, <3>1, FewAgain
    <3>3. Few(stream', unread, n, version)
      BY <2>1, <3>2, FewRead
    <3> QED
      BY <3>3 DEF unread, version
  <2>3. CASE \A x \in A : NextOf(x) /\ (x.pid = 0 => x.section.version = pat.version)
    <3>1. NextOf(q) /\ q.section.version = version
      BY <1>3, <2>3
    <3>2. stream.pid[0].seen \in BOOLEAN
      BY <1>1 DEF Running, StreamOK
    <3>3. ASSUME stream.pid[0].seen, ~unread0 PROVE q.cc = (stream.pid[0].cc + 1) % CCs
      <4> DEFINE c == stream.pid[0].cc
      <4>1. c \in 0..CCs-1 /\ missed[0] = 0 /\ CCs \in Nat \ {0}
        BY <1>1, <3>3, AnalysisAssumption DEF Running, StreamOK
      <4>2. cc[0] = (c + missed[0]) % CCs /\ q.cc = (cc[0] + 1) % CCs
        BY <1>1, <1>3, <3>1, <3>3 DEF Running, Followed, NextOf
      <4> HIDE DEF c
      <4>3. c % CCs = c /\ c + 0 = c
        BY <4>1, Small
      <4>4. cc[0] = c
        BY <4>1, <4>2, <4>3
      <4> QED
        BY <4>2, <4>4 DEF c
    <3> HIDE DEF unread0, unread, version
    <3>4. Few(stream, unread0, n0, q.section.version)
      BY <1>1, <3>1
    <3>5. Few(stream', FALSE, n, q.section.version)
      BY <1>3, <3>2, <3>3, <3>4, FewShown
    <3>6. Few(stream', unread, n, version)
      BY <2>1, <3>1, <3>5, FewRead
    <3> QED
      BY <3>6 DEF unread, version
  <2> QED
    BY <2>2, <2>3
<1> QED
  BY <1>2, <1>3 DEF BufferTaken
----------------------------------------------------------------------------
(* The second invariant: what is known of the programs, and their decoders.*)

\* While the stream is read: each decoder of PMTs has a counter that was read on its PID or
\* none, the decoder of PATs has the last PAT, what is known of a program is what its decoder
\* has, the last packet would tell nothing new, and each decoder has a cause.
KnowsRunning ==
  /\ PmtsOK(stream) /\ CountersOK(stream, stream.pid) /\ PatOK(stream)
  /\ stream.leaked \in Nat /\ stream.leaked <= failures
  /\ last # NULL => stream.pid[last.pid].seen
  /\ ~deceived /\ failures = 0 =>
       Knows(stream, KnownNow) /\ (last # NULL => HeardAs(KnownNow, last))
  /\ Few(stream, missed[0] > 0, changes + faults, pat.version)

\* The invariant. Before the start nothing is known, and behind the end nothing is attached.
KnowsInv ==
  /\ KnownOK(KnownNow) /\ changes \in Nat /\ faults \in Nat /\ failures \in Nat
  /\ Deceives(missed) => deceived
  /\ step \in {"new", "running", "closed"}
  /\ step = "new" => /\ last = NULL /\ \A n \in Programs : announced[n] = NULL
                     /\ \A pid \in Pids : missed[pid] = 0
  /\ step = "running" => KnowsRunning
  /\ step = "closed" => /\ \A n \in DOMAIN stream.handle : stream.handle[n] \in {NULL, Handle(NULL)}
                        /\ stream.leaked <= failures

LEMMA KnowsStart == Init => KnowsInv
<1> SUFFICES ASSUME Init PROVE KnowsInv
  OBVIOUS
<1>1. /\ step = "new" /\ last = NULL /\ missed = [p \in Pids |-> 0]
      /\ announced = [n \in Programs |-> NULL] /\ heard = [n \in Programs |-> NULL] /\ misfiled = {}
      /\ changes = 0 /\ faults = 0 /\ failures = 0
  BY DEF Init
<1>2. KnownOK(KnownNow)
  BY <1>1 DEF KnownOK, KnownNow
<1>3. ~Deceives(missed)
  <2>1. CCs \in Nat \ {0} /\ CCs > 1 /\ 0 \in 0..CCs-1
    BY AnalysisAssumption
  <2>2. 0 % CCs = 0
    BY <2>1, Small
  <2>3. 0 % CCs # CCs - 1
    BY <2>1, <2>2
  <2> QED
    BY <1>1, <2>3 DEF Deceives
<1> QED
  BY <1>1, <1>2, <1>3 DEF KnowsInv

\* What the steps that read a buffer leave behind.
LEMMA KnowsOnTake ==
  ASSUME KnowsInv, KnowsRunning, NEW A, NEW p, NEW failing, BufferTaken(A, p, failing), pat' = pat,
         changes' \in Nat, faults' \in Nat, failures' \in Nat, failures <= failures',
         failing # "none" => failures < failures',
         last' = NULL \/ (last' = p /\ A = {p}),
         ~deceived /\ failures = 0 => Hearable(A, stream.pid, KnownNow),
         Few(stream', missed'[0] > 0, changes' + faults', pat.version)
  PROVE  KnowsInv'
<1>1. /\ KnownOK(KnownNow') /\ step' = "running" /\ (Deceives(missed') => deceived')
      /\ deceived => deceived'
      /\ PmtsOK(stream') /\ CountersOK(stream', stream'.pid) /\ PatOK(stream')
      /\ stream'.leaked = stream.leaked \/ (failing = "attach" /\ stream'.leaked = stream.leaked + 1)
      /\ stream'.pid[p.pid].seen
      /\ A = {p} => HeardAs(KnownNow', p)
      /\ failing = "none" /\ Knows(stream, KnownNow) /\ Hearable(A, stream.pid, KnownNow) =>
           Knows(stream', KnownNow')
  BY DEF BufferTaken
<1>2. stream'.leaked \in Nat /\ stream'.leaked <= failures'
  <2>1. stream.leaked \in Nat /\ stream.leaked <= failures /\ failures \in Nat
    BY DEF KnowsRunning, KnowsInv
  <2> QED
    BY <1>1, <2>1
<1>3. last' # NULL => stream'.pid[last'.pid].seen /\ HeardAs(KnownNow', last')
  BY <1>1
<1>4. ASSUME ~deceived', failures' = 0 PROVE Knows(stream', KnownNow')
  <2>1. failures \in Nat
    BY DEF KnowsInv
  <2>2. ~deceived /\ failures = 0 /\ failing = "none"
    BY <1>1, <1>4, <2>1
  <2>3. Knows(stream, KnownNow) /\ Hearable(A, stream.pid, KnownNow)
    BY <2>2 DEF KnowsRunning
  <2> QED
    BY <1>1, <2>2, <2>3
<1>5. KnowsRunning'
  BY <1>1, <1>2, <1>3, <1>4 DEF KnowsRunning
<1> QED
  BY <1>1, <1>5 DEF KnowsInv

\* One packet arrives, with memory or without.
LEMMA KnowsOnArrive ==
  ASSUME GapsInv, KnowsInv, step = "running", NEW p \in Packets, NEW failing \in Failing,
         Take(BytesOf(p), failing, FALSE), Counted(p), last' = p, UNCHANGED <<pat, changes, faults>>,
         failures' \in Nat, failures <= failures', failing # "none" => failures < failures', GapsInv'
  PROVE  KnowsInv'
<1>1. Running /\ AirTyped /\ NextOf(p) /\ p \in AirPackets
  BY GapsRunning, PacketsTyped DEF GapsInv, NextOf
<1>2. KnowsRunning /\ KnownOK(KnownNow) /\ changes \in Nat /\ faults \in Nat
  BY DEF KnowsInv
<1>3. p.pid = 0 => p.section.version = pat.version
  BY <1>1, PatOnAir
<1> DEFINE b == BytesOf(p)
<1>4. b \in Seq(Bytes) /\ Framed(b) /\ Arrived(b) = {p} /\ BeginsWith(b, p)
  BY <1>1, OnePacket
<1>5. Apart({p})
  BY <1>1 DEF Apart
<1>6. Take(b, failing, FALSE)
  OBVIOUS
<1> HIDE DEF b
<1>7. BufferTaken({p}, p, failing)
  <2>1. PatOK(stream) /\ PmtsOK(stream) /\ CountersOK(stream, stream.pid)
    BY <1>2 DEF KnowsRunning
  <2>2. BufferTaken(Arrived(b), p, failing)
    BY <1>1, <1>2, <1>4, <1>5, <1>6, <2>1, BufferKnows
  <2> QED
    BY <1>4, <2>2
<1>8. ~deceived => Hearable({p}, stream.pid, KnownNow)
  <2>1. ~deceived => ~Deceives(missed)
    BY DEF KnowsInv
  <2> QED
    BY <1>1, <2>1, FreshIsHearable
<1>9. Few(stream', missed'[0] > 0, changes + faults, pat.version)
  <2> DEFINE n == changes + faults
  <2>1. n \in Nat /\ n <= n /\ missed'[0] \in Nat
    BY <1>2 DEF GapsInv, Pids
  <2>2. PatOK(stream) /\ Few(stream, missed[0] > 0, n, pat.version)
    BY <1>2 DEF KnowsRunning
  <2>3. \A q \in {p} : NextOf(q) /\ (q.pid = 0 => q.section.version = pat.version)
    BY <1>1, <1>3
  <2> HIDE DEF n
  <2>4. Few(stream', missed'[0] > 0, n, pat.version)
    BY <1>1, <1>7, <2>1, <2>2, <2>3, BufferFew
  <2> QED
    BY <2>4 DEF n
<1> QED
  BY <1>2, <1>7, <1>8, <1>9, KnowsOnTake

LEMMA KnowsOnJunk ==
  ASSUME GapsInv, KnowsInv, NEW p \in Packets, NEW q \in Packets, NEW junk \in Junk,
         ArriveWithJunk(p, q, junk), GapsInv'
  PROVE  KnowsInv'
<1>1. /\ step = "running" /\ p.pid # q.pid /\ Take(BytesOf(p) \o junk \o BytesOf(q), "none", FALSE)
      /\ last' = NULL /\ UNCHANGED <<pat, changes, failures>> /\ faults' = faults + 1
  BY DEF ArriveWithJunk
<1>2. Running /\ AirTyped /\ NextOf(p) /\ NextOf(q) /\ p \in AirPackets /\ q \in AirPackets
  BY <1>1, GapsRunning, PacketsTyped DEF GapsInv, NextOf
<1>3. KnowsRunning /\ KnownOK(KnownNow) /\ changes \in Nat /\ faults \in Nat /\ failures \in Nat
  BY <1>1 DEF KnowsInv
<1> DEFINE b == BytesOf(p) \o junk \o BytesOf(q)
           A == {p, q}
<1>4. b \in Seq(Bytes) /\ Framed(b) /\ Arrived(b) = A /\ BeginsWith(b, p)
  BY <1>1, <1>2, TwoPackets
<1>5. Apart(A)
  BY <1>1, <1>2 DEF Apart
<1>6. "none" \in Failing /\ Take(b, "none", FALSE)
  BY <1>1 DEF Failing
<1>7. A # {p}
  BY <1>1
<1>8. \A x \in A : NextOf(x) /\ (x.pid = 0 => x.section.version = pat.version)
  BY <1>2, PatOnAir
<1> HIDE DEF b, A
<1>9. BufferTaken(A, p, "none")
  <2>1. PatOK(stream) /\ PmtsOK(stream) /\ CountersOK(stream, stream.pid)
    BY <1>3 DEF KnowsRunning
  <2>2. BufferTaken(Arrived(b), p, "none")
    BY <1>2, <1>3, <1>4, <1>5, <1>6, <2>1, BufferKnows
  <2> QED
    BY <1>4, <2>2
<1>10. ~deceived => Hearable(A, stream.pid, KnownNow)
  <2>1. ~deceived => ~Deceives(missed)
    BY DEF KnowsInv
  <2> QED
    BY <1>2, <1>8, <2>1, FreshIsHearable
<1>11. Few(stream', missed'[0] > 0, changes' + faults', pat.version)
  <2> DEFINE n0 == changes + faults
             n == changes' + faults'
  <2>1. n0 \in Nat /\ n \in Nat /\ n0 < n /\ n0 <= n /\ missed'[0] \in Nat
    BY <1>1, <1>3 DEF GapsInv, Pids
  <2>2. PatOK(stream) /\ Few(stream, missed[0] > 0, n0, pat.version)
    BY <1>3 DEF KnowsRunning
  <2> HIDE DEF n0, n
  <2>4. Few(stream', missed'[0] > 0, n, pat.version)
    BY <1>2, <1>8, <1>9, <2>1, <2>2, BufferFew
  <2> QED
    BY <2>4 DEF n
<1>12. changes' \in Nat /\ faults' \in Nat /\ failures' \in Nat /\ failures <= failures'
  BY <1>1, <1>3
<1> QED
  BY <1>1, <1>3, <1>9, <1>10, <1>11, <1>12, KnowsOnTake

LEMMA KnowsOnRepeat ==
  ASSUME GapsInv, KnowsInv, Repeat, GapsInv'
  PROVE  KnowsInv'
<1>1. /\ step = "running" /\ last # NULL /\ Take(BytesOf(last), "none", TRUE) /\ last' = NULL
      /\ UNCHANGED <<pat, changes, failures>> /\ faults' = faults + 1
  BY DEF Repeat
<1> DEFINE p == last
<1>2. Running /\ p \in AirPackets /\ cc[p.pid] = p.cc /\ missed[p.pid] = 0
  BY <1>1, GapsRunning DEF GapsInv
<1>3. KnowsRunning /\ KnownOK(KnownNow) /\ changes \in Nat /\ faults \in Nat /\ failures \in Nat
  BY <1>1 DEF KnowsInv
<1> DEFINE b == BytesOf(p)
<1>4. b \in Seq(Bytes) /\ Framed(b) /\ Arrived(b) = {p} /\ BeginsWith(b, p)
  BY <1>2, OnePacket
<1>5. Apart({p})
  BY <1>2 DEF Apart
<1>6. "none" \in Failing /\ Take(b, "none", TRUE)
  BY <1>1 DEF Failing
<1> HIDE DEF b
<1>7. PatOK(stream) /\ PmtsOK(stream) /\ CountersOK(stream, stream.pid)
  BY <1>3 DEF KnowsRunning
<1>8. BufferTaken({p}, p, "none")
  <2>1. BufferTaken(Arrived(b), p, "none")
    BY <1>2, <1>3, <1>4, <1>5, <1>6, <1>7, BufferKnows
  <2> QED
    BY <1>4, <2>1
<1>9. ~deceived /\ failures = 0 => Hearable({p}, stream.pid, KnownNow)
  BY <1>1, <1>3 DEF KnowsRunning, Hearable, OneOnly
<1>10. ASSUME p.pid = 0 PROVE Duplicate(stream.handle["pat"], p)
  <2> DEFINE c == stream.pid[0].cc
  <2>1. stream.pid[0].seen /\ 0 \in Pids
    BY <1>1, <1>3, <1>10 DEF KnowsRunning, Pids
  <2>2. cc[0] = (c + missed[0]) % CCs /\ c \in 0..CCs-1 /\ CCs \in Nat \ {0}
    BY <1>2, <2>1, AnalysisAssumption DEF Running, Followed, StreamOK
  <2>3. p.cc = (c + 0) % CCs
    BY <1>2, <1>10, <2>2
  <2> HIDE DEF c
  <2>4. c % CCs = c /\ c + 0 = c
    BY <2>2, Small
  <2>5. p.cc = c
    BY <2>3, <2>4
  <2>6. stream.handle["pat"].counter = c /\ ~stream.handle["pat"].decoder.discontinuity
    BY <1>7, <2>1 DEF PatOK, c
  <2> QED
    BY <2>5, <2>6 DEF Duplicate
<1>11. Few(stream', missed'[0] > 0, changes' + faults', pat.version)
  <2> DEFINE n0 == changes + faults
             n == changes' + faults'
  <2>1. n0 \in Nat /\ n \in Nat /\ n0 <= n /\ missed'[0] \in Nat
    BY <1>1, <1>3 DEF GapsInv, Pids
  <2>2. Few(stream, missed[0] > 0, n0, pat.version)
    BY <1>3 DEF KnowsRunning
  <2> HIDE DEF n0, n, p
  <2>4. Few(stream', missed'[0] > 0, n, pat.version)
    BY <1>2, <1>7, <1>8, <1>10, <2>1, <2>2, BufferFew
  <2> QED
    BY <2>4 DEF n
<1>12. changes' \in Nat /\ faults' \in Nat /\ failures' \in Nat /\ failures <= failures'
  BY <1>1, <1>3
<1> HIDE DEF p
<1> QED
  BY <1>1, <1>3, <1>8, <1>9, <1>11, <1>12, KnowsOnTake

LEMMA KnowsOnLose ==
  ASSUME GapsInv, KnowsInv, NEW pid, NEW n, Lose(pid, n), GapsInv'
  PROVE  KnowsInv'
<1>1. /\ step = "running" /\ last' = NULL /\ faults' = faults + 1
      /\ deceived' = (deceived \/ Deceives(missed'))
      /\ UNCHANGED <<step, stream, announced, heard, misfiled, pat, changes, failures>>
  BY DEF Lose
<1>2. /\ KnowsRunning /\ KnownOK(KnownNow) /\ changes \in Nat /\ faults \in Nat /\ failures \in Nat
  BY <1>1 DEF KnowsInv
<1>3. KnownNow' = KnownNow
  BY <1>1 DEF KnownNow
<1>4. Few(stream, missed'[0] > 0, changes' + faults', pat.version)
  <2> DEFINE n0 == changes + faults
             m == changes' + faults'
             unread0 == missed[0] > 0
             unread == missed'[0] > 0
             version == pat.version
  <2>1. n0 \in Nat /\ m \in Nat /\ n0 < m /\ n0 <= m
    BY <1>1, <1>2
  <2>2. Few(stream, unread0, n0, version) /\ Steady(stream, stream)
    BY <1>2, SteadyItself DEF KnowsRunning, PmtsOK
  <2> HIDE DEF n0, m, unread0, unread, version
  <2>3. Few(stream, unread, m, version)
    BY <2>1, <2>2, FewSteady
  <2> QED
    BY <2>3 DEF unread, m, version
<1>5. KnowsRunning'
  <2>1. ~deceived' /\ failures' = 0 => Knows(stream', KnownNow')
    BY <1>1, <1>2, <1>3 DEF KnowsRunning
  <2> QED
    BY <1>1, <1>2, <1>4, <2>1 DEF KnowsRunning
<1>6. faults' \in Nat /\ changes' \in Nat /\ failures' \in Nat
  BY <1>1, <1>2
<1>7. KnownOK(KnownNow')
  BY <1>2, <1>3
<1> QED
  BY <1>1, <1>5, <1>6, <1>7 DEF KnowsInv

\* A change of the PAT makes the one that is known an old one; one of a PMT does not.
LEMMA KnowsOnChange ==
  ASSUME GapsInv, KnowsInv, step = "running", changes' = changes + 1,
         UNCHANGED <<step, stream, missed, announced, heard, misfiled, deceived, last, faults, failures>>
  PROVE  KnowsInv'
<1>1. KnowsRunning /\ KnownOK(KnownNow) /\ changes \in Nat /\ faults \in Nat /\ failures \in Nat
  BY DEF KnowsInv
<1>2. KnownNow' = KnownNow
  BY DEF KnownNow
<1>3. Few(stream, missed[0] > 0, changes' + faults, pat'.version)
  <2> DEFINE d == stream.handle["pat"].decoder
             old(v) == d.current_valid /\ d.current.version # v
             unread == missed[0] > 0
  <2> SUFFICES ASSUME NEW m \in Programs
               PROVE  Cardinality(Entries(stream, m)) + Bit(old(pat'.version)) + Bit(unread)
                        <= Bit(d.current_valid) + (changes' + faults)
    BY DEF Few
  <2> DEFINE a == Cardinality(Entries(stream, m))
             b0 == Bit(old(pat.version))
             b1 == Bit(old(pat'.version))
             bu == Bit(unread)
             bv == Bit(d.current_valid)
  <2>1. a + b0 + bu <= bv + (changes + faults)
    BY <1>1 DEF KnowsRunning, Few
  <2>2. a \in Nat
    BY <1>1, EntriesCounted DEF KnowsRunning, PmtsOK
  <2>3. b0 \in {0, 1} /\ b1 \in {0, 1} /\ bu \in {0, 1} /\ bv \in {0, 1}
    BY Bits
  <2> HIDE DEF a, b0, b1, bu, bv
  <2>4. a + b1 + bu <= bv + (changes' + faults)
    BY <1>1, <2>1, <2>2, <2>3
  <2> QED
    BY <2>4 DEF a, b1, bu, bv
<1>4. KnowsRunning'
  <2>1. Knows(stream, KnownNow) => Knows(stream', KnownNow')
    BY <1>2
  <2>2. last # NULL /\ HeardAs(KnownNow, last) => HeardAs(KnownNow', last')
    BY <1>2
  <2> QED
    BY <1>1, <1>3, <2>1, <2>2 DEF KnowsRunning
<1>5. changes' \in Nat /\ KnownOK(KnownNow')
  BY <1>1, <1>2
<1> QED
  BY <1>1, <1>4, <1>5 DEF KnowsInv

\* The decoders of a stream that has just begun.
LEMMA NewStreamKnows ==
  /\ PmtsOK(NewStream) /\ CountersOK(NewStream, NewStream.pid) /\ PatOK(NewStream)
  /\ NewStream.leaked = 0 /\ DOMAIN NewStream = StreamFields
  /\ \A n \in Programs : Cardinality(Entries(NewStream, n)) = 0
<1>1. DOMAIN NewStream = StreamFields /\ NewStream.pmt = <<>> /\ NewStream.leaked = 0
      /\ NewStream.pid = [p \in Pids |-> NewPid] /\ NewStream.handle = NewHandles
  BY DEF NewStream, StreamFields
<1>2. IsSeq(<<>>) /\ Len(<<>>) = 0 /\ DOMAIN <<>> = {}
  <2>1. <<>> \in Seq({}) /\ Len(<<>>) = 0 /\ DOMAIN <<>> = {}
    OBVIOUS
  <2> QED
    BY <2>1 DEF IsSeq
<1>3. PmtsOK(NewStream) /\ CountersOK(NewStream, NewStream.pid)
  BY <1>1, <1>2 DEF PmtsOK, CountersOK
<1>4. \A n \in Programs : Cardinality(Entries(NewStream, n)) = 0
  <2>1. \A n \in Programs : Entries(NewStream, n) = {}
    BY <1>1, <1>2 DEF Entries
  <2> QED
    BY <2>1, FS_EmptySet
<1>5. PatOK(NewStream)
  <2>1. NewHandles["pat"] = Handle(PatAttach)
    <3>1. "pat" \in {Names[i] : i \in 1..6}
      BY DEF Names
    <3> QED
      BY <3>1 DEF NewHandles
  <2>2. NewStream.handle["pat"] = Handle(PatAttach) /\ 0 \in Pids
    BY <1>1, <2>1 DEF Pids
  <2>3. NewStream.pid[0] = NewPid
    BY <1>1, <2>2
  <2>4. PatAttach \in PatDecoders /\ PatAttach.discontinuity = TRUE /\ PatAttach.current_valid = FALSE
    BY DEF PatAttach, NewDecoder, PatDecoders
  <2>5. CCs \in 0..CCs
    BY AnalysisAssumption
  <2> DEFINE h == Handle(PatAttach)
             d == PatAttach
  <2> HIDE DEF d
  <2>6. h.counter = CCs /\ h.decoder = d /\ h \in [counter : 0..CCs, decoder : PatDecoders]
    BY <2>4, <2>5 DEF Handle, d
  <2>7. NewPid.seen = FALSE
    BY DEF NewPid
  <2> HIDE DEF h
  <2>8. PatHandle(h)
    BY <2>4, <2>6 DEF PatHandle, d
  <2> QED
    BY <2>2, <2>3, <2>4, <2>6, <2>7, <2>8 DEF PatOK, h, d
<1> QED
  BY <1>1, <1>3, <1>4, <1>5

\* Every handle that is taken down has lost its decoder.
LEMMA AllDetached ==
  ASSUME NEW handles
  PROVE  \A n \in DOMAIN Detached(handles) :
           /\ Detached(handles)[n] \in {NULL, Handle(NULL)}
           /\ Detached(handles)[n] # NULL => Detached(handles)[n].decoder = NULL
<1>1. Handle(NULL).decoder = NULL
  BY DEF Handle
<1> QED
  BY <1>1 DEF Detached

LEMMA KnowsOnInit ==
  ASSUME GapsInv, KnowsInv, libdvbpsi_init
  PROVE  KnowsInv'
<1>1. /\ step = "new" /\ UNCHANGED <<pat, last, missed, announced, heard, misfiled, deceived, changes, faults>>
  BY DEF libdvbpsi_init, history
<1>2. /\ last = NULL /\ (\A n \in Programs : announced[n] = NULL) /\ (\A pid \in Pids : missed[pid] = 0)
      /\ KnownOK(KnownNow) /\ changes \in Nat /\ faults \in Nat /\ failures \in Nat
      /\ Deceives(missed) => deceived
  BY <1>1 DEF KnowsInv
<1>3. KnownNow' = KnownNow
  BY <1>1 DEF KnownNow
<1>4. CASE step' = "running" /\ stream' = NewStream /\ failures' = failures
  <2>1. /\ PmtsOK(stream') /\ CountersOK(stream', stream'.pid) /\ PatOK(stream') /\ stream'.leaked = 0
        /\ \A n \in Programs : Cardinality(Entries(stream', n)) = 0
    BY <1>4, NewStreamKnows
  <2>2. Knows(stream', KnownNow')
    <3>1. \A n \in Programs : KnownNow.announced[n] = NULL
      BY <1>2 DEF KnownNow
    <3> QED
      BY <1>3, <3>1 DEF Knows
  <2>3. Few(stream', missed'[0] > 0, changes' + faults', pat'.version)
    <3>1. stream'.handle["pat"].decoder.current_valid <=> FALSE
      <4>1. stream'.pid[0] = NewPid
        BY <1>4 DEF NewStream, Pids
      <4> QED
        BY <2>1, <4>1 DEF PatOK, NewPid
    <3>2. ~(missed'[0] > 0)
      BY <1>1, <1>2 DEF Pids
    <3>3. \A b : ~b => Bit(b) = 0
      BY DEF Bit
    <3> DEFINE d == stream'.handle["pat"].decoder
               bo == Bit(d.current_valid /\ d.current.version # pat'.version)
               bu == Bit(missed'[0] > 0)
               bv == Bit(d.current_valid)
               n == changes' + faults'
    <3>4. bo = 0 /\ bu = 0 /\ bv = 0
      BY <3>1, <3>2, <3>3
    <3>5. n \in Nat
      BY <1>1, <1>2
    <3> HIDE DEF bo, bu, bv, n
    <3>6. \A m \in Programs : Cardinality(Entries(stream', m)) + bo + bu <= bv + n
      BY <2>1, <3>4, <3>5
    <3> QED
      BY <3>6 DEF Few, bo, bu, bv, n
  <2>4. KnowsRunning'
    BY <1>1, <1>2, <1>4, <2>1, <2>2, <2>3 DEF KnowsRunning
  <2>5. KnownOK(KnownNow')
    BY <1>2, <1>3
  <2> QED
    BY <1>1, <1>2, <1>4, <2>4, <2>5 DEF KnowsInv
<1>5. ASSUME NEW made, failures' = failures + 1, stream' = [NewStream EXCEPT !.handle = Detached(made)],
             step' = IF \E n \in DOMAIN made :
                          stream'.handle[n] # NULL /\ stream'.handle[n].decoder # NULL
                     THEN "aborted" ELSE "closed"
      PROVE  KnowsInv'
  <2>1. stream'.handle = Detached(made) /\ stream'.leaked = 0
    BY <1>5, NewStreamKnows DEF StreamFields
  <2>2. DOMAIN made = DOMAIN Detached(made)
    BY DEF Detached
  <2>3. step' = "closed" /\ \A n \in DOMAIN stream'.handle : stream'.handle[n] \in {NULL, Handle(NULL)}
    BY <1>5, <2>1, <2>2, AllDetached
  <2>4. failures' \in Nat /\ stream'.leaked <= failures'
    BY <1>2, <1>5, <2>1
  <2>5. KnownOK(KnownNow')
    BY <1>2, <1>3
  <2> QED
    BY <1>1, <1>2, <2>3, <2>4, <2>5 DEF KnowsInv
<1> QED
  BY <1>4, <1>5 DEF libdvbpsi_init

LEMMA KnowsOnExit ==
  ASSUME GapsInv, KnowsInv, libdvbpsi_exit
  PROVE  KnowsInv'
<1> DEFINE kept == {i \in DOMAIN stream.pmt : stream.pmt[i].handle.decoder = NULL}
           s == [stream EXCEPT !.handle = Detached(@), !.pmt = <<>>, !.leaked = @ + Cardinality(kept)]
<1>1. /\ step = "running" /\ step' = "closed" /\ stream' = s
      /\ UNCHANGED <<missed, announced, heard, misfiled, deceived, changes, faults, failures>>
  BY DEF libdvbpsi_exit, air, history
<1>2. KnowsRunning /\ KnownOK(KnownNow) /\ DOMAIN stream = StreamFields
  BY <1>1 DEF KnowsInv, GapsInv, StreamOK, StreamKept
<1>3. kept = {}
  <2> SUFFICES ASSUME NEW i \in DOMAIN stream.pmt, stream.pmt[i].handle.decoder = NULL PROVE FALSE
    OBVIOUS
  <2>1. IsSeq(stream.pmt) /\ \A j \in 1..Len(stream.pmt) : EntryOK(stream.pmt[j])
    BY <1>2 DEF KnowsRunning, PmtsOK
  <2>2. i \in 1..Len(stream.pmt)
    BY <2>1, SeqParts
  <2>3. stream.pmt[i].number \in Programs /\ NULL \in PmtDecoders(stream.pmt[i].number)
    BY <2>1, <2>2 DEF EntryOK, PmtHandle
  <2> QED
    BY <2>3, StreamAssumption
<1> HIDE DEF kept
<1>4. s.handle = Detached(stream.handle) /\ s.leaked = stream.leaked + Cardinality(kept)
  BY <1>2 DEF StreamFields
<1> HIDE DEF s
<1>5. Cardinality(kept) = 0
  BY <1>3, FS_EmptySet
<1>6. stream'.leaked <= failures'
  <2>1. stream.leaked \in Nat /\ stream.leaked <= failures /\ failures \in Nat
    BY <1>2 DEF KnowsRunning, KnowsInv
  <2> QED
    BY <1>1, <1>4, <1>5, <2>1
<1>7. \A n \in DOMAIN stream'.handle : stream'.handle[n] \in {NULL, Handle(NULL)}
  BY <1>1, <1>4, AllDetached
<1>8. KnownOK(KnownNow')
  <2>1. KnownNow' = KnownNow
    BY <1>1 DEF KnownNow
  <2> QED
    BY <1>2, <2>1
<1> QED
  BY <1>1, <1>6, <1>7, <1>8 DEF KnowsInv

LEMMA KnowsOnStep ==
  ASSUME GapsInv, KnowsInv, [Next]_vars, GapsInv'
  PROVE  KnowsInv'
<1>1. ASSUME NEW p \in Packets, Arrive(p) PROVE KnowsInv'
  <2>1. "none" \in Failing /\ failures \in Nat
    BY DEF Failing, KnowsInv
  <2>2. failures' = failures /\ failures <= failures
    BY <1>1, <2>1 DEF Arrive
  <2> QED
    BY <1>1, <2>1, <2>2, KnowsOnArrive DEF Arrive
<1>2. ASSUME NEW p \in Packets, NEW failing \in {"entry", "handle", "attach"}, ArriveWithoutMemory(p, failing)
      PROVE  KnowsInv'
  <2>1. failing \in Failing /\ failures \in Nat
    BY DEF Failing, KnowsInv
  <2>2. failures' \in Nat /\ failures <= failures' /\ failures < failures'
    BY <1>2, <2>1 DEF ArriveWithoutMemory
  <2> QED
    BY <1>2, <2>1, <2>2, KnowsOnArrive DEF ArriveWithoutMemory
<1>3. ASSUME NEW list \in Lists, ChangePat(list) PROVE KnowsInv'
  BY <1>3, KnowsOnChange DEF ChangePat, history
<1>4. ASSUME NEW n \in Programs, NEW clock \in Clocks, ChangePmt(n, clock) PROVE KnowsInv'
  BY <1>4, KnowsOnChange DEF ChangePmt, history
<1>5. CASE UNCHANGED vars
  <2>1. UNCHANGED <<step, stream, pat, last, missed, announced, heard, misfiled, deceived,
                    changes, faults, failures>>
    BY <1>5 DEF vars, air, history
  <2>2. KnownNow' = KnownNow
    BY <2>1 DEF KnownNow
  <2>3. KnowsRunning' = KnowsRunning
    BY <2>1, <2>2 DEF KnowsRunning
  <2> QED
    BY <2>1, <2>2, <2>3 DEF KnowsInv
<1> QED
  BY <1>1, <1>2, <1>3, <1>4, <1>5, KnowsOnInit, KnowsOnExit, KnowsOnJunk, KnowsOnRepeat, KnowsOnLose DEF Next

LEMMA KnowsAlways == Spec => []KnowsInv
<1>1. Init => GapsInv /\ KnowsInv
  BY GapsStart, KnowsStart
<1>2. (GapsInv /\ KnowsInv) /\ [Next]_vars => (GapsInv /\ KnowsInv)'
  BY GapsOnStep, KnowsOnStep
<1> QED
  BY <1>1, <1>2, PTL DEF Spec
----------------------------------------------------------------------------
(* The theorems.                                                           *)

\* Every byte of the buffers read is in a packet that is counted or is counted as lost, for
\* buffers of every layout that the capture thread hands over, and through failures to allocate.
THEOREM BytesAreCounted == Spec => []EveryByteCounted
<1>1. GapsInv => EveryByteCounted
  BY DEF GapsInv, Tallied, EveryByteCounted
<1> QED
  BY <1>1, GapsAlways, PTL

\* A jump of the continuity counter is reported if and only if packets were missed that are no
\* multiple of its range, whatever the range, the PIDs, the tables and the number of losses are.
THEOREM GapsAreReported == Spec => []GapsReported
<1>1. GapsInv => GapsReported
  BY DEF GapsInv, GapsReported
<1> QED
  BY <1>1, GapsAlways, PTL

\* What dvbinfo knows of a program is the last PMT on the PID that the last PAT gives it, for
\* every sequence of PATs, PMTs and losses in which no loss looks like a repeated packet.
THEOREM NewestIsKnown == Spec => []NewestKnows
<1>1. ASSUME KnowsInv PROVE NewestKnows
  <2> SUFFICES ASSUME step = "running", ~deceived, failures = 0, NEW n \in Programs \ misfiled,
                      announced[n] # NULL, heard[n] # NULL
               PROVE  LET e == stream.pmt[Found(stream, n)] IN e.pid = announced[n] /\ e.version = heard[n]
    BY DEF NewestKnows
  <2>1. Knows(stream, KnownNow)
    BY <1>1 DEF KnowsInv, KnowsRunning
  <2>2. KnownNow.announced = announced /\ KnownNow.heard = heard /\ KnownNow.misfiled = misfiled
    BY DEF KnownNow
  <2> QED
    BY <2>1, <2>2 DEF Knows
<1> QED
  BY <1>1, KnowsAlways, PTL

\* The decoders of a program are no more than one for each change and each loss and one for the
\* first PAT, however many there are of those; no assertion fails; and in the end every handle
\* has lost its decoder, and only an allocation that failed has left one over.
THEOREM DecodersAreBounded == Spec => []DecodersBounded
<1>1. ASSUME KnowsInv PROVE DecodersBounded
  <2>1. ASSUME step = "running", NEW n \in Programs
        PROVE  Cardinality(Entries(stream, n)) <= 1 + changes + faults
    <3> DEFINE d == stream.handle["pat"].decoder
               a == Cardinality(Entries(stream, n))
               bo == Bit(d.current_valid /\ d.current.version # pat.version)
               bu == Bit(missed[0] > 0)
               bv == Bit(d.current_valid)
    <3>1. a + bo + bu <= bv + (changes + faults)
      BY <1>1, <2>1 DEF KnowsInv, KnowsRunning, Few
    <3>2. bo \in {0, 1} /\ bu \in {0, 1} /\ bv \in {0, 1}
      BY Bits
    <3>3. a \in Nat /\ changes \in Nat /\ faults \in Nat
      BY <1>1, <2>1, EntriesCounted DEF KnowsInv, KnowsRunning, PmtsOK
    <3> HIDE DEF a, bo, bu, bv
    <3>4. a <= 1 + changes + faults
      BY <3>1, <3>2, <3>3
    <3> QED
      BY <3>4 DEF a
  <2> QED
    BY <1>1, <2>1 DEF KnowsInv, DecodersBounded
<1> QED
  BY <1>1, KnowsAlways, PTL
=============================================================================
