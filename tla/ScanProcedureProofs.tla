------------------------- MODULE ScanProcedureProofs -------------------------
(***************************************************************************)
(* Proofs about ScanProcedure, for every set of programs, every range of   *)
(* frequencies and everything the user, the tuner and the network do.      *)
(***************************************************************************)
EXTENDS ScanProcedure, TLAPS

LEMMA PercentInt ==
  ASSUME NEW n \in Nat, NEW i \in Int
  PROVE  Percent(n, i) \in Int
BY DEF Percent

LEMMA FrequenciesNat == 0 \in Frequencies /\ Frequencies \subseteq Nat
BY ScanAssumption DEF Frequencies

LEMMA TuneTypeOK ==
  ASSUME TypeOK, NEW f \in Frequencies, Tune(f)
  PROVE  session' \in BOOLEAN /\ ssrc' \in 0..3 /\ streams' \subseteq Streams
<1> DEFINE new == [freq |-> f, ssrc |-> (ssrc % 3) + 1]
           old == IF OldTraffic THEN {o \in streams : o.ssrc = ssrc} ELSE {}
<1>1. (ssrc % 3) + 1 \in Ssrcs
  BY DEF TypeOK, Ssrcs
<1>2. new \in Streams /\ old \subseteq Streams
  BY <1>1 DEF Streams, TypeOK
<1>3. streams' \in {{}, {new}, {new} \cup old}
  BY DEF Tune
<1> QED
  BY <1>1, <1>2, <1>3 DEF Tune, Ssrcs

\* A step of the procedure, from whichever event, leaves every variable it sets
\* with a value of its type.
LEMMA StepTypeOK ==
  ASSUME TypeOK, NEW forward \in BOOLEAN, Step(forward)
  PROVE  /\ status' \in {"Idle", "Started", "Paused", "Completed"}
         /\ progress' \in Int /\ frequency' \in Frequencies
         /\ session' \in BOOLEAN /\ ssrc' \in 0..3 /\ streams' \subseteq Streams
         /\ lockTimer' \in BOOLEAN /\ patTimer' \in BOOLEAN
         /\ locked' \in BOOLEAN /\ lockSource' \in Frequencies
         /\ lastSsrc' \in 0..3 /\ currentSsrc' \in 0..3
         /\ tables' = {}
         /\ patHandler' = NoPat /\ sdtHandler' = FALSE /\ pmtHandlers' = {}
         /\ attached' = FALSE
         /\ tmpPrograms' = {}
         /\ devicePrograms' \subseteq ProgramEntries
         /\ savedPrograms' \subseteq ProgramEntries
<1> USE ScanAssumption
<1>1. BeginStep
  BY DEF Step
<1>2. /\ lastSsrc' \in 0..3 /\ currentSsrc' \in 0..3 /\ tables' = {}
      /\ patHandler' = NoPat /\ sdtHandler' = FALSE /\ pmtHandlers' = {}
      /\ attached' = FALSE /\ tmpPrograms' = {}
      /\ devicePrograms' \subseteq ProgramEntries
  BY <1>1 DEF BeginStep, ClearHandlers, CommitData, Committed, TypeOK
<1>3. CASE Complete
  BY <1>2, <1>3 DEF Complete, DeleteSession, KillRunningTimer, TypeOK, scan, lock
<1>4. CASE Advance(forward)
  <2>1. frequency' \in Frequencies
    BY <1>4 DEF Advance, NextFrequency, TypeOK, Frequencies
  <2>2. progress' \in Int
    <3>1. CASE status = "Paused"
      BY <1>4, <3>1 DEF Advance, TypeOK
    <3>2. CASE status # "Paused"
      BY <1>4, <3>2, <2>1, PercentInt DEF Advance, TypeOK, Frequencies
    <3> QED
      BY <3>1, <3>2
  <2>3. session' \in BOOLEAN /\ ssrc' \in 0..3 /\ streams' \subseteq Streams
    BY <1>4, <2>1, TuneTypeOK DEF Advance
  <2>4. status' \in {"Idle", "Started", "Paused", "Completed"}
    BY <1>4 DEF Advance, TypeOK
  <2>5. locked' \in BOOLEAN /\ lockSource' \in Frequencies
    BY <1>4, FrequenciesNat DEF Advance, EndStep
  <2>6. /\ lockTimer' \in BOOLEAN /\ patTimer' \in BOOLEAN
        /\ savedPrograms' \subseteq ProgramEntries
    BY <1>4 DEF Advance, ArmLockTimer, TypeOK
  <2> QED
    BY <1>2, <2>1, <2>2, <2>3, <2>4, <2>5, <2>6
<1> QED
  BY <1>3, <1>4 DEF Step

LEMMA EntryTypes ==
  /\ \A h \in PmtHandlers : Triggered(h) \in PmtHandlers
  /\ \A p \in ProgramEntries : Unmapped(p) \in ProgramEntries
  /\ \A p \in ProgramEntries, s \in Streams, q \in Programs :
        WithStreams(p, s, q) \in ProgramEntries
  /\ \A p \in ProgramEntries, s \in Streams : Described(p, s) \in ProgramEntries
<1>1. ASSUME NEW h \in PmtHandlers PROVE Triggered(h) \in PmtHandlers
  BY <1>1 DEF Triggered, PmtHandlers
<1>2. ASSUME NEW p \in ProgramEntries PROVE Unmapped(p) \in ProgramEntries
  BY <1>2 DEF Unmapped, ProgramEntries
<1>3. ASSUME NEW p \in ProgramEntries, NEW s \in Streams, NEW q \in Programs
      PROVE  WithStreams(p, s, q) \in ProgramEntries
  <2>1. (p.video \/ q \in VideoPrograms) \in BOOLEAN
    OBVIOUS
  <2> QED
    BY <2>1 DEF WithStreams, ProgramEntries, Streams
<1>4. ASSUME NEW p \in ProgramEntries, NEW s \in Streams
      PROVE  Described(p, s) \in ProgramEntries
  BY <1>4 DEF Described, ProgramEntries, Streams
<1> QED
  BY <1>1, <1>2, <1>3, <1>4

LEMMA CheckDoneTypeOK ==
  ASSUME TypeOK, NEW seen \in SUBSET AllTables, NEW pmts, CheckDone(seen, pmts)
  PROVE  tables' \subseteq AllTables /\ pendingSteps' \in 0..MaxEvents
BY ScanAssumption DEF CheckDone, TypeOK, AllTables

\* A step, taken by an event that leaves the setup alone, keeps the types.
LEMMA StepKeepsTypeOK ==
  ASSUME TypeOK, NEW forward \in BOOLEAN, Step(forward), UNCHANGED setup,
         pendingSteps' \in 0..MaxEvents
  PROVE  TypeOK'
<1>1. NoPat \in [exists : BOOLEAN, version : VersionNumbers,
                programs : SUBSET Programs]
  BY DEF NoPat, VersionNumbers
<1> QED
  BY <1>1, StepTypeOK DEF TypeOK, setup

\* A table section, whoever signals it, keeps the types.
LEMMA SectionTypeOK ==
  ASSUME TypeOK, NEW s \in streams, Section(s)
  PROVE  TypeOK'
<1> USE ScanAssumption
<1>s. s \in Streams /\ s.freq \in Frequencies /\ s.ssrc \in 0..3
  BY DEF TypeOK, Streams, Ssrcs
<1>1. ASSUME NEW sec \in Pats, PatSection(s, sec)
      PROVE  TypeOK'
  <2>1. /\ sec \in PatSections /\ sec.version \in VersionNumbers
        /\ sec.programs \in SUBSET Programs
    BY DEF PatSections
  <2>2. patHandler' \in [exists : BOOLEAN, version : VersionNumbers,
                         programs : SUBSET Programs]
    BY <1>1, <2>1 DEF PatSection, TypeOK
  <2>3. currentSsrc' \in 0..3
    BY <1>1, <1>s DEF PatSection, Accept, TypeOK
  <2>4. CASE PatFound(s, sec.programs)
    <3>1. pmtHandlers' \subseteq PmtHandlers
      BY <2>4, <2>1 DEF PatFound, NewPmtHandlers, PmtHandlers, TypeOK
    <3>2. tmpPrograms' \subseteq ProgramEntries
      <4>1. [number : sec.programs, freq : {frequency}, from : {{s.freq}},
             video : {FALSE}, mapped : {TRUE}] \subseteq ProgramEntries
        BY <2>1, <1>s DEF ProgramEntries, TypeOK
      <4>2. {IF p.number \in sec.programs THEN Unmapped(p) ELSE p : p \in tmpPrograms}
              \subseteq ProgramEntries
        BY EntryTypes DEF TypeOK
      <4> QED
        BY <2>4, <4>1, <4>2 DEF PatFound
    <3>3. tables' \subseteq AllTables /\ pendingSteps' \in 0..MaxEvents
      <4>1. tables \cup {"PAT"} \in SUBSET AllTables
        BY DEF TypeOK, AllTables
      <4> QED
        BY <2>4, <4>1, CheckDoneTypeOK DEF PatFound
    <3> QED
      BY <1>1, <2>2, <2>3, <2>4, <3>1, <3>2, <3>3
      DEF PatSection, PatFound, KillRunningTimer, TypeOK, scan, setup, lock,
          device, server
  <2>5. CASE UNCHANGED <<timers, sdtHandler, pmtHandlers, found, pendingSteps>>
    BY <1>1, <2>2, <2>3, <2>5
    DEF PatSection, TypeOK, scan, setup, lock, timers, found, device, server
  <2> QED
    BY <1>1, <2>4, <2>5 DEF PatSection
<1>2. ASSUME NEW h \in pmtHandlers, NEW q \in Programs, PmtSection(s, h, q)
      PROVE  TypeOK'
  <2>1. pmtHandlers' \subseteq PmtHandlers
    BY <1>2, EntryTypes DEF PmtSection, TypeOK
  <2>2. tmpPrograms' \subseteq ProgramEntries
    BY <1>2, <1>s, EntryTypes DEF PmtSection, TypeOK
  <2>3. tables' \subseteq AllTables /\ pendingSteps' \in 0..MaxEvents
    BY <1>2, CheckDoneTypeOK DEF PmtSection, TypeOK
  <2>4. currentSsrc' \in 0..3
    BY <1>2, <1>s DEF PmtSection, Accept, TypeOK
  <2> QED
    BY <1>2, <2>1, <2>2, <2>3, <2>4
    DEF PmtSection, TypeOK, scan, setup, timers, lock, device, server
<1>3. ASSUME SdtSection(s)
      PROVE  TypeOK'
  <2>1. tmpPrograms' \subseteq ProgramEntries
    BY <1>3, <1>s, EntryTypes DEF SdtSection, TypeOK
  <2>2. tables' \subseteq AllTables /\ pendingSteps' \in 0..MaxEvents
    <3>1. tables \cup {"SDT"} \in SUBSET AllTables
      BY DEF TypeOK, AllTables
    <3> QED
      BY <1>3, <3>1, CheckDoneTypeOK DEF SdtSection
  <2>3. currentSsrc' \in 0..3
    BY <1>3, <1>s DEF SdtSection, Accept, TypeOK
  <2> QED
    BY <1>3, <2>1, <2>2, <2>3
    DEF SdtSection, TypeOK, scan, setup, timers, lock, handlers, device, server
<1> QED
  BY <1>1, <1>2, <1>3 DEF Section

\* An event that steps or, with the automatic mode off, only kills the timers.
LEMMA TimerEventTypeOK ==
  ASSUME TypeOK, TimerEvent, UNCHANGED <<setup, pendingSteps>>
  PROVE  TypeOK'
<1>1. CASE Step(TRUE)
  <2>1. pendingSteps' \in 0..MaxEvents /\ UNCHANGED setup
    BY DEF TypeOK
  <2> QED
    BY <1>1, <2>1, StepKeepsTypeOK
<1>2. CASE ~isAuto
  BY <1>2 DEF TimerEvent, KillRunningTimer, TypeOK, scan, lock, handlers, found,
              device, server, setup
<1> QED
  BY <1>1, <1>2 DEF TimerEvent

LEMMA StartTypeOK ==
  ASSUME TypeOK, Start
  PROVE  TypeOK'
<1>1. 1 \in Frequencies
  BY ScanAssumption DEF Frequencies
<1>2. session' \in BOOLEAN /\ ssrc' \in 0..3 /\ streams' \subseteq Streams
  BY <1>1, TuneTypeOK DEF Start
<1>3. progress' \in Int
  BY ScanAssumption, PercentInt DEF Start, TypeOK
<1>4. patHandler' \in [exists : BOOLEAN, version : VersionNumbers,
                      programs : SUBSET Programs]
  BY DEF Start, ClearHandlers, NoPat, VersionNumbers
<1>5. devicePrograms' \subseteq ProgramEntries /\ tmpPrograms' = {}
  BY DEF Start, CommitData, Committed, TypeOK
<1>6. lockTimer' \in BOOLEAN /\ patTimer' \in BOOLEAN
  BY DEF Start, ArmLockTimer
<1>7. locked' \in BOOLEAN /\ lockSource' \in Frequencies
  BY FrequenciesNat DEF Start, EndStep
<1>8. /\ tables' = {} /\ pmtHandlers' = {}
      /\ sdtHandler' = FALSE /\ attached' = FALSE
      /\ lastSsrc' = 0 /\ currentSsrc' = 0
      /\ status' = "Started" /\ frequency' = 1
  BY DEF Start, ClearHandlers
<1>9. /\ status' \in {"Idle", "Started", "Paused", "Completed"}
      /\ lastSsrc' \in 0..3 /\ currentSsrc' \in 0..3
  BY <1>8
<1>10. /\ nbSteps' \in NbSteps /\ isAuto' \in BOOLEAN
      /\ savedPrograms' \subseteq ProgramEntries
      /\ pendingSteps' \in 0..MaxEvents
  BY DEF Start, TypeOK, setup
<1> QED
  BY <1>1, <1>2, <1>3, <1>4, <1>5, <1>6, <1>7, <1>8, <1>9, <1>10 DEF TypeOK

LEMMA HaltTypeOK ==
  ASSUME TypeOK, NEW st \in {"Idle", "Paused"}, Halt(st),
         savedPrograms' \subseteq ProgramEntries
  PROVE  TypeOK'
BY DEF Halt, KillRunningTimer, DeleteSession, TypeOK, setup, lock, handlers

LEMMA ReportTypeOK ==
  ASSUME TypeOK, NEW s \in streams, NEW isLocked \in BOOLEAN,
         RtcpReport(s, isLocked)
  PROVE  TypeOK'
<1>1. CASE Lock(s)
  <2>1. s.freq \in Frequencies
    BY DEF TypeOK, Streams
  <2>2. patHandler' \in [exists : BOOLEAN, version : VersionNumbers,
                        programs : SUBSET Programs]
    BY <1>1 DEF Lock, NewPat, VersionNumbers, TypeOK
  <2> QED
    BY <1>1, <2>1, <2>2 DEF RtcpReport, Lock, TypeOK, scan, setup, found, device,
                            server
<1>2. CASE Unlock
  BY <1>2, FrequenciesNat
  DEF RtcpReport, Unlock, EndStep, ArmLockTimer, TypeOK, scan, setup, found,
      device, server
<1> QED
  BY <1>1, <1>2 DEF RtcpReport

LEMMA NextTypeOK ==
  ASSUME TypeOK, [Next]_vars
  PROVE  TypeOK'
<1> USE ScanAssumption
<1>k. pendingSteps \in 0..MaxEvents
  BY DEF TypeOK
<1>1. CASE Start
  BY <1>1, StartTypeOK
<1>2. CASE Pause
  BY <1>2, HaltTypeOK DEF Pause, TypeOK
<1>3. CASE Stop
  BY <1>3, HaltTypeOK DEF Stop, TypeOK
<1>4. CASE Resume
  BY <1>4, <1>k, StepKeepsTypeOK DEF Resume
<1>5. CASE CleanPrograms
  BY <1>5 DEF CleanPrograms, TypeOK, scan, setup, timers, lock, handlers, found,
              server
<1>6. ASSUME NEW forward \in BOOLEAN, StepButton(forward) PROVE TypeOK'
  BY <1>6, <1>k, StepKeepsTypeOK DEF StepButton
<1>7. ASSUME NEW b \in BOOLEAN, SetAuto(b) PROVE TypeOK'
  BY <1>7 DEF SetAuto, TypeOK, scan, timers, lock, handlers, found, device, server
<1>8. ASSUME NEW n \in NbSteps, SetEndFrequency(n) PROVE TypeOK'
  BY <1>8 DEF SetEndFrequency, TypeOK, scan, timers, lock, handlers, found,
              device, server
<1>9. CASE LockTimeout
  BY <1>9, TimerEventTypeOK DEF LockTimeout
<1>10. CASE PatTimeout
  BY <1>10, TimerEventTypeOK DEF PatTimeout
<1>11. CASE StepEvent
  <2>1. pendingSteps' \in 0..MaxEvents /\ UNCHANGED setup
    BY <1>11, <1>k DEF StepEvent
  <2>2. CASE Step(TRUE)
    BY <2>1, <2>2, StepKeepsTypeOK
  <2>3. CASE ~isAuto
    BY <1>11, <2>1, <2>3
    DEF StepEvent, TypeOK, scan, setup, timers, lock, handlers, found, device,
        server
  <2> QED
    BY <1>11, <2>2, <2>3 DEF StepEvent
<1>12. ASSUME NEW s \in streams, NEW l \in BOOLEAN, RtcpReport(s, l) PROVE TypeOK'
  BY <1>12, ReportTypeOK
<1>13. ASSUME NEW s \in streams, Section(s) PROVE TypeOK'
  BY <1>13, SectionTypeOK
<1>14. ASSUME NEW s \in streams, OtherPacket(s) PROVE TypeOK'
  <2>1. currentSsrc' \in 0..3
    BY <1>14 DEF OtherPacket, Accept, TypeOK, Streams, Ssrcs
  <2> QED
    BY <1>14, <2>1 DEF OtherPacket, TypeOK, scan, setup, timers, lock, handlers,
                       found, device, server
<1>15. CASE DrainOldTraffic
  BY <1>15 DEF DrainOldTraffic, TypeOK, scan, setup, timers, lock, handlers,
               found, device
<1>16. CASE UNCHANGED vars
  BY <1>16 DEF vars, TypeOK, scan, setup, timers, lock, handlers, found, device,
               server
<1> QED
  BY <1>1, <1>2, <1>3, <1>4, <1>5, <1>6, <1>7, <1>8, <1>9, <1>10, <1>11, <1>12,
     <1>13, <1>14, <1>15, <1>16
  DEF Next, UserAction

LEMMA InitTypeOK == Init => TypeOK
<1> SUFFICES ASSUME Init PROVE TypeOK
  OBVIOUS
<1>1. NoPat \in [exists : BOOLEAN, version : VersionNumbers,
                programs : SUBSET Programs]
  BY DEF NoPat, VersionNumbers
<1>2. pendingSteps \in 0..MaxEvents
  BY ScanAssumption DEF Init
<1>3. progress \in Int /\ frequency \in Frequencies /\ lockSource \in Frequencies
  BY FrequenciesNat DEF Init
<1>4. patHandler = NoPat /\ streams = {} /\ pmtHandlers = {} /\ tmpPrograms = {}
      /\ devicePrograms = {} /\ savedPrograms = {} /\ tables = {}
  BY DEF Init
<1>5. /\ session \in BOOLEAN /\ lockTimer \in BOOLEAN /\ patTimer \in BOOLEAN
      /\ locked \in BOOLEAN /\ sdtHandler \in BOOLEAN /\ attached \in BOOLEAN
      /\ isAuto \in BOOLEAN /\ nbSteps \in NbSteps
  BY DEF Init
<1>6. ssrc = 0 /\ lastSsrc = 0 /\ currentSsrc = 0 /\ status = "Idle"
  BY DEF Init
<1> QED
  BY <1>1, <1>2, <1>3, <1>4, <1>5, <1>6 DEF TypeOK

\* Every variable keeps a value of its type: the scan never leaves its range of
\* frequencies, and never holds a handler, a program or a stream it could not have
\* been given.
THEOREM Typing == Spec => []TypeOK
<1>1. Init => TypeOK
  BY InitTypeOK
<1>2. TypeOK /\ [Next]_vars => TypeOK'
  BY NextTypeOK
<1> QED
  BY <1>1, <1>2, PTL DEF Spec

----------------------------------------------------------------------------
\* A step clears the tables, the handlers and the programs; it either ends the
\* scan with session and timers gone or arms the lock timer of a live session.
LEMMA StepControl ==
  ASSUME Control, NEW forward \in BOOLEAN, Step(forward)
  PROVE  Control'
<1>1. /\ tables' = {} /\ patHandler' = NoPat /\ sdtHandler' = FALSE
      /\ pmtHandlers' = {} /\ tmpPrograms' = {}
  BY DEF Step, BeginStep, ClearHandlers, CommitData
<1>2. ~patHandler'.exists
  BY <1>1 DEF NoPat
<1>3. HandlersFollowLock' /\ TablesBacked'
  BY <1>1, <1>2 DEF HandlersFollowLock, TablesBacked
<1>4. CASE Complete
  <2>1. /\ ~session' /\ streams' = {} /\ ~lockTimer' /\ ~patTimer'
        /\ status' = "Completed" /\ progress' = 100
    BY <1>4 DEF Complete, DeleteSession, KillRunningTimer
  <2> QED
    BY <1>3, <2>1 DEF Control, TimerDiscipline, QuietWhenHalted
<1>5. CASE Advance(forward)
  <2>1. session' /\ lockTimer' /\ ~patTimer' /\ ~locked'
    BY <1>5 DEF Advance, Tune, ArmLockTimer, EndStep
  <2>2. status' \notin {"Paused", "Completed"}
    BY <1>5 DEF Advance, Control
  <2> QED
    BY <1>3, <2>1, <2>2 DEF Control, TimerDiscipline, QuietWhenHalted
<1> QED
  BY <1>4, <1>5 DEF Step

LEMMA TimerEventControl ==
  ASSUME Control, TimerEvent
  PROVE  Control'
<1>1. CASE Step(TRUE)
  BY <1>1, StepControl
<1>2. CASE /\ ~isAuto /\ KillRunningTimer
           /\ UNCHANGED <<scan, lock, lastSsrc, currentSsrc, handlers, attached,
                          found, device, server>>
  BY <1>2 DEF KillRunningTimer, Control, TimerDiscipline, HandlersFollowLock,
              TablesBacked, QuietWhenHalted, scan, lock, handlers, found, server
<1> QED
  BY <1>1, <1>2 DEF TimerEvent

\* pause() and stop() leave the handlers and the tables behind, but no program
\* and nothing that could still deliver to them.
LEMMA HaltControl ==
  ASSUME Control, NEW st \in {"Idle", "Paused"}, Halt(st)
  PROVE  Control'
<1>1. /\ ~session' /\ streams' = {} /\ ~lockTimer' /\ ~patTimer'
      /\ status' = st /\ tmpPrograms' = {}
  BY DEF Halt, KillRunningTimer, DeleteSession
<1>2. UNCHANGED <<locked, patHandler, sdtHandler, pmtHandlers, attached, tables>>
  BY DEF Halt, lock, handlers
<1>3. HandlersFollowLock' /\ TablesBacked'
  BY <1>1, <1>2 DEF Control, HandlersFollowLock, TablesBacked
<1> QED
  BY <1>1, <1>3 DEF Control, TimerDiscipline, QuietWhenHalted

LEMMA StartControl ==
  ASSUME Control, Start
  PROVE  Control'
<1>1. /\ tables' = {} /\ patHandler' = NoPat /\ sdtHandler' = FALSE
      /\ pmtHandlers' = {} /\ tmpPrograms' = {} /\ status' = "Started"
  BY DEF Start, ClearHandlers, CommitData
<1>2. ~patHandler'.exists
  BY <1>1 DEF NoPat
<1>3. session' /\ lockTimer' /\ ~patTimer' /\ ~locked'
  BY DEF Start, Tune, ArmLockTimer, EndStep
<1> QED
  BY <1>1, <1>2, <1>3
  DEF Control, TimerDiscipline, HandlersFollowLock, TablesBacked, QuietWhenHalted

\* Reports come from a session, so the scan is neither paused nor completed.
LEMMA ReportControl ==
  ASSUME Control, NEW s \in streams, NEW isLocked \in BOOLEAN,
         RtcpReport(s, isLocked)
  PROVE  Control'
<1>1. session /\ status \notin {"Paused", "Completed"}
  BY DEF Control, QuietWhenHalted
<1>2. UNCHANGED <<scan, sdtHandler, pmtHandlers, found, server>>
  BY DEF RtcpReport
<1>3. CASE Lock(s)
  <2>1. /\ locked' /\ ~lockTimer' /\ attached' /\ patHandler'.exists
    BY <1>3 DEF Lock, NewPat
  <2> QED
    BY <1>1, <1>2, <2>1
    DEF Control, TimerDiscipline, HandlersFollowLock, TablesBacked,
        QuietWhenHalted, scan, found, server
<1>4. CASE Unlock
  BY <1>1, <1>2, <1>4
  DEF Unlock, EndStep, ArmLockTimer, Control, TimerDiscipline,
      HandlersFollowLock, TablesBacked, QuietWhenHalted, scan, found, server
<1> QED
  BY <1>3, <1>4 DEF RtcpReport

\* What checkDone() leaves in tables: the flags it was given and, at most, the
\* PMT flag, for which some PMT handler has fired.
LEMMA CheckDoneTables ==
  ASSUME NEW seen, NEW pmts, CheckDone(seen, pmts)
  PROVE  /\ seen \subseteq tables' /\ tables' \subseteq seen \cup {"PMT"}
         /\ "PMT" \in tables' => "PMT" \in seen \/ \E h \in pmts : h.triggered
<1> DEFINE pmtDone == pmts # {} /\ \A h \in pmts : h.triggered
<1>1. tables' = seen \cup (IF pmtDone THEN {"PMT"} ELSE {})
  BY DEF CheckDone
<1>2. pmtDone => \E h \in pmts : h.triggered
  OBVIOUS
<1> QED
  BY <1>1, <1>2

\* A section reaches a handler only while the tuner is locked, and each handler
\* exists only after the PAT that announced its table.
LEMMA SectionControl ==
  ASSUME Control, NEW s \in streams, Section(s)
  PROVE  Control'
<1>1. session /\ status \notin {"Paused", "Completed"}
  BY DEF Control, QuietWhenHalted
<1>2. ASSUME NEW sec \in Pats, PatSection(s, sec) PROVE Control'
  <2>1. /\ patHandler.exists /\ attached /\ locked
        /\ patHandler'.exists
        /\ UNCHANGED <<status, progress, locked, attached, session, streams>>
    BY <1>2 DEF PatSection, Control, HandlersFollowLock, scan, lock, server
  <2>2. CASE PatFound(s, sec.programs)
    <3> DEFINE pmts == pmtHandlers \cup NewPmtHandlers(sec.programs)
    <3>1. /\ ~lockTimer' /\ ~patTimer' /\ sdtHandler' /\ pmtHandlers' = pmts
          /\ CheckDone(tables \cup {"PAT"}, pmts)
      BY <2>2 DEF PatFound, KillRunningTimer
    <3>2. /\ "PAT" \in tables'
          /\ "PMT" \in tables' => \E h \in pmtHandlers' : h.triggered
      <4> HIDE DEF pmts
      <4>1. /\ tables \cup {"PAT"} \subseteq tables'
            /\ "PMT" \in tables' =>
                 "PMT" \in tables \cup {"PAT"} \/ \E h \in pmts : h.triggered
        BY <3>1, CheckDoneTables
      <4>2. pmtHandlers \subseteq pmts
        BY DEF pmts
      <4> QED
        BY <3>1, <4>1, <4>2 DEF Control, TablesBacked
    <3> QED
      BY <1>1, <2>1, <3>1, <3>2
      DEF Control, TimerDiscipline, HandlersFollowLock, TablesBacked,
          QuietWhenHalted
  <2>3. CASE UNCHANGED <<timers, sdtHandler, pmtHandlers, found, pendingSteps>>
    BY <1>1, <2>1, <2>3
    DEF Control, TimerDiscipline, HandlersFollowLock, TablesBacked,
        QuietWhenHalted, timers, found
  <2> QED
    BY <1>2, <2>2, <2>3 DEF PatSection
<1>3. ASSUME NEW h \in pmtHandlers, NEW q \in Programs, PmtSection(s, h, q)
      PROVE  Control'
  <2> DEFINE pmts == (pmtHandlers \ {h}) \cup {Triggered(h)}
  <2>1. /\ UNCHANGED <<status, progress, lockTimer, patTimer, locked, attached,
                       patHandler, sdtHandler, session, streams>>
        /\ pmtHandlers' = pmts
        /\ CheckDone(tables, pmts)
    BY <1>3 DEF PmtSection, scan, timers, lock, server
  <2>2. "PAT" \in tables
    BY DEF Control, TablesBacked
  <2>3. tables \subseteq tables'
    BY <2>1, CheckDoneTables
  <2>4. Triggered(h) \in pmtHandlers' /\ Triggered(h).triggered
    BY <2>1 DEF Triggered
  <2>5. TablesBacked'
    BY <1>1, <2>1, <2>2, <2>3, <2>4 DEF Control, TablesBacked
  <2> QED
    BY <1>1, <2>1, <2>5
    DEF Control, TimerDiscipline, HandlersFollowLock, QuietWhenHalted
<1>4. ASSUME SdtSection(s) PROVE Control'
  <2>1. /\ UNCHANGED <<status, progress, lockTimer, patTimer, locked, attached,
                       patHandler, sdtHandler, pmtHandlers, session, streams>>
        /\ sdtHandler
        /\ CheckDone(tables \cup {"SDT"}, pmtHandlers)
    BY <1>4 DEF SdtSection, scan, timers, lock, handlers, server
  <2>2. "PAT" \in tables
    BY <2>1 DEF Control, TablesBacked
  <2>3. /\ tables \cup {"SDT"} \subseteq tables'
        /\ "PMT" \in tables' =>
             "PMT" \in tables \cup {"SDT"} \/ \E h \in pmtHandlers : h.triggered
    BY <2>1, CheckDoneTables
  <2>4. TablesBacked'
    BY <1>1, <2>1, <2>2, <2>3 DEF Control, TablesBacked
  <2> QED
    BY <1>1, <2>1, <2>4
    DEF Control, TimerDiscipline, HandlersFollowLock, QuietWhenHalted
<1> QED
  BY <1>2, <1>3, <1>4 DEF Section

LEMMA NextControl ==
  ASSUME Control, [Next]_vars
  PROVE  Control'
<1> USE DEF Control
<1>1. CASE Start
  BY <1>1, StartControl
<1>2. CASE Pause \/ Stop
  BY <1>2, HaltControl DEF Pause, Stop
<1>3. CASE Resume
  BY <1>3, StepControl DEF Resume
<1>4. ASSUME NEW forward \in BOOLEAN, StepButton(forward) PROVE Control'
  BY <1>4, StepControl DEF StepButton
<1>5. CASE LockTimeout \/ PatTimeout
  BY <1>5, TimerEventControl DEF LockTimeout, PatTimeout
<1>6. CASE StepEvent
  <2>1. CASE Step(TRUE)
    BY <2>1, StepControl
  <2>2. CASE UNCHANGED <<scan, timers, lock, lastSsrc, currentSsrc, handlers,
                         attached, found, device, server>>
    BY <2>2 DEF TimerDiscipline, HandlersFollowLock, TablesBacked,
                QuietWhenHalted, scan, timers, lock, handlers, found, server
  <2> QED
    BY <1>6, <2>1, <2>2 DEF StepEvent
<1>7. ASSUME NEW s \in streams, NEW l \in BOOLEAN, RtcpReport(s, l) PROVE Control'
  BY <1>7, ReportControl
<1>8. ASSUME NEW s \in streams, Section(s) PROVE Control'
  BY <1>8, SectionControl
<1>9. CASE /\ UNCHANGED <<scan, timers, lock, handlers, attached, found, session>>
           /\ streams' \subseteq streams
  BY <1>9 DEF TimerDiscipline, HandlersFollowLock, TablesBacked, QuietWhenHalted,
              scan, timers, lock, handlers, found
<1>10. CASE CleanPrograms
  BY <1>9, <1>10 DEF CleanPrograms, server
<1>11. ASSUME NEW b \in BOOLEAN, SetAuto(b) PROVE Control'
  BY <1>9, <1>11 DEF SetAuto, server
<1>12. ASSUME NEW n \in NbSteps, SetEndFrequency(n) PROVE Control'
  BY <1>9, <1>12 DEF SetEndFrequency, server
<1>13. ASSUME NEW s \in streams, OtherPacket(s) PROVE Control'
  BY <1>9, <1>13 DEF OtherPacket, server
<1>14. CASE DrainOldTraffic
  BY <1>9, <1>14 DEF DrainOldTraffic
<1>15. CASE UNCHANGED vars
  BY <1>9, <1>15 DEF vars, server
<1> QED
  BY <1>1, <1>2, <1>3, <1>4, <1>5, <1>6, <1>7, <1>8, <1>10, <1>11, <1>12, <1>13,
     <1>14, <1>15
  DEF Next, UserAction

\* The event discipline of the scan, at any moment and under any order of buttons,
\* timers, reports and sections: at most one timer, matching the tuner's state and
\* backed by a session; handlers fed exactly while locked; flags never ahead of
\* their handlers; silence once the scan is paused or completed.
THEOREM ControlInvariant == Spec => []Control
<1>1. Init => Control
  BY DEF Init, Control, TimerDiscipline, HandlersFollowLock, TablesBacked,
         QuietWhenHalted, NoPat
<1>2. Control /\ [Next]_vars => Control'
  BY NextControl
<1> QED
  BY <1>1, <1>2, PTL DEF Spec

\* At most one timer is armed, and it is the one the tuner's state calls for.
THEOREM TimersDisciplined == Spec => []TimerDiscipline
<1>1. Control => TimerDiscipline
  BY DEF Control
<1> QED
  BY <1>1, ControlInvariant, PTL

\* A paused or completed scan has neither a session nor a timer.
THEOREM HaltedIsQuiet == Spec => []QuietWhenHalted
<1>1. Control => QuietWhenHalted
  BY DEF Control
<1> QED
  BY <1>1, ControlInvariant, PTL

\* Table flags and collected programs are backed by handlers and by a session.
THEOREM TablesAreBacked == Spec => []TablesBacked
<1>1. Control => TablesBacked
  BY DEF Control
<1> QED
  BY <1>1, ControlInvariant, PTL

----------------------------------------------------------------------------
\* Programs are filed under the frequency their tables came from. The strengthening:
\* whatever is in flight or half collected belongs to the current frequency.

Filed ==
  /\ \A s \in streams : s.freq = frequency
  /\ \A p \in tmpPrograms : p.freq = frequency /\ p.from = {frequency}
  /\ FiledUnderSource

LEMMA TuneFiled ==
  ASSUME OldTraffic = FALSE, NEW f, Tune(f), NEW s \in streams'
  PROVE  s.freq = f
<1> DEFINE new == [freq |-> f, ssrc |-> (ssrc % 3) + 1]
<1>1. streams' \subseteq {new}
  BY DEF Tune
<1> QED
  BY <1>1

LEMMA CommitFiled ==
  ASSUME Filed, CommitData
  PROVE  tmpPrograms' = {} /\ \A p \in devicePrograms' : p.from = {p.freq}
<1>1. Committed \subseteq tmpPrograms
  BY DEF Committed
<1> QED
  BY <1>1 DEF CommitData, Filed, FiledUnderSource

LEMMA StepFiled ==
  ASSUME OldTraffic = FALSE, Filed, NEW forward \in BOOLEAN, Step(forward)
  PROVE  Filed'
<1>1. tmpPrograms' = {} /\ \A p \in devicePrograms' : p.from = {p.freq}
  BY CommitFiled DEF Step, BeginStep
<1>2. \A s \in streams' : s.freq = frequency'
  <2>1. CASE Complete
    BY <2>1 DEF Complete, DeleteSession
  <2>2. CASE Advance(forward)
    BY <2>2, TuneFiled DEF Advance
  <2> QED
    BY <2>1, <2>2 DEF Step
<1> QED
  BY <1>1, <1>2 DEF Filed, FiledUnderSource

LEMMA SectionFiled ==
  ASSUME Filed, NEW s \in streams, Section(s)
  PROVE  Filed'
<1>1. s.freq = frequency
  BY DEF Filed
<1>2. /\ UNCHANGED <<frequency, streams, devicePrograms>>
      /\ \A p \in tmpPrograms' : p.freq = frequency /\ p.from = {frequency}
  <2>1. ASSUME NEW sec \in Pats, PatSection(s, sec), PatFound(s, sec.programs)
        PROVE  \A p \in tmpPrograms' : p.freq = frequency /\ p.from = {frequency}
    <3> DEFINE new == [number : sec.programs, freq : {frequency}, from : {{s.freq}},
                       video : {FALSE}, mapped : {TRUE}]
               old == {IF p.number \in sec.programs THEN Unmapped(p) ELSE p :
                         p \in tmpPrograms}
    <3>1. tmpPrograms' = new \cup old
      BY <2>1 DEF PatFound
    <3>2. \A p \in new : p.freq = frequency /\ p.from = {frequency}
      BY <1>1
    <3>3. \A p \in old : p.freq = frequency /\ p.from = {frequency}
      BY DEF Filed, Unmapped
    <3> QED
      BY <3>1, <3>2, <3>3
  <2>2. ASSUME NEW sec \in Pats, PatSection(s, sec)
        PROVE  \A p \in tmpPrograms' : p.freq = frequency /\ p.from = {frequency}
    BY <2>1, <2>2 DEF PatSection, found, Filed
  <2>3. ASSUME NEW h \in pmtHandlers, NEW q \in Programs, PmtSection(s, h, q)
        PROVE  \A p \in tmpPrograms' : p.freq = frequency /\ p.from = {frequency}
    BY <2>3, <1>1 DEF PmtSection, Filed, WithStreams
  <2>4. ASSUME SdtSection(s)
        PROVE  \A p \in tmpPrograms' : p.freq = frequency /\ p.from = {frequency}
    BY <2>4, <1>1 DEF SdtSection, Filed, Described
  <2>5. UNCHANGED <<frequency, streams, devicePrograms>>
    BY DEF Section, PatSection, PmtSection, SdtSection, scan, device, server
  <2> QED
    BY <2>2, <2>3, <2>4, <2>5 DEF Section
<1> QED
  BY <1>2 DEF Filed, FiledUnderSource

LEMMA NextFiled ==
  ASSUME OldTraffic = FALSE, Filed, [Next]_vars
  PROVE  Filed'
<1>1. CASE Start
  <2>1. tmpPrograms' = {} /\ \A p \in devicePrograms' : p.from = {p.freq}
    BY <1>1, CommitFiled DEF Start
  <2>2. \A s \in streams' : s.freq = frequency'
    BY <1>1, TuneFiled DEF Start
  <2> QED
    BY <2>1, <2>2 DEF Filed, FiledUnderSource
<1>2. CASE Pause \/ Stop
  BY <1>2 DEF Pause, Stop, Halt, DeleteSession, Filed, FiledUnderSource
<1>3. CASE \E forward \in BOOLEAN : Step(forward)
  BY <1>3, StepFiled
<1>4. ASSUME NEW s \in streams, Section(s) PROVE Filed'
  BY <1>4, SectionFiled
<1>5. CASE /\ UNCHANGED <<frequency, tmpPrograms>>
           /\ streams' \subseteq streams /\ devicePrograms' \subseteq devicePrograms
  BY <1>5 DEF Filed, FiledUnderSource
<1>6. CASE Resume \/ (\E forward \in BOOLEAN : StepButton(forward))
  BY <1>3, <1>6 DEF Resume, StepButton
<1>7. CASE LockTimeout \/ PatTimeout
  BY <1>3, <1>5, <1>7
  DEF LockTimeout, PatTimeout, TimerEvent, scan, found, device, server
<1>8. CASE StepEvent
  BY <1>3, <1>5, <1>8 DEF StepEvent, scan, found, device, server
<1>9. CASE CleanPrograms
  BY <1>5, <1>9 DEF CleanPrograms, scan, found, server
<1>10. CASE (\E b \in BOOLEAN : SetAuto(b)) \/ (\E n \in NbSteps : SetEndFrequency(n))
  BY <1>5, <1>10 DEF SetAuto, SetEndFrequency, scan, found, device, server
<1>11. ASSUME NEW s \in streams, NEW l \in BOOLEAN, RtcpReport(s, l) PROVE Filed'
  BY <1>5, <1>11 DEF RtcpReport, scan, found, device, server
<1>12. ASSUME NEW s \in streams, OtherPacket(s) PROVE Filed'
  BY <1>5, <1>12 DEF OtherPacket, scan, found, device, server
<1>13. CASE DrainOldTraffic
  BY <1>5, <1>13 DEF DrainOldTraffic, scan, found, device
<1>14. CASE UNCHANGED vars
  BY <1>5, <1>14 DEF vars, scan, found, device, server
<1> QED
  BY <1>1, <1>2, <1>4, <1>6, <1>7, <1>8, <1>9, <1>10, <1>11, <1>12, <1>13, <1>14
  DEF Next, UserAction

\* On a network that drops the packets of a stream once the server retunes it, no
\* program is ever listed under a frequency other than the one all its tables were
\* received on, through any order of steps, pauses, relocks and table changes.
THEOREM ProgramsFiled ==
  ASSUME OldTraffic = FALSE
  PROVE  Spec => []FiledUnderSource
<1>1. Init => Filed
  BY DEF Init, Filed, FiledUnderSource
<1>2. Filed /\ [Next]_vars => Filed'
  BY NextFiled
<1>3. Filed => FiledUnderSource
  BY DEF Filed
<1> QED
  BY <1>1, <1>2, <1>3, PTL DEF Spec

----------------------------------------------------------------------------
\* A scan whose automatic mode is not switched off cannot be stuck with all its
\* tables and no event to leave on: the last table posts one, and whatever consumes
\* it steps and so clears the tables.

Leaving == isAuto /\ WayForward

LEMMA CheckDonePosts ==
  ASSUME TypeOK, isAuto, NEW seen, NEW pmts, CheckDone(seen, pmts),
         tables' = AllTables
  PROVE  pendingSteps' > 0
<1>1. pendingSteps \in Nat
  BY ScanAssumption DEF TypeOK
<1> QED
  BY <1>1 DEF CheckDone

LEMMA StepLeaves ==
  ASSUME isAuto, UNCHANGED setup, NEW forward \in BOOLEAN, Step(forward)
  PROVE  Leaving'
BY DEF Step, BeginStep, Leaving, WayForward, AllTables, setup

LEMMA SectionLeaving ==
  ASSUME TypeOK, Leaving, NEW s \in streams, Section(s)
  PROVE  Leaving'
<1>1. UNCHANGED <<status, isAuto>>
  BY DEF Section, PatSection, PmtSection, SdtSection, scan, setup
<1>2. CASE \E seen, pmts : CheckDone(seen, pmts)
  BY <1>1, <1>2, CheckDonePosts DEF Leaving, WayForward
<1>3. CASE UNCHANGED <<tables, pendingSteps>>
  BY <1>1, <1>3 DEF Leaving, WayForward
<1> QED
  BY <1>2, <1>3 DEF Section, PatSection, PatFound, PmtSection, SdtSection, found

LEMMA NextLeaving ==
  ASSUME "auto" \notin UserActions, TypeOK, Leaving, [Next]_vars
  PROVE  Leaving'
<1> USE DEF Leaving
<1>1. CASE Start
  BY <1>1 DEF Start, WayForward, AllTables, setup
<1>2. CASE Pause \/ Stop
  BY <1>2 DEF Pause, Stop, Halt, WayForward, setup
<1>3. CASE Resume \/ (\E forward \in BOOLEAN : StepButton(forward))
  BY <1>3, StepLeaves DEF Resume, StepButton
<1>4. CASE LockTimeout \/ PatTimeout
  BY <1>4, StepLeaves DEF LockTimeout, PatTimeout, TimerEvent
<1>5. CASE StepEvent
  BY <1>5, StepLeaves DEF StepEvent
<1>6. ASSUME NEW s \in streams, Section(s) PROVE Leaving'
  BY <1>6, SectionLeaving
<1>7. CASE UNCHANGED <<status, isAuto, tables, pendingSteps>>
  BY <1>7 DEF WayForward
<1>8. CASE CleanPrograms
  BY <1>7, <1>8 DEF CleanPrograms, scan, setup, found
<1>9. CASE \E b \in BOOLEAN : SetAuto(b)
  BY <1>9 DEF SetAuto
<1>10. CASE \E n \in NbSteps : SetEndFrequency(n)
  BY <1>7, <1>10 DEF SetEndFrequency, scan, found
<1>11. ASSUME NEW s \in streams, NEW l \in BOOLEAN, RtcpReport(s, l) PROVE Leaving'
  BY <1>7, <1>11 DEF RtcpReport, scan, setup, found
<1>12. ASSUME NEW s \in streams, OtherPacket(s) PROVE Leaving'
  BY <1>7, <1>12 DEF OtherPacket, scan, setup, found
<1>13. CASE DrainOldTraffic
  BY <1>7, <1>13 DEF DrainOldTraffic, scan, setup, found
<1>14. CASE UNCHANGED vars
  BY <1>7, <1>14 DEF vars, scan, setup, found
<1> QED
  BY <1>1, <1>2, <1>3, <1>4, <1>5, <1>6, <1>8, <1>9, <1>10, <1>11, <1>12, <1>13,
     <1>14
  DEF Next, UserAction

\* As long as the automatic mode stays on, a started scan that has all tables of a
\* frequency always has the StepEvent pending that takes it to the next one.
THEOREM ScanHasWayForward ==
  ASSUME "auto" \notin UserActions
  PROVE  Spec => []WayForward
<1>1. Init => Leaving
  BY DEF Init, Leaving, WayForward
<1>2. TypeOK /\ Leaving /\ [Next]_vars => Leaving'
  BY NextLeaving
<1>3. Leaving => WayForward
  BY DEF Leaving
<1> QED
  BY <1>1, <1>2, <1>3, Typing, PTL DEF Spec
----------------------------------------------------------------------------
\* What the end of the scan saves.

LEMMA StepSaves ==
  ASSUME Control, SavedWhenDone, NEW forward \in BOOLEAN, Step(forward)
  PROVE  SavedWhenDone'
<1>1. CASE Complete
  BY <1>1 DEF Complete, SavedWhenDone
<1>2. CASE Advance(forward)
  BY <1>2 DEF Advance, Control, SavedWhenDone
<1> QED
  BY <1>1, <1>2 DEF Step

LEMMA NextSaves ==
  ASSUME Control, SavedWhenDone, [Next]_vars
  PROVE  SavedWhenDone'
<1>1. CASE Start
  BY <1>1 DEF Start, SavedWhenDone
<1>2. CASE Pause \/ Stop
  BY <1>2 DEF Pause, Stop, Halt, SavedWhenDone
<1>3. CASE Resume \/ (\E forward \in BOOLEAN : StepButton(forward))
  BY <1>3, StepSaves DEF Resume, StepButton
<1>4. CASE UNCHANGED <<status, device>>
  BY <1>4 DEF device, SavedWhenDone
<1>5. CASE LockTimeout \/ PatTimeout
  BY <1>4, <1>5, StepSaves DEF LockTimeout, PatTimeout, TimerEvent, scan
<1>6. CASE StepEvent
  BY <1>4, <1>6, StepSaves DEF StepEvent, scan
<1>7. CASE CleanPrograms
  BY <1>7 DEF CleanPrograms, SavedWhenDone
<1>8. CASE (\E b \in BOOLEAN : SetAuto(b)) \/ (\E n \in NbSteps : SetEndFrequency(n))
  BY <1>4, <1>8 DEF SetAuto, SetEndFrequency, scan
<1>9. ASSUME NEW s \in streams, NEW l \in BOOLEAN, RtcpReport(s, l) PROVE SavedWhenDone'
  BY <1>4, <1>9 DEF RtcpReport, scan
<1>10. ASSUME NEW s \in streams, Section(s) PROVE SavedWhenDone'
  BY <1>4, <1>10 DEF Section, PatSection, PmtSection, SdtSection, scan
<1>11. ASSUME NEW s \in streams, OtherPacket(s) PROVE SavedWhenDone'
  BY <1>4, <1>11 DEF OtherPacket, scan
<1>12. CASE DrainOldTraffic
  BY <1>4, <1>12 DEF DrainOldTraffic, scan
<1>13. CASE UNCHANGED vars
  BY <1>4, <1>13 DEF vars, scan
<1> QED
  BY <1>1, <1>2, <1>3, <1>5, <1>6, <1>7, <1>8, <1>9, <1>10, <1>11, <1>12, <1>13
  DEF Next, UserAction

\* The list that is saved at the end of a scan is the list of the device, with the programs
\* of the last frequency in it: a late StepEvent completes a second time, and saves again.
THEOREM ListIsSaved == Spec => []SavedWhenDone
<1>1. Init => SavedWhenDone
  BY DEF Init, SavedWhenDone
<1>2. Control /\ SavedWhenDone /\ [Next]_vars => SavedWhenDone'
  BY NextSaves
<1> QED
  BY <1>1, <1>2, ControlInvariant, PTL DEF Spec

----------------------------------------------------------------------------
\* Which stream a step listens to.

LEMMA AcceptFilters ==
  ASSUME SsrcFilter, NEW s \in streams, Accept(s), UNCHANGED lastSsrc
  PROVE  SsrcFilter'
BY DEF Accept, SsrcFilter

LEMMA StepFilters ==
  ASSUME NEW forward \in BOOLEAN, Step(forward)
  PROVE  SsrcFilter'
BY DEF Step, BeginStep, SsrcFilter

LEMMA NextFilters ==
  ASSUME SsrcFilter, [Next]_vars
  PROVE  SsrcFilter'
<1>1. CASE Start
  BY <1>1 DEF Start, SsrcFilter
<1>2. CASE UNCHANGED <<lastSsrc, currentSsrc>>
  BY <1>2 DEF SsrcFilter
<1>3. CASE Pause \/ Stop
  BY <1>2, <1>3 DEF Pause, Stop, Halt
<1>4. CASE Resume \/ (\E forward \in BOOLEAN : StepButton(forward))
  BY <1>4, StepFilters DEF Resume, StepButton
<1>5. CASE LockTimeout \/ PatTimeout
  BY <1>2, <1>5, StepFilters DEF LockTimeout, PatTimeout, TimerEvent
<1>6. CASE StepEvent
  BY <1>2, <1>6, StepFilters DEF StepEvent
<1>7. CASE CleanPrograms \/ (\E b \in BOOLEAN : SetAuto(b))
           \/ (\E n \in NbSteps : SetEndFrequency(n))
  BY <1>2, <1>7 DEF CleanPrograms, SetAuto, SetEndFrequency
<1>8. ASSUME NEW s \in streams, NEW l \in BOOLEAN, RtcpReport(s, l) PROVE SsrcFilter'
  BY <1>2, <1>8 DEF RtcpReport
<1>9. ASSUME NEW s \in streams, Section(s) PROVE SsrcFilter'
  BY <1>9, AcceptFilters DEF Section, PatSection, PmtSection, SdtSection
<1>10. ASSUME NEW s \in streams, OtherPacket(s) PROVE SsrcFilter'
  BY <1>10, AcceptFilters DEF OtherPacket
<1>11. CASE DrainOldTraffic
  BY <1>2, <1>11 DEF DrainOldTraffic
<1>12. CASE UNCHANGED vars
  BY <1>2, <1>12 DEF vars
<1> QED
  BY <1>1, <1>3, <1>4, <1>5, <1>6, <1>7, <1>8, <1>9, <1>10, <1>11, <1>12
  DEF Next, UserAction

\* No step ever opens with a packet of the stream that the step before it listened to,
\* however late its packets arrive.
THEOREM StreamsAreKeptApart == Spec => []SsrcFilter
<1>1. Init => SsrcFilter
  BY DEF Init, SsrcFilter
<1>2. SsrcFilter /\ [Next]_vars => SsrcFilter'
  BY NextFilters
<1> QED
  BY <1>1, <1>2, PTL DEF Spec

----------------------------------------------------------------------------
\* Which frequency a lock is about.

LEMMA StepUnlocks ==
  ASSUME LockIsOfThisFrequency, NEW forward \in BOOLEAN, Step(forward)
  PROVE  LockIsOfThisFrequency'
<1>1. CASE Complete
  BY <1>1 DEF Complete, lock, LockIsOfThisFrequency
<1>2. CASE Advance(forward)
  BY <1>2 DEF Advance, EndStep, LockIsOfThisFrequency
<1> QED
  BY <1>1, <1>2 DEF Step

LEMMA NextLocks ==
  ASSUME Filed, LockIsOfThisFrequency, [Next]_vars
  PROVE  LockIsOfThisFrequency'
<1>1. CASE Start
  BY <1>1 DEF Start, EndStep, LockIsOfThisFrequency
<1>2. CASE UNCHANGED <<frequency, lock>>
  BY <1>2 DEF lock, LockIsOfThisFrequency
<1>3. CASE Pause \/ Stop
  BY <1>2, <1>3 DEF Pause, Stop, Halt
<1>4. CASE Resume \/ (\E forward \in BOOLEAN : StepButton(forward))
  BY <1>4, StepUnlocks DEF Resume, StepButton
<1>5. CASE LockTimeout \/ PatTimeout
  BY <1>2, <1>5, StepUnlocks DEF LockTimeout, PatTimeout, TimerEvent, scan
<1>6. CASE StepEvent
  BY <1>2, <1>6, StepUnlocks DEF StepEvent, scan, timers
<1>7. CASE CleanPrograms \/ (\E b \in BOOLEAN : SetAuto(b))
           \/ (\E n \in NbSteps : SetEndFrequency(n))
  BY <1>2, <1>7 DEF CleanPrograms, SetAuto, SetEndFrequency, scan
<1>8. ASSUME NEW s \in streams, NEW l \in BOOLEAN, RtcpReport(s, l)
      PROVE  LockIsOfThisFrequency'
  <2>1. s.freq = frequency /\ UNCHANGED frequency
    BY <1>8 DEF Filed, RtcpReport, scan
  <2> QED
    BY <1>8, <2>1 DEF RtcpReport, Lock, Unlock, EndStep, LockIsOfThisFrequency
<1>9. ASSUME NEW s \in streams, Section(s) PROVE LockIsOfThisFrequency'
  BY <1>2, <1>9 DEF Section, PatSection, PmtSection, SdtSection, scan
<1>10. ASSUME NEW s \in streams, OtherPacket(s) PROVE LockIsOfThisFrequency'
  BY <1>2, <1>10 DEF OtherPacket, scan
<1>11. CASE DrainOldTraffic
  BY <1>2, <1>11 DEF DrainOldTraffic, scan
<1>12. CASE UNCHANGED vars
  BY <1>2, <1>12 DEF vars, scan
<1> QED
  BY <1>1, <1>3, <1>4, <1>5, <1>6, <1>7, <1>8, <1>9, <1>10, <1>11, <1>12
  DEF Next, UserAction

\* On a network that drops the reports of a stream once the server retunes it, the tuner
\* counts as locked only on a report about the frequency being scanned.
THEOREM LocksAreOfTheFrequency ==
  ASSUME OldTraffic = FALSE
  PROVE  Spec => []LockIsOfThisFrequency
<1>1. Init => Filed /\ LockIsOfThisFrequency
  BY DEF Init, Filed, FiledUnderSource, LockIsOfThisFrequency
<1>2. Filed /\ LockIsOfThisFrequency /\ [Next]_vars
      => Filed' /\ LockIsOfThisFrequency'
  BY NextFiled, NextLocks
<1> QED
  BY <1>1, <1>2, PTL DEF Spec

----------------------------------------------------------------------------
\* Where the scan ends. The progress always belongs to the frequency, and it is 100 exactly on
\* the last one.

Ranged ==
  /\ InRange
  /\ frequency # 0 => progress = Percent(nbSteps, frequency - 1)

LEMMA PercentOfAll ==
  ASSUME NEW n \in Nat \ {0}, n \notin Inexact
  PROVE  Percent(n, n) = 100
<1>1. (100 * n) \div n = 100
  OBVIOUS
<1> QED
  BY <1>1 DEF Percent

LEMMA StepInRange ==
  ASSUME NbSteps \cap (Inexact \cup {0}) = {}, TypeOK, Ranged, UNCHANGED nbSteps,
         NEW forward \in BOOLEAN, Step(forward)
  PROVE  Ranged'
<1>1. nbSteps \in Nat \ {0} /\ nbSteps \notin Inexact /\ frequency \in Nat
  BY ScanAssumption, FrequenciesNat DEF TypeOK
<1>2. CASE Complete
  BY <1>2 DEF Complete, Ranged, InRange
<1>3. CASE Advance(forward)
  <2>1. progress # 100
    BY <1>3 DEF Advance
  <2>2. CASE status = "Paused"
    BY <1>3, <2>2 DEF Advance, Ranged, InRange
  <2>3. CASE status # "Paused"
    <3>1. frequency' = NextFrequency(forward) /\ progress' = Percent(nbSteps, frequency' - 1)
      BY <1>3, <2>3 DEF Advance
    <3>2. frequency # nbSteps + 1
      <4>1. Percent(nbSteps, nbSteps) = 100
        BY <1>1, PercentOfAll
      <4>2. frequency = nbSteps + 1 => frequency # 0 /\ frequency - 1 = nbSteps
        BY <1>1
      <4> QED
        BY <2>1, <4>1, <4>2 DEF Ranged
    <3>3. NextFrequency(forward) <= nbSteps + 1
      BY <1>1, <3>2 DEF NextFrequency, Ranged, InRange
    <3> QED
      BY <3>1, <3>3 DEF Ranged, InRange
  <2> QED
    BY <2>2, <2>3
<1> QED
  BY <1>2, <1>3 DEF Step

LEMMA NextInRange ==
  ASSUME NbSteps \cap (Inexact \cup {0}) = {}, "setup" \notin UserActions, TypeOK, Ranged,
         [Next]_vars
  PROVE  Ranged'
<1>0. nbSteps \in Nat \ {0}
  BY ScanAssumption DEF TypeOK
<1>1. CASE Start
  <2>1. frequency' = 1 /\ progress' = Percent(nbSteps, 0) /\ nbSteps' = nbSteps
    BY <1>1 DEF Start, setup
  <2> QED
    BY <1>0, <2>1 DEF Ranged, InRange
<1>2. CASE UNCHANGED <<progress, frequency, nbSteps>>
  BY <1>2 DEF Ranged, InRange
<1>3. CASE Pause \/ Stop
  BY <1>2, <1>3 DEF Pause, Stop, Halt, setup
<1>4. CASE Resume \/ (\E forward \in BOOLEAN : StepButton(forward))
  BY <1>4, StepInRange DEF Resume, StepButton, setup
<1>5. CASE LockTimeout \/ PatTimeout
  BY <1>2, <1>5, StepInRange DEF LockTimeout, PatTimeout, TimerEvent, scan, setup
<1>6. CASE StepEvent
  BY <1>2, <1>6, StepInRange DEF StepEvent, scan, setup
<1>7. CASE CleanPrograms \/ \E b \in BOOLEAN : SetAuto(b)
  BY <1>2, <1>7 DEF CleanPrograms, SetAuto, scan, setup
<1>8. ASSUME NEW s \in streams, NEW l \in BOOLEAN, RtcpReport(s, l) PROVE Ranged'
  BY <1>2, <1>8 DEF RtcpReport, scan, setup
<1>9. ASSUME NEW s \in streams, Section(s) PROVE Ranged'
  BY <1>2, <1>9 DEF Section, PatSection, PmtSection, SdtSection, scan, setup
<1>10. ASSUME NEW s \in streams, OtherPacket(s) PROVE Ranged'
  BY <1>2, <1>10 DEF OtherPacket, scan, setup
<1>11. CASE DrainOldTraffic
  BY <1>2, <1>11 DEF DrainOldTraffic, scan, setup
<1>12. CASE UNCHANGED vars
  BY <1>2, <1>12 DEF vars, scan, setup
<1>13. ASSUME NEW n \in NbSteps, SetEndFrequency(n) PROVE FALSE
  BY <1>13 DEF SetEndFrequency
<1> QED
  BY <1>1, <1>3, <1>4, <1>5, <1>6, <1>7, <1>8, <1>9, <1>10, <1>11, <1>12, <1>13
  DEF Next, UserAction

\* The scan never leaves its range, for every range whose percentages the code computes exactly
\* and that is not changed while it runs, whatever buttons, timers and events drive it. For one
\* of the ranges in Inexact the test for exactly 100 percent is never met.
THEOREM ScanStaysInRange ==
  ASSUME NbSteps \cap (Inexact \cup {0}) = {}, "setup" \notin UserActions
  PROVE  Spec => []InRange
<1>1. Init => Ranged
  BY ScanAssumption DEF Init, Ranged, InRange
<1>2. TypeOK /\ Ranged /\ [Next]_vars => Ranged'
  BY NextInRange
<1>3. Ranged => InRange
  BY DEF Ranged
<1> QED
  BY <1>1, <1>2, <1>3, Typing, PTL DEF Spec
=============================================================================
